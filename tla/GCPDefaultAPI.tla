----------------------------- MODULE GCPDefaultAPI -----------------------------
(***************************************************************************)
(* The scope of api.<cluster-domain> on GCP (pkg/cloudclient/gcp):         *)
(* setDefaultAPIPublic and setDefaultAPIPrivate, cut at every call that    *)
(* reads or writes GCP or the API server, and the goroutine that sets the  *)
(* ControlPlaneMachineSet (CPMS) active again.  Compute calls start        *)
(* operations, which the code does not wait for, but for the reservation   *)
(* of an address.                                                          *)
(***************************************************************************)
EXTENDS Integers

CONSTANTS
    IPs,          \* external addresses GCP may give away
    IntIP,        \* the address of the internal load balancer <cluster>-api-internal
    NoAddress,    \* nothing is reserved as <cluster>-cluster-public-ip
    Masters,      \* the master Machines
    NoCPMS,       \* there is no ControlPlaneMachineSet
    Goroutines,   \* bound: the goroutines that exist at the same time
    NoGoroutine,
    MaxRetries,   \* 5 in the code
    HasCPMS,      \* the cluster is one whose CPMS is recreated when deleted
    MaxEdits,     \* bound on changes of DefaultAPIServerIngress.Listening
    MaxFaults     \* bound on failed calls, crashes, deletions of the CPMS by others, and
                  \* uses of one that is not replaced yet, together

Listening == {"internal", "external"}

Address == [ip : IPs, state : {"RESERVED", "RELEASING"}]

\* pool: the template's TargetPools name the external load balancer; deleting: it
\* has a deletion timestamp and waits for its finalizer.
CPMS == [state : {"Active", "Inactive"}, pool : BOOLEAN, deleting : BOOLEAN]

Goroutine ==
    [at : {"sleep", "patchPools", "getAgain", "setActive"},
     cpms : CPMS \cup {NoCPMS}, retries : 0..MaxRetries]

ASSUME IPsAssumption == IntIP \notin IPs /\ NoAddress \notin Address
ASSUME MachinesAssumption == Masters # {} /\ NoCPMS \notin CPMS
ASSUME GoroutinesAssumption == NoGoroutine \notin Goroutine /\ MaxRetries \in Nat
ASSUME BoundsAssumption ==
    HasCPMS \in BOOLEAN /\ MaxEdits \in Nat /\ MaxFaults \in Nat

-----------------------------------------------------------------------------
VARIABLES
    listening,  \* the PublishingStrategy's DefaultAPIServerIngress.Listening
    rule,       \* the forwarding rule <cluster>-api, which uses the static address
    address,    \* the static address
    record,     \* what the A record of api.<cluster-domain> in the public zone holds
    machines,   \* the masters whose providerSpec names the target pool
    cpms,       \* the ControlPlaneMachineSet
    machinesSeen, cpmsSeen, \* both as the manager's cache has them, which every read uses
    queued,     \* a reconcile request waits
    pc,         \* the next call of the Reconcile, "idle" between two
    ip,         \* staticIPAddress, or intIPAddress
    active,     \* the CPMS was active when the Reconcile read it
    masterList, \* machines, as the Reconcile read them
    left,       \* masters whose Machine has not been updated yet
    goroutine,
    late,       \* how often somebody did not wait for the CPMS to be replaced
    edits, faults

cloud == <<rule, address, record>>
cache == <<machinesSeen, cpmsSeen>>
cluster == <<machines, cpms, cache>>
locals == <<ip, active, masterList, left>>
bounds == <<late, edits, faults>>
vars == <<listening, cloud, cluster, queued, pc, locals, goroutine, bounds>>

-----------------------------------------------------------------------------
Troubles == faults + late

\* A rule is listed until the operation that deletes it is done.
Listed == rule # "none"

ForgetLocals == ip' = IntIP /\ active' = FALSE /\ masterList' = {} /\ left' = {}

\* ensureAliasScope ends; an error queues the request again.
Return(requeue) ==
    /\ pc' = "idle" /\ queued' = (queued \/ requeue)
    /\ ForgetLocals

-----------------------------------------------------------------------------
(* setDefaultAPIPublic.                                                    *)

\* A slip: a reserved address counts as a load balancer.
PublicListByAddress ==
    /\ pc = "idle" /\ queued /\ listening = "external"
    /\ queued' = FALSE
    /\ pc' = IF Listed \/ address # NoAddress THEN "idle" ELSE "listAddresses"
    /\ UNCHANGED <<listening, cloud, cluster, locals, goroutine, bounds>>

PublicList ==
    /\ pc = "idle" /\ queued /\ listening = "external"
    /\ queued' = FALSE
    /\ pc' = IF Listed THEN "idle" ELSE "listAddresses"
    /\ UNCHANGED <<listening, cloud, cluster, locals, goroutine, bounds>>

\* A slip: the address is read without having been reserved.
ListAddressesUnreserved ==
    /\ pc = "listAddresses"
    /\ pc' = "getAddress"
    /\ UNCHANGED <<listening, cloud, cluster, queued, locals, goroutine, bounds>>

\* createExternalIP: an address of that name is used again, whatever its state.
ListAddresses ==
    /\ pc = "listAddresses"
    /\ \/ address # NoAddress /\ ip' = address.ip /\ pc' = "insertRule"
       \/ address = NoAddress /\ pc' = "reserve" /\ UNCHANGED ip
    /\ UNCHANGED <<listening, cloud, cluster, queued, active, masterList, left,
                   goroutine, bounds>>

ReserveIP ==
    /\ pc = "reserve"
    /\ \E free \in IPs : address' = [ip |-> free, state |-> "RESERVED"]
    /\ pc' = "getAddress"
    /\ UNCHANGED <<listening, rule, record, cluster, queued, locals, goroutine, bounds>>

GetAddress ==
    /\ pc = "getAddress"
    /\ ip' = address.ip /\ pc' = "insertRule"
    /\ UNCHANGED <<listening, cloud, cluster, queued, active, masterList, left,
                   goroutine, bounds>>

\* GCP accepts a rule for an address that is reserved, and stays so.
Usable == address # NoAddress /\ address.ip = ip /\ address.state = "RESERVED"

\* createNetworkLoadBalancer.
InsertRule ==
    /\ pc = "insertRule"
    /\ \/ Usable /\ rule' = "creating" /\ pc' = "publicRecord" /\ UNCHANGED <<queued, locals>>
       \/ ~Usable /\ Return(TRUE) /\ UNCHANGED rule
    /\ UNCHANGED <<listening, address, record, cluster, goroutine, bounds>>

\* updateAPIARecord, and the end of setDefaultAPIPublic.
PublicRecord ==
    /\ pc = "publicRecord"
    /\ record' = ip
    /\ Return(FALSE)
    /\ UNCHANGED <<listening, rule, address, cluster, goroutine, bounds>>

-----------------------------------------------------------------------------
(* setDefaultAPIPrivate.                                                   *)

\* A slip: a CPMS is taken to be active because it is there.
PrivateListBlind ==
    /\ pc = "idle" /\ queued /\ listening = "internal"
    /\ queued' = FALSE
    /\ pc' = IF Listed THEN "deleteRule" ELSE "privateRecord"
    /\ masterList' = machinesSeen
    /\ active' = (cpmsSeen # NoCPMS)
    /\ UNCHANGED <<listening, cloud, cluster, ip, left, goroutine, bounds>>

\* Reads the rules, the masters and the CPMS; a missing CPMS counts as inactive, and
\* one that is being deleted as any other.
PrivateList ==
    /\ pc = "idle" /\ queued /\ listening = "internal"
    /\ queued' = FALSE
    /\ pc' = IF Listed THEN "deleteRule" ELSE "privateRecord"
    /\ masterList' = machinesSeen
    /\ active' = (cpmsSeen # NoCPMS /\ cpmsSeen.state = "Active")
    /\ UNCHANGED <<listening, cloud, cluster, ip, left, goroutine, bounds>>

\* Two slips: the address is released before the rule that uses it, which GCP
\* refuses; an error of the Delete is only logged.
DeleteRuleReleaseFirst ==
    /\ pc = "deleteRule"
    /\ Return(TRUE)
    /\ UNCHANGED <<listening, cloud, cluster, goroutine, bounds>>
DeleteRuleLogged ==
    /\ pc = "deleteRule"
    /\ rule' = IF rule = "up" THEN "deleting" ELSE rule
    /\ left' = Masters /\ pc' = IF active THEN "deleteCPMS" ELSE "machines"
    /\ UNCHANGED <<listening, address, record, cluster, queued, ip, active, masterList,
                   goroutine, bounds>>

\* A rule on which an operation runs cannot be deleted.
DeleteRule ==
    /\ pc = "deleteRule"
    /\ \/ /\ rule = "up"
          /\ rule' = "deleting" /\ left' = Masters
          /\ pc' = IF active THEN "deleteCPMS" ELSE "machines"
          /\ UNCHANGED <<queued, ip, active, masterList>>
       \/ rule # "up" /\ Return(TRUE) /\ UNCHANGED rule
    /\ UNCHANGED <<listening, address, record, cluster, goroutine, bounds>>

\* The Delete goes by the name, and only marks the CPMS: it stays until its finalizer
\* is removed.
DeleteCPMS ==
    /\ pc = "deleteCPMS"
    /\ \/ cpms = NoCPMS /\ Return(TRUE) /\ UNCHANGED cpms
       \/ /\ cpms # NoCPMS
          /\ cpms' = [cpms EXCEPT !.deleting = TRUE] /\ pc' = "machines"
          /\ UNCHANGED <<queued, locals>>
    /\ UNCHANGED <<listening, cloud, machines, cache, goroutine, bounds>>

\* A slip: with a CPMS the masters are left to it.
CleanedInactive(m) == IF m \in masterList /\ ~active THEN machines \ {m} ELSE machines

\* updateGCPLBList writes only when the list that was read names the pool.
Cleaned(m) == IF m \in masterList THEN machines \ {m} ELSE machines

Fresh == [at |-> "sleep", cpms |-> NoCPMS, retries |-> MaxRetries]

\* A slip: nobody is left to set the CPMS active.
StartGoroutineNever == UNCHANGED goroutine

StartGoroutine ==
    \/ ~active /\ UNCHANGED goroutine
    \/ active /\ \E g \in Goroutines :
        /\ goroutine[g] = NoGoroutine
        /\ goroutine' = [goroutine EXCEPT ![g] = Fresh]

\* removeGCPLBFromMasterMachines: an update that fails is logged, and the next
\* Machine follows; with a CPMS the goroutine starts after the last one.
UpdateMachine ==
    /\ pc = "machines"
    /\ \/ \E m \in left :
          /\ left' = left \ {m}
          /\ \/ machines' = Cleaned(m) /\ UNCHANGED faults
             \/ Troubles < MaxFaults /\ faults' = faults + 1 /\ UNCHANGED machines
          /\ UNCHANGED <<pc, goroutine>>
       \/ /\ left = {}
          /\ StartGoroutine /\ pc' = "privateRecord"
          /\ UNCHANGED <<machines, left, faults>>
    /\ UNCHANGED <<listening, cloud, cpms, cache, queued, ip, active, masterList, late, edits>>

\* A slip: the change is prepared and not sent.
PrivateRecordUnsent ==
    /\ pc = "privateRecord"
    /\ \/ record = ip /\ Return(FALSE)
       \/ record # ip /\ pc' = "release" /\ UNCHANGED <<queued, locals>>
    /\ UNCHANGED <<listening, cloud, cluster, goroutine, bounds>>

\* updateAPIARecord with the internal address: a record that holds it already
\* ends setDefaultAPIPrivate.
PrivateRecord ==
    /\ pc = "privateRecord"
    /\ \/ record = ip /\ Return(FALSE) /\ UNCHANGED record
       \/ /\ record # ip
          /\ record' = ip /\ pc' = "release" /\ UNCHANGED <<queued, locals>>
    /\ UNCHANGED <<listening, rule, address, cluster, goroutine, bounds>>

\* releaseExternalIP: an address that a rule uses, or that is gone, is an error.
ReleaseIP ==
    /\ pc = "release"
    /\ \/ /\ address # NoAddress /\ address.state = "RESERVED" /\ rule = "none"
          /\ address' = [address EXCEPT !.state = "RELEASING"]
          /\ Return(FALSE)
       \/ /\ address = NoAddress \/ address.state = "RELEASING" \/ rule # "none"
          /\ Return(TRUE) /\ UNCHANGED address
    /\ UNCHANGED <<listening, rule, record, cluster, goroutine, bounds>>

Reconcile ==
    \/ PublicList \/ ListAddresses \/ ReserveIP \/ GetAddress \/ InsertRule \/ PublicRecord
    \/ PrivateList \/ DeleteRule \/ DeleteCPMS \/ UpdateMachine \/ PrivateRecord \/ ReleaseIP

-----------------------------------------------------------------------------
(* The goroutine of getLoadBalancerRemovalFunc.                            *)

\* The process ends, with the Reconcile and every goroutine; the request is queued
\* when it is back, with a new cache.
Restart ==
    /\ goroutine' = [g \in Goroutines |-> NoGoroutine]
    /\ pc' = "idle" /\ queued' = TRUE
    /\ ForgetLocals
    /\ machinesSeen' = machines /\ cpmsSeen' = cpms
    /\ UNCHANGED <<listening, cloud, machines, cpms>>

HavingRead(gr) ==
    [gr EXCEPT !.at = IF gr.at = "sleep" THEN "patchPools" ELSE "setActive", !.cpms = cpmsSeen]

\* The CPMS that is to be there is, nobody deletes it, and the cache shows it.
Replaced == cpmsSeen = cpms /\ IF cpms = NoCPMS THEN ~HasCPMS ELSE ~cpms.deleting

\* The minute's sleep, and a customer who takes his time, give the CPMS that chance; who
\* relies on it and is early is counted.
Counted(relies) ==
    IF relies /\ ~Replaced THEN Troubles < MaxFaults /\ late' = late + 1 ELSE UNCHANGED late

\* A Get that finds nothing leaves a nil pointer, which the next line follows: the
\* panic ends the process.
GetCPMS(g) ==
    /\ goroutine[g] # NoGoroutine /\ goroutine[g].at \in {"sleep", "getAgain"}
    /\ Counted(goroutine[g].at = "sleep")
    /\ \/ cpmsSeen = NoCPMS /\ Restart
       \/ /\ cpmsSeen # NoCPMS
          /\ goroutine' = [goroutine EXCEPT ![g] = HavingRead(goroutine[g])]
          /\ UNCHANGED <<listening, cloud, cluster, queued, pc, locals>>
    /\ UNCHANGED <<edits, faults>>

\* A slip: the pools that are written are the ones that were read.
RemainingPoolsAll(read) == read.pool

\* What the merge patch makes of the pools: nothing, when they were right already.
RemainingPools(read) == IF read.pool THEN FALSE ELSE cpms.pool

\* removeLoadBalancerCPMS: an error is logged, and the goroutine goes on.
PatchCPMS(g) ==
    /\ goroutine[g] # NoGoroutine /\ goroutine[g].at = "patchPools"
    /\ \/ cpms = NoCPMS /\ UNCHANGED <<cpms, faults>>
       \/ /\ cpms # NoCPMS
          /\ cpms' = [cpms EXCEPT !.pool = RemainingPools(goroutine[g].cpms)]
          /\ UNCHANGED faults
       \/ Troubles < MaxFaults /\ faults' = faults + 1 /\ UNCHANGED cpms
    /\ goroutine' = [goroutine EXCEPT ![g] = [goroutine[g] EXCEPT !.at = "getAgain", !.cpms = NoCPMS]]
    /\ UNCHANGED <<listening, cloud, machines, cache, queued, pc, locals, late, edits>>

\* A slip: the loop is not left after a success.
AfterSuccessAgain(g) == Fresh

AfterSuccess(g) == NoGoroutine

AfterFailure(g) ==
    IF goroutine[g].retries = 0 THEN NoGoroutine
    ELSE [Fresh EXCEPT !.retries = goroutine[g].retries - 1]

\* SetCPMSActive: the goroutine ends when it worked or no attempt is left.
SetCPMSActive(g) ==
    /\ goroutine[g] # NoGoroutine /\ goroutine[g].at = "setActive"
    /\ \/ /\ cpms # NoCPMS
          /\ cpms' = IF goroutine[g].cpms.state = "Active" THEN cpms
                     ELSE [cpms EXCEPT !.state = "Active"]
          /\ goroutine' = [goroutine EXCEPT ![g] = AfterSuccess(g)]
          /\ UNCHANGED faults
       \/ /\ \/ cpms = NoCPMS /\ UNCHANGED faults
             \/ cpms # NoCPMS /\ Troubles < MaxFaults /\ faults' = faults + 1
          /\ goroutine' = [goroutine EXCEPT ![g] = AfterFailure(g)]
          /\ UNCHANGED cpms
    /\ UNCHANGED <<listening, cloud, machines, cache, queued, pc, locals, late, edits>>

Background(g) == GetCPMS(g) \/ PatchCPMS(g) \/ SetCPMSActive(g)

-----------------------------------------------------------------------------
(* Everyone else.                                                          *)

\* GCP finishes an operation.
RuleCreated ==
    /\ rule = "creating" /\ rule' = "up"
    /\ UNCHANGED <<listening, address, record, cluster, queued, pc, locals, goroutine, bounds>>

RuleDeleted ==
    /\ rule = "deleting" /\ rule' = "none"
    /\ UNCHANGED <<listening, address, record, cluster, queued, pc, locals, goroutine, bounds>>

IPReleased ==
    /\ address # NoAddress /\ address.state = "RELEASING" /\ address' = NoAddress
    /\ UNCHANGED <<listening, rule, record, cluster, queued, pc, locals, goroutine, bounds>>

Operations == RuleCreated \/ RuleDeleted \/ IPReleased

\* A call of the Reconcile fails.
Error ==
    /\ pc # "idle" /\ Troubles < MaxFaults /\ faults' = faults + 1
    /\ Return(TRUE)
    /\ UNCHANGED <<listening, cloud, cluster, goroutine, late, edits>>

Crash ==
    /\ Troubles < MaxFaults /\ faults' = faults + 1
    /\ Restart
    /\ UNCHANGED <<late, edits>>

EditStrategy ==
    /\ edits < MaxEdits /\ edits' = edits + 1
    /\ listening' \in Listening \ {listening}
    /\ queued' = TRUE
    /\ Counted(listening' = "internal")
    /\ UNCHANGED <<cloud, cluster, pc, locals, goroutine, faults>>

\* The CPMS's own operator has cleaned up and removes the finalizer.
FinalizeCPMS ==
    /\ cpms # NoCPMS /\ cpms.deleting /\ cpms' = NoCPMS
    /\ UNCHANGED <<listening, cloud, machines, cache, queued, pc, locals, goroutine, bounds>>

\* The CPMS comes back inactive, from the providerSpec of a master.
RecreateCPMS ==
    /\ HasCPMS /\ cpms = NoCPMS
    /\ \E m \in Masters : cpms' = [state |-> "Inactive", pool |-> m \in machines, deleting |-> FALSE]
    /\ UNCHANGED <<listening, cloud, machines, cache, queued, pc, locals, goroutine, bounds>>

\* Somebody else deletes the CPMS.
LoseCPMS ==
    /\ Troubles < MaxFaults /\ faults' = faults + 1
    /\ cpms # NoCPMS /\ cpms' = [cpms EXCEPT !.deleting = TRUE]
    /\ UNCHANGED <<listening, cloud, machines, cache, queued, pc, locals, goroutine, late, edits>>

\* The informers catch up, each for itself.
SyncCPMS ==
    /\ cpmsSeen # cpms /\ cpmsSeen' = cpms
    /\ UNCHANGED <<listening, cloud, machines, cpms, machinesSeen, queued, pc, locals,
                   goroutine, bounds>>

SyncMachine(m) ==
    /\ (m \in machinesSeen) # (m \in machines)
    /\ machinesSeen' = IF m \in machines THEN machinesSeen \cup {m} ELSE machinesSeen \ {m}
    /\ UNCHANGED <<listening, cloud, machines, cpms, cpmsSeen, queued, pc, locals,
                   goroutine, bounds>>

\* The informers' periodic resync.
Resync ==
    /\ ~queued /\ queued' = TRUE
    /\ UNCHANGED <<listening, cloud, cluster, pc, locals, goroutine, bounds>>

Environment ==
    \/ Operations \/ Error \/ Crash \/ EditStrategy
    \/ FinalizeCPMS \/ RecreateCPMS \/ LoseCPMS
    \/ SyncCPMS \/ (\E m \in Masters : SyncMachine(m)) \/ Resync

-----------------------------------------------------------------------------
\* A cluster that is public, as the installer or the operator made it, or private.
Init ==
    /\ listening \in Listening
    /\ \/ /\ rule = "up"
          /\ address \in [ip : IPs, state : {"RESERVED"}] /\ record = address.ip
          /\ machines \in {Masters, {}}
       \/ rule = "none" /\ address = NoAddress /\ record = IntIP /\ machines = {}
    /\ IF HasCPMS THEN cpms \in [state : {"Active", "Inactive"}, pool : {machines # {}},
                                 deleting : {FALSE}]
                  ELSE cpms = NoCPMS
    /\ machinesSeen = machines /\ cpmsSeen = cpms
    /\ queued = TRUE /\ pc = "idle"
    /\ ip = IntIP /\ active = FALSE /\ masterList = {} /\ left = {}
    /\ goroutine = [g \in Goroutines |-> NoGoroutine]
    /\ late = 0 /\ edits = 0 /\ faults = 0

Next == Reconcile \/ Environment \/ \E g \in Goroutines : Background(g)

\* The queue is served, calls return and operations end, goroutines run on, a deleted
\* CPMS goes and comes back, the watch delivers, and the informers resync every ten hours.
Fairness ==
    /\ WF_vars(Reconcile)
    /\ WF_vars(RuleCreated) /\ WF_vars(RuleDeleted) /\ WF_vars(IPReleased)
    /\ WF_vars(FinalizeCPMS) /\ WF_vars(RecreateCPMS)
    /\ WF_vars(SyncCPMS) /\ \A m \in Masters : WF_vars(SyncMachine(m))
    /\ WF_vars(Resync)
    /\ \A g \in Goroutines : WF_vars(Background(g))

Spec == Init /\ [][Next]_vars /\ Fairness

-----------------------------------------------------------------------------
(* The refinement of APIScope.                                             *)

Goal ==
    IF pc = "idle" THEN "none"
    ELSE IF pc \in {"listAddresses", "reserve", "getAddress", "insertRule", "publicRecord"}
    THEN "external" ELSE "internal"

\* A rule whose deletion was accepted no longer counts.
Exposed == rule \in {"creating", "up"}

Scope ==
    INSTANCE APIScope WITH
        owed <- queued, goal <- Goal, exposed <- Exposed,
        record <- IF record = IntIP THEN "in" ELSE "out"

-----------------------------------------------------------------------------
(* Properties.                                                             *)

\* Every variable has its type, the Reconcile has an address to read where it reads
\* one, a running goroutine holds a copy of the CPMS wherever it follows the pointer,
\* and its attempts stay within maxRetries.
TypeOK ==
    /\ listening \in Listening
    /\ rule \in {"none", "creating", "up", "deleting"}
    /\ address \in Address \cup {NoAddress} /\ record \in IPs \cup {IntIP}
    /\ machines \in SUBSET Masters /\ cpms \in CPMS \cup {NoCPMS}
    /\ machinesSeen \in SUBSET Masters /\ cpmsSeen \in CPMS \cup {NoCPMS}
    /\ queued \in BOOLEAN
    /\ pc \in {"idle", "listAddresses", "reserve", "getAddress", "insertRule", "publicRecord",
               "deleteRule", "deleteCPMS", "machines", "privateRecord", "release"}
    /\ pc = "getAddress" => address # NoAddress
    /\ ip \in IPs \cup {IntIP} /\ active \in BOOLEAN
    /\ masterList \in SUBSET Masters /\ left \in SUBSET Masters
    /\ goroutine \in [Goroutines -> Goroutine \cup {NoGoroutine}]
    /\ \A g \in Goroutines :
        goroutine[g] # NoGoroutine /\ goroutine[g].at \in {"patchPools", "setActive"} =>
            goroutine[g].cpms # NoCPMS
    /\ late \in 0..MaxFaults /\ edits \in 0..MaxEdits /\ faults \in 0..MaxFaults

\* api.<cluster-domain> never names an address that the cluster gave back, and that
\* somebody else may be given: the record and the address change in two calls of two
\* services, with errors, crashes and a change of mind in between.
RecordReserved ==
    record \in IPs =>
        address # NoAddress /\ address.ip = record /\ address.state = "RESERVED"

\* The goroutine of getLoadBalancerRemovalFunc, which nothing waits for, is alone on
\* the CPMS across failures and crashes, and across toggles as long as nobody makes the
\* API private, and no goroutine wakes, before the CPMS that was deleted is replaced.
OneGoroutine ==
    late = 0 => \A g, h \in Goroutines :
        goroutine[g] # NoGoroutine /\ goroutine[h] # NoGoroutine => g = h

\* setDefaultAPIPublic and setDefaultAPIPrivate keep the promise of APIScope: the
\* record turns inwards only when no external rule is left, and outwards only to one.
ImplementsScope == Scope!Spec

\* A Reconcile that ends without an error has made the API private if that is still
\* what is asked; one that did not has left a request in the queue.
InternalSettled == Scope!Settled

\* "delete the LB and remove it from the masters": the second follows the first in the
\* same Reconcile or, as no later one comes back to it, never.  When nothing failed, no
\* end of a Reconcile, and no panic of the goroutine beside it, leaves a master behind.
MachinesSettled ==
    faults = 0 /\ pc = "idle" /\ ~queued /\ listening = "internal" => machines = {}

\* What setDefaultAPIPrivate is to achieve, whatever fails on the way.
PrivateServed ==
    <>[](listening = "internal") => <>[](record = IntIP /\ rule = "none")

\* "SetDefaultAPIPublic ensures that the default API is public": without faults, and
\* with the CPMS replaced in time, the record names in the end the address of a rule that
\* is there, even when the early return took a rule that was being deleted for one that
\* serves.
PublicServed ==
    [](faults = 0 /\ late = 0) /\ <>[](listening = "external") =>
        <>[](rule = "up" /\ record = address.ip)

\* "setting CPMS back to active will be tried again": without faults, and with the CPMS
\* replaced in time, one that was active does not stay inactive for ever.
CPMSBack ==
    [](faults = 0 /\ late = 0) /\ (cpms # NoCPMS /\ cpms.state = "Active") =>
        []<>(cpms # NoCPMS /\ cpms.state = "Active")

\* The goroutine ends with the CPMS active: when nothing failed and the CPMS was replaced
\* in time, no later Reconcile, no panic and no attempt too few ends it before.
GoroutineDelivers ==
    [][faults' = 0 /\ late' = 0 =>
        \A g \in Goroutines : goroutine[g] # NoGoroutine /\ goroutine'[g] = NoGoroutine =>
            cpms' # NoCPMS /\ cpms'.state = "Active"]_vars

\* "1. Remove the CPMS if needed 2. Remove the LBs 3. Readd the CPMS if needed": without
\* faults the CPMS is not made active while its template names the target pool.
ReactivatedClean ==
    [][faults' = 0 /\ cpms # NoCPMS /\ cpms' # NoCPMS =>
        (cpms.state = "Inactive" /\ cpms'.state = "Active" => ~cpms'.pool)]_vars
================================================================================
