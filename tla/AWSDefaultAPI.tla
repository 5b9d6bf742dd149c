----------------------------- MODULE AWSDefaultAPI -----------------------------
(***************************************************************************)
(* The scope of api.<cluster-domain> on AWS (pkg/cloudclient/aws): what    *)
(* ensureAliasScope makes of setDefaultAPIPublic and setDefaultAPIPrivate, *)
(* cut at every call that reads or writes AWS or the API server, and the   *)
(* goroutine that setDefaultAPIPrivate leaves behind to set the            *)
(* ControlPlaneMachineSet (CPMS) active again.                             *)
(***************************************************************************)
EXTENDS Integers

CONSTANTS
    Arns,         \* identifiers of Network Load Balancers, IntArn among them
    IntArn,       \* the cluster's internal API load balancer
    ExtArn,       \* the external one that the installer makes
    ServiceArn,   \* one that a Service may have from the start
    NoNLB,        \* no load balancer has that ARN
    Masters,      \* the master Machines
    NoCPMS,       \* there is no ControlPlaneMachineSet
    Goroutines,   \* bound: the goroutines that exist at the same time
    NoGoroutine,
    MaxRetries,   \* 5 in the code
    HasCPMS,      \* the cluster is one whose CPMS is recreated when deleted
    MaxEdits,     \* bound on changes of DefaultAPIServerIngress.Listening
    MaxDrift,     \* bound on what others do to load balancers and to the CPMS
    MaxLate,      \* bound on how often the CPMS is not replaced when it is needed
    MaxFaults,    \* bound on failed calls and crashes of the operator
    MaxTroubles   \* bound on the last three together

Listening == {"internal", "external"}
LBNames == {"int", "ext", "service"}      \* "ext": the name ends in -ext

\* A load balancer that carries the cluster's owned tag; nameTag: its Name tag
\* ends in -ext; service: it has a kubernetes.io/service-name tag; listener: it
\* forwards port 6443 to the target group -aext.
NLB == [name : LBNames, scheme : {"internal", "internet-facing"},
        nameTag : BOOLEAN, service : BOOLEAN, listener : BOOLEAN]

\* deleting: it has a deletion timestamp and waits for its finalizer.
CPMS == [state : {"Active", "Inactive"}, lbs : SUBSET LBNames, deleting : BOOLEAN]

\* Where a goroutine is: before its first Get, its patch, its second Get, its
\* second patch; lb is the name it removes, cpms the copy it read last.
Goroutine ==
    [at : {"sleep", "patchLBs", "getAgain", "setActive"}, lb : LBNames,
     cpms : CPMS \cup {NoCPMS}, retries : 0..MaxRetries]

ASSUME ArnsAssumption ==
    {IntArn, ExtArn, ServiceArn} \subseteq Arns /\ IntArn # ExtArn /\ NoNLB \notin NLB
ASSUME MachinesAssumption == Masters # {} /\ NoCPMS \notin CPMS
ASSUME GoroutinesAssumption == NoGoroutine \notin Goroutine /\ MaxRetries \in Nat
ASSUME BoundsAssumption ==
    /\ HasCPMS \in BOOLEAN /\ MaxEdits \in Nat /\ MaxDrift \in Nat
    /\ MaxLate \in Nat /\ MaxFaults \in Nat /\ MaxTroubles \in Nat

-----------------------------------------------------------------------------
VARIABLES
    listening,  \* the PublishingStrategy's DefaultAPIServerIngress.Listening
    nlbs,       \* the load balancers listOwnedNLBs finds
    alias,      \* the load balancer the A record of api.<cluster-domain> names
    machines,   \* the load balancers in each master's providerSpec
    cpms,       \* the ControlPlaneMachineSet
    machinesSeen, cpmsSeen, \* both as the manager's cache has them, which every read uses
    queued,     \* a reconcile request waits
    pc,         \* the next call of the Reconcile, "idle" between two
    todo,       \* load balancers the loop has not looked at yet
    arn,        \* the load balancer the next call is about
    lbName,     \* its name
    active,     \* the CPMS was active when the Reconcile read it
    masterList, \* the master Machines as the Reconcile read them
    left,       \* masters whose Machine has not been updated yet
    goroutine,
    late,       \* how often somebody did not wait for the CPMS to be replaced
    edits, drift, faults

cloud == <<nlbs, alias>>
cache == <<machinesSeen, cpmsSeen>>
cluster == <<machines, cpms, cache>>
bounds == <<late, edits, drift, faults>>
locals == <<todo, arn, lbName, active, masterList, left>>
vars == <<listening, cloud, cluster, queued, pc, locals, goroutine, bounds>>

\* One more thing may go wrong.
Troubled == late + drift + faults < MaxTroubles

-----------------------------------------------------------------------------
Exists(a) == nlbs[a] # NoNLB

InternetFacing == {a \in Arns : Exists(a) /\ nlbs[a].scheme = "internet-facing"}

ExtNLB == [name |-> "ext", scheme |-> "internet-facing", nameTag |-> TRUE,
           service |-> FALSE, listener |-> FALSE]
IntNLB == [name |-> "int", scheme |-> "internal", nameTag |-> FALSE,
           service |-> FALSE, listener |-> FALSE]
ServiceNLB == [name |-> "service", scheme |-> "internet-facing", nameTag |-> FALSE,
               service |-> TRUE, listener |-> FALSE]

\* Two slips: only the owner is looked at; the Service tag is asked for.
canDeleteNlbAny(nlb) == TRUE
canDeleteNlbService(nlb) == nlb.service /\ nlb.nameTag

canDeleteNlb(nlb) == ~nlb.service /\ nlb.nameTag

\* The target group has a listener on some load balancer, and admits no other.
Associated == \E a \in Arns : Exists(a) /\ nlbs[a].listener

ForgetLocals ==
    /\ todo' = {} /\ arn' = IntArn /\ lbName' = "int" /\ active' = FALSE
    /\ masterList' = [m \in Masters |-> {}] /\ left' = {}

\* ensureAliasScope ends; an error queues the request again.
Return(requeue) ==
    /\ pc' = "idle" /\ queued' = (queued \/ requeue)
    /\ ForgetLocals

-----------------------------------------------------------------------------
(* setDefaultAPIPublic.                                                    *)

PublicList ==
    /\ pc = "idle" /\ queued /\ listening = "external"
    /\ queued' = FALSE
    /\ \/ \E a \in InternetFacing : nlbs[a].name = "ext" /\ UNCHANGED pc
       \/ /\ \A a \in InternetFacing : nlbs[a].name # "ext"
          /\ pc' = "createNLB"
    /\ UNCHANGED <<listening, cloud, cluster, locals, goroutine, bounds>>

CreateNLB ==
    /\ pc = "createNLB"
    /\ \E a \in Arns :
        /\ ~Exists(a) /\ alias # a
        /\ nlbs' = [nlbs EXCEPT ![a] = ExtNLB]
        /\ arn' = a /\ pc' = "createListener"
    /\ UNCHANGED <<listening, alias, cluster, queued, todo, lbName, active, masterList,
                   left, goroutine, bounds>>

\* TargetGroupAssociationLimit is no error: the Reconcile succeeds.
CreateListener ==
    /\ pc = "createListener"
    /\ \/ Associated /\ Return(FALSE) /\ UNCHANGED nlbs
       \/ /\ ~Associated
          /\ nlbs' = [nlbs EXCEPT ![arn] = [nlbs[arn] EXCEPT !.listener = TRUE]]
          /\ pc' = "upsert" /\ UNCHANGED <<queued, locals>>
    /\ UNCHANGED <<listening, alias, cluster, goroutine, bounds>>

-----------------------------------------------------------------------------
(* setDefaultAPIPrivate.                                                   *)

\* A slip: a CPMS is taken to be active because it is there.
PrivateListBlind ==
    /\ pc = "idle" /\ queued /\ listening = "internal"
    /\ queued' = FALSE /\ pc' = "tags"
    /\ todo' = InternetFacing
    /\ masterList' = machinesSeen
    /\ active' = (cpmsSeen # NoCPMS)
    /\ UNCHANGED <<listening, cloud, cluster, arn, lbName, left, goroutine, bounds>>

\* Reads the load balancers, the masters and the CPMS; a missing CPMS counts as
\* an inactive one, and one that is being deleted as any other.
PrivateList ==
    /\ pc = "idle" /\ queued /\ listening = "internal"
    /\ queued' = FALSE /\ pc' = "tags"
    /\ todo' = InternetFacing
    /\ masterList' = machinesSeen
    /\ active' = (cpmsSeen # NoCPMS /\ cpmsSeen.state = "Active")
    /\ UNCHANGED <<listening, cloud, cluster, arn, lbName, left, goroutine, bounds>>

\* One turn of the loop reads the tags of its load balancer; tags of one that is
\* gone are an error.  After the last one comes getInteralAPINLB.
ReadTags ==
    /\ pc = "tags"
    /\ \/ /\ todo = {}
          /\ arn' = IntArn /\ pc' = "upsert"
          /\ UNCHANGED <<queued, todo, lbName, active, masterList, left>>
       \/ \E a \in todo :
          \/ ~Exists(a) /\ Return(TRUE)
          \/ /\ Exists(a) /\ ~canDeleteNlb(nlbs[a])
             /\ todo' = todo \ {a}
             /\ UNCHANGED <<queued, pc, arn, lbName, active, masterList, left>>
          \/ /\ Exists(a) /\ canDeleteNlb(nlbs[a])
             /\ todo' = todo \ {a} /\ arn' = a /\ lbName' = nlbs[a].name
             /\ pc' = "deleteNLB"
             /\ UNCHANGED <<queued, active, masterList, left>>
    /\ UNCHANGED <<listening, cloud, cluster, goroutine, bounds>>

DeleteNLB ==
    /\ pc = "deleteNLB"
    /\ nlbs' = [nlbs EXCEPT ![arn] = NoNLB]
    /\ pc' = IF active THEN "deleteCPMS" ELSE "machines"
    /\ left' = Masters
    /\ UNCHANGED <<listening, alias, cluster, queued, todo, arn, lbName, active,
                   masterList, goroutine, bounds>>

\* The Delete goes by the name, and only marks the CPMS: it stays until its finalizer
\* is removed.
DeleteCPMS ==
    /\ pc = "deleteCPMS"
    /\ \/ cpms = NoCPMS /\ Return(TRUE) /\ UNCHANGED cpms
       \/ /\ cpms # NoCPMS
          /\ cpms' = [cpms EXCEPT !.deleting = TRUE] /\ pc' = "machines"
          /\ UNCHANGED <<queued, locals>>
    /\ UNCHANGED <<listening, cloud, machines, cache, goroutine, bounds>>

\* A slip: with a CPMS the masters are left to it.
UpdatedLBsInactive(m) ==
    IF lbName \in masterList[m] /\ ~active THEN masterList[m] \ {lbName} ELSE machines[m]

\* updateAWSLBList patches the whole list, computed from masterList.
UpdatedLBs(m) ==
    IF lbName \in masterList[m] THEN masterList[m] \ {lbName} ELSE machines[m]

Fresh(name) == [at |-> "sleep", lb |-> name, cpms |-> NoCPMS, retries |-> MaxRetries]

\* A slip: nobody is left to set the CPMS active.
StartGoroutineNever == UNCHANGED goroutine

StartGoroutine ==
    \/ ~active /\ UNCHANGED goroutine
    \/ active /\ \E g \in Goroutines :
        /\ goroutine[g] = NoGoroutine
        /\ goroutine' = [goroutine EXCEPT ![g] = Fresh(lbName)]

\* removeAWSLBFromMasterMachines, one Machine at a time; with a CPMS the goroutine
\* starts after the last one.
UpdateMachine ==
    /\ pc = "machines"
    /\ \/ \E m \in left :
          /\ machines' = [machines EXCEPT ![m] = UpdatedLBs(m)]
          /\ left' = left \ {m}
          /\ UNCHANGED <<pc, goroutine>>
       \/ left = {} /\ StartGoroutine /\ pc' = "tags" /\ UNCHANGED <<machines, left>>
    /\ UNCHANGED <<listening, cloud, cpms, cache, queued, todo, arn, lbName, active, masterList,
                   bounds>>

\* A slip: the record always names the internal load balancer.
UpsertInternal ==
    /\ pc = "upsert"
    /\ alias' = IntArn
    /\ Return(FALSE)
    /\ UNCHANGED <<listening, nlbs, cluster, goroutine, bounds>>

\* upsertARecord, and the end of either function.
UpsertARecord ==
    /\ pc = "upsert"
    /\ alias' = arn
    /\ Return(FALSE)
    /\ UNCHANGED <<listening, nlbs, cluster, goroutine, bounds>>

Reconcile ==
    \/ PublicList \/ CreateNLB \/ CreateListener
    \/ PrivateList \/ ReadTags \/ DeleteNLB \/ DeleteCPMS \/ UpdateMachine
    \/ UpsertARecord

-----------------------------------------------------------------------------
(* The goroutine of getLoadBalancerRemovalFunc.                            *)

\* The operator's process ends: the Reconcile and every goroutine with it.  When it
\* is back, with a new cache, the request is queued.
Restart ==
    /\ goroutine' = [g \in Goroutines |-> NoGoroutine]
    /\ pc' = "idle" /\ queued' = TRUE
    /\ ForgetLocals
    /\ machinesSeen' = machines /\ cpmsSeen' = cpms
    /\ UNCHANGED <<listening, cloud, machines, cpms>>

HavingRead(gr) ==
    [gr EXCEPT !.at = IF gr.at = "sleep" THEN "patchLBs" ELSE "setActive", !.cpms = cpmsSeen]

\* The CPMS that is to be there is, nobody deletes it, and the cache shows it.
Replaced == cpmsSeen = cpms /\ IF cpms = NoCPMS THEN ~HasCPMS ELSE ~cpms.deleting

\* The minute's sleep, and a customer who takes his time, give the CPMS that chance; who
\* relies on it and is early is counted.
Counted(relies) ==
    IF relies /\ ~Replaced THEN Troubled /\ late < MaxLate /\ late' = late + 1 ELSE UNCHANGED late

\* A slip: the error is logged, and the goroutine goes on with what it has.
GetCPMSLogged(g) ==
    /\ goroutine[g] # NoGoroutine /\ goroutine[g].at \in {"sleep", "getAgain"}
    /\ Counted(goroutine[g].at = "sleep")
    /\ goroutine' = [goroutine EXCEPT ![g] = HavingRead(goroutine[g])]
    /\ UNCHANGED <<listening, cloud, cluster, queued, pc, locals, edits, drift, faults>>

\* A Get that finds nothing leaves a nil pointer, which the next line follows:
\* the panic ends the process.
GetCPMS(g) ==
    /\ goroutine[g] # NoGoroutine /\ goroutine[g].at \in {"sleep", "getAgain"}
    /\ Counted(goroutine[g].at = "sleep")
    /\ \/ cpmsSeen = NoCPMS /\ Restart
       \/ /\ cpmsSeen # NoCPMS
          /\ goroutine' = [goroutine EXCEPT ![g] = HavingRead(goroutine[g])]
          /\ UNCHANGED <<listening, cloud, cluster, queued, pc, locals>>
    /\ UNCHANGED <<edits, drift, faults>>

\* A slip: the list that is written is the list that was read.
RemainingLBsAll(read, name) == read.lbs

\* What the merge patch makes of the list: nothing, when it was right already.
RemainingLBs(read, name) == IF name \in read.lbs THEN read.lbs \ {name} ELSE cpms.lbs

\* removeLoadBalancerCPMS: an error is logged, and the goroutine goes on.
PatchCPMS(g) ==
    /\ goroutine[g] # NoGoroutine /\ goroutine[g].at = "patchLBs"
    /\ \/ cpms = NoCPMS /\ UNCHANGED <<cpms, faults>>
       \/ /\ cpms # NoCPMS
          /\ cpms' = [cpms EXCEPT !.lbs = RemainingLBs(goroutine[g].cpms, goroutine[g].lb)]
          /\ UNCHANGED faults
       \/ Troubled /\ faults < MaxFaults /\ faults' = faults + 1 /\ UNCHANGED cpms
    /\ goroutine' = [goroutine EXCEPT ![g] = [goroutine[g] EXCEPT !.at = "getAgain", !.cpms = NoCPMS]]
    /\ UNCHANGED <<listening, cloud, machines, cache, queued, pc, locals, late, edits, drift>>

\* A slip: the loop is not left after a success.
AfterSuccessAgain(g) == Fresh(goroutine[g].lb)

AfterSuccess(g) == NoGoroutine

AfterFailure(g) ==
    IF goroutine[g].retries = 0 THEN NoGoroutine
    ELSE [Fresh(goroutine[g].lb) EXCEPT !.retries = goroutine[g].retries - 1]

\* SetCPMSActive: the goroutine ends when it worked or no attempt is left.  The
\* patch is empty when the copy was active.
SetCPMSActive(g) ==
    /\ goroutine[g] # NoGoroutine /\ goroutine[g].at = "setActive"
    /\ \/ /\ cpms # NoCPMS
          /\ cpms' = IF goroutine[g].cpms.state = "Active" THEN cpms
                     ELSE [cpms EXCEPT !.state = "Active"]
          /\ goroutine' = [goroutine EXCEPT ![g] = AfterSuccess(g)]
          /\ UNCHANGED faults
       \/ /\ \/ cpms = NoCPMS /\ UNCHANGED faults
             \/ cpms # NoCPMS /\ Troubled /\ faults < MaxFaults /\ faults' = faults + 1
          /\ goroutine' = [goroutine EXCEPT ![g] = AfterFailure(g)]
          /\ UNCHANGED cpms
    /\ UNCHANGED <<listening, cloud, machines, cache, queued, pc, locals, late, edits, drift>>

Background(g) == GetCPMS(g) \/ PatchCPMS(g) \/ SetCPMSActive(g)

-----------------------------------------------------------------------------
(* Everyone else.                                                          *)

\* A call of the Reconcile fails.
Error ==
    /\ pc # "idle" /\ Troubled /\ faults < MaxFaults /\ faults' = faults + 1
    /\ Return(TRUE)
    /\ UNCHANGED <<listening, cloud, cluster, goroutine, late, edits, drift>>

Crash ==
    /\ Troubled /\ faults < MaxFaults /\ faults' = faults + 1
    /\ Restart
    /\ UNCHANGED <<late, edits, drift>>

EditStrategy ==
    /\ edits < MaxEdits /\ edits' = edits + 1
    /\ listening' \in Listening \ {listening}
    /\ queued' = TRUE
    /\ Counted(listening' = "internal")
    /\ UNCHANGED <<cloud, cluster, pc, locals, goroutine, drift, faults>>

\* The CPMS's own operator has cleaned up and removes the finalizer.
FinalizeCPMS ==
    /\ cpms # NoCPMS /\ cpms.deleting /\ cpms' = NoCPMS
    /\ UNCHANGED <<listening, cloud, machines, cache, queued, pc, locals, goroutine, bounds>>

\* "in OSD this will trigger the CPMS to be recreated in an inactive state", from
\* the providerSpec of a master.
RecreateCPMS ==
    /\ HasCPMS /\ cpms = NoCPMS
    /\ \E m \in Masters : cpms' = [state |-> "Inactive", lbs |-> machines[m], deleting |-> FALSE]
    /\ UNCHANGED <<listening, cloud, machines, cache, queued, pc, locals, goroutine, bounds>>

\* A Service of type LoadBalancer gains, or loses, its load balancer.
ServiceChange ==
    /\ Troubled /\ drift < MaxDrift /\ drift' = drift + 1
    /\ \E a \in Arns :
        \/ ~Exists(a) /\ alias # a /\ nlbs' = [nlbs EXCEPT ![a] = ServiceNLB]
        \/ Exists(a) /\ nlbs[a].service /\ nlbs' = [nlbs EXCEPT ![a] = NoNLB]
    /\ UNCHANGED <<listening, alias, cluster, queued, pc, locals, goroutine, late, edits, faults>>

\* Somebody puts a load balancer of their own in front of the target group.
BorrowTargetGroup ==
    /\ Troubled /\ drift < MaxDrift /\ drift' = drift + 1
    /\ ~Associated
    /\ \E a \in Arns :
        /\ ~Exists(a) /\ alias # a
        /\ nlbs' = [nlbs EXCEPT ![a] = [ServiceNLB EXCEPT !.scheme = "internal", !.listener = TRUE]]
    /\ UNCHANGED <<listening, alias, cluster, queued, pc, locals, goroutine, late, edits, faults>>

\* Somebody else deletes the CPMS.
LoseCPMS ==
    /\ Troubled /\ drift < MaxDrift /\ drift' = drift + 1
    /\ cpms # NoCPMS /\ cpms' = [cpms EXCEPT !.deleting = TRUE]
    /\ UNCHANGED <<listening, cloud, machines, cache, queued, pc, locals, goroutine, late, edits, faults>>

\* The informers catch up, each for itself.
SyncCPMS ==
    /\ cpmsSeen # cpms /\ cpmsSeen' = cpms
    /\ UNCHANGED <<listening, cloud, machines, cpms, machinesSeen, queued, pc, locals,
                   goroutine, bounds>>

SyncMachine(m) ==
    /\ machinesSeen[m] # machines[m]
    /\ machinesSeen' = [machinesSeen EXCEPT ![m] = machines[m]]
    /\ UNCHANGED <<listening, cloud, machines, cpms, cpmsSeen, queued, pc, locals,
                   goroutine, bounds>>

\* The informers' periodic resync.
Resync ==
    /\ ~queued /\ queued' = TRUE
    /\ UNCHANGED <<listening, cloud, cluster, pc, locals, goroutine, bounds>>

Environment ==
    \/ Error \/ Crash \/ EditStrategy \/ FinalizeCPMS \/ RecreateCPMS
    \/ ServiceChange \/ BorrowTargetGroup \/ LoseCPMS
    \/ SyncCPMS \/ (\E m \in Masters : SyncMachine(m)) \/ Resync

-----------------------------------------------------------------------------
\* A cluster as the installer made it public or private, with or without a
\* Service's load balancer, whatever the strategy asks for now.
Init ==
    /\ listening \in Listening
    /\ \E public \in BOOLEAN, services \in SUBSET {ServiceArn} :
        /\ nlbs = [a \in Arns |->
                    IF a = IntArn THEN IntNLB
                    ELSE IF a = ExtArn /\ public THEN [ExtNLB EXCEPT !.listener = TRUE]
                    ELSE IF a \in services THEN ServiceNLB ELSE NoNLB]
        /\ alias = IF public THEN ExtArn ELSE IntArn
        /\ machines = [m \in Masters |-> IF public THEN {"int", "ext"} ELSE {"int"}]
        /\ IF HasCPMS THEN cpms \in [state : {"Active", "Inactive"}, deleting : {FALSE},
                                     lbs : {machines[m] : m \in Masters}]
                      ELSE cpms = NoCPMS
    /\ machinesSeen = machines /\ cpmsSeen = cpms
    /\ queued = TRUE /\ pc = "idle"
    /\ todo = {} /\ arn = IntArn /\ lbName = "int" /\ active = FALSE
    /\ masterList = [m \in Masters |-> {}] /\ left = {}
    /\ goroutine = [g \in Goroutines |-> NoGoroutine]
    /\ late = 0 /\ edits = 0 /\ drift = 0 /\ faults = 0

Next == Reconcile \/ Environment \/ \E g \in Goroutines : Background(g)

\* The queue is served, calls return, goroutines run on, a deleted CPMS goes and comes
\* back, and the watch delivers.
Fairness ==
    /\ WF_vars(Reconcile)
    /\ WF_vars(FinalizeCPMS) /\ WF_vars(RecreateCPMS)
    /\ WF_vars(SyncCPMS) /\ \A m \in Masters : WF_vars(SyncMachine(m))
    /\ \A g \in Goroutines : WF_vars(Background(g))

Spec == Init /\ [][Next]_vars /\ Fairness

-----------------------------------------------------------------------------
(* The refinement of APIScope.                                             *)

Goal ==
    IF pc = "idle" THEN "none"
    ELSE IF pc \in {"createNLB", "createListener"} \/ (pc = "upsert" /\ arn # IntArn)
    THEN "external" ELSE "internal"

Exposed == \E a \in InternetFacing : nlbs[a].name = "ext"

Scope ==
    INSTANCE APIScope WITH
        owed <- queued, goal <- Goal, exposed <- Exposed,
        record <- IF alias = IntArn THEN "in" ELSE "out"

-----------------------------------------------------------------------------
(* Properties.                                                             *)

\* Every variable has its type, a running goroutine holds a copy of the CPMS
\* wherever it follows the pointer, and its attempts stay within maxRetries.
TypeOK ==
    /\ listening \in Listening
    /\ nlbs \in [Arns -> NLB \cup {NoNLB}] /\ alias \in Arns
    /\ machines \in [Masters -> SUBSET LBNames] /\ cpms \in CPMS \cup {NoCPMS}
    /\ machinesSeen \in [Masters -> SUBSET LBNames] /\ cpmsSeen \in CPMS \cup {NoCPMS}
    /\ queued \in BOOLEAN
    /\ pc \in {"idle", "createNLB", "createListener", "tags", "deleteNLB", "deleteCPMS",
               "machines", "upsert"}
    /\ todo \in SUBSET Arns /\ arn \in Arns /\ lbName \in LBNames /\ active \in BOOLEAN
    /\ masterList \in [Masters -> SUBSET LBNames] /\ left \in SUBSET Masters
    /\ goroutine \in [Goroutines -> Goroutine \cup {NoGoroutine}]
    /\ \A g \in Goroutines :
        goroutine[g] # NoGoroutine /\ goroutine[g].at \in {"patchLBs", "setActive"} =>
            goroutine[g].cpms # NoCPMS
    /\ late \in 0..MaxLate /\ edits \in 0..MaxEdits /\ drift \in 0..MaxDrift /\ faults \in 0..MaxFaults

\* getLoadBalancerRemovalFunc starts a goroutine that nothing waits for; the state of
\* the CPMS alone, read from the cache, keeps two of them with different copies of it
\* from running at the same time, across any number of failures and crashes, and of
\* toggles as long as nobody makes the API private, and no goroutine wakes, before the
\* CPMS that was deleted is replaced.
OneGoroutine ==
    late = 0 => \A g, h \in Goroutines :
        goroutine[g] # NoGoroutine /\ goroutine[h] # NoGoroutine => g = h

\* A load balancer that belongs to a Service is never deleted by the operator,
\* nor is the cluster's internal one (canDeleteNlb, on a list read earlier).
OthersKept ==
    [][\A a \in Arns :
        Exists(a) /\ (nlbs[a].service \/ a = IntArn) /\ nlbs'[a] # nlbs[a] => drift' # drift]_vars

\* setDefaultAPIPublic and setDefaultAPIPrivate keep the promise of APIScope: the
\* record turns inwards only when no external load balancer is left, and outwards
\* only to one that is there.
ImplementsScope == Scope!Spec

\* A Reconcile that ends without an error has made the API private if that is still
\* what is asked; one that did not has left a request in the queue.
InternalSettled == Scope!Settled

\* "Delete the NLB and remove the NLB from the master Machine objects in cluster": the
\* second follows the first in the same Reconcile or, as no later one comes back to it,
\* never.  When nothing failed and nobody interfered, no end of a Reconcile, and no panic
\* of the goroutine beside it, leaves a master behind.
MachinesSettled ==
    faults = 0 /\ drift = 0 /\ pc = "idle" /\ ~queued /\ listening = "internal" =>
        \A m \in Masters : "ext" \notin machines[m]

\* setDefaultAPIPublic returns early when there is an external load balancer, and takes
\* its listener and the record for granted.  When nothing failed, nobody interfered and
\* the CPMS was replaced in time, that is right.
ExternalSettled ==
    faults = 0 /\ drift = 0 /\ late = 0 /\ pc = "idle" /\ ~queued /\ listening = "external" =>
        alias \in InternetFacing /\ nlbs[alias].listener

\* What setDefaultAPIPrivate is to achieve: api.<cluster-domain> names the internal
\* load balancer and the external one is gone, whatever fails on the way.
PrivateServed ==
    <>[](listening = "internal") =>
        <>[](alias = IntArn /\ \A a \in InternetFacing : nlbs[a].name # "ext")

\* "SetDefaultAPIPublic ensures that the default API is public": in the end the
\* record names an external load balancer that forwards to the API servers, when nothing
\* failed, nobody interfered and the CPMS was replaced in time.
PublicServed ==
    [](faults = 0 /\ drift = 0 /\ late = 0) /\ <>[](listening = "external") =>
        <>[](alias \in InternetFacing /\ nlbs[alias].listener)

\* "setting CPMS back to active will be tried again": a CPMS that was active does
\* not stay inactive for ever, under the same conditions: a goroutine that reads too
\* early panics, and nobody comes back to its work.
CPMSBack ==
    [](faults = 0 /\ drift = 0 /\ late = 0) /\ (cpms # NoCPMS /\ cpms.state = "Active") =>
        []<>(cpms # NoCPMS /\ cpms.state = "Active")

\* The goroutine ends with the CPMS active: when nothing failed, nobody interfered and the
\* CPMS was replaced in time, neither a later Reconcile nor an attempt too few ends it before.
GoroutineDelivers ==
    [][faults' = 0 /\ drift = 0 /\ late' = 0 =>
        \A g \in Goroutines : goroutine[g] # NoGoroutine /\ goroutine'[g] = NoGoroutine =>
            cpms' # NoCPMS /\ cpms'.state = "Active"]_vars

\* "1. Remove the CPMS if needed 2. Remove the LBs 3. Readd the CPMS if needed": as long
\* as no call failed, the CPMS is not made active while it lists a load balancer that was
\* removed, even if the goroutine and the customer do not wait for the CPMS, or else others
\* delete it.  (With both, a cached copy may hide what the CPMS lists.)
ReactivatedClean ==
    [][faults' = 0 /\ (late' = 0 \/ drift' = 0) /\ cpms # NoCPMS /\ cpms' # NoCPMS =>
        (cpms.state = "Inactive" /\ cpms'.state = "Active" =>
            \A n \in cpms'.lbs : \E a \in Arns : Exists(a) /\ nlbs[a].name = n)]_vars
================================================================================
