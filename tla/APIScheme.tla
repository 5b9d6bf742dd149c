------------------------------- MODULE APIScheme -------------------------------
(***************************************************************************)
(* The APIScheme controller (controllers/apischeme) and the cloud clients' *)
(* EnsureAdminAPIDNS and DeleteAdminAPIDNS: the admin API endpoint rh-api, *)
(* a Service of type LoadBalancer and its DNS records in two zones.        *)
(*                                                                         *)
(* A Reconcile is cut at every call.  The APIScheme and the Service are    *)
(* read from informer caches that lag; an Update that is made from a copy  *)
(* which is not the server's object is a conflict.                         *)
(***************************************************************************)
EXTENDS Integers

CONSTANTS
    UIDs,        \* identities of Services; a load balancer is named after one
    NoUID,       \* a zone without the record
    AccessLists, \* values of AllowedCIDRBlocks
    FirstAccess, \* the one the APIScheme is made with
    NoScheme,    \* the APIScheme does not exist
    NoService,   \* the Service does not exist
    Platform,
    Edits,       \* what a customer does: "disable", "access", "delete"
    MaxEdits,    \* bound on those
    MaxDrift,    \* bound on what others do to the Service and its load balancer
    MaxFaults    \* bound on failed calls and restarts

\* The conditions of an APIScheme are a list that only grows; what the controller
\* asks of it is its last message, and whether a Ready condition is in it.
Messages == {"none", "success", "lbNotReady", "lbDeleted", "ruleDeleted", "dnsNotDeleted",
             "noClient"}
Status == [state : {"", "Ready", "Error"}, last : Messages, everReady : BOOLEAN]

Scheme == [enabled : BOOLEAN, access : AccessLists, finalizer : BOOLEAN,
           deleting : BOOLEAN, status : Status]

\* What the controller puts on the Service besides its access list: the traffic
\* policy and two annotations.
Settings == {"policy", "timeout", "tag"}

\* ingress: status.loadBalancer.ingress is set.
Service == [uid : UIDs, access : AccessLists, settings : SUBSET Settings,
            deleting : BOOLEAN, ingress : BOOLEAN]

ASSUME NullsAssumption ==
    NoUID \notin UIDs /\ NoScheme \notin Scheme /\ NoService \notin Service
\* Two records and a Service that is gone may still refer to identities; a new one is left.
ASSUME UIDsAssumption == \A t, u, v \in UIDs \cup {NoUID} : UIDs \ {t, u, v} # {}
ASSUME AccessAssumption == FirstAccess \in AccessLists
ASSUME PlatformAssumption == Platform \in {"AWS", "GCP"}
ASSUME BoundsAssumption ==
    /\ Edits \subseteq {"disable", "access", "delete"}
    /\ MaxEdits \in Nat /\ MaxDrift \in Nat /\ MaxFaults \in Nat

-----------------------------------------------------------------------------
VARIABLES
    scheme,      \* the APIScheme on the API server
    seenScheme,  \* the informer's copy of it
    svc,         \* the Service on the API server
    seenSvc,     \* the informer's copy of it
    lbs,         \* the Services that have a load balancer in the cloud
    dns,         \* for each zone, whose load balancer its record names
    metric,      \* the gauge cloud_ingress_operator_apischeme_status
    queued,      \* a reconcile request waits, or will after RequeueAfter
    pc,          \* the next call of the Reconcile, "idle" between two
    inst,        \* Reconcile's copy of the APIScheme
    found,       \* Reconcile's copy of the Service
    edits, drift, faults

Zones == {"private", "public"}

objects == <<scheme, svc>>
seen == <<seenScheme, seenSvc>>
cloud == <<lbs, dns>>
locals == <<inst, found>>
bounds == <<edits, drift, faults>>
vars == <<objects, seen, cloud, metric, queued, pc, locals, bounds>>

-----------------------------------------------------------------------------
newServiceFor(uid) ==
    [uid |-> uid, access |-> inst.access, settings |-> Settings,
     deleting |-> FALSE, ingress |-> FALSE]

\* SetAPISchemeStatus on a copy.
WithStatus(copy, type, message) ==
    [copy EXCEPT !.status = [state |-> type, last |-> message,
                             everReady |-> copy.status.everReady \/ type = "Ready"]]

Return(requeue) ==
    /\ pc' = "idle" /\ queued' = (queued \/ requeue)
    /\ inst' = NoScheme /\ found' = NoService

\* A slip: the status is written whatever became of the spec since it was read.
SetAPISchemeStatusForced(copy, type, message) ==
    scheme' = IF scheme = NoScheme THEN scheme ELSE WithStatus(scheme, type, message)

\* The status update may meet a conflict, which is only logged.
SetAPISchemeStatus(copy, type, message) ==
    scheme' = IF scheme = copy THEN WithStatus(copy, type, message) ELSE scheme

SetAPISchemeStatusMetric(type) == metric' = (type = "Ready")

\* A zone's first and second turn: the AWS client does the private zone first.
First == IF Platform = "AWS" THEN "private" ELSE "public"
Second == IF Platform = "AWS" THEN "public" ELSE "private"

-----------------------------------------------------------------------------
(* Reconcile, up to the Service.                                           *)

\* A slip: there is nothing to do for an APIScheme that is being deleted.
EntryStopped(copy) ==
    IF copy = NoScheme \/ ~copy.enabled \/ copy.deleting THEN "return"
    ELSE IF copy.finalizer THEN "getService" ELSE "addFinalizer"

\* The call that the copy of the APIScheme leads to.
Entry(copy) ==
    IF copy = NoScheme \/ ~copy.enabled THEN "return"
    ELSE IF ~copy.deleting THEN IF copy.finalizer THEN "getService" ELSE "addFinalizer"
    ELSE IF copy.finalizer THEN "getDeleted" ELSE "return"

Begin ==
    /\ pc = "idle" /\ queued
    /\ queued' = FALSE
    /\ \/ Entry(seenScheme) = "return" /\ UNCHANGED <<pc, inst>>
       \/ Entry(seenScheme) # "return" /\ pc' = Entry(seenScheme) /\ inst' = seenScheme
    /\ UNCHANGED <<objects, seen, cloud, metric, found, bounds>>

\* The platform cannot be read, so that there is no cloud client.
NoCloudClient ==
    /\ pc = "idle" /\ queued /\ Entry(seenScheme) # "return" /\ faults < MaxFaults
    /\ faults' = faults + 1
    /\ SetAPISchemeStatus(seenScheme, "Error", "noClient")
    /\ SetAPISchemeStatusMetric("Error")
    /\ Return(TRUE)
    /\ UNCHANGED <<svc, seen, cloud, edits, drift>>

AddFinalizer ==
    /\ pc = "addFinalizer"
    /\ \/ scheme # inst /\ Return(TRUE) /\ UNCHANGED scheme
       \/ /\ scheme = inst
          /\ scheme' = [inst EXCEPT !.finalizer = TRUE]
          /\ inst' = scheme' /\ pc' = "getService"
          /\ UNCHANGED <<queued, found>>
    /\ UNCHANGED <<svc, seen, cloud, metric, bounds>>

\* The first thing about the Service that is not as it should be.
ServiceStep(s) ==
    IF s = NoService THEN "create"
    ELSE IF s.access # inst.access THEN "updateAccess"
    ELSE IF "policy" \notin s.settings THEN "updatePolicy"
    ELSE IF "timeout" \notin s.settings THEN "updateTimeout"
    ELSE IF "tag" \notin s.settings THEN "updateTag" ELSE "ensureDNS"

GetService ==
    /\ pc = "getService"
    /\ found' = seenSvc /\ pc' = ServiceStep(seenSvc)
    /\ UNCHANGED <<objects, seen, cloud, metric, queued, inst, bounds>>

\* Identities that nothing in the model refers to any more.
UnusedUIDs ==
    {u \in UIDs : /\ u \notin lbs /\ \A z \in Zones : dns[z] # u
                  /\ \A s \in {svc, seenSvc, found} : s # NoService => s.uid # u}

CreateService ==
    /\ pc = "create"
    /\ \/ svc # NoService /\ UNCHANGED svc
       \/ svc = NoService /\ svc' = newServiceFor(CHOOSE u \in UnusedUIDs : TRUE)
    /\ Return(TRUE)
    /\ UNCHANGED <<scheme, seen, cloud, metric, bounds>>

\* A slip: the access list is compared but not written.
UpdatedUnlisted(s) ==
    [s EXCEPT !.settings = @ \cup (CASE pc = "updatePolicy" -> {"policy"}
                                     [] pc = "updateTimeout" -> {"timeout"}
                                     [] pc = "updateTag" -> {"tag"}
                                     [] OTHER -> {})]

Updated(s) ==
    IF pc = "updateAccess" THEN [s EXCEPT !.access = inst.access]
    ELSE [s EXCEPT !.settings = @ \cup (CASE pc = "updatePolicy" -> {"policy"}
                                          [] pc = "updateTimeout" -> {"timeout"}
                                          [] OTHER -> {"tag"})]

\* After the access list or the policy the Reconcile is over; after an annotation
\* it goes on.
UpdateService ==
    /\ pc \in {"updateAccess", "updatePolicy", "updateTimeout", "updateTag"}
    /\ \/ svc # found /\ Return(TRUE) /\ UNCHANGED svc
       \/ /\ svc = found /\ svc' = Updated(found)
          /\ \/ pc \in {"updateAccess", "updatePolicy"} /\ Return(TRUE)
             \/ /\ pc \in {"updateTimeout", "updateTag"}
                /\ found' = svc' /\ pc' = ServiceStep(svc')
                /\ UNCHANGED <<queued, inst>>
    /\ UNCHANGED <<scheme, seen, cloud, metric, bounds>>

-----------------------------------------------------------------------------
(* EnsureAdminAPIDNS and what Reconcile makes of its errors.               *)

\* A slip: on GCP the forwarding rule is not looked for.
EnsureVerdictByStatus ==
    IF (IF Platform = "AWS" THEN found.uid \in lbs ELSE found.ingress)
    THEN "upsertFirst" ELSE "notReady"

\* AWS looks for a load balancer named after the Service; GCP for an ingress in
\* the Service's status, and then for a forwarding rule with that address.
EnsureVerdict ==
    IF Platform = "AWS" THEN IF found.uid \in lbs THEN "upsertFirst" ELSE "notReady"
    ELSE IF ~found.ingress THEN "notReady"
    ELSE IF found.uid \in lbs THEN "upsertFirst" ELSE "ruleDeleted"

\* GCP takes an error of the listing for a forwarding rule that is not there.
EnsureDNS ==
    /\ pc = "ensureDNS"
    /\ \/ pc' = EnsureVerdict /\ UNCHANGED faults
       \/ /\ Platform = "GCP" /\ found.ingress /\ faults < MaxFaults
          /\ pc' = "ruleDeleted" /\ faults' = faults + 1
    /\ UNCHANGED <<objects, seen, cloud, metric, queued, locals, edits, drift>>

UpsertFirst ==
    /\ pc = "upsertFirst" /\ pc' = "upsertSecond"
    /\ dns' = [dns EXCEPT ![First] = found.uid]
    /\ UNCHANGED <<objects, seen, lbs, metric, queued, locals, bounds>>

UpsertSecond ==
    /\ pc = "upsertSecond" /\ pc' = "ready"
    /\ dns' = [dns EXCEPT ![Second] = found.uid]
    /\ UNCHANGED <<objects, seen, lbs, metric, queued, locals, bounds>>

\* RequeueAfter: the request comes back after a minute.
Ready ==
    /\ pc = "ready"
    /\ SetAPISchemeStatus(inst, "Ready", "success")
    /\ SetAPISchemeStatusMetric("Ready")
    /\ Return(TRUE)
    /\ UNCHANGED <<svc, seen, cloud, bounds>>

\* The gauge is set from the state before this error.  A load balancer that is not
\* there after the APIScheme was ever Ready is taken for a deleted one.
NotReady ==
    /\ pc = "notReady"
    /\ SetAPISchemeStatusMetric(inst.status.state)
    /\ \/ /\ ~inst.status.everReady
          /\ SetAPISchemeStatus(inst, "Error", "lbNotReady") /\ Return(TRUE)
       \/ /\ inst.status.everReady
          /\ SetAPISchemeStatus(inst, "Error", "lbDeleted")
          /\ pc' = "deleteService" /\ UNCHANGED <<queued, locals>>
    /\ UNCHANGED <<svc, seen, cloud, bounds>>

\* The gauge is left alone.
RuleDeleted ==
    /\ pc = "ruleDeleted" /\ pc' = "deleteService"
    /\ SetAPISchemeStatus(inst, "Error", "ruleDeleted")
    /\ UNCHANGED <<svc, seen, cloud, metric, queued, locals, bounds>>

\* The Service goes when its load balancer is gone: see CleanupService.
Deleted(s) == IF s = NoService THEN s ELSE [s EXCEPT !.deleting = TRUE]

\* By name; an error is only logged.
DeleteService ==
    /\ pc = "deleteService"
    /\ svc' = Deleted(svc)
    /\ Return(TRUE)
    /\ UNCHANGED <<scheme, seen, cloud, metric, bounds>>

-----------------------------------------------------------------------------
(* An APIScheme that is being deleted.                                     *)

\* A slip: the records are deleted for a Service that was not found.
DeletedStepAlways(s) == IF Platform = "AWS" THEN "findELB" ELSE "deleteFirst"

\* "Service was not found! ... This could leave DNS entries behind!"
DeletedStep(s) ==
    IF s = NoService THEN "removeFinalizer"
    ELSE IF Platform = "AWS" THEN "findELB" ELSE "deleteFirst"

GetDeleted ==
    /\ pc = "getDeleted"
    /\ found' = seenSvc
    /\ pc' = DeletedStep(seenSvc)
    /\ UNCHANGED <<objects, seen, cloud, metric, queued, inst, bounds>>

\* AWS: no load balancer, no DNS deletion.
FindELB ==
    /\ pc = "findELB"
    /\ \/ found.uid \in lbs /\ pc' = "deleteFirst" /\ UNCHANGED <<scheme, metric, queued, locals>>
       \/ /\ found.uid \notin lbs
          /\ SetAPISchemeStatus(inst, "Error", "lbNotReady")
          /\ SetAPISchemeStatusMetric("Error")
          /\ Return(TRUE)
    /\ UNCHANGED <<svc, seen, cloud, bounds>>

\* A slip: the record is left when the load balancer it names is gone.
UnlessGone(record) == IF record \in lbs THEN NoUID ELSE record

\* GCP deletes the record it lists.  AWS names the record it means; that it is not
\* there comes back as InvalidChangeBatch, which deleteARecord takes for success.
WithoutRecord(record) == IF Platform = "GCP" \/ record = found.uid THEN NoUID ELSE record

DeleteFirst ==
    /\ pc = "deleteFirst" /\ pc' = "deleteSecond"
    /\ dns' = [dns EXCEPT ![First] = WithoutRecord(@)]
    /\ UNCHANGED <<objects, seen, lbs, metric, queued, locals, bounds>>

DeleteSecond ==
    /\ pc = "deleteSecond" /\ pc' = "removeFinalizer"
    /\ dns' = [dns EXCEPT ![Second] = WithoutRecord(@)]
    /\ UNCHANGED <<objects, seen, lbs, metric, queued, locals, bounds>>

\* DeleteAdminAPIDNS fails.
DeleteDNSFails ==
    /\ pc \in {"findELB", "deleteFirst", "deleteSecond"} /\ faults < MaxFaults
    /\ faults' = faults + 1
    /\ SetAPISchemeStatus(inst, "Error", "dnsNotDeleted")
    /\ SetAPISchemeStatusMetric("Error")
    /\ Return(TRUE)
    /\ UNCHANGED <<svc, seen, cloud, edits, drift>>

RemoveFinalizer ==
    /\ pc = "removeFinalizer"
    /\ scheme' = IF scheme = inst THEN NoScheme ELSE scheme
    /\ Return(TRUE)
    /\ UNCHANGED <<svc, seen, cloud, metric, bounds>>

Reconcile ==
    \/ Begin \/ AddFinalizer \/ GetService \/ CreateService \/ UpdateService
    \/ EnsureDNS \/ UpsertFirst \/ UpsertSecond
    \/ Ready \/ NotReady \/ RuleDeleted \/ DeleteService
    \/ GetDeleted \/ FindELB \/ DeleteFirst \/ DeleteSecond \/ RemoveFinalizer

\* Another call fails, or the operator restarts.
Fault ==
    /\ pc # "idle" /\ faults < MaxFaults
    /\ faults' = faults + 1
    /\ Return(TRUE)
    /\ UNCHANGED <<objects, seen, cloud, metric, edits, drift>>

-----------------------------------------------------------------------------
(* Everyone else.                                                          *)

\* The controller watches APISchemes, its own status updates among the events.
SyncScheme ==
    /\ seenScheme # scheme
    /\ seenScheme' = scheme /\ queued' = TRUE
    /\ UNCHANGED <<objects, seenSvc, cloud, metric, pc, locals, bounds>>

SyncService ==
    /\ seenSvc # svc
    /\ seenSvc' = svc
    /\ UNCHANGED <<objects, seenScheme, cloud, metric, queued, pc, locals, bounds>>

EditScheme ==
    /\ scheme # NoScheme /\ edits < MaxEdits
    /\ edits' = edits + 1
    /\ \/ "disable" \in Edits /\ scheme' = [scheme EXCEPT !.enabled = ~@]
       \/ "access" \in Edits /\ \E list \in AccessLists \ {scheme.access} :
            scheme' = [scheme EXCEPT !.access = list]
       \/ /\ "delete" \in Edits /\ ~scheme.deleting
          /\ scheme' = IF scheme.finalizer THEN [scheme EXCEPT !.deleting = TRUE] ELSE NoScheme
    /\ UNCHANGED <<svc, seen, cloud, metric, queued, pc, locals, drift, faults>>

\* The cloud provider makes the Service's load balancer.
Provision ==
    /\ svc # NoService /\ ~svc.deleting /\ ~svc.ingress
    /\ svc' = [svc EXCEPT !.ingress = TRUE]
    /\ lbs' = lbs \cup {svc.uid}
    /\ UNCHANGED <<scheme, seen, dns, metric, queued, pc, locals, bounds>>

\* It has removed the load balancer of a Service that is being deleted.
CleanupService ==
    /\ svc # NoService /\ svc.deleting
    /\ svc' = NoService /\ lbs' = lbs \ {svc.uid}
    /\ UNCHANGED <<scheme, seen, dns, metric, queued, pc, locals, bounds>>

\* Somebody deletes the load balancer, deletes the Service, or changes it.
Drift ==
    /\ svc # NoService /\ ~svc.deleting /\ drift < MaxDrift
    /\ drift' = drift + 1
    /\ \/ svc.uid \in lbs /\ lbs' = lbs \ {svc.uid} /\ UNCHANGED svc
       \/ svc' = Deleted(svc) /\ UNCHANGED lbs
       \/ svc' = [svc EXCEPT !.settings = {}] /\ svc' # svc /\ UNCHANGED lbs
    /\ UNCHANGED <<scheme, seen, dns, metric, queued, pc, locals, edits, faults>>

Environment ==
    SyncScheme \/ SyncService \/ EditScheme \/ Provision \/ CleanupService \/ Drift

-----------------------------------------------------------------------------
Init ==
    /\ scheme = [enabled |-> TRUE, access |-> FirstAccess, finalizer |-> FALSE,
                 deleting |-> FALSE,
                 status |-> [state |-> "", last |-> "none", everReady |-> FALSE]]
    /\ seenScheme = scheme
    /\ svc = NoService /\ seenSvc = NoService
    /\ lbs = {} /\ dns = [z \in Zones |-> NoUID] /\ metric = FALSE
    /\ queued = TRUE /\ pc = "idle" /\ inst = NoScheme /\ found = NoService
    /\ edits = 0 /\ drift = 0 /\ faults = 0

Next == Reconcile \/ NoCloudClient \/ DeleteDNSFails \/ Fault \/ Environment

Fairness ==
    /\ WF_vars(Reconcile) /\ WF_vars(SyncScheme) /\ WF_vars(SyncService)
    /\ WF_vars(Provision) /\ WF_vars(CleanupService)

Spec == Init /\ [][Next]_vars /\ Fairness

\* The waits of longwait and shortwait seconds are long enough in the end: the
\* caches are up to date and the cloud provider is done when a Reconcile begins.
Quiet ==
    /\ seenScheme = scheme /\ seenSvc = svc
    /\ svc # NoService => svc.ingress /\ ~svc.deleting

Patience == <>[][Begin => Quiet]_vars

-----------------------------------------------------------------------------
(* Properties.                                                             *)

Calls ==
    {"addFinalizer", "getService", "create", "updateAccess", "updatePolicy", "updateTimeout",
     "updateTag", "ensureDNS", "upsertFirst", "upsertSecond", "ready", "notReady",
     "ruleDeleted", "deleteService", "getDeleted", "findELB", "deleteFirst", "deleteSecond",
     "removeFinalizer"}

\* Every variable has its type, and a call that follows a copy of the APIScheme or
\* of the Service has one.
TypeOK ==
    /\ scheme \in Scheme \cup {NoScheme} /\ seenScheme \in Scheme \cup {NoScheme}
    /\ svc \in Service \cup {NoService} /\ seenSvc \in Service \cup {NoService}
    /\ lbs \in SUBSET UIDs /\ dns \in [Zones -> UIDs \cup {NoUID}] /\ metric \in BOOLEAN
    /\ queued \in BOOLEAN /\ pc \in Calls \cup {"idle"}
    /\ inst \in Scheme \cup {NoScheme} /\ found \in Service \cup {NoService}
    /\ edits \in 0..MaxEdits /\ drift \in 0..MaxDrift /\ faults \in 0..MaxFaults
    /\ pc # "idle" => inst # NoScheme
    /\ pc \notin {"idle", "addFinalizer", "getService", "create", "getDeleted",
                  "removeFinalizer"} => found # NoService

\* The endpoint is as the APIScheme says: a Service with the access list and the
\* settings, its load balancer, a record in each zone, and the status says so.
Served ==
    /\ svc # NoService /\ ~svc.deleting /\ svc.uid \in lbs
    /\ svc.access = scheme.access /\ svc.settings = Settings
    /\ \A z \in Zones : dns[z] = svc.uid
    /\ scheme.status.state = "Ready" /\ metric

\* The load balancer was not deleted in the cloud before the first success: the
\* AWS path takes that for a load balancer that is still being made.
LostWhenReady ==
    svc # NoService /\ svc.ingress /\ ~svc.deleting /\ svc.uid \notin lbs =>
        scheme # NoScheme /\ scheme.status.everReady

Wanted == scheme # NoScheme /\ scheme.enabled /\ ~scheme.deleting

\* "Reconcile will ensure that the rh-api management api endpoint is created and
\* ready": whatever was edited, drifted, failed or was deleted in the cloud
\* after the first success, an APIScheme that stays wanted is served in the end.
EndpointServed == Patience /\ []LostWhenReady /\ <>[]Wanted => <>[](Wanted /\ Served)

\* The status becomes Ready at the end of many calls, made with copies: when it does, both
\* records name the load balancer of a Service that was read with all settings and with
\* the access list that the APIScheme has at that moment, not one of before an edit.
ReadyTruthful ==
    [][/\ scheme # NoScheme /\ scheme' # NoScheme /\ scheme'.status # scheme.status
       /\ scheme'.status.last = "success"
       => /\ found # NoService /\ found.access = scheme'.access /\ found.settings = Settings
          /\ \A z \in Zones : dns[z] = found.uid]_vars

\* A finalizer holds the APIScheme only until its DNS records are dealt with ("so
\* the CR deletion can proceed"): a deleted APIScheme goes away.
DeletionCompletes == [](scheme # NoScheme /\ scheme.deleting => <>(scheme = NoScheme))

\* "DeleteAdminAPIDNS will ensure that the A record for the admin API (rh-api) is
\* removed": when its finalizer goes after that call, no zone has the record.
DNSRemoved ==
    pc = "removeFinalizer" /\ found # NoService => \A z \in Zones : dns[z] = NoUID
================================================================================
