---------------------------- MODULE APISchemeProofs ----------------------------
(***************************************************************************)
(* Proofs about APIScheme, for every set of access lists, every supply of  *)
(* identities and every bound.                                             *)
(***************************************************************************)
EXTENDS APIScheme, TLAPS

-----------------------------------------------------------------------------
(* The inductive invariant.                                                *)

\* Reconcile has no copy of the Service before it read one.
FoundInv == pc \in {"idle", "addFinalizer", "getService", "create", "getDeleted"} => found = NoService

\* The only load balancer is the Service's.
LbsInv == \A u \in lbs : svc # NoService /\ svc.uid = u

IInv == TypeOK /\ FoundInv /\ LbsInv

\* On GCP both records are gone, one after the other, before the finalizer is.
GoneInv ==
    /\ pc = "deleteSecond" => dns[First] = NoUID
    /\ DNSRemoved

-----------------------------------------------------------------------------
\* Three identities in use leave one to spare.
LEMMA SpareUID ==
    ASSUME NEW t \in UIDs \cup {NoUID}, NEW u \in UIDs \cup {NoUID}, NEW v \in UIDs \cup {NoUID}
    PROVE  \E w \in UIDs : w # t /\ w # u /\ w # v
<1>1. UIDs \ {t, u, v} # {}
  BY UIDsAssumption
<1> QED
  BY <1>1

\* A new Service gets an identity that nothing refers to.
LEMMA UnusedType ==
    ASSUME IInv, svc = NoService, found = NoService
    PROVE  (CHOOSE u \in UnusedUIDs : TRUE) \in UIDs
<1>1. lbs = {}
  BY DEF IInv, LbsInv
<1>2. dns["private"] \in UIDs \cup {NoUID} /\ dns["public"] \in UIDs \cup {NoUID}
  BY DEF IInv, TypeOK, Zones
<1>3. \E v \in UIDs \cup {NoUID} : seenSvc # NoService => seenSvc.uid = v
  <2>1. seenSvc \in Service \cup {NoService}
    BY DEF IInv, TypeOK
  <2>2. CASE seenSvc = NoService
    BY <2>2
  <2>3. CASE seenSvc \in Service
    <3>1. seenSvc.uid \in UIDs
      BY <2>3 DEF Service
    <3> QED
      BY <3>1
  <2> QED
    BY <2>1, <2>2, <2>3
<1>4. PICK v \in UIDs \cup {NoUID} : seenSvc # NoService => seenSvc.uid = v
  BY <1>3
<1>5. PICK u \in UIDs : u # dns["private"] /\ u # dns["public"] /\ u # v
  BY <1>2, <1>4, SpareUID
<1>6. u \in UnusedUIDs
  BY <1>1, <1>4, <1>5 DEF UnusedUIDs, Zones
<1> QED
  BY <1>6 DEF UnusedUIDs

LEMMA SchemeFields ==
    ASSUME NEW s \in Scheme
    PROVE  /\ s.enabled \in BOOLEAN /\ s.access \in AccessLists /\ s.finalizer \in BOOLEAN
           /\ s.deleting \in BOOLEAN /\ s.status \in Status
BY DEF Scheme

\* SetAPISchemeStatus writes a status of the right type, or nothing.
LEMMA StatusType ==
    ASSUME TypeOK, NEW copy \in Scheme, NEW type \in {"", "Ready", "Error"}, NEW message \in Messages,
           SetAPISchemeStatus(copy, type, message)
    PROVE  scheme' \in Scheme \cup {NoScheme}
<1>1. copy.status.everReady \in BOOLEAN
  BY DEF Scheme, Status
<1>2. [state |-> type, last |-> message,
       everReady |-> copy.status.everReady \/ type = "Ready"] \in Status
  BY <1>1 DEF Status
<1>3. WithStatus(copy, type, message) \in Scheme
  BY <1>2 DEF WithStatus, Scheme
<1> QED
  BY <1>3 DEF SetAPISchemeStatus, TypeOK

\* The end of a Reconcile.
LEMMA ReturnShape ==
    ASSUME TypeOK, NEW requeue \in BOOLEAN, Return(requeue)
    PROVE  /\ pc' = "idle" /\ queued' \in BOOLEAN /\ inst' = NoScheme /\ found' = NoService
BY DEF Return, TypeOK

\* Where the copy of the Service leads.
LEMMA ServiceStepType ==
    ASSUME NEW s
    PROVE  /\ s = NoService => ServiceStep(s) = "create"
           /\ s # NoService => ServiceStep(s) \in {"updateAccess", "updatePolicy", "updateTimeout",
                                                   "updateTag", "ensureDNS"}
BY DEF ServiceStep

LEMMA EntryType ==
    ASSUME NEW copy, Entry(copy) # "return"
    PROVE  copy # NoScheme /\ Entry(copy) \in {"getService", "addFinalizer", "getDeleted"}
BY DEF Entry

\* An update keeps the type and the identity of a Service.
LEMMA UpdatedType ==
    ASSUME TypeOK, inst # NoScheme, NEW s \in Service
    PROVE  Updated(s) \in Service /\ Updated(s).uid = s.uid /\ Updated(s) # NoService
<1>1. inst.access \in AccessLists
  BY SchemeFields DEF TypeOK
<1>2. [s EXCEPT !.access = inst.access] \in Service /\ [s EXCEPT !.access = inst.access].uid = s.uid
  BY <1>1 DEF Service
<1>3. ASSUME NEW T \in SUBSET Settings
      PROVE  /\ [s EXCEPT !.settings = s.settings \cup T] \in Service
             /\ [s EXCEPT !.settings = s.settings \cup T].uid = s.uid
  BY <1>3 DEF Service
<1>4. {"policy"} \in SUBSET Settings /\ {"timeout"} \in SUBSET Settings /\ {"tag"} \in SUBSET Settings
  BY DEF Settings
<1>5. CASE pc = "updateAccess"
  BY <1>2, <1>5, NullsAssumption DEF Updated
<1>6. CASE pc # "updateAccess"
  <2>1. \E T \in SUBSET Settings : Updated(s) = [s EXCEPT !.settings = s.settings \cup T]
    BY <1>4, <1>6 DEF Updated
  <2> QED
    BY <1>3, <2>1, NullsAssumption
<1> QED
  BY <1>5, <1>6

LEMMA DeletedType ==
    ASSUME NEW s \in Service \cup {NoService}
    PROVE  /\ Deleted(s) \in Service \cup {NoService}
           /\ s # NoService => Deleted(s) # NoService /\ Deleted(s).uid = s.uid
BY NullsAssumption DEF Deleted, Service

LEMMA TypeInit == Init => IInv
<1> SUFFICES ASSUME Init PROVE IInv
  OBVIOUS
<1>1. scheme \in Scheme
  BY AccessAssumption DEF Init, Scheme, Status, Messages
<1>2. dns \in [Zones -> UIDs \cup {NoUID}]
  BY DEF Init
<1>3. /\ edits \in 0..MaxEdits /\ drift \in 0..MaxDrift /\ faults \in 0..MaxFaults
  <2>1. edits = 0 /\ drift = 0 /\ faults = 0
    BY DEF Init
  <2> QED
    BY <2>1, BoundsAssumption
<1>4. /\ seenScheme = scheme /\ svc = NoService /\ seenSvc = NoService /\ lbs = {}
      /\ metric \in BOOLEAN /\ queued \in BOOLEAN /\ pc = "idle" /\ inst = NoScheme
      /\ found = NoService
  BY DEF Init
<1>5. TypeOK
  BY <1>1, <1>2, <1>3, <1>4 DEF TypeOK
<1>6. FoundInv /\ LbsInv
  BY DEF Init, FoundInv, LbsInv
<1> QED
  BY <1>5, <1>6 DEF IInv

\* One case per call of the Reconcile.
LEMMA ReconcileKeeps == IInv /\ Reconcile => IInv'
<1> SUFFICES ASSUME IInv, Reconcile PROVE IInv'
  OBVIOUS
<1> USE DEF objects, seen, cloud, locals, bounds
<1>a. TypeOK /\ FoundInv /\ LbsInv
  BY DEF IInv
<1>l. ASSUME UNCHANGED lbs, svc # NoService => svc' # NoService /\ svc'.uid = svc.uid
      PROVE  LbsInv'
  BY <1>a, <1>l DEF LbsInv
<1>i. pc # "idle" => inst \in Scheme /\ inst.access \in AccessLists
                     /\ inst.status.state \in {"", "Ready", "Error"}
  BY <1>a DEF TypeOK, Scheme, Status
<1>1. CASE Begin
  <2>1. pc' \in {"idle", "getService", "addFinalizer", "getDeleted"} /\ (pc' # "idle" => inst' # NoScheme)
    BY <1>1, EntryType DEF Begin
  <2>2. inst' \in {inst, seenScheme} /\ UNCHANGED <<objects, seen, cloud, metric, found, bounds>>
        /\ queued' = FALSE /\ pc = "idle"
    BY <1>1 DEF Begin
  <2>3. found = NoService
    BY <1>a, <2>2 DEF FoundInv
  <2>4. TypeOK'
    <3>1. inst' \in Scheme \cup {NoScheme}
      BY <1>a, <2>2 DEF TypeOK
    <3>2. pc' \in Calls \cup {"idle"} /\ queued' \in BOOLEAN
      BY <2>1, <2>2 DEF Calls
    <3> QED
      BY <1>a, <2>1, <2>2, <3>1, <3>2 DEF TypeOK
  <2> QED
    BY <1>l, <2>2, <2>3, <2>4 DEF IInv, FoundInv
<1>2. CASE AddFinalizer
  <2>1. CASE Return(TRUE) /\ UNCHANGED scheme
    <3>1. TypeOK' /\ FoundInv'
      BY <1>a, <1>2, <2>1, ReturnShape DEF AddFinalizer, TypeOK, FoundInv
    <3> QED
      BY <1>2, <1>l, <3>1 DEF AddFinalizer, IInv
  <2>2. CASE /\ scheme' = [inst EXCEPT !.finalizer = TRUE] /\ inst' = scheme'
             /\ pc' = "getService" /\ UNCHANGED <<queued, found>>
    <3>1. [inst EXCEPT !.finalizer = TRUE] \in Scheme
      BY <1>2, <1>i DEF AddFinalizer, Scheme
    <3>2. TypeOK'
      BY <1>a, <1>2, <2>2, <3>1, NullsAssumption DEF AddFinalizer, TypeOK, Calls
    <3>3. FoundInv'
      BY <1>a, <1>2, <2>2 DEF AddFinalizer, FoundInv
    <3> QED
      BY <1>2, <1>l, <3>2, <3>3 DEF AddFinalizer, IInv
  <2> QED
    BY <1>2, <2>1, <2>2 DEF AddFinalizer
<1>3. CASE GetService
  <2>1. pc' = ServiceStep(seenSvc) /\ found' = seenSvc /\ pc = "getService"
        /\ UNCHANGED <<objects, seen, cloud, metric, queued, inst, bounds>>
    BY <1>3 DEF GetService
  <2>2. TypeOK' /\ FoundInv'
    BY <1>a, <2>1, ServiceStepType DEF TypeOK, FoundInv, Calls
  <2> QED
    BY <1>l, <2>1, <2>2 DEF IInv
<1>4. CASE CreateService
  <2>1. pc = "create" /\ Return(TRUE) /\ UNCHANGED <<scheme, seen, cloud, metric, bounds>>
    BY <1>4 DEF CreateService
  <2>2. found = NoService
    BY <1>a, <2>1 DEF FoundInv
  <2>3. svc' \in Service \cup {NoService} /\ (svc # NoService => svc' = svc)
    <3>1. CASE UNCHANGED svc
      BY <1>a, <3>1 DEF TypeOK
    <3>2. CASE svc = NoService /\ svc' = newServiceFor(CHOOSE u \in UnusedUIDs : TRUE)
      BY <1>i, <2>1, <2>2, <3>2, UnusedType DEF newServiceFor, Service
    <3> QED
      BY <1>4, <3>1, <3>2 DEF CreateService
  <2>4. TypeOK' /\ FoundInv'
    BY <1>a, <2>1, <2>3, ReturnShape DEF TypeOK, FoundInv
  <2> QED
    BY <1>l, <2>1, <2>3, <2>4 DEF IInv
<1>5. CASE UpdateService
  <2>1. /\ pc \in {"updateAccess", "updatePolicy", "updateTimeout", "updateTag"}
        /\ UNCHANGED <<scheme, seen, cloud, metric, bounds>>
    BY <1>5 DEF UpdateService
  <2>2. found \in Service /\ inst # NoScheme
    BY <1>a, <2>1 DEF TypeOK
  <2>3. CASE Return(TRUE) /\ UNCHANGED svc
    <3>1. TypeOK' /\ FoundInv'
      BY <1>a, <2>1, <2>3, ReturnShape DEF TypeOK, FoundInv
    <3> QED
      BY <1>l, <2>1, <2>3, <3>1 DEF IInv
  <2>4. CASE svc = found /\ svc' = Updated(found)
    <3>1. svc' \in Service /\ svc' # NoService /\ svc'.uid = svc.uid
      BY <1>a, <2>2, <2>4, UpdatedType
    <3>2. CASE Return(TRUE)
      <4>1. TypeOK' /\ FoundInv'
        BY <1>a, <2>1, <3>1, <3>2, ReturnShape DEF TypeOK, FoundInv
      <4> QED
        BY <1>l, <2>1, <3>1, <4>1 DEF IInv
    <3>3. CASE found' = svc' /\ pc' = ServiceStep(svc') /\ UNCHANGED <<queued, inst>>
      <4>1. pc' \in {"updateAccess", "updatePolicy", "updateTimeout", "updateTag", "ensureDNS"}
        BY <3>1, <3>3, ServiceStepType
      <4>2. TypeOK' /\ FoundInv'
        BY <1>a, <2>1, <2>2, <3>1, <3>3, <4>1 DEF TypeOK, FoundInv, Calls
      <4> QED
        BY <1>l, <2>1, <3>1, <4>2 DEF IInv
    <3> QED
      BY <1>5, <2>4, <3>2, <3>3 DEF UpdateService
  <2> QED
    BY <1>5, <2>3, <2>4 DEF UpdateService
<1>6. CASE EnsureDNS
  <2>1. pc = "ensureDNS" /\ pc' \in {"upsertFirst", "notReady", "ruleDeleted"}
        /\ faults' \in 0..MaxFaults
        /\ UNCHANGED <<objects, seen, cloud, metric, queued, locals, edits, drift>>
    BY <1>6, <1>a, BoundsAssumption DEF EnsureDNS, EnsureVerdict, TypeOK
  <2>2. TypeOK' /\ FoundInv'
    BY <1>a, <2>1 DEF TypeOK, FoundInv, Calls
  <2> QED
    BY <1>l, <2>1, <2>2 DEF IInv
<1>7. CASE UpsertFirst \/ UpsertSecond
  <2>1. pc' \in {"upsertSecond", "ready"} /\ pc \in {"upsertFirst", "upsertSecond"}
        /\ UNCHANGED <<objects, seen, lbs, metric, queued, locals, bounds>>
    BY <1>7 DEF UpsertFirst, UpsertSecond
  <2>2. found.uid \in UIDs
    BY <1>a, <2>1 DEF TypeOK, Service
  <2>3. dns' \in [Zones -> UIDs \cup {NoUID}]
    BY <1>7, <1>a, <2>2 DEF UpsertFirst, UpsertSecond, TypeOK
  <2>4. TypeOK' /\ FoundInv'
    BY <1>a, <2>1, <2>3 DEF TypeOK, FoundInv, Calls
  <2> QED
    BY <1>l, <2>1, <2>4 DEF IInv
<1>8. CASE Ready
  <2>1. /\ pc = "ready" /\ SetAPISchemeStatus(inst, "Ready", "success") /\ metric' \in BOOLEAN
        /\ Return(TRUE) /\ UNCHANGED <<svc, seen, cloud, bounds>>
    BY <1>8 DEF Ready, SetAPISchemeStatusMetric
  <2>2. scheme' \in Scheme \cup {NoScheme}
    BY <1>a, <1>i, <2>1, StatusType DEF Messages
  <2>3. TypeOK' /\ FoundInv'
    BY <1>a, <2>1, <2>2, ReturnShape DEF TypeOK, FoundInv
  <2> QED
    BY <1>l, <2>1, <2>3 DEF IInv
<1>9. CASE NotReady
  <2>1. pc = "notReady" /\ metric' \in BOOLEAN /\ UNCHANGED <<svc, seen, cloud, bounds>>
    BY <1>9 DEF NotReady, SetAPISchemeStatusMetric
  <2>2. CASE SetAPISchemeStatus(inst, "Error", "lbNotReady") /\ Return(TRUE)
    <3>1. scheme' \in Scheme \cup {NoScheme}
      BY <1>a, <1>i, <2>1, <2>2, StatusType DEF Messages
    <3>2. TypeOK' /\ FoundInv'
      BY <1>a, <2>1, <2>2, <3>1, ReturnShape DEF TypeOK, FoundInv
    <3> QED
      BY <1>l, <2>1, <3>2 DEF IInv
  <2>3. CASE /\ SetAPISchemeStatus(inst, "Error", "lbDeleted")
             /\ pc' = "deleteService" /\ UNCHANGED <<queued, locals>>
    <3>1. scheme' \in Scheme \cup {NoScheme}
      BY <1>a, <1>i, <2>1, <2>3, StatusType DEF Messages
    <3>2. TypeOK' /\ FoundInv'
      BY <1>a, <2>1, <2>3, <3>1 DEF TypeOK, FoundInv, Calls
    <3> QED
      BY <1>l, <2>1, <3>2 DEF IInv
  <2> QED
    BY <1>9, <2>2, <2>3 DEF NotReady
<1>10. CASE RuleDeleted
  <2>1. /\ pc = "ruleDeleted" /\ pc' = "deleteService"
        /\ SetAPISchemeStatus(inst, "Error", "ruleDeleted")
        /\ UNCHANGED <<svc, seen, cloud, metric, queued, locals, bounds>>
    BY <1>10 DEF RuleDeleted
  <2>2. scheme' \in Scheme \cup {NoScheme}
    BY <1>a, <1>i, <2>1, StatusType DEF Messages
  <2>3. TypeOK' /\ FoundInv'
    BY <1>a, <2>1, <2>2 DEF TypeOK, FoundInv, Calls
  <2> QED
    BY <1>l, <2>1, <2>3 DEF IInv
<1>11. CASE DeleteService
  <2>1. svc' = Deleted(svc) /\ Return(TRUE) /\ UNCHANGED <<scheme, seen, cloud, metric, bounds>>
    BY <1>11 DEF DeleteService
  <2>2. svc' \in Service \cup {NoService} /\ (svc # NoService => svc' # NoService /\ svc'.uid = svc.uid)
    BY <1>a, <2>1, DeletedType DEF TypeOK
  <2>3. TypeOK' /\ FoundInv'
    BY <1>a, <2>1, <2>2, ReturnShape DEF TypeOK, FoundInv
  <2> QED
    BY <1>l, <2>1, <2>2, <2>3 DEF IInv
<1>12. CASE GetDeleted
  <2>1. pc = "getDeleted" /\ found' = seenSvc /\ pc' = DeletedStep(seenSvc)
        /\ UNCHANGED <<objects, seen, cloud, metric, queued, inst, bounds>>
    BY <1>12 DEF GetDeleted
  <2>2. /\ pc' \in {"removeFinalizer", "findELB", "deleteFirst"}
        /\ pc' # "removeFinalizer" => seenSvc # NoService
    BY <2>1 DEF DeletedStep
  <2>3. TypeOK' /\ FoundInv'
    BY <1>a, <2>1, <2>2 DEF TypeOK, FoundInv, Calls
  <2> QED
    BY <1>l, <2>1, <2>3 DEF IInv
<1>13. CASE FindELB
  <2>1. pc = "findELB" /\ UNCHANGED <<svc, seen, cloud, bounds>>
    BY <1>13 DEF FindELB
  <2>2. CASE pc' = "deleteFirst" /\ UNCHANGED <<scheme, metric, queued, locals>>
    <3>1. TypeOK' /\ FoundInv'
      BY <1>a, <2>1, <2>2 DEF TypeOK, FoundInv, Calls
    <3> QED
      BY <1>l, <2>1, <3>1 DEF IInv
  <2>3. CASE SetAPISchemeStatus(inst, "Error", "lbNotReady") /\ metric' \in BOOLEAN /\ Return(TRUE)
    <3>1. scheme' \in Scheme \cup {NoScheme}
      BY <1>a, <1>i, <2>1, <2>3, StatusType DEF Messages
    <3>2. TypeOK' /\ FoundInv'
      BY <1>a, <2>1, <2>3, <3>1, ReturnShape DEF TypeOK, FoundInv
    <3> QED
      BY <1>l, <2>1, <3>2 DEF IInv
  <2> QED
    BY <1>13, <2>2, <2>3 DEF FindELB, SetAPISchemeStatusMetric
<1>14. CASE DeleteFirst \/ DeleteSecond
  <2>1. pc' \in {"deleteSecond", "removeFinalizer"} /\ pc \in {"deleteFirst", "deleteSecond"}
        /\ UNCHANGED <<objects, seen, lbs, metric, queued, locals, bounds>>
    BY <1>14 DEF DeleteFirst, DeleteSecond
  <2>2. \A r \in UIDs \cup {NoUID} : WithoutRecord(r) \in UIDs \cup {NoUID}
    BY DEF WithoutRecord
  <2>3. First \in Zones /\ Second \in Zones
    BY DEF First, Second, Zones
  <2>4. dns' \in [Zones -> UIDs \cup {NoUID}]
    BY <1>14, <1>a, <2>2, <2>3 DEF DeleteFirst, DeleteSecond, TypeOK
  <2>5. TypeOK' /\ FoundInv'
    BY <1>a, <2>1, <2>4 DEF TypeOK, FoundInv, Calls
  <2> QED
    BY <1>l, <2>1, <2>5 DEF IInv
<1>15. CASE RemoveFinalizer
  <2>1. scheme' \in {NoScheme, scheme} /\ Return(TRUE) /\ UNCHANGED <<svc, seen, cloud, metric, bounds>>
    BY <1>15 DEF RemoveFinalizer
  <2>2. TypeOK' /\ FoundInv'
    BY <1>a, <2>1, ReturnShape DEF TypeOK, FoundInv
  <2> QED
    BY <1>l, <2>1, <2>2 DEF IInv
<1> QED
  BY <1>1, <1>2, <1>3, <1>4, <1>5, <1>6, <1>7, <1>8, <1>9, <1>10, <1>11, <1>12, <1>13,
     <1>14, <1>15 DEF Reconcile

\* Failed calls, and everyone else.
LEMMA OthersKeep ==
    IInv /\ (NoCloudClient \/ DeleteDNSFails \/ Fault \/ Environment \/ UNCHANGED vars) => IInv'
<1> SUFFICES ASSUME IInv, NoCloudClient \/ DeleteDNSFails \/ Fault \/ Environment \/ UNCHANGED vars
             PROVE  IInv'
  OBVIOUS
<1> USE BoundsAssumption DEF objects, seen, cloud, locals, bounds
<1>a. TypeOK /\ FoundInv /\ LbsInv
  BY DEF IInv
<1>l. ASSUME UNCHANGED lbs, svc # NoService => svc' # NoService /\ svc'.uid = svc.uid
      PROVE  LbsInv'
  BY <1>a, <1>l DEF LbsInv
<1>1. CASE NoCloudClient \/ DeleteDNSFails
  <2>1. /\ Return(TRUE) /\ metric' \in BOOLEAN /\ faults' \in 0..MaxFaults
        /\ UNCHANGED <<svc, seen, cloud, edits, drift>>
    <3>1. faults < MaxFaults /\ faults' = faults + 1
      BY <1>1 DEF NoCloudClient, DeleteDNSFails
    <3>2. faults' \in 0..MaxFaults
      BY <1>a, <3>1 DEF TypeOK
    <3>3. metric' \in BOOLEAN
      BY <1>1 DEF NoCloudClient, DeleteDNSFails, SetAPISchemeStatusMetric
    <3>4. Return(TRUE) /\ UNCHANGED <<svc, seen, cloud, edits, drift>>
      BY <1>1 DEF NoCloudClient, DeleteDNSFails
    <3> QED
      BY <3>2, <3>3, <3>4
  <2>2. scheme' \in Scheme \cup {NoScheme}
    <3>1. CASE NoCloudClient
      <4>1. seenScheme \in Scheme
        BY <1>a, <3>1, EntryType DEF NoCloudClient, TypeOK
      <4> QED
        BY <1>a, <3>1, <4>1, StatusType DEF NoCloudClient, Messages
    <3>2. CASE DeleteDNSFails
      <4>1. inst \in Scheme
        BY <1>a, <3>2 DEF DeleteDNSFails, TypeOK
      <4> QED
        BY <1>a, <3>2, <4>1, StatusType DEF DeleteDNSFails, Messages
    <3> QED
      BY <1>1, <3>1, <3>2
  <2>3. TypeOK' /\ FoundInv'
    BY <1>a, <2>1, <2>2, ReturnShape DEF TypeOK, FoundInv
  <2> QED
    BY <1>l, <2>1, <2>3 DEF IInv
<1>2. CASE Fault
  <2>0. /\ Return(TRUE) /\ faults < MaxFaults /\ faults' = faults + 1
        /\ UNCHANGED <<objects, seen, cloud, metric, edits, drift>>
    BY <1>2 DEF Fault
  <2>2. faults' \in 0..MaxFaults
    BY <1>a, <2>0 DEF TypeOK
  <2>3. pc' = "idle" /\ queued' \in BOOLEAN /\ inst' = NoScheme /\ found' = NoService
    BY <1>a, <2>0, ReturnShape
  <2>1. TypeOK' /\ FoundInv'
    BY <1>a, <2>0, <2>2, <2>3 DEF TypeOK, FoundInv
  <2> QED
    BY <1>2, <1>l, <2>1 DEF Fault, IInv
<1>3. CASE SyncScheme \/ SyncService
  <2>1. TypeOK' /\ FoundInv'
    BY <1>3, <1>a DEF SyncScheme, SyncService, TypeOK, FoundInv
  <2> QED
    BY <1>3, <1>l, <2>1 DEF SyncScheme, SyncService, IInv
<1>4. CASE EditScheme
  <2>1. scheme \in Scheme /\ edits' \in 0..MaxEdits
        /\ UNCHANGED <<svc, seen, cloud, metric, queued, pc, locals, drift, faults>>
    BY <1>4, <1>a DEF EditScheme, TypeOK
  <2>2. /\ [scheme EXCEPT !.enabled = ~scheme.enabled] \in Scheme
        /\ \A list \in AccessLists : [scheme EXCEPT !.access = list] \in Scheme
        /\ [scheme EXCEPT !.deleting = TRUE] \in Scheme
    BY <2>1, SchemeFields DEF Scheme
  <2>3. scheme' \in Scheme \cup {NoScheme}
    BY <1>4, <2>2 DEF EditScheme
  <2>4. TypeOK' /\ FoundInv'
    BY <1>a, <2>1, <2>3 DEF TypeOK, FoundInv
  <2> QED
    BY <1>l, <2>1, <2>4 DEF IInv
<1>5. CASE Provision
  <2>1. svc \in Service /\ UNCHANGED <<scheme, seen, dns, metric, queued, pc, locals, bounds>>
    BY <1>5, <1>a DEF Provision, TypeOK
  <2>2. svc' \in Service /\ svc'.uid = svc.uid /\ svc.uid \in UIDs /\ svc' # NoService
    BY <1>5, <2>1, NullsAssumption DEF Provision, Service
  <2>3. lbs' \in SUBSET UIDs /\ LbsInv'
    BY <1>5, <1>a, <2>2 DEF Provision, TypeOK, LbsInv
  <2>4. TypeOK' /\ FoundInv'
    BY <1>a, <2>1, <2>2, <2>3 DEF TypeOK, FoundInv
  <2> QED
    BY <2>3, <2>4 DEF IInv
<1>6. CASE CleanupService
  <2>1. lbs' = {} /\ svc' = NoService
        /\ UNCHANGED <<scheme, seen, dns, metric, queued, pc, locals, bounds>>
    BY <1>6, <1>a DEF CleanupService, LbsInv
  <2> QED
    BY <1>a, <2>1 DEF IInv, TypeOK, FoundInv, LbsInv
<1>7. CASE Drift
  <2>1. /\ svc \in Service /\ drift' \in 0..MaxDrift /\ lbs' \subseteq lbs
        /\ UNCHANGED <<scheme, seen, dns, metric, queued, pc, locals, edits, faults>>
    BY <1>7, <1>a DEF Drift, TypeOK
  <2>2. [svc EXCEPT !.settings = {}] \in Service /\ [svc EXCEPT !.settings = {}].uid = svc.uid
    BY <2>1 DEF Service
  <2>3. svc' \in Service \cup {NoService} /\ svc' # NoService /\ svc'.uid = svc.uid
    BY <1>7, <2>1, <2>2, DeletedType, NullsAssumption DEF Drift
  <2>4. TypeOK' /\ FoundInv' /\ LbsInv'
    BY <1>a, <2>1, <2>3 DEF TypeOK, FoundInv, LbsInv
  <2> QED
    BY <2>4 DEF IInv
<1>8. CASE UNCHANGED vars
  BY <1>8, <1>a DEF vars, IInv, TypeOK, FoundInv, LbsInv
<1> QED
  BY <1>1, <1>2, <1>3, <1>4, <1>5, <1>6, <1>7, <1>8 DEF Environment

\* The invariant holds in every reachable state.
LEMMA Invariant == Spec => []IInv
<1>1. IInv /\ [Next]_vars => IInv'
  BY ReconcileKeeps, OthersKeep DEF Next
<1> QED
  BY TypeInit, <1>1, PTL DEF Spec

\* Every variable of the APIScheme controller's model has its type in every reachable state:
\* a call that follows a copy of the APIScheme or of the Service has one.
THEOREM TypeCorrect == Spec => []TypeOK
<1>1. IInv => TypeOK
  BY DEF IInv
<1> QED
  BY Invariant, <1>1, PTL

\* On GCP the finalizer of an APIScheme whose Service was found goes only after both zones
\* lost the record, whatever load balancer it named and whatever failed before.
THEOREM DNSSafe ==
    ASSUME Platform = "GCP"
    PROVE  Spec => []DNSRemoved
<1>1. Init => GoneInv
  BY DEF Init, GoneInv, DNSRemoved
<1>2. IInv /\ GoneInv /\ [Next]_vars => GoneInv'
  <2> SUFFICES ASSUME TypeOK, GoneInv, [Next]_vars PROVE GoneInv'
    BY DEF IInv
  <2> USE DEF objects, seen, cloud, locals, bounds
  <2>z. First = "public" /\ Second = "private" /\ Zones = {"private", "public"}
    BY DEF First, Second, Zones
  <2>r. ASSUME pc' \notin {"deleteSecond", "removeFinalizer"} PROVE GoneInv'
    BY <2>r DEF GoneInv, DNSRemoved
  <2>s. ASSUME UNCHANGED <<pc, dns, found>> PROVE GoneInv'
    BY <2>s, <2>z DEF GoneInv, DNSRemoved, First
  <2>1. CASE DeleteFirst
    <3>1. dns'["public"] = NoUID /\ pc' = "deleteSecond"
      BY <2>1, <2>z DEF DeleteFirst, WithoutRecord, TypeOK
    <3> QED
      BY <3>1, <2>z DEF GoneInv, DNSRemoved, First
  <2>2. CASE DeleteSecond
    <3>1. dns'["private"] = NoUID /\ dns'["public"] = NoUID /\ pc' = "removeFinalizer"
      BY <2>2, <2>z DEF DeleteSecond, WithoutRecord, TypeOK, GoneInv
    <3> QED
      BY <3>1, <2>z DEF GoneInv, DNSRemoved
  <2>3. CASE GetDeleted
    <3>1. pc' = "deleteFirst" \/ (pc' = "removeFinalizer" /\ found' = NoService)
      BY <2>3 DEF GetDeleted, DeletedStep
    <3> QED
      BY <3>1, <2>r DEF GoneInv, DNSRemoved
  <2>4. CASE Begin
    <3>1. pc' \notin {"deleteSecond", "removeFinalizer"}
      BY <2>4, EntryType DEF Begin
    <3> QED
      BY <2>r, <3>1
  <2>5. CASE GetService \/ UpdateService
    <3>1. pc' \notin {"deleteSecond", "removeFinalizer"}
      BY <2>5, ServiceStepType DEF GetService, UpdateService, Return
    <3> QED
      BY <2>r, <3>1
  <2>6. CASE \/ AddFinalizer \/ CreateService \/ EnsureDNS \/ UpsertFirst \/ UpsertSecond \/ Ready
             \/ NotReady \/ RuleDeleted \/ DeleteService \/ FindELB \/ RemoveFinalizer
    BY <2>6, <2>r DEF AddFinalizer, CreateService, EnsureDNS, EnsureVerdict, UpsertFirst,
                      UpsertSecond, Ready, NotReady, RuleDeleted, DeleteService, FindELB,
                      RemoveFinalizer, Return
  <2>7. CASE NoCloudClient \/ DeleteDNSFails \/ Fault
    BY <2>7, <2>r DEF NoCloudClient, DeleteDNSFails, Fault, Return
  <2>8. CASE Environment
    BY <2>8, <2>s DEF Environment, SyncScheme, SyncService, EditScheme, Provision,
                      CleanupService, Drift
  <2>9. CASE UNCHANGED vars
    BY <2>9, <2>s DEF vars
  <2> QED
    BY <2>1, <2>2, <2>3, <2>4, <2>5, <2>6, <2>7, <2>8, <2>9 DEF Next, Reconcile
<1>3. GoneInv => DNSRemoved
  BY DEF GoneInv
<1> QED
  BY Invariant, <1>1, <1>2, <1>3, PTL DEF Spec

-----------------------------------------------------------------------------
(* A status of Ready is true when it is written.                           *)

\* From the DNS calls on, Reconcile's copy of the Service is as its copy of the APIScheme
\* wants it, and each record that was made is still the one of that Service.
FitInv ==
    /\ pc \in {"ensureDNS", "upsertFirst", "upsertSecond", "ready"} =>
        found.access = inst.access /\ found.settings = Settings
    /\ pc = "upsertSecond" => dns[First] = found.uid
    /\ pc = "ready" => \A z \in Zones : dns[z] = found.uid

\* ServiceStep lets only a Service pass that is as it should be.
LEMMA FitStep ==
    ASSUME NEW s \in Service, ServiceStep(s) = "ensureDNS"
    PROVE  s.access = inst.access /\ s.settings = Settings
<1>1. s.access = inst.access /\ {"policy", "timeout", "tag"} \subseteq s.settings
  BY DEF ServiceStep
<1>2. s.settings \subseteq Settings
  BY DEF Service
<1> QED
  BY <1>1, <1>2 DEF Settings

LEMMA FitNext == IInv /\ FitInv /\ [Next]_vars => FitInv'
<1> SUFFICES ASSUME TypeOK, FitInv, [Next]_vars PROVE FitInv'
  BY DEF IInv
<1> USE DEF objects, seen, cloud, locals, bounds
<1>r. ASSUME pc' \notin {"ensureDNS", "upsertFirst", "upsertSecond", "ready"} PROVE FitInv'
  BY <1>r DEF FitInv
<1>z. Zones = {First, Second} /\ First # Second /\ dns \in [Zones -> UIDs \cup {NoUID}]
  BY PlatformAssumption DEF Zones, First, Second, TypeOK
<1>1. CASE Begin
  BY <1>1, <1>r, EntryType DEF Begin
<1>2. CASE GetService
  <2>1. found' = seenSvc /\ pc' = ServiceStep(seenSvc) /\ UNCHANGED inst
    BY <1>2 DEF GetService
  <2>2. pc' # "ensureDNS" => FitInv'
    BY <1>r, <2>1, ServiceStepType
  <2>3. ASSUME pc' = "ensureDNS" PROVE found'.access = inst'.access /\ found'.settings = Settings
    <3>1. seenSvc \in Service
      BY <2>1, <2>3, ServiceStepType DEF TypeOK
    <3> QED
      BY <2>1, <2>3, <3>1, FitStep
  <2> QED
    BY <2>2, <2>3 DEF FitInv
<1>3. CASE UpdateService
  <2>1. CASE pc' = "idle"
    BY <1>r, <2>1
  <2>2. CASE found' = svc' /\ pc' = ServiceStep(svc') /\ svc' = Updated(found) /\ UNCHANGED inst
    <3>1. svc' \in Service /\ svc' # NoService
      BY <1>3, <2>2, UpdatedType DEF UpdateService, TypeOK
    <3>2. pc' # "ensureDNS" => FitInv'
      BY <1>r, <2>2, <3>1, ServiceStepType
    <3>3. ASSUME pc' = "ensureDNS" PROVE found'.access = inst'.access /\ found'.settings = Settings
      BY <2>2, <3>1, <3>3, FitStep
    <3> QED
      BY <3>2, <3>3 DEF FitInv
  <2> QED
    BY <1>3, <2>1, <2>2 DEF UpdateService, Return
<1>4. CASE EnsureDNS
  <2>1. /\ pc = "ensureDNS" /\ pc' \in {"upsertFirst", "notReady", "ruleDeleted"}
        /\ UNCHANGED <<inst, found>>
    BY <1>4 DEF EnsureDNS, EnsureVerdict
  <2> QED
    BY <2>1 DEF FitInv
<1>5. CASE UpsertFirst
  <2>1. /\ pc = "upsertFirst" /\ pc' = "upsertSecond" /\ UNCHANGED <<inst, found>>
        /\ dns'[First] = found.uid
    BY <1>5, <1>z DEF UpsertFirst
  <2> QED
    BY <2>1 DEF FitInv, First
<1>6. CASE UpsertSecond
  <2>1. /\ pc = "upsertSecond" /\ pc' = "ready" /\ UNCHANGED <<inst, found>>
        /\ dns'[Second] = found.uid /\ dns'[First] = dns[First]
    BY <1>6, <1>z DEF UpsertSecond
  <2>2. \A z \in Zones : dns'[z] = found'.uid
    BY <1>z, <2>1 DEF FitInv
  <2> QED
    BY <2>1, <2>2 DEF FitInv
<1>7. CASE AddFinalizer \/ CreateService \/ Ready \/ NotReady \/ RuleDeleted \/ DeleteService
  BY <1>7, <1>r DEF AddFinalizer, CreateService, Ready, NotReady, RuleDeleted, DeleteService, Return
<1>8. CASE GetDeleted \/ FindELB \/ DeleteFirst \/ DeleteSecond \/ RemoveFinalizer
  BY <1>8, <1>r DEF GetDeleted, DeletedStep, FindELB, DeleteFirst, DeleteSecond, RemoveFinalizer,
                    Return
<1>9. CASE NoCloudClient \/ DeleteDNSFails \/ Fault
  BY <1>9, <1>r DEF NoCloudClient, DeleteDNSFails, Fault, Return
<1>10. CASE Environment \/ UNCHANGED vars
  <2>1. UNCHANGED <<pc, inst, found, dns>>
    BY <1>10 DEF Environment, SyncScheme, SyncService, EditScheme, Provision, CleanupService, Drift,
                 vars
  <2> QED
    BY <2>1 DEF FitInv, First
<1> QED
  BY <1>1, <1>2, <1>3, <1>4, <1>5, <1>6, <1>7, <1>8, <1>9, <1>10 DEF Next, Reconcile

\* Only Ready writes a status of success; what else the controller writes is an error, and
\* whoever edits the APIScheme leaves its status alone.
LEMMA OnlyReady ==
    ASSUME TypeOK, Next, scheme # NoScheme, scheme' # NoScheme, scheme'.status # scheme.status,
           scheme'.status.last = "success"
    PROVE  Ready
<1> USE DEF objects
<1>0. scheme \in Scheme /\ scheme' # scheme
  BY DEF TypeOK
<1>1. ASSUME NEW copy \in Scheme, NEW type \in {"", "Ready", "Error"}, NEW message \in Messages,
             message # "success", SetAPISchemeStatus(copy, type, message)
      PROVE  FALSE
  <2>1. scheme' = WithStatus(copy, type, message)
    BY <1>0, <1>1 DEF SetAPISchemeStatus
  <2>2. scheme'.status.last = message
    BY <2>1 DEF WithStatus, Scheme
  <2> QED
    BY <1>1, <2>2
<1>2. ASSUME NoCloudClient PROVE FALSE
  <2>1. seenScheme \in Scheme
    BY <1>2, EntryType DEF NoCloudClient, TypeOK
  <2> QED
    BY <1>1, <1>2, <2>1 DEF NoCloudClient, Messages
<1>3. ASSUME NotReady \/ RuleDeleted \/ FindELB \/ DeleteDNSFails PROVE FALSE
  <2>1. inst \in Scheme
    BY <1>3 DEF NotReady, RuleDeleted, FindELB, DeleteDNSFails, TypeOK
  <2>2. \/ SetAPISchemeStatus(inst, "Error", "lbNotReady") \/ SetAPISchemeStatus(inst, "Error", "lbDeleted")
        \/ SetAPISchemeStatus(inst, "Error", "ruleDeleted")
        \/ SetAPISchemeStatus(inst, "Error", "dnsNotDeleted")
    BY <1>0, <1>3 DEF NotReady, RuleDeleted, FindELB, DeleteDNSFails
  <2> QED
    BY <1>1, <2>1, <2>2 DEF Messages
<1>4. ASSUME AddFinalizer PROVE FALSE
  <2>1. inst = scheme /\ scheme' = [inst EXCEPT !.finalizer = TRUE]
    BY <1>0, <1>4 DEF AddFinalizer
  <2>2. scheme'.status = scheme.status
    BY <1>0, <2>1 DEF Scheme
  <2> QED
    BY <2>2
<1>5. ASSUME EditScheme PROVE FALSE
  <2>1. \/ \E e : scheme' = [scheme EXCEPT !.enabled = e]
        \/ \E list : scheme' = [scheme EXCEPT !.access = list]
        \/ scheme' = [scheme EXCEPT !.deleting = TRUE]
    BY <1>5 DEF EditScheme
  <2>2. scheme'.status = scheme.status
    BY <1>0, <2>1 DEF Scheme
  <2> QED
    BY <2>2
<1>6. ASSUME RemoveFinalizer PROVE FALSE
  BY <1>0, <1>6 DEF RemoveFinalizer
<1>7. ASSUME \/ Begin \/ GetService \/ CreateService \/ UpdateService \/ EnsureDNS \/ UpsertFirst
             \/ UpsertSecond \/ DeleteService \/ GetDeleted \/ DeleteFirst \/ DeleteSecond \/ Fault
      PROVE  FALSE
  BY <1>0, <1>7 DEF Begin, GetService, CreateService, UpdateService, EnsureDNS, UpsertFirst,
                    UpsertSecond, DeleteService, GetDeleted, DeleteFirst, DeleteSecond, Fault
<1>8. ASSUME SyncScheme \/ SyncService \/ Provision \/ CleanupService \/ Drift PROVE FALSE
  BY <1>0, <1>8 DEF SyncScheme, SyncService, Provision, CleanupService, Drift
<1> QED
  BY <1>2, <1>3, <1>4, <1>5, <1>6, <1>7, <1>8 DEF Next, Reconcile, Environment

\* On both platforms, for every supply of edits, drift and faults: the status of an APIScheme
\* turns Ready only with both records at the load balancer of a Service that was read with
\* the settings and with the access list the APIScheme has when the status is written.
THEOREM ReadySafe == Spec => ReadyTruthful
<1>1. Init => FitInv
  BY DEF Init, FitInv
<1>2. IInv /\ FitInv /\ [Next]_vars =>
        [/\ scheme # NoScheme /\ scheme' # NoScheme /\ scheme'.status # scheme.status
         /\ scheme'.status.last = "success"
         => /\ found # NoService /\ found.access = scheme'.access /\ found.settings = Settings
            /\ \A z \in Zones : dns[z] = found.uid]_vars
  <2> SUFFICES ASSUME TypeOK, FitInv, Next, scheme # NoScheme, scheme' # NoScheme,
                      scheme'.status # scheme.status, scheme'.status.last = "success"
               PROVE  /\ found # NoService /\ found.access = scheme'.access
                      /\ found.settings = Settings /\ \A z \in Zones : dns[z] = found.uid
    BY DEF IInv
  <2>1. Ready
    BY OnlyReady
  <2>2. /\ pc = "ready" /\ found # NoService /\ inst \in Scheme
        /\ scheme' = WithStatus(inst, "Ready", "success")
    BY <2>1 DEF Ready, SetAPISchemeStatus, TypeOK
  <2>3. scheme'.access = inst.access
    BY <2>2 DEF WithStatus, Scheme
  <2> QED
    BY <2>2, <2>3 DEF FitInv
<1> QED
  BY <1>1, <1>2, Invariant, FitNext, PTL DEF Spec, ReadyTruthful
================================================================================
