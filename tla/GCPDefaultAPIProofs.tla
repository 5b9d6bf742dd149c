-------------------------- MODULE GCPDefaultAPIProofs --------------------------
(***************************************************************************)
(* Proofs about GCPDefaultAPI, for every set of addresses, masters and     *)
(* goroutines, every number of retries and every bound.                    *)
(***************************************************************************)
EXTENDS GCPDefaultAPI, TLAPS

Reserved == address # NoAddress /\ address.state = "RESERVED"

-----------------------------------------------------------------------------
(* The inductive invariant.                                                *)

\* What the Reconcile knows of the address, the rule and the record at each call; the
\* operator alone takes rules and addresses away, and it does one thing at a time.
CallInv ==
    /\ pc \notin {"insertRule", "publicRecord"} => ip = IntIP
    /\ pc = "reserve" => address = NoAddress
    /\ pc = "getAddress" => Reserved
    /\ pc = "publicRecord" => Exposed /\ Usable
    /\ pc \in {"deleteCPMS", "machines", "privateRecord", "release"} => ~Exposed
    /\ pc = "release" => record = IntIP
    /\ pc = "deleteCPMS" => active

IInv == TypeOK /\ CallInv /\ RecordReserved

-----------------------------------------------------------------------------
\* Every end of a Reconcile resets its locals.
LEMMA ReturnShape ==
    ASSUME NEW requeue, Return(requeue)
    PROVE  /\ pc' = "idle" /\ queued' = (queued \/ requeue)
           /\ ip' = IntIP /\ active' = FALSE /\ masterList' = {} /\ left' = {}
BY DEF Return, ForgetLocals

\* A new goroutine, and one that starts over, is a goroutine before its first Get.
LEMMA FreshType ==
    /\ Fresh \in Goroutine
    /\ \A r \in 0..MaxRetries : [Fresh EXCEPT !.retries = r] \in Goroutine
    /\ Fresh.at = "sleep" /\ \A r : [Fresh EXCEPT !.retries = r].at = "sleep"
BY GoroutinesAssumption DEF Fresh, Goroutine

LEMMA TypeInit == Init => TypeOK
<1> SUFFICES ASSUME Init PROVE TypeOK
  OBVIOUS
<1>1. address \in Address \cup {NoAddress} /\ record \in IPs \cup {IntIP} /\ machines \in SUBSET Masters
  BY DEF Init, Address
<1>2. cpms \in CPMS \cup {NoCPMS} /\ machinesSeen = machines /\ cpmsSeen = cpms
  BY DEF Init, CPMS
<1>3. rule \in {"none", "creating", "up", "deleting"}
  BY DEF Init
<1>4. /\ goroutine \in [Goroutines -> Goroutine \cup {NoGoroutine}]
      /\ \A g \in Goroutines : goroutine[g] = NoGoroutine
  BY DEF Init
<1>5. /\ listening \in Listening /\ queued \in BOOLEAN /\ pc = "idle" /\ ip = IntIP
      /\ active \in BOOLEAN /\ masterList = {} /\ left = {}
      /\ late = 0 /\ edits = 0 /\ faults = 0
  BY DEF Init
<1> QED
  BY <1>1, <1>2, <1>3, <1>4, <1>5, BoundsAssumption DEF TypeOK

\* Being early is counted, within the bound.
LEMMA LateType ==
    ASSUME TypeOK, NEW relies, Counted(relies)
    PROVE  late' \in 0..MaxFaults
BY BoundsAssumption DEF TypeOK, Counted, Troubles

\* A CPMS that is marked for deletion is a CPMS.
LEMMA MarkedType ==
    ASSUME TypeOK, cpms # NoCPMS
    PROVE  [cpms EXCEPT !.deleting = TRUE] \in CPMS
BY DEF TypeOK, CPMS

\* One case per action.
LEMMA TypeNext == TypeOK /\ CallInv /\ [Next]_vars => TypeOK'
<1> SUFFICES ASSUME TypeOK, CallInv, [Next]_vars PROVE TypeOK'
  OBVIOUS
<1> USE BoundsAssumption DEF cloud, cluster, cache, locals, bounds, Troubles
<1>r. ASSUME NEW requeue \in BOOLEAN, Return(requeue)
      PROVE  /\ queued' \in BOOLEAN /\ pc' = "idle" /\ ip' \in IPs \cup {IntIP}
             /\ active' \in BOOLEAN /\ masterList' \in SUBSET Masters /\ left' \in SUBSET Masters
  BY <1>r, ReturnShape DEF TypeOK
<1>s. ASSUME Restart
      PROVE  /\ queued' \in BOOLEAN /\ pc' = "idle" /\ ip' \in IPs \cup {IntIP}
             /\ active' \in BOOLEAN /\ masterList' \in SUBSET Masters /\ left' \in SUBSET Masters
             /\ goroutine' \in [Goroutines -> {NoGoroutine}]
             /\ machinesSeen' = machines /\ cpmsSeen' = cpms
             /\ UNCHANGED <<listening, rule, address, record, machines, cpms>>
  BY <1>s DEF Restart, ForgetLocals
<1>1. CASE PublicList
  BY <1>1 DEF PublicList, TypeOK
<1>2. CASE ListAddresses
  BY <1>2 DEF ListAddresses, TypeOK, Address
<1>3. CASE ReserveIP
  <2>1. address' \in Address /\ address' # NoAddress
    BY <1>3, IPsAssumption DEF ReserveIP, Address
  <2> QED
    BY <1>3, <2>1 DEF ReserveIP, TypeOK
<1>4. CASE GetAddress
  BY <1>4 DEF GetAddress, TypeOK, Address
<1>5. CASE InsertRule
  BY <1>5, <1>r DEF InsertRule, TypeOK
<1>6. CASE PublicRecord
  BY <1>6, <1>r DEF PublicRecord, TypeOK
<1>7. CASE PrivateList
  BY <1>7 DEF PrivateList, TypeOK
<1>8. CASE DeleteRule
  BY <1>8, <1>r DEF DeleteRule, TypeOK
<1>9. CASE DeleteCPMS
  BY <1>9, <1>r, MarkedType DEF DeleteCPMS, TypeOK
<1>10. CASE UpdateMachine
  <2>1. machines' \in SUBSET Masters /\ left' \in SUBSET Masters /\ faults' \in 0..MaxFaults
    BY <1>10 DEF UpdateMachine, Cleaned, TypeOK
  <2>2. /\ goroutine' \in [Goroutines -> Goroutine \cup {NoGoroutine}]
        /\ \A g \in Goroutines : goroutine'[g] = goroutine[g] \/ goroutine'[g] = Fresh
    BY <1>10, FreshType DEF UpdateMachine, StartGoroutine, TypeOK
  <2>3. pc' \in {"machines", "privateRecord"}
        /\ UNCHANGED <<listening, rule, address, record, cpms, machinesSeen, cpmsSeen, queued, ip,
                        active, masterList, late, edits>>
    BY <1>10 DEF UpdateMachine
  <2> QED
    BY <2>1, <2>2, <2>3, FreshType DEF TypeOK
<1>11. CASE PrivateRecord
  BY <1>11, <1>r DEF PrivateRecord, TypeOK
<1>12. CASE ReleaseIP
  <2>1. address' \in Address \cup {NoAddress}
    BY <1>12 DEF ReleaseIP, TypeOK, Address
  <2>2. UNCHANGED <<listening, rule, record, cluster, goroutine, bounds>>
    BY <1>12 DEF ReleaseIP
  <2>3. Return(TRUE) \/ Return(FALSE)
    BY <1>12 DEF ReleaseIP
  <2> QED
    BY <2>1, <2>2, <2>3, <1>r DEF TypeOK
<1>13. ASSUME NEW g \in Goroutines, GetCPMS(g) PROVE TypeOK'
  <2>0. late' \in 0..MaxFaults
    BY <1>13, LateType DEF GetCPMS
  <2>1. CASE cpmsSeen = NoCPMS /\ Restart
    BY <1>13, <2>0, <2>1, <1>s DEF GetCPMS, TypeOK
  <2>2. CASE /\ cpmsSeen # NoCPMS
             /\ goroutine' = [goroutine EXCEPT ![g] = HavingRead(goroutine[g])]
             /\ UNCHANGED <<listening, cloud, cluster, queued, pc, locals>>
    <3>1. HavingRead(goroutine[g]) \in Goroutine /\ HavingRead(goroutine[g]).cpms # NoCPMS
      BY <1>13, <2>2 DEF GetCPMS, HavingRead, TypeOK, Goroutine
    <3>2. /\ goroutine' \in [Goroutines -> Goroutine \cup {NoGoroutine}]
          /\ \A h \in Goroutines : goroutine'[h] = goroutine[h] \/ goroutine'[h].cpms # NoCPMS
      BY <2>2, <3>1 DEF TypeOK
    <3> QED
      BY <1>13, <2>0, <2>2, <3>2 DEF GetCPMS, TypeOK
  <2> QED
    BY <1>13, <2>1, <2>2 DEF GetCPMS
<1>14. ASSUME NEW g \in Goroutines, PatchCPMS(g) PROVE TypeOK'
  <2>1. cpms' \in CPMS \cup {NoCPMS}
    BY <1>14 DEF PatchCPMS, RemainingPools, TypeOK, CPMS
  <2>2. [goroutine[g] EXCEPT !.at = "getAgain", !.cpms = NoCPMS] \in Goroutine
    BY <1>14 DEF PatchCPMS, TypeOK, Goroutine
  <2>3. [goroutine[g] EXCEPT !.at = "getAgain", !.cpms = NoCPMS].at = "getAgain"
    BY <1>14 DEF PatchCPMS, TypeOK, Goroutine
  <2>4. /\ goroutine' \in [Goroutines -> Goroutine \cup {NoGoroutine}]
        /\ \A h \in Goroutines : goroutine'[h] = goroutine[h] \/ goroutine'[h].at = "getAgain"
    BY <1>14, <2>2, <2>3 DEF PatchCPMS, TypeOK
  <2> QED
    BY <1>14, <2>1, <2>4 DEF PatchCPMS, TypeOK
<1>15. ASSUME NEW g \in Goroutines, SetCPMSActive(g) PROVE TypeOK'
  <2>1. cpms' \in CPMS \cup {NoCPMS}
    BY <1>15 DEF SetCPMSActive, TypeOK, CPMS
  <2>2. goroutine[g] \in Goroutine /\ goroutine[g].retries \in 0..MaxRetries
    BY <1>15 DEF SetCPMSActive, TypeOK, Goroutine
  <2>3. AfterFailure(g) \in Goroutine \cup {NoGoroutine}
    BY <2>2, FreshType, GoroutinesAssumption DEF AfterFailure
  <2>4. AfterFailure(g) = NoGoroutine \/ AfterFailure(g).at = "sleep"
    BY FreshType DEF AfterFailure
  <2>5. /\ goroutine' \in [Goroutines -> Goroutine \cup {NoGoroutine}]
        /\ \A h \in Goroutines :
            goroutine'[h] \in {goroutine[h], NoGoroutine} \/ goroutine'[h].at = "sleep"
    BY <1>15, <2>3, <2>4 DEF SetCPMSActive, AfterSuccess, TypeOK
  <2> QED
    BY <1>15, <2>1, <2>5 DEF SetCPMSActive, TypeOK
<1>16. CASE Operations
  <2>1. pc = "getAddress" => address' # NoAddress
    BY <1>16 DEF Operations, RuleCreated, RuleDeleted, IPReleased, CallInv, Reserved
  <2> QED
    BY <1>16, <2>1 DEF Operations, RuleCreated, RuleDeleted, IPReleased, TypeOK
<1>17. CASE Error
  <2>1. Return(TRUE)
    BY <1>17 DEF Error
  <2>2. faults' \in 0..MaxFaults
    BY <1>17 DEF Error, TypeOK
  <2>3. UNCHANGED <<listening, rule, address, record, cluster, goroutine, late, edits>>
    BY <1>17 DEF Error
  <2> QED
    BY <2>1, <2>2, <2>3, <1>r DEF TypeOK
<1>18. CASE Crash
  BY <1>18, <1>s DEF Crash, TypeOK
<1>19. CASE EditStrategy
  BY <1>19, LateType DEF EditStrategy, TypeOK
<1>20. CASE RecreateCPMS
  <2>1. cpms' \in CPMS
    BY <1>20 DEF RecreateCPMS, CPMS
  <2> QED
    BY <1>20, <2>1 DEF RecreateCPMS, TypeOK
<1>21. CASE LoseCPMS
  <2>1. cpms' \in CPMS
    BY <1>21, MarkedType DEF LoseCPMS
  <2> QED
    BY <1>21, <2>1 DEF LoseCPMS, TypeOK
<1>22. CASE FinalizeCPMS
  BY <1>22 DEF FinalizeCPMS, TypeOK
<1>24. CASE SyncCPMS \/ (\E m \in Masters : SyncMachine(m)) \/ Resync
  BY <1>24 DEF SyncCPMS, SyncMachine, Resync, TypeOK
<1>23. CASE UNCHANGED vars
  BY <1>23 DEF vars, TypeOK
<1> QED
  BY <1>1, <1>2, <1>3, <1>4, <1>5, <1>6, <1>7, <1>8, <1>9, <1>10, <1>11, <1>12, <1>13,
     <1>14, <1>15, <1>16, <1>17, <1>18, <1>19, <1>20, <1>21, <1>22, <1>23, <1>24
  DEF Next, Reconcile, Environment, Background

-----------------------------------------------------------------------------
(* The address, the rule and the record.                                   *)

LEMMA CallInit == Init => CallInv /\ RecordReserved
<1> SUFFICES ASSUME Init PROVE CallInv /\ RecordReserved
  OBVIOUS
<1>1. CallInv
  BY DEF Init, CallInv
<1>2. RecordReserved
  <2>1. CASE address \in [ip : IPs, state : {"RESERVED"}] /\ record = address.ip
    BY <2>1, IPsAssumption DEF RecordReserved, Address
  <2>2. CASE record = IntIP
    BY <2>2, IPsAssumption DEF RecordReserved
  <2> QED
    BY <2>1, <2>2 DEF Init
<1> QED
  BY <1>1, <1>2

\* A step that changes none of what the invariant speaks of, or that ends the Reconcile.
LEMMA CallStutters ==
    ASSUME CallInv, RecordReserved, UNCHANGED <<rule, address, record>>,
           UNCHANGED <<pc, ip, active>> \/ (pc' = "idle" /\ ip' = IntIP)
    PROVE  CallInv' /\ RecordReserved'
BY DEF CallInv, RecordReserved, Reserved, Exposed, Usable

LEMMA CallNext ==
    TypeOK /\ CallInv /\ RecordReserved /\ [Next]_vars => CallInv' /\ RecordReserved'
<1> SUFFICES ASSUME TypeOK, CallInv, RecordReserved, [Next]_vars
             PROVE  CallInv' /\ RecordReserved'
  OBVIOUS
<1> USE DEF cloud, cluster, cache, locals, bounds
<1>1. CASE PublicList
  BY <1>1 DEF PublicList, CallInv, RecordReserved
<1>2. CASE ListAddresses
  BY <1>2 DEF ListAddresses, CallInv, RecordReserved
<1>3. CASE ReserveIP
  <2>1. address' # NoAddress /\ address'.state = "RESERVED"
    BY <1>3, IPsAssumption DEF ReserveIP, Address
  <2>2. record \notin IPs
    BY <1>3 DEF ReserveIP, CallInv, RecordReserved
  <2> QED
    BY <1>3, <2>1, <2>2 DEF ReserveIP, CallInv, RecordReserved, Reserved
<1>4. CASE GetAddress
  BY <1>4 DEF GetAddress, CallInv, RecordReserved
<1>5. CASE InsertRule
  <2>1. CASE Usable /\ rule' = "creating" /\ pc' = "publicRecord" /\ UNCHANGED <<ip, address, record>>
    BY <2>1 DEF CallInv, RecordReserved, Usable, Exposed
  <2>2. CASE Return(TRUE) /\ UNCHANGED <<rule, address, record>>
    BY <2>2, ReturnShape, CallStutters
  <2> QED
    BY <1>5, <2>1, <2>2 DEF InsertRule
<1>6. CASE PublicRecord
  <2>1. pc' = "idle" /\ ip' = IntIP /\ UNCHANGED <<rule, address>> /\ record' = ip /\ Usable
    BY <1>6, ReturnShape DEF PublicRecord, CallInv
  <2> QED
    BY <2>1 DEF CallInv, RecordReserved, Usable
<1>7. CASE PrivateList
  BY <1>7 DEF PrivateList, CallInv, RecordReserved, Listed, Exposed
<1>8. CASE DeleteRule
  <2>1. CASE /\ rule' = "deleting" /\ pc' = IF active THEN "deleteCPMS" ELSE "machines"
             /\ UNCHANGED <<ip, active, address, record>> /\ pc = "deleteRule"
    BY <2>1 DEF CallInv, RecordReserved, Exposed
  <2>2. CASE Return(TRUE) /\ UNCHANGED <<rule, address, record>>
    BY <2>2, ReturnShape, CallStutters
  <2> QED
    BY <1>8, <2>1, <2>2 DEF DeleteRule
<1>9. CASE DeleteCPMS
  <2>1. CASE pc = "deleteCPMS" /\ pc' = "machines" /\ UNCHANGED <<ip, rule, address, record>>
    BY <2>1 DEF CallInv, RecordReserved, Exposed
  <2>2. CASE Return(TRUE) /\ UNCHANGED <<rule, address, record>>
    BY <2>2, ReturnShape, CallStutters
  <2> QED
    BY <1>9, <2>1, <2>2 DEF DeleteCPMS
<1>10. CASE UpdateMachine
  BY <1>10 DEF UpdateMachine, CallInv, RecordReserved, Exposed
<1>11. CASE PrivateRecord
  <2>1. CASE /\ pc = "privateRecord" /\ pc' = "release" /\ record' = ip
             /\ UNCHANGED <<ip, rule, address>>
    BY <2>1, IPsAssumption DEF CallInv, RecordReserved, Exposed
  <2>2. CASE Return(FALSE) /\ UNCHANGED <<rule, address, record>>
    BY <2>2, ReturnShape, CallStutters
  <2> QED
    BY <1>11, <2>1, <2>2 DEF PrivateRecord
<1>12. CASE ReleaseIP
  <2>1. pc' = "idle" /\ ip' = IntIP /\ UNCHANGED record /\ record = IntIP
    BY <1>12, ReturnShape DEF ReleaseIP, CallInv
  <2> QED
    BY <2>1, IPsAssumption DEF CallInv, RecordReserved
<1>13. ASSUME NEW g \in Goroutines, Background(g) PROVE CallInv' /\ RecordReserved'
  BY <1>13, CallStutters DEF Background, GetCPMS, PatchCPMS, SetCPMSActive, Restart, ForgetLocals
<1>14. CASE RuleCreated \/ RuleDeleted
  BY <1>14 DEF RuleCreated, RuleDeleted, CallInv, RecordReserved, Reserved, Exposed, Usable
<1>15. CASE IPReleased
  BY <1>15 DEF IPReleased, CallInv, RecordReserved, Reserved, Exposed, Usable
<1>16. CASE Error
  BY <1>16, ReturnShape, CallStutters DEF Error
<1>17. CASE Crash
  BY <1>17, CallStutters DEF Crash, Restart, ForgetLocals
<1>18. CASE EditStrategy \/ FinalizeCPMS \/ RecreateCPMS \/ LoseCPMS
  BY <1>18, CallStutters DEF EditStrategy, FinalizeCPMS, RecreateCPMS, LoseCPMS
<1>20. CASE SyncCPMS \/ (\E m \in Masters : SyncMachine(m)) \/ Resync
  BY <1>20, CallStutters DEF SyncCPMS, SyncMachine, Resync
<1>19. CASE UNCHANGED vars
  BY <1>19, CallStutters DEF vars
<1> QED
  BY <1>1, <1>2, <1>3, <1>4, <1>5, <1>6, <1>7, <1>8, <1>9, <1>10, <1>11, <1>12, <1>13,
     <1>14, <1>15, <1>16, <1>17, <1>18, <1>19, <1>20
  DEF Next, Reconcile, Environment, Operations

-----------------------------------------------------------------------------
\* The invariant holds in every reachable state.
LEMMA Invariant == Spec => []IInv
<1>1. Init => IInv
  BY TypeInit, CallInit DEF IInv
<1>2. IInv /\ [Next]_vars => IInv'
  BY TypeNext, CallNext DEF IInv
<1> QED
  BY <1>1, <1>2, PTL DEF Spec

\* Every variable of the GCP client's model has its type in every reachable state: the
\* Reconcile reads an address only where there is one, and no goroutine patches a CPMS
\* that it has not read.
THEOREM TypeCorrect == Spec => []TypeOK
<1>1. IInv => TypeOK
  BY DEF IInv
<1> QED
  BY Invariant, <1>1, PTL

\* Whatever fails or crashes between the calls of setDefaultAPIPublic and of
\* setDefaultAPIPrivate, api.<cluster-domain> names no address that the cluster gave back.
THEOREM RecordSafe == Spec => []RecordReserved
<1>1. IInv => RecordReserved
  BY DEF IInv
<1> QED
  BY Invariant, <1>1, PTL

-----------------------------------------------------------------------------
(* The refinement of APIScope.                                             *)

\* The end of a Reconcile, without an error and with one, as the promise sees it.
LEMMA ScopeReturn ==
    ASSUME TypeOK, NEW requeue \in BOOLEAN, Return(requeue)
    PROVE  /\ Goal' = "none" /\ (~requeue => queued' = queued) /\ (requeue => queued' = TRUE)
BY ReturnShape DEF Goal, TypeOK

LEMMA GoalOf ==
    /\ pc = "idle" => Goal = "none"
    /\ pc \in {"listAddresses", "reserve", "getAddress", "insertRule", "publicRecord"} =>
        Goal = "external"
    /\ pc \in {"deleteRule", "deleteCPMS", "machines", "privateRecord", "release"} =>
        Goal = "internal"
BY DEF Goal

\* A Reconcile that an error or the end of the process ends comes back.
LEMMA ScopeFails ==
    ASSUME TypeOK, UNCHANGED <<listening, rule, record>>, pc' = "idle", queued' = TRUE
    PROVE  Scope!Fail \/ Scope!Wake
<1>1. Goal' = "none" /\ Exposed' = Exposed
  BY DEF Goal, Exposed
<1>2. CASE Goal = "none"
  BY <1>1, <1>2 DEF Scope!Wake
<1>3. CASE Goal # "none"
  BY <1>1, <1>3 DEF Scope!Fail
<1> QED
  BY <1>2, <1>3

LEMMA ScopeErrs ==
    ASSUME TypeOK, UNCHANGED <<listening, rule, record>>, Return(TRUE)
    PROVE  Scope!Fail \/ Scope!Wake
BY ScopeFails, ReturnShape DEF TypeOK

\* Every step is one of the promise, or none that it sees.
LEMMA ScopeStep == IInv /\ [Next]_vars => [Scope!Next]_(Scope!vars)
<1> SUFFICES ASSUME IInv, [Next]_vars PROVE [Scope!Next]_(Scope!vars)
  OBVIOUS
<1>a. TypeOK /\ CallInv
  BY DEF IInv
<1> USE <1>a DEF cloud, cluster, cache, locals, bounds
<1>s. ASSUME UNCHANGED <<listening, queued, pc, record>>, Exposed' = Exposed
      PROVE  UNCHANGED Scope!vars
  BY <1>s DEF Scope!vars, Goal
<1>g. ASSUME UNCHANGED <<listening, queued, rule, record>>, Goal' = Goal
      PROVE  UNCHANGED Scope!vars
  BY <1>g DEF Scope!vars, Exposed
<1>f. ASSUME Scope!Fail \/ Scope!Wake PROVE Scope!Next
  BY <1>f DEF Scope!Next
<1>1. CASE PublicList
  <2>1. /\ Goal = "none" /\ queued = TRUE /\ queued' = FALSE /\ listening = "external"
        /\ UNCHANGED <<listening, record>> /\ Exposed' = Exposed
    BY <1>1, GoalOf DEF PublicList, Exposed
  <2>2. Goal' = "none" \/ Goal' = listening
    BY <1>1 DEF PublicList, Goal
  <2> QED
    BY <2>1, <2>2 DEF Scope!Next, Scope!Start, Scope!Skip
<1>2. CASE ListAddresses \/ ReserveIP \/ GetAddress
  BY <1>2, <1>g DEF ListAddresses, ReserveIP, GetAddress, Goal
<1>3. CASE InsertRule
  <2>1. CASE Return(TRUE) /\ UNCHANGED <<listening, rule, record>>
    BY <2>1, <1>f, ScopeErrs
  <2>2. CASE /\ pc = "insertRule" /\ rule' = "creating" /\ pc' = "publicRecord"
             /\ UNCHANGED <<listening, queued, record>>
    <3>1. Goal = "external" /\ Goal' = Goal /\ Exposed' = TRUE
      BY <2>2 DEF Goal, Exposed
    <3> QED
      BY <2>2, <3>1 DEF Scope!Next, Scope!Expose
  <2> QED
    BY <1>3, <2>1, <2>2 DEF InsertRule
<1>4. CASE PublicRecord
  <2>1. Goal = "external" /\ Exposed /\ Exposed' = Exposed /\ UNCHANGED listening
    BY <1>4, GoalOf DEF PublicRecord, CallInv, Exposed
  <2>2. Goal' = "none" /\ queued' = queued
    BY <1>4, ScopeReturn DEF PublicRecord
  <2>3. record' \in IPs /\ record' # IntIP
    BY <1>4, IPsAssumption DEF PublicRecord, CallInv, Usable, TypeOK, Address
  <2> QED
    BY <2>1, <2>2, <2>3 DEF Scope!Next, Scope!PointOut
<1>5. CASE PrivateList
  <2>1. /\ Goal = "none" /\ queued = TRUE /\ queued' = FALSE /\ listening = "internal"
        /\ UNCHANGED <<listening, record>> /\ Exposed' = Exposed
    BY <1>5, GoalOf DEF PrivateList, Exposed
  <2>2. Goal' = listening
    BY <1>5 DEF PrivateList, Goal
  <2> QED
    BY <2>1, <2>2 DEF Scope!Next, Scope!Start
<1>6. CASE DeleteRule
  <2>1. CASE Return(TRUE) /\ UNCHANGED <<listening, rule, record>>
    BY <2>1, <1>f, ScopeErrs
  <2>2. CASE /\ pc = "deleteRule" /\ rule' = "deleting" /\ pc' \in {"deleteCPMS", "machines"}
             /\ UNCHANGED <<listening, queued, record>>
    <3>1. Goal = "internal" /\ Goal' = Goal /\ Exposed' = FALSE
      BY <2>2 DEF Goal, Exposed
    <3> QED
      BY <2>2, <3>1 DEF Scope!Next, Scope!Hide
  <2> QED
    BY <1>6, <2>1, <2>2 DEF DeleteRule
<1>7. CASE DeleteCPMS
  <2>1. CASE Return(TRUE) /\ UNCHANGED <<listening, rule, record>>
    BY <2>1, <1>f, ScopeErrs
  <2>2. CASE /\ pc = "deleteCPMS" /\ pc' = "machines"
             /\ UNCHANGED <<listening, queued, rule, record>>
    BY <2>2, <1>g DEF Goal
  <2> QED
    BY <1>7, <2>1, <2>2 DEF DeleteCPMS
<1>8. CASE UpdateMachine
  BY <1>8, <1>g DEF UpdateMachine, Goal
<1>9. CASE PrivateRecord
  <2>1. /\ Goal = "internal" /\ ~Exposed /\ Exposed' = Exposed /\ UNCHANGED listening
        /\ ip = IntIP
    BY <1>9, GoalOf DEF PrivateRecord, CallInv, Exposed
  <2>2. CASE record = ip /\ Return(FALSE) /\ UNCHANGED record
    <3>1. Goal' = "none" /\ queued' = queued
      BY <2>2, ScopeReturn
    <3> QED
      BY <2>1, <2>2, <3>1 DEF Scope!Next, Scope!Finish, Scope!Private
  <2>3. CASE record' = ip /\ pc' = "release" /\ UNCHANGED queued
    <3>1. Goal' = Goal
      BY <2>1, <2>3 DEF Goal
    <3> QED
      BY <2>1, <2>3, <3>1 DEF Scope!Next, Scope!PointIn
  <2> QED
    BY <1>9, <2>2, <2>3 DEF PrivateRecord
<1>10. CASE ReleaseIP
  <2>1. CASE Return(TRUE)
    BY <1>10, <2>1, <1>f, ScopeErrs DEF ReleaseIP
  <2>2. CASE Return(FALSE)
    <3>1. /\ Goal = "internal" /\ ~Exposed /\ Exposed' = Exposed
          /\ UNCHANGED <<listening, record>> /\ record = IntIP
      BY <1>10, GoalOf DEF ReleaseIP, CallInv, Exposed
    <3>2. Goal' = "none" /\ queued' = queued
      BY <2>2, ScopeReturn
    <3> QED
      BY <3>1, <3>2 DEF Scope!Next, Scope!Finish, Scope!Private
  <2> QED
    BY <1>10, <2>1, <2>2 DEF ReleaseIP
<1>11. ASSUME NEW g \in Goroutines, Background(g) PROVE [Scope!Next]_(Scope!vars)
  <2>1. CASE UNCHANGED <<listening, queued, pc, record, rule>>
    BY <2>1, <1>s DEF Exposed
  <2>2. CASE Restart
    BY <2>2, <1>f, ScopeFails DEF Restart
  <2> QED
    BY <1>11, <2>1, <2>2 DEF Background, GetCPMS, PatchCPMS, SetCPMSActive
<1>12. CASE Operations
  BY <1>12, <1>s DEF Operations, RuleCreated, RuleDeleted, IPReleased, Exposed
<1>13. CASE Error
  BY <1>13, <1>f, ScopeErrs DEF Error
<1>14. CASE Crash
  BY <1>14, <1>f, ScopeFails DEF Crash, Restart
<1>15. CASE EditStrategy
  BY <1>15 DEF EditStrategy, Listening, Scope!Next, Scope!Ask, Scope!Scopes, Goal, Exposed
<1>16. CASE Resync
  BY <1>16 DEF Resync, Scope!Next, Scope!Wake, Goal, Exposed
<1>17. CASE \/ FinalizeCPMS \/ RecreateCPMS \/ LoseCPMS \/ SyncCPMS
            \/ \E m \in Masters : SyncMachine(m)
  BY <1>17, <1>s DEF FinalizeCPMS, RecreateCPMS, LoseCPMS, SyncCPMS, SyncMachine, Exposed
<1>18. CASE UNCHANGED vars
  BY <1>18, <1>s DEF vars, Exposed
<1> QED
  BY <1>1, <1>2, <1>3, <1>4, <1>5, <1>6, <1>7, <1>8, <1>9, <1>10, <1>11, <1>12, <1>13,
     <1>14, <1>15, <1>16, <1>17, <1>18
  DEF Next, Reconcile, Environment

\* A public cluster's record names an external address, a private one's the internal.
LEMMA ScopeInit == Init => Scope!Init
<1> SUFFICES ASSUME Init PROVE Scope!Init
  OBVIOUS
<1>1. listening \in Scope!Scopes /\ queued = TRUE /\ Goal = "none"
  BY DEF Init, Listening, Scope!Scopes, Goal
<1>2. CASE rule = "up" /\ record \in IPs
  BY <1>1, <1>2, IPsAssumption DEF Scope!Init, Exposed
<1>3. CASE rule = "none" /\ record = IntIP
  BY <1>1, <1>3 DEF Scope!Init, Exposed
<1> QED
  BY <1>2, <1>3 DEF Init

\* setDefaultAPIPublic and setDefaultAPIPrivate of the GCP client keep the promise of
\* APIScope, for any number of errors, crashes and edits between their calls.
THEOREM ScopeImplemented == Spec => ImplementsScope
BY Invariant, ScopeInit, ScopeStep, PTL DEF Spec, ImplementsScope, Scope!Spec

Promise ==
    INSTANCE APIScopeProofs WITH
        owed <- queued, goal <- Goal, exposed <- Exposed,
        record <- IF record = IntIP THEN "in" ELSE "out"

\* On GCP a Reconcile that ends without an error leaves a private API private, or a
\* request in the queue.
THEOREM SettledSafe == Spec => []InternalSettled
<1>1. Scope!Init => Promise!Init
  BY DEF Scope!Init, Promise!Init, Scope!Scopes, Promise!Scopes
<1>2. [Scope!Next]_(Scope!vars) => [Promise!Next]_(Promise!vars)
  BY DEF Scope!Next, Scope!vars, Scope!Scopes, Scope!Private, Scope!Ask, Scope!Wake, Scope!Start,
         Scope!Skip, Scope!GiveUp, Scope!Expose, Scope!Hide, Scope!PointOut, Scope!PointIn,
         Scope!Finish, Scope!Fail,
         Promise!Next, Promise!vars, Promise!Scopes, Promise!Private, Promise!Ask, Promise!Wake,
         Promise!Start, Promise!Skip, Promise!GiveUp, Promise!Expose, Promise!Hide,
         Promise!PointOut, Promise!PointIn, Promise!Finish, Promise!Fail
<1>3. Promise!Settled => InternalSettled
  BY DEF InternalSettled, Scope!Settled, Promise!Settled, Scope!Private, Promise!Private
<1> QED
  BY <1>1, <1>2, <1>3, ScopeImplemented, Promise!SettledAlways, PTL
  DEF ImplementsScope, Scope!Spec, Promise!Spec

-----------------------------------------------------------------------------
(* One goroutine at a time.                                                *)

Running == \E g \in Goroutines : goroutine[g] # NoGoroutine

\* A CPMS that setDefaultAPIPrivate does not take for active, and one that becomes so.
Off(c) == c = NoCPMS \/ c.state = "Inactive"
Going == Off(cpms) \/ cpms.deleting

\* While a goroutine runs, the CPMS is off or on its way: a Reconcile that reads it either
\* finds it off, or has no rule to delete and so no goroutine to start.
OffInv ==
    /\ \A g, h \in Goroutines : goroutine[g] # NoGoroutine /\ goroutine[h] # NoGoroutine => g = h
    /\ Running => Going
    /\ active /\ pc = "machines" => Going
    /\ Running /\ listening = "internal" =>
        \/ Off(cpms) /\ Off(cpmsSeen)
        \/ ~Exposed /\ Goal # "external"
    /\ active /\ pc \in {"deleteCPMS", "machines"} => ~Running
    /\ active /\ pc = "deleteRule" /\ Running => ~Exposed

\* Nobody takes back what went wrong.
LEMMA TroublesGrow ==
    ASSUME TypeOK, [Next]_vars
    PROVE  (late' = 0 => late = 0) /\ (faults' = 0 => faults = 0)
<1>1. late \in Nat /\ faults \in Nat
  BY BoundsAssumption DEF TypeOK
<1>2. late' \in {late, late + 1} /\ faults' \in {faults, faults + 1}
  <2>1. CASE Reconcile
    BY <2>1 DEF Reconcile, PublicList, ListAddresses, ReserveIP, GetAddress, InsertRule,
                PublicRecord, PrivateList, DeleteRule, DeleteCPMS, UpdateMachine, PrivateRecord,
                ReleaseIP, bounds
  <2>2. CASE Operations \/ Error \/ Crash \/ EditStrategy
    BY <2>2 DEF Operations, RuleCreated, RuleDeleted, IPReleased, Error, Crash, EditStrategy,
                Counted, bounds
  <2>3. CASE \/ FinalizeCPMS \/ RecreateCPMS \/ LoseCPMS \/ SyncCPMS
             \/ (\E m \in Masters : SyncMachine(m)) \/ Resync \/ UNCHANGED vars
    BY <2>3 DEF FinalizeCPMS, RecreateCPMS, LoseCPMS, SyncCPMS, SyncMachine, Resync, vars, bounds
  <2>4. ASSUME NEW g \in Goroutines, Background(g)
        PROVE  late' \in {late, late + 1} /\ faults' \in {faults, faults + 1}
    BY <2>4 DEF Background, GetCPMS, Counted, PatchCPMS, SetCPMSActive
  <2> QED
    BY <2>1, <2>2, <2>3, <2>4 DEF Next, Environment
<1> QED
  BY <1>1, <1>2

\* Who relies on the CPMS and is not counted finds it replaced.
LEMMA InTimeReplaced ==
    ASSUME TypeOK, NEW relies, Counted(relies), relies, late' = 0
    PROVE  Replaced
<1>1. late \in Nat
  BY BoundsAssumption DEF TypeOK
<1> QED
  BY <1>1 DEF Counted

\* Steps that start no goroutine, and after which the CPMS is as much off, and there is as
\* little to delete, as before.
LEMMA OffStutters ==
    ASSUME OffInv, UNCHANGED <<goroutine, listening>>,
           Going => Going', Off(cpms) => Off(cpms)',
           Off(cpms) /\ Off(cpmsSeen) => Off(cpmsSeen)',
           Exposed' => Exposed,
           \/ UNCHANGED <<pc, active>>
           \/ pc' = "idle" /\ active' = FALSE
           \/ pc' \in {"privateRecord", "release"}
           \/ Goal = "external" /\ Goal' = "external"
    PROVE  OffInv'
<1>1. Running' <=> Running
  BY DEF Running
<1>2. UNCHANGED pc => Goal' = Goal
  BY DEF Goal
<1>3. pc' \in {"idle", "privateRecord", "release"} => Goal' # "external"
  BY DEF Goal
<1>4. Goal' = "external" => pc' \notin {"deleteRule", "deleteCPMS", "machines"}
  BY DEF Goal
<1> QED
  BY <1>1, <1>2, <1>3, <1>4 DEF OffInv

\* Without a goroutine there is nothing to show, but for the Reconcile that may start one.
LEMMA OffNone ==
    ASSUME \A g \in Goroutines : goroutine'[g] = NoGoroutine,
           active' /\ pc' = "machines" => Going'
    PROVE  OffInv'
<1>1. ~Running'
  BY DEF Running
<1> QED
  BY <1>1 DEF OffInv

\* The CPMS as it is.
LEMMA OffSame ==
    ASSUME UNCHANGED <<cpms, cpmsSeen>>
    PROVE  Going => Going' /\ (Off(cpms) => Off(cpms)') /\ (Off(cpmsSeen) => Off(cpmsSeen)')
BY DEF Going, Off

LEMMA OffInit == Init => OffInv
<1> SUFFICES ASSUME Init PROVE OffInv
  OBVIOUS
<1>1. pc = "idle" /\ \A g \in Goroutines : goroutine[g] = NoGoroutine
  BY DEF Init
<1> QED
  BY <1>1 DEF OffInv, Running

\* Each step of the Reconcile.
LEMMA OffReconcile ==
    ASSUME IInv, OffInv, Reconcile
    PROVE  OffInv'
<1>0. TypeOK /\ CallInv
  BY DEF IInv
<1>1. CASE PublicList
  <2>1. /\ UNCHANGED <<goroutine, listening, rule, cpms, cpmsSeen, active>>
        /\ listening = "external" /\ pc' \in {"idle", "listAddresses"}
    BY <1>1 DEF PublicList, cloud, cluster, cache, locals
  <2>2. Running' <=> Running
    BY <2>1 DEF Running
  <2> QED
    BY <2>1, <2>2, OffSame DEF OffInv
<1>2. CASE ListAddresses \/ ReserveIP \/ GetAddress
  <2>1. /\ UNCHANGED <<goroutine, listening, rule, cpms, cpmsSeen>>
        /\ Goal = "external" /\ Goal' = "external"
    BY <1>2 DEF ListAddresses, ReserveIP, GetAddress, Goal, cloud, cluster, cache
  <2>2. Exposed' => Exposed
    BY <2>1 DEF Exposed
  <2> QED
    BY <2>1, <2>2, OffSame, OffStutters
<1>3. CASE InsertRule
  <2>1. UNCHANGED <<goroutine, listening, cpms, cpmsSeen>> /\ pc = "insertRule"
    BY <1>3 DEF InsertRule, cluster, cache
  <2>2. CASE Return(TRUE) /\ UNCHANGED rule
    <3>1. Exposed' => Exposed
      BY <2>2 DEF Exposed
    <3> QED
      BY <2>1, <2>2, <3>1, ReturnShape, OffSame, OffStutters
  <2>3. CASE pc' = "publicRecord"
    <3>1. Goal = "external" /\ (Running' <=> Running)
      BY <2>1 DEF Goal, Running
    <3> QED
      BY <2>1, <2>3, <3>1, OffSame DEF OffInv
  <2> QED
    BY <1>3, <2>2, <2>3 DEF InsertRule
<1>4. CASE PublicRecord \/ PrivateRecord \/ ReleaseIP
  <2>1. UNCHANGED <<goroutine, listening, rule, cpms, cpmsSeen>>
    BY <1>4 DEF PublicRecord, PrivateRecord, ReleaseIP, cluster, cache
  <2>2. (pc' = "idle" /\ active' = FALSE) \/ pc' = "release"
    BY <1>4 DEF PublicRecord, PrivateRecord, ReleaseIP, Return, ForgetLocals
  <2>3. Exposed' => Exposed
    BY <2>1 DEF Exposed
  <2> QED
    BY <2>1, <2>2, <2>3, OffSame, OffStutters
<1>5. CASE PrivateList
  <2>1. /\ UNCHANGED <<goroutine, listening, rule, cpms, cpmsSeen>> /\ listening = "internal"
        /\ pc' \in {"deleteRule", "privateRecord"}
        /\ active' = (cpmsSeen # NoCPMS /\ cpmsSeen.state = "Active")
    BY <1>5 DEF PrivateList, cloud, cluster, cache
  <2>2. Running' <=> Running
    BY <2>1 DEF Running
  <2>3. active' => ~Off(cpmsSeen)
    BY <2>1 DEF Off
  <2>4. Goal' # "external" /\ (Exposed' <=> Exposed)
    BY <2>1 DEF Goal, Exposed
  <2> QED
    BY <2>1, <2>2, <2>3, <2>4, OffSame DEF OffInv
<1>6. CASE DeleteRule
  <2>1. UNCHANGED <<goroutine, listening, cpms, cpmsSeen>> /\ pc = "deleteRule"
    BY <1>6 DEF DeleteRule, cluster, cache
  <2>2. CASE Return(TRUE) /\ UNCHANGED rule
    <3>1. Exposed' => Exposed
      BY <2>2 DEF Exposed
    <3> QED
      BY <2>1, <2>2, <3>1, ReturnShape, OffSame, OffStutters
  <2>3. CASE /\ rule = "up" /\ rule' = "deleting" /\ UNCHANGED active
             /\ pc' = IF active THEN "deleteCPMS" ELSE "machines"
    <3>1. Exposed /\ ~Exposed' /\ Goal' # "external"
      BY <2>3 DEF Exposed, Goal
    <3>2. Running' <=> Running
      BY <2>1 DEF Running
    <3> QED
      BY <2>1, <2>3, <3>1, <3>2, OffSame DEF OffInv
  <2> QED
    BY <1>6, <2>2, <2>3 DEF DeleteRule
<1>7. CASE DeleteCPMS
  <2>1. UNCHANGED goroutine /\ pc = "deleteCPMS" /\ active
    BY <1>0, <1>7 DEF DeleteCPMS, CallInv
  <2>2. \A g \in Goroutines : goroutine'[g] = NoGoroutine
    BY <2>1 DEF OffInv, Running
  <2>3. CASE pc' = "idle"
    BY <2>2, <2>3, OffNone
  <2>4. CASE cpms # NoCPMS /\ cpms' = [cpms EXCEPT !.deleting = TRUE]
    <3>1. cpms'.deleting
      BY <1>0, <2>4 DEF TypeOK, CPMS
    <3> QED
      BY <2>2, <3>1, OffNone DEF Going
  <2> QED
    BY <1>7, <2>3, <2>4 DEF DeleteCPMS, Return
<1>8. CASE UpdateMachine
  <2>1. /\ UNCHANGED <<rule, cpms, cpmsSeen, listening, active>> /\ pc = "machines"
        /\ pc' \in {"machines", "privateRecord"}
    BY <1>8 DEF UpdateMachine, cloud, cache
  <2>2. ~Exposed /\ ~Exposed' /\ Goal' # "external"
    BY <1>0, <2>1 DEF CallInv, Exposed, Goal
  <2>3. CASE UNCHANGED goroutine
    <3>1. Running' <=> Running
      BY <2>3 DEF Running
    <3> QED
      BY <2>1, <2>2, <2>3, <3>1, OffSame DEF OffInv
  <2>4. CASE active /\ StartGoroutine /\ pc' = "privateRecord"
    <3>1. \A g \in Goroutines : goroutine[g] = NoGoroutine
      BY <2>1, <2>4 DEF OffInv, Running
    <3>2. PICK g \in Goroutines : goroutine' = [goroutine EXCEPT ![g] = Fresh]
      BY <2>4 DEF StartGoroutine
    <3>3. \A h \in Goroutines : h # g => goroutine'[h] = NoGoroutine
      BY <1>0, <3>1, <3>2 DEF TypeOK
    <3>4. Going'
      BY <2>1, <2>4, OffSame DEF OffInv
    <3> QED
      BY <2>1, <2>2, <2>4, <3>3, <3>4 DEF OffInv
  <2> QED
    BY <1>8, <2>3, <2>4 DEF UpdateMachine, StartGoroutine
<1> QED
  BY <1>1, <1>2, <1>3, <1>4, <1>5, <1>6, <1>7, <1>8 DEF Reconcile

\* Each step of the goroutine: its patches change neither what makes the CPMS off nor what
\* takes it away, and the last one ends the only goroutine.
LEMMA OffBackground ==
    ASSUME IInv, OffInv, NEW g \in Goroutines, Background(g)
    PROVE  OffInv'
<1>0. TypeOK
  BY DEF IInv
<1>e. UNCHANGED <<rule, pc>> => (Exposed' <=> Exposed) /\ Goal' = Goal
  BY DEF Exposed, Goal
<1>1. CASE GetCPMS(g)
  <2>1. CASE Restart
    <3>1. pc' = "idle" /\ \A h \in Goroutines : goroutine'[h] = NoGoroutine
      BY <2>1 DEF Restart
    <3> QED
      BY <3>1, OffNone
  <2>2. CASE /\ goroutine' = [goroutine EXCEPT ![g] = HavingRead(goroutine[g])]
             /\ UNCHANGED <<listening, cloud, cluster, pc, locals>>
    <3>1. UNCHANGED <<listening, rule, cpms, cpmsSeen, pc, active>> /\ goroutine[g] # NoGoroutine
      BY <1>1, <2>2 DEF GetCPMS, cloud, cluster, cache, locals
    <3>2. \A h \in Goroutines : h # g => goroutine'[h] = goroutine[h]
      BY <1>0, <2>2 DEF TypeOK
    <3>3. Running
      BY <3>1 DEF Running
    <3> QED
      BY <1>e, <3>1, <3>2, <3>3, OffSame DEF OffInv
  <2> QED
    BY <1>1, <2>1, <2>2 DEF GetCPMS
<1>2. CASE PatchCPMS(g)
  <2>1. UNCHANGED <<listening, rule, cpmsSeen, pc, active>> /\ goroutine[g] # NoGoroutine
    BY <1>2 DEF PatchCPMS, cloud, cache, locals
  <2>2. \A h \in Goroutines : h # g => goroutine'[h] = goroutine[h]
    BY <1>0, <1>2 DEF PatchCPMS, TypeOK
  <2>3. UNCHANGED cpms \/ (cpms # NoCPMS /\ cpms'.state = cpms.state /\ cpms'.deleting = cpms.deleting)
    BY <1>0, <1>2 DEF PatchCPMS, TypeOK, CPMS
  <2>4. Going => Going' /\ (Off(cpms) => Off(cpms)') /\ (Off(cpmsSeen) => Off(cpmsSeen)')
    BY <2>1, <2>3 DEF Going, Off
  <2>5. Running
    BY <2>1 DEF Running
  <2> QED
    BY <1>e, <2>1, <2>2, <2>4, <2>5 DEF OffInv
<1>3. CASE SetCPMSActive(g)
  <2>1. UNCHANGED <<listening, rule, cpmsSeen, pc, active>> /\ goroutine[g] # NoGoroutine
    BY <1>3 DEF SetCPMSActive, cloud, cache, locals
  <2>2. Running /\ \A h \in Goroutines : h # g => goroutine[h] = NoGoroutine /\ goroutine'[h] = NoGoroutine
    BY <1>0, <1>3, <2>1 DEF SetCPMSActive, TypeOK, OffInv, Running
  <2>3. CASE UNCHANGED cpms
    BY <1>e, <2>1, <2>2, <2>3, OffSame DEF OffInv
  <2>4. CASE goroutine' = [goroutine EXCEPT ![g] = NoGoroutine]
    <3>1. \A h \in Goroutines : goroutine'[h] = NoGoroutine
      BY <1>0, <2>2, <2>4 DEF TypeOK
    <3>2. ~(active' /\ pc' = "machines")
      BY <2>1, <2>2 DEF OffInv
    <3> QED
      BY <3>1, <3>2, OffNone
  <2> QED
    BY <1>3, <2>3, <2>4 DEF SetCPMSActive, AfterSuccess
<1> QED
  BY <1>1, <1>2, <1>3 DEF Background

\* Every step keeps it, as long as nobody was early.
LEMMA OffNext ==
    ASSUME IInv, OffInv, [Next]_vars, late' = 0
    PROVE  OffInv'
<1>0. TypeOK
  BY DEF IInv
<1>e. UNCHANGED rule => (Exposed' <=> Exposed)
  BY DEF Exposed
<1>1. CASE Error
  <2>1. /\ UNCHANGED <<goroutine, listening, rule, cpms, cpmsSeen>>
        /\ pc' = "idle" /\ active' = FALSE
    BY <1>1 DEF Error, Return, ForgetLocals, cloud, cluster, cache
  <2> QED
    BY <1>e, <2>1, OffSame, OffStutters
<1>2. CASE Crash
  <2>1. pc' = "idle" /\ \A h \in Goroutines : goroutine'[h] = NoGoroutine
    BY <1>2 DEF Crash, Restart
  <2> QED
    BY <2>1, OffNone
<1>3. CASE EditStrategy
  <2>1. UNCHANGED <<goroutine, rule, cpms, cpmsSeen, pc, active>>
    BY <1>3 DEF EditStrategy, cloud, cluster, cache, locals
  <2>2. listening' = "internal" => Replaced
    BY <1>0, <1>3, InTimeReplaced DEF EditStrategy
  <2>3. listening' = "internal" /\ Going => Off(cpms)' /\ Off(cpmsSeen)'
    BY <2>1, <2>2 DEF Replaced, Going, Off
  <2>4. Running' <=> Running
    BY <2>1 DEF Running
  <2> QED
    BY <1>e, <2>1, <2>3, <2>4, OffSame DEF OffInv
<1>4. CASE FinalizeCPMS \/ RecreateCPMS
  <2>1. UNCHANGED <<goroutine, listening, rule, cpmsSeen, pc, active>>
    BY <1>4 DEF FinalizeCPMS, RecreateCPMS, cloud, cache, locals
  <2>2. Off(cpms)'
    BY <1>4 DEF FinalizeCPMS, RecreateCPMS, Off
  <2>3. Off(cpmsSeen) => Off(cpmsSeen)'
    BY <2>1 DEF Off
  <2> QED
    BY <1>e, <2>1, <2>2, <2>3, OffStutters DEF Going
<1>5. CASE LoseCPMS
  <2>1. UNCHANGED <<goroutine, listening, rule, cpmsSeen, pc, active>>
    BY <1>5 DEF LoseCPMS, cloud, cache, locals
  <2>2. cpms'.deleting /\ cpms'.state = cpms.state /\ cpms # NoCPMS
    BY <1>0, <1>5 DEF LoseCPMS, TypeOK, CPMS
  <2>3. (Off(cpms) => Off(cpms)') /\ Going' /\ (Off(cpmsSeen) => Off(cpmsSeen)')
    BY <2>1, <2>2 DEF Off, Going
  <2> QED
    BY <1>e, <2>1, <2>3, OffStutters
<1>6. CASE Operations
  <2>1. UNCHANGED <<goroutine, listening, cpms, cpmsSeen, pc, active>> /\ (Exposed' <=> Exposed)
    BY <1>6 DEF Operations, RuleCreated, RuleDeleted, IPReleased, Exposed, cluster, cache, locals
  <2> QED
    BY <2>1, OffSame, OffStutters
<1>7. CASE SyncCPMS
  <2>1. UNCHANGED <<goroutine, listening, rule, cpms, pc, active>> /\ cpmsSeen' = cpms
    BY <1>7 DEF SyncCPMS, cloud, locals
  <2>2. (Going => Going') /\ (Off(cpms) => Off(cpms)') /\ (Off(cpms) => Off(cpmsSeen)')
    BY <2>1 DEF Off, Going
  <2> QED
    BY <1>e, <2>1, <2>2, OffStutters
<1>8. CASE Resync \/ (\E m \in Masters : SyncMachine(m)) \/ UNCHANGED vars
  <2>1. UNCHANGED <<goroutine, listening, rule, cpms, cpmsSeen, pc, active>>
    BY <1>8 DEF Resync, SyncMachine, vars, cloud, cluster, cache, locals
  <2> QED
    BY <1>e, <2>1, OffSame, OffStutters
<1> QED
  BY <1>1, <1>2, <1>3, <1>4, <1>5, <1>6, <1>7, <1>8, OffReconcile, OffBackground
  DEF Next, Environment

LEMMA OffInvariant == Spec => [](late = 0 => OffInv)
<1>1. Init => (late = 0 => OffInv)
  BY OffInit
<1>2. IInv /\ (late = 0 => OffInv) /\ [Next]_vars => (late = 0 => OffInv)'
  <2> SUFFICES ASSUME IInv, late = 0 => OffInv, [Next]_vars, late' = 0 PROVE OffInv'
    OBVIOUS
  <2>1. late = 0
    BY TroublesGrow DEF IInv
  <2> QED
    BY <2>1, OffNext
<1> QED
  BY <1>1, <1>2, Invariant, PTL DEF Spec

\* At most one of the goroutines that getLoadBalancerRemovalFunc starts runs, for any
\* number of edits, failures and crashes, provided that the customer, before making the
\* API private, and the goroutine, before its first Get, give the CPMS the time to be
\* finalized, made again and seen by the cache.
THEOREM SingleGoroutine == Spec => []OneGoroutine
<1>1. (late = 0 => OffInv) => OneGoroutine
  BY DEF OffInv, OneGoroutine
<1> QED
  BY OffInvariant, <1>1, PTL

-----------------------------------------------------------------------------
(* The masters are clean when a goroutine runs.                            *)

\* The list that was read has every master that names the pool, however old the cache is,
\* and those that the loop of removeGCPLBFromMasterMachines has passed are clean; a
\* goroutine starts after the last of them.  An update fails without an error, so all of
\* it holds only as long as no call failed.
PassedInv ==
    /\ Running => machines = {}
    /\ machines \subseteq machinesSeen
    /\ pc \in {"deleteRule", "deleteCPMS", "machines"} => machines \subseteq masterList
    /\ pc = "deleteCPMS" => left = Masters
    /\ pc = "machines" => machines \subseteq left

\* What is left of Next when no step failed.
LEMMA CalmStep ==
    ASSUME TypeOK, [Next]_vars, faults' = 0
    PROVE  /\ faults = 0
           /\ \/ Reconcile \/ Operations \/ EditStrategy \/ FinalizeCPMS \/ RecreateCPMS
              \/ SyncCPMS \/ (\E m \in Masters : SyncMachine(m)) \/ Resync \/ UNCHANGED vars
              \/ \E g \in Goroutines : Background(g)
<1>1. faults = 0 /\ faults' # faults + 1
  BY TroublesGrow
<1>2. ~Error /\ ~Crash /\ ~LoseCPMS
  BY <1>1 DEF Error, Crash, LoseCPMS
<1> QED
  BY <1>1, <1>2 DEF Next, Environment

\* The goroutine's first patch takes the pool out of the template, if its copy names it.
LEMMA PatchShape ==
    ASSUME TypeOK, NEW g \in Goroutines, PatchCPMS(g)
    PROVE  /\ UNCHANGED <<machines, machinesSeen, cpmsSeen, pc, active, masterList, left>>
           /\ goroutine[g] # NoGoroutine /\ goroutine[g].at = "patchPools"
           /\ goroutine'[g] # NoGoroutine /\ goroutine'[g].cpms = NoCPMS
           /\ goroutine'[g].at = "getAgain"
           /\ \A h \in Goroutines : h # g => goroutine'[h] = goroutine[h]
           /\ cpms' # NoCPMS <=> cpms # NoCPMS
           /\ cpms # NoCPMS =>
                /\ cpms'.state = cpms.state /\ cpms'.deleting = cpms.deleting
                /\ cpms'.pool => cpms.pool
                /\ faults' = 0 /\ cpms'.pool => ~goroutine[g].cpms.pool
<1>1. /\ goroutine[g] \in Goroutine /\ goroutine[g].at = "patchPools"
      /\ goroutine[g].cpms \in CPMS /\ goroutine[g] # NoGoroutine
      /\ UNCHANGED <<machines, machinesSeen, cpmsSeen, pc, active, masterList, left>>
  BY DEF PatchCPMS, TypeOK, Goroutine, locals, cache
<1>2. [goroutine[g] EXCEPT !.at = "getAgain", !.cpms = NoCPMS] \in Goroutine
  BY <1>1 DEF Goroutine
<1>3. /\ \A h \in Goroutines : h # g => goroutine'[h] = goroutine[h]
      /\ goroutine'[g] = [goroutine[g] EXCEPT !.at = "getAgain", !.cpms = NoCPMS]
  BY <1>1 DEF PatchCPMS, TypeOK
<1>4. /\ goroutine'[g] # NoGoroutine /\ goroutine'[g].cpms = NoCPMS
      /\ goroutine'[g].at = "getAgain"
  BY <1>1, <1>2, <1>3, GoroutinesAssumption DEF Goroutine
<1>5. CASE cpms # NoCPMS /\ cpms' = [cpms EXCEPT !.pool = RemainingPools(goroutine[g].cpms)]
  <2>1. cpms \in CPMS /\ RemainingPools(goroutine[g].cpms) \in BOOLEAN
    BY <1>1, <1>5 DEF TypeOK, RemainingPools, CPMS
  <2>2. /\ cpms' \in CPMS /\ cpms'.pool = RemainingPools(goroutine[g].cpms)
        /\ cpms'.state = cpms.state /\ cpms'.deleting = cpms.deleting
    BY <1>5, <2>1 DEF CPMS
  <2>3. (cpms'.pool => cpms.pool) /\ (cpms'.pool => ~goroutine[g].cpms.pool)
    BY <2>2 DEF RemainingPools
  <2> QED
    BY <1>1, <1>3, <1>4, <1>5, <2>2, <2>3, MachinesAssumption
<1>6. CASE UNCHANGED cpms /\ (cpms = NoCPMS \/ faults' = faults + 1)
  <2>1. cpms # NoCPMS => faults' # 0
    BY <1>6, BoundsAssumption DEF TypeOK
  <2> QED
    BY <1>1, <1>3, <1>4, <1>6, <2>1
<1> QED
  BY <1>5, <1>6 DEF PatchCPMS

\* A Get takes a copy from the cache.
LEMMA GetShape ==
    ASSUME TypeOK, NEW g \in Goroutines, GetCPMS(g), ~Restart
    PROVE  /\ goroutine[g] # NoGoroutine /\ goroutine[g].at \in {"sleep", "getAgain"}
           /\ cpmsSeen # NoCPMS
           /\ UNCHANGED <<rule, machines, cpms, machinesSeen, cpmsSeen, pc, active, masterList, left>>
           /\ \A h \in Goroutines : h # g => goroutine'[h] = goroutine[h]
           /\ goroutine'[g] # NoGoroutine /\ goroutine'[g].cpms = cpmsSeen
           /\ goroutine'[g].at = IF goroutine[g].at = "sleep" THEN "patchPools" ELSE "setActive"
<1>1. /\ goroutine[g] \in Goroutine /\ goroutine[g].at \in {"sleep", "getAgain"}
      /\ goroutine[g] # NoGoroutine
  BY DEF GetCPMS, TypeOK
<1>2. /\ cpmsSeen # NoCPMS /\ goroutine' = [goroutine EXCEPT ![g] = HavingRead(goroutine[g])]
      /\ UNCHANGED <<rule, machines, cpms, machinesSeen, cpmsSeen, pc, active, masterList, left>>
  BY DEF GetCPMS, cloud, cluster, cache, locals
<1>3. /\ HavingRead(goroutine[g]) \in Goroutine /\ HavingRead(goroutine[g]).cpms = cpmsSeen
      /\ HavingRead(goroutine[g]).at = IF goroutine[g].at = "sleep" THEN "patchPools" ELSE "setActive"
  BY <1>1 DEF TypeOK, HavingRead, Goroutine
<1> QED
  BY <1>1, <1>2, <1>3, GoroutinesAssumption DEF TypeOK

\* The goroutine's second patch keeps the template; a failure starts it over.
LEMMA ActiveShape ==
    ASSUME TypeOK, NEW g \in Goroutines, SetCPMSActive(g)
    PROVE  /\ UNCHANGED <<machines, machinesSeen, cpmsSeen, pc, active, masterList, left>>
           /\ goroutine[g] # NoGoroutine
           /\ \A h \in Goroutines : h # g => goroutine'[h] = goroutine[h]
           /\ goroutine'[g] # NoGoroutine =>
                goroutine'[g].cpms = NoCPMS /\ goroutine'[g].at = "sleep"
           /\ cpms' # NoCPMS <=> cpms # NoCPMS
           /\ cpms # NoCPMS => cpms'.pool = cpms.pool /\ cpms'.deleting = cpms.deleting
<1>1. /\ goroutine[g] \in Goroutine /\ goroutine[g] # NoGoroutine
      /\ UNCHANGED <<machines, machinesSeen, cpmsSeen, pc, active, masterList, left>>
  BY DEF SetCPMSActive, TypeOK, locals, cache
<1>2. /\ cpms' # NoCPMS <=> cpms # NoCPMS
      /\ cpms # NoCPMS => cpms'.pool = cpms.pool /\ cpms'.deleting = cpms.deleting
  BY <1>1, MachinesAssumption DEF SetCPMSActive, TypeOK, CPMS
<1>3. AfterFailure(g) # NoGoroutine =>
            AfterFailure(g).cpms = NoCPMS /\ AfterFailure(g).at = "sleep"
  BY DEF AfterFailure, Fresh
<1>4. /\ \A h \in Goroutines : h # g => goroutine'[h] = goroutine[h]
      /\ goroutine'[g] \in {NoGoroutine, AfterFailure(g)}
  BY <1>1 DEF SetCPMSActive, AfterSuccess, TypeOK
<1> QED
  BY <1>1, <1>2, <1>3, <1>4

\* Steps that concern neither the masters nor a goroutine that was not there, and leave the
\* Reconcile where it is or outside of setDefaultAPIPrivate's loop.
LEMMA PassedStutters ==
    ASSUME PassedInv, UNCHANGED <<machines, machinesSeen>>, Running' => Running,
           \/ UNCHANGED <<pc, masterList, left>>
           \/ pc' \notin {"deleteRule", "deleteCPMS", "machines"}
    PROVE  PassedInv'
BY DEF PassedInv

\* One case per action.
LEMMA PassedNext ==
    ASSUME TypeOK, PassedInv, [Next]_vars, faults' = 0
    PROVE  PassedInv'
<1>c. /\ faults = 0
      /\ \/ Reconcile \/ Operations \/ EditStrategy \/ FinalizeCPMS \/ RecreateCPMS
         \/ SyncCPMS \/ (\E m \in Masters : SyncMachine(m)) \/ Resync \/ UNCHANGED vars
         \/ \E g \in Goroutines : Background(g)
  BY CalmStep
<1>g. UNCHANGED goroutine => (Running' => Running)
  BY DEF Running
<1>1. CASE PublicList \/ ListAddresses \/ ReserveIP \/ GetAddress \/ InsertRule \/ PublicRecord
  <2>1. /\ UNCHANGED <<machines, machinesSeen, goroutine>>
        /\ pc' \notin {"deleteRule", "deleteCPMS", "machines"}
    BY <1>1 DEF PublicList, ListAddresses, ReserveIP, GetAddress, InsertRule, PublicRecord, Return,
                cluster, cache
  <2> QED
    BY <1>g, <2>1, PassedStutters
<1>2. CASE PrivateRecord \/ ReleaseIP
  <2>1. /\ UNCHANGED <<machines, machinesSeen, goroutine>>
        /\ pc' \notin {"deleteRule", "deleteCPMS", "machines"}
    BY <1>2 DEF PrivateRecord, ReleaseIP, Return, cluster, cache
  <2> QED
    BY <1>g, <2>1, PassedStutters
<1>3. CASE PrivateList
  <2>1. /\ UNCHANGED <<machines, machinesSeen, goroutine>> /\ pc' \in {"deleteRule", "privateRecord"}
        /\ masterList' = machinesSeen
    BY <1>3 DEF PrivateList, cluster, cache
  <2> QED
    BY <1>g, <2>1 DEF PassedInv
<1>4. CASE DeleteRule
  <2>1. /\ UNCHANGED <<machines, machinesSeen, goroutine>> /\ pc = "deleteRule"
        /\ \/ pc' = "idle"
           \/ pc' \in {"deleteCPMS", "machines"} /\ left' = Masters /\ UNCHANGED masterList
    BY <1>4 DEF DeleteRule, Return, cluster, cache
  <2> QED
    BY <1>g, <2>1 DEF PassedInv, TypeOK
<1>5. CASE DeleteCPMS
  <2>1. /\ UNCHANGED <<machines, machinesSeen, goroutine>> /\ pc = "deleteCPMS"
        /\ pc' = "idle" \/ (pc' = "machines" /\ UNCHANGED <<left, masterList>>)
    BY <1>5 DEF DeleteCPMS, Return, cache, locals
  <2> QED
    BY <1>g, <2>1 DEF PassedInv, TypeOK
<1>6. CASE UpdateMachine
  <2>1. /\ pc = "machines" /\ UNCHANGED <<machinesSeen, masterList>>
        /\ machines \subseteq masterList /\ machines \subseteq left
    BY <1>6 DEF UpdateMachine, PassedInv, cache
  <2>2. CASE pc' = "machines"
    <3>1. PICK m \in left : machines' = Cleaned(m) /\ left' = left \ {m} /\ UNCHANGED goroutine
      BY <1>c, <1>6, <2>1, <2>2 DEF UpdateMachine
    <3>2. machines' = machines \ {m}
      BY <2>1, <3>1 DEF Cleaned
    <3> QED
      BY <1>g, <2>1, <2>2, <3>1, <3>2 DEF PassedInv
  <2>3. CASE pc' # "machines"
    <3>1. left = {} /\ pc' = "privateRecord" /\ UNCHANGED machines
      BY <1>6, <2>1, <2>3 DEF UpdateMachine
    <3>2. machines' = {}
      BY <2>1, <3>1
    <3> QED
      BY <2>1, <3>1, <3>2 DEF PassedInv
  <2> QED
    BY <2>2, <2>3
<1>7. CASE Operations \/ EditStrategy \/ FinalizeCPMS \/ RecreateCPMS
  <2>1. UNCHANGED <<machines, machinesSeen, goroutine, pc, masterList, left>>
    BY <1>7 DEF Operations, RuleCreated, RuleDeleted, IPReleased, EditStrategy, FinalizeCPMS,
                RecreateCPMS, cluster, cache, locals
  <2> QED
    BY <1>g, <2>1, PassedStutters
<1>8. CASE SyncCPMS \/ Resync \/ UNCHANGED vars
  <2>1. UNCHANGED <<machines, machinesSeen, goroutine, pc, masterList, left>>
    BY <1>8 DEF SyncCPMS, Resync, vars, cluster, cache, locals
  <2> QED
    BY <1>g, <2>1, PassedStutters
<1>9. ASSUME NEW m \in Masters, SyncMachine(m) PROVE PassedInv'
  <2>1. /\ UNCHANGED <<machines, goroutine, pc, masterList, left>>
        /\ machines \subseteq machinesSeen'
    BY <1>9 DEF SyncMachine, PassedInv, locals
  <2> QED
    BY <1>g, <2>1 DEF PassedInv
<1>10. ASSUME NEW g \in Goroutines, Background(g) PROVE PassedInv'
  <2>1. Running
    BY <1>10 DEF Background, GetCPMS, PatchCPMS, SetCPMSActive, Running
  <2>2. CASE Restart
    <3>1. UNCHANGED machines /\ machinesSeen' = machines /\ pc' = "idle"
      BY <2>2 DEF Restart
    <3> QED
      BY <2>1, <3>1 DEF PassedInv
  <2>3. CASE ~Restart
    <3>1. UNCHANGED <<machines, machinesSeen, pc, masterList, left>>
      BY <1>10, <2>3, GetShape, PatchShape, ActiveShape DEF Background
    <3> QED
      BY <2>1, <3>1, PassedStutters
  <2> QED
    BY <2>2, <2>3
<1> QED
  BY <1>c, <1>1, <1>2, <1>3, <1>4, <1>5, <1>6, <1>7, <1>8, <1>9, <1>10 DEF Reconcile

LEMMA PassedInvariant == Spec => [](faults = 0 => PassedInv)
<1>1. Init => (faults = 0 => PassedInv)
  BY DEF Init, PassedInv, Running
<1>2. IInv /\ (faults = 0 => PassedInv) /\ [Next]_vars => (faults = 0 => PassedInv)'
  BY PassedNext, CalmStep DEF IInv
<1> QED
  BY <1>1, <1>2, Invariant, PTL DEF Spec

-----------------------------------------------------------------------------
(* No master is left behind.                                               *)

Clean(c) == c # NoCPMS /\ ~c.pool

\* No Reconcile has begun to make the API private: every master names the pool of a rule
\* that is there or was deleted just now, and nobody touched the CPMS.
Untouched ==
    /\ Exposed \/ pc = "deleteCPMS"
    /\ cpms # NoCPMS => ~cpms.deleting
    /\ cpms = NoCPMS => cpmsSeen = NoCPMS /\ ~active
    /\ machines = Masters

\* A master names the pool only until the Reconcile that deletes the rule has finished; a
\* CPMS, and a cached one, is not clean before that Reconcile has deleted its predecessor,
\* and the cache never hides that the CPMS is not clean.
DirtyInv ==
    /\ machines = {} \/ pc = "machines" \/ Untouched
    /\ Clean(cpms) \/ Clean(cpmsSeen) =>
        machines = {} \/ (pc = "machines" /\ Clean(cpms) /\ ~cpms.deleting)
    /\ cpms # NoCPMS /\ cpms.pool => ~Clean(cpmsSeen)

\* The CPMS of a new cluster names the pool if the masters do.
LEMMA DirtyInit == Init => DirtyInv
<1> SUFFICES ASSUME Init PROVE DirtyInv
  OBVIOUS
<1>1. machines = {} \/ (machines = Masters /\ Exposed)
  BY DEF Init, Exposed
<1>2. /\ cpms # NoCPMS => cpms.deleting = FALSE /\ cpms.pool = (machines # {})
      /\ cpmsSeen = cpms /\ active = FALSE
  BY DEF Init
<1> QED
  BY <1>1, <1>2, MachinesAssumption DEF DirtyInv, Untouched, Clean

\* Steps that touch neither masters nor CPMS, and leave a rule.
LEMMA DirtyStutters ==
    ASSUME DirtyInv, UNCHANGED <<machines, cpms, cpmsSeen>>, Exposed => Exposed',
           \/ UNCHANGED <<pc, active>>
           \/ pc \notin {"deleteCPMS", "machines"} /\ (active' => active)
    PROVE  DirtyInv'
BY DEF DirtyInv, Untouched, Clean

\* Steps that leave clean masters, and as clean a CPMS as there was.
LEMMA DirtyClean ==
    ASSUME DirtyInv, UNCHANGED machines, machines = {},
           cpms' # NoCPMS => cpms # NoCPMS /\ (cpms'.pool => cpms.pool),
           cpmsSeen' = cpmsSeen \/ (cpmsSeen' = cpms /\ UNCHANGED cpms)
    PROVE  DirtyInv'
BY DEF DirtyInv, Clean

\* The rule goes only when the Reconcile goes on to the masters, and only the last of them
\* lets it go on; a panic ends it only when the masters are clean.
LEMMA DirtyNext ==
    ASSUME IInv, PassedInv, DirtyInv, [Next]_vars, faults' = 0
    PROVE  DirtyInv'
<1>0. TypeOK /\ CallInv
  BY DEF IInv
<1>c. /\ faults = 0
      /\ \/ Reconcile \/ Operations \/ EditStrategy \/ FinalizeCPMS \/ RecreateCPMS
         \/ SyncCPMS \/ (\E m \in Masters : SyncMachine(m)) \/ Resync \/ UNCHANGED vars
         \/ \E g \in Goroutines : Background(g)
  BY <1>0, CalmStep
<1>e. UNCHANGED rule => (Exposed' <=> Exposed)
  BY DEF Exposed
<1>1. CASE PublicList \/ ListAddresses \/ ReserveIP \/ GetAddress
  <2>1. /\ UNCHANGED <<rule, machines, cpms, cpmsSeen, active>>
        /\ pc \notin {"deleteCPMS", "machines"}
    BY <1>1 DEF PublicList, ListAddresses, ReserveIP, GetAddress, cloud, cluster, cache, locals
  <2> QED
    BY <1>e, <2>1, DirtyStutters
<1>2. CASE InsertRule
  <2>1. /\ UNCHANGED <<machines, cpms, cpmsSeen>> /\ pc = "insertRule" /\ (active' => active)
        /\ UNCHANGED rule \/ rule' = "creating"
    BY <1>2 DEF InsertRule, Return, ForgetLocals, cluster, cache, locals
  <2>2. Exposed => Exposed'
    BY <2>1 DEF Exposed
  <2> QED
    BY <2>1, <2>2, DirtyStutters
<1>3. CASE PublicRecord \/ PrivateRecord \/ ReleaseIP
  <2>1. /\ UNCHANGED <<rule, machines, cpms, cpmsSeen>> /\ (active' => active)
        /\ pc \notin {"deleteCPMS", "machines"}
    BY <1>3 DEF PublicRecord, PrivateRecord, ReleaseIP, Return, ForgetLocals, cluster, cache, locals
  <2> QED
    BY <1>e, <2>1, DirtyStutters
<1>4. CASE PrivateList
  <2>1. /\ UNCHANGED <<rule, machines, cpms, cpmsSeen>> /\ pc = "idle"
        /\ pc' \in {"deleteRule", "privateRecord"} /\ (active' => cpmsSeen # NoCPMS)
    BY <1>4 DEF PrivateList, cloud, cluster, cache
  <2> QED
    BY <1>e, <2>1 DEF DirtyInv, Untouched, Clean
<1>5. CASE DeleteRule
  <2>1. pc = "deleteRule" /\ UNCHANGED <<machines, cpms, cpmsSeen>>
    BY <1>5 DEF DeleteRule, cluster, cache
  <2>2. CASE rule # "up"
    <3>1. UNCHANGED rule /\ (active' => active)
      BY <1>5, <2>2 DEF DeleteRule, Return, ForgetLocals
    <3> QED
      BY <1>e, <2>1, <3>1, DirtyStutters
  <2>3. CASE rule = "up"
    <3>1. pc' = (IF active THEN "deleteCPMS" ELSE "machines") /\ UNCHANGED active
      BY <1>5, <2>3 DEF DeleteRule
    <3> QED
      BY <2>1, <3>1 DEF DirtyInv, Untouched, Clean
  <2> QED
    BY <2>2, <2>3
<1>6. CASE DeleteCPMS
  <2>1. pc = "deleteCPMS" /\ active /\ UNCHANGED <<machines, cpmsSeen>>
    BY <1>0, <1>6 DEF DeleteCPMS, CallInv, cache
  <2>2. CASE cpms = NoCPMS /\ UNCHANGED cpms
    <3>1. machines = {}
      BY <2>1, <2>2 DEF DirtyInv, Untouched
    <3> QED
      BY <2>1, <2>2, <3>1, DirtyClean
  <2>3. CASE cpms # NoCPMS /\ cpms' = [cpms EXCEPT !.deleting = TRUE] /\ pc' = "machines"
    <3>1. cpms' \in CPMS /\ cpms'.pool = cpms.pool
      BY <1>0, <2>3 DEF TypeOK, CPMS
    <3> QED
      BY <2>1, <2>3, <3>1, MachinesAssumption DEF DirtyInv, Clean
  <2> QED
    BY <1>6, <2>2, <2>3 DEF DeleteCPMS
<1>7. CASE UpdateMachine
  <2>1. pc = "machines" /\ UNCHANGED <<cpms, cpmsSeen>> /\ machines \subseteq left
    BY <1>7 DEF UpdateMachine, PassedInv, cache
  <2>2. CASE pc' = "machines"
    <3>1. machines = {} => machines' = {}
      BY <1>7, <2>1, <2>2 DEF UpdateMachine, Cleaned
    <3> QED
      BY <2>1, <2>2, <3>1 DEF DirtyInv, Clean
  <2>3. CASE pc' # "machines"
    <3>1. left = {} /\ UNCHANGED machines
      BY <1>7, <2>1, <2>3 DEF UpdateMachine
    <3>2. machines = {}
      BY <2>1, <3>1
    <3> QED
      BY <2>1, <3>1, <3>2, DirtyClean
  <2> QED
    BY <2>2, <2>3
<1>8. CASE Operations
  <2>1. UNCHANGED <<machines, cpms, cpmsSeen, pc, active>> /\ (Exposed' <=> Exposed)
    BY <1>8 DEF Operations, RuleCreated, RuleDeleted, IPReleased, Exposed, cluster, cache, locals
  <2> QED
    BY <2>1, DirtyStutters
<1>9. CASE EditStrategy \/ (\E m \in Masters : SyncMachine(m)) \/ Resync \/ UNCHANGED vars
  <2>1. UNCHANGED <<rule, machines, cpms, cpmsSeen, pc, active>>
    BY <1>9 DEF EditStrategy, SyncMachine, Resync, vars, cloud, cluster, cache, locals
  <2> QED
    BY <1>e, <2>1, DirtyStutters
<1>10. ASSUME NEW g \in Goroutines, Background(g) PROVE DirtyInv'
  <2>1. machines = {}
    BY <1>10 DEF Background, GetCPMS, PatchCPMS, SetCPMSActive, PassedInv, Running
  <2>2. CASE GetCPMS(g)
    <3>1. UNCHANGED <<machines, cpms>> /\ (cpmsSeen' = cpmsSeen \/ cpmsSeen' = cpms)
      BY <2>2 DEF GetCPMS, Restart, cluster, cache
    <3> QED
      BY <2>1, <3>1, DirtyClean
  <2>3. CASE PatchCPMS(g)
    BY <1>0, <2>1, <2>3, PatchShape, DirtyClean
  <2>4. CASE SetCPMSActive(g)
    BY <1>0, <2>1, <2>4, ActiveShape, DirtyClean
  <2> QED
    BY <1>10, <2>2, <2>3, <2>4 DEF Background
<1>11. CASE FinalizeCPMS
  <2>1. /\ UNCHANGED <<machines, cpmsSeen, pc>> /\ cpms' = NoCPMS
        /\ cpms # NoCPMS /\ cpms.deleting
    BY <1>11 DEF FinalizeCPMS, cache
  <2> QED
    BY <2>1 DEF DirtyInv, Untouched, Clean
<1>12. CASE RecreateCPMS
  <2>1. UNCHANGED <<rule, machines, cpmsSeen, pc, active>> /\ cpms = NoCPMS
    BY <1>12 DEF RecreateCPMS, cloud, cache, locals
  <2>2. PICK m \in Masters : cpms'.pool = (m \in machines) /\ cpms'.deleting = FALSE
    BY <1>12 DEF RecreateCPMS
  <2> QED
    BY <1>e, <2>1, <2>2 DEF DirtyInv, Untouched, Clean
<1>13. CASE SyncCPMS
  <2>1. UNCHANGED <<rule, machines, cpms, pc, active>> /\ cpmsSeen' = cpms
    BY <1>13 DEF SyncCPMS, cloud, locals
  <2> QED
    BY <1>e, <2>1 DEF DirtyInv, Untouched, Clean
<1> QED
  BY <1>c, <1>1, <1>2, <1>3, <1>4, <1>5, <1>6, <1>7, <1>8, <1>9, <1>10, <1>11, <1>12, <1>13
  DEF Reconcile

\* Nothing having failed, the invariant holds.
LEMMA DirtyInvariant == Spec => [](faults = 0 => DirtyInv)
<1>1. Init => (faults = 0 => DirtyInv)
  BY DirtyInit
<1>2. IInv /\ (faults = 0 => PassedInv) /\ (faults = 0 => DirtyInv) /\ [Next]_vars
        => (faults = 0 => DirtyInv)'
  BY DirtyNext, CalmStep DEF IInv
<1> QED
  BY <1>1, <1>2, Invariant, PassedInvariant, PTL DEF Spec

\* When nothing failed, a private API without a request waiting has no master that names
\* the target pool: deleting the rule and cleaning the masters are never separated, for
\* any number of masters, edits and panics of the goroutine, and however old the Machines
\* in the cache are.
THEOREM MachinesSafe == Spec => []MachinesSettled
<1>1. (faults = 0 => DirtyInv) /\ InternalSettled => MachinesSettled
  <2> SUFFICES ASSUME DirtyInv, InternalSettled, pc = "idle", ~queued, listening = "internal"
               PROVE  machines = {}
    BY DEF MachinesSettled
  <2>1. ~Exposed
    BY DEF InternalSettled, Scope!Settled, Scope!Private, Goal
  <2> QED
    BY <2>1 DEF DirtyInv, Untouched
<1> QED
  BY <1>1, DirtyInvariant, SettledSafe, PTL

-----------------------------------------------------------------------------
(* The CPMS is clean when it is made active again.                         *)

\* What the goroutine read names the pool if the CPMS does, and past its first patch the
\* CPMS is clean.
CopyInv ==
    \A g \in Goroutines : goroutine[g] # NoGoroutine =>
        /\ goroutine[g].at = "patchPools" /\ cpms # NoCPMS /\ cpms.pool => goroutine[g].cpms.pool
        /\ goroutine[g].at \in {"getAgain", "setActive"} /\ cpms # NoCPMS => ~cpms.pool

\* Steps that start no goroutine, and after which the template is as it was, or clean.
LEMMA CopyStutters ==
    ASSUME CopyInv, UNCHANGED goroutine,
           cpms' # NoCPMS => ~cpms'.pool \/ (cpms # NoCPMS /\ cpms'.pool = cpms.pool)
    PROVE  CopyInv'
BY DEF CopyInv

\* Every step keeps it.
LEMMA CopyNext ==
    ASSUME TypeOK, PassedInv, DirtyInv, CopyInv, [Next]_vars, faults' = 0
    PROVE  CopyInv'
<1>c. /\ faults = 0
      /\ \/ Reconcile \/ Operations \/ EditStrategy \/ FinalizeCPMS \/ RecreateCPMS
         \/ SyncCPMS \/ (\E m \in Masters : SyncMachine(m)) \/ Resync \/ UNCHANGED vars
         \/ \E g \in Goroutines : Background(g)
  BY CalmStep
<1>1. CASE PublicList \/ ListAddresses \/ ReserveIP \/ GetAddress \/ InsertRule \/ PublicRecord
  BY <1>1, CopyStutters
  DEF PublicList, ListAddresses, ReserveIP, GetAddress, InsertRule, PublicRecord, cluster
<1>2. CASE PrivateList \/ DeleteRule \/ PrivateRecord \/ ReleaseIP \/ Operations \/ EditStrategy
  BY <1>2, CopyStutters
  DEF PrivateList, DeleteRule, PrivateRecord, ReleaseIP, Operations, RuleCreated, RuleDeleted,
      IPReleased, EditStrategy, cluster
<1>3. CASE \/ FinalizeCPMS \/ SyncCPMS \/ (\E m \in Masters : SyncMachine(m)) \/ Resync
           \/ UNCHANGED vars
  BY <1>3, CopyStutters DEF FinalizeCPMS, SyncCPMS, SyncMachine, Resync, vars, cluster
<1>4. CASE DeleteCPMS
  <2>1. UNCHANGED goroutine
    BY <1>4 DEF DeleteCPMS
  <2>2. CASE UNCHANGED cpms
    BY <2>1, <2>2, CopyStutters
  <2>3. CASE cpms # NoCPMS /\ cpms' = [cpms EXCEPT !.deleting = TRUE]
    <3>1. cpms'.pool = cpms.pool
      BY <2>3 DEF TypeOK, CPMS
    <3> QED
      BY <2>1, <2>3, <3>1, CopyStutters
  <2> QED
    BY <1>4, <2>2, <2>3 DEF DeleteCPMS
<1>5. CASE UpdateMachine
  <2>1. /\ \A g \in Goroutines : goroutine'[g] = goroutine[g] \/ goroutine'[g] = Fresh
        /\ UNCHANGED cpms
    BY <1>5 DEF UpdateMachine, StartGoroutine, TypeOK
  <2> QED
    BY <2>1, FreshType DEF CopyInv
<1>6. CASE RecreateCPMS
  <2>1. UNCHANGED goroutine
    BY <1>6 DEF RecreateCPMS
  <2>2. PICK m \in Masters : cpms'.pool = (m \in machines)
    BY <1>6 DEF RecreateCPMS
  <2>3. ASSUME NEW g \in Goroutines, goroutine[g] # NoGoroutine PROVE ~cpms'.pool
    BY <2>2, <2>3 DEF PassedInv, Running
  <2> QED
    BY <2>1, <2>3 DEF CopyInv
<1>7. ASSUME NEW g \in Goroutines, GetCPMS(g) PROVE CopyInv'
  <2>1. CASE Restart
    BY <2>1 DEF Restart, CopyInv
  <2>2. CASE ~Restart
    <3>1. /\ goroutine[g] # NoGoroutine /\ goroutine[g].at \in {"sleep", "getAgain"}
          /\ cpmsSeen # NoCPMS /\ UNCHANGED cpms
          /\ \A h \in Goroutines : h # g => goroutine'[h] = goroutine[h]
          /\ goroutine'[g].cpms = cpmsSeen
          /\ goroutine'[g].at = IF goroutine[g].at = "sleep" THEN "patchPools" ELSE "setActive"
      BY <1>7, <2>2, GetShape
    <3>2. cpms # NoCPMS /\ cpms.pool => cpmsSeen.pool
      BY <3>1 DEF DirtyInv, Clean
    <3> QED
      BY <3>1, <3>2 DEF CopyInv
  <2> QED
    BY <2>1, <2>2
<1>8. ASSUME NEW g \in Goroutines, PatchCPMS(g) PROVE CopyInv'
  <2>1. /\ goroutine[g] # NoGoroutine /\ goroutine[g].at = "patchPools"
        /\ goroutine'[g].at = "getAgain"
        /\ \A h \in Goroutines : h # g => goroutine'[h] = goroutine[h]
        /\ cpms' # NoCPMS <=> cpms # NoCPMS
        /\ cpms # NoCPMS =>
            (cpms'.pool => cpms.pool) /\ (cpms'.pool => ~goroutine[g].cpms.pool)
    BY <1>8, PatchShape
  <2>2. cpms' # NoCPMS => ~cpms'.pool
    BY <2>1 DEF CopyInv
  <2> QED
    BY <2>1, <2>2 DEF CopyInv
<1>9. ASSUME NEW g \in Goroutines, SetCPMSActive(g) PROVE CopyInv'
  <2>1. /\ \A h \in Goroutines : h # g => goroutine'[h] = goroutine[h]
        /\ goroutine'[g] # NoGoroutine => goroutine'[g].at = "sleep"
        /\ cpms' # NoCPMS <=> cpms # NoCPMS
        /\ cpms # NoCPMS => cpms'.pool = cpms.pool
    BY <1>9, ActiveShape
  <2> QED
    BY <2>1 DEF CopyInv
<1> QED
  BY <1>c, <1>1, <1>2, <1>3, <1>4, <1>5, <1>6, <1>7, <1>8, <1>9 DEF Reconcile, Background

LEMMA CopyInvariant == Spec => [](faults = 0 => CopyInv)
<1>1. Init => (faults = 0 => CopyInv)
  BY DEF Init, CopyInv
<1>2. IInv /\ (faults = 0 => PassedInv) /\ (faults = 0 => DirtyInv) /\ (faults = 0 => CopyInv)
        /\ [Next]_vars => (faults = 0 => CopyInv)'
  BY CopyNext, CalmStep DEF IInv
<1> QED
  BY <1>1, <1>2, Invariant, PassedInvariant, DirtyInvariant, PTL DEF Spec

\* As long as no call failed, the goroutine of the GCP client's getLoadBalancerRemovalFunc
\* sets the CPMS active only when its template has lost the target pool: however the API is
\* toggled in the meantime, whoever reads the CPMS too early and however old the cached one
\* is.
THEOREM ReactivationClean == Spec => ReactivatedClean
<1>1. IInv /\ (faults = 0 => CopyInv) /\ [Next]_vars =>
        [faults' = 0 /\ cpms # NoCPMS /\ cpms' # NoCPMS =>
            (cpms.state = "Inactive" /\ cpms'.state = "Active" => ~cpms'.pool)]_vars
  <2> SUFFICES ASSUME IInv, faults = 0 => CopyInv, Next, faults' = 0, cpms # NoCPMS,
                      cpms' # NoCPMS, cpms.state = "Inactive", cpms'.state = "Active"
               PROVE  ~cpms'.pool
    OBVIOUS
  <2>0. TypeOK /\ CopyInv
    BY CalmStep DEF IInv
  <2>1. \E g \in Goroutines : SetCPMSActive(g)
    <3>1. cpms' # cpms
      OBVIOUS
    <3>2. ASSUME NEW g \in Goroutines, PatchCPMS(g) PROVE cpms'.state = cpms.state
      BY <2>0, <3>2, PatchShape
    <3>3. ASSUME DeleteCPMS \/ LoseCPMS PROVE cpms'.state = cpms.state
      BY <2>0, <3>3 DEF DeleteCPMS, LoseCPMS, TypeOK, CPMS
    <3>4. ASSUME Reconcile, ~DeleteCPMS PROVE FALSE
      BY <3>1, <3>4
      DEF Reconcile, PublicList, ListAddresses, ReserveIP, GetAddress, InsertRule, PublicRecord,
          PrivateList, DeleteRule, UpdateMachine, PrivateRecord, ReleaseIP, cluster
    <3>5. ASSUME Environment, ~LoseCPMS PROVE FALSE
      BY <3>1, <3>5
      DEF Environment, Operations, RuleCreated, RuleDeleted, IPReleased, Error, Crash, Restart,
          EditStrategy, FinalizeCPMS, RecreateCPMS, SyncCPMS, SyncMachine, Resync, cluster
    <3>6. ASSUME NEW g \in Goroutines, GetCPMS(g) PROVE FALSE
      BY <3>1, <3>6 DEF GetCPMS, Restart, cluster
    <3> QED
      BY <3>2, <3>3, <3>4, <3>5, <3>6 DEF Next, Background
  <2>2. PICK g \in Goroutines : SetCPMSActive(g)
    BY <2>1
  <2>3. cpms'.pool = cpms.pool
    BY <2>0, <2>2, ActiveShape
  <2>4. ~cpms.pool
    BY <2>0, <2>2 DEF CopyInv, SetCPMSActive
  <2> QED
    BY <2>3, <2>4
<1> QED
  BY <1>1, CopyInvariant, Invariant, PTL DEF Spec, ReactivatedClean

-----------------------------------------------------------------------------
(* The goroutine does its work.                                            *)

\* Past its sleep the goroutine has a CPMS to work on that stays and is in the cache, and
\* never takes it for active.
DeliverInv ==
    /\ cpms # NoCPMS \/ cpmsSeen # NoCPMS \/ active \/ Running => HasCPMS
    /\ \A g \in Goroutines : goroutine[g] # NoGoroutine =>
        /\ goroutine[g].at # "sleep" =>
            /\ cpms # NoCPMS /\ ~cpms.deleting
            /\ cpmsSeen # NoCPMS /\ cpmsSeen.state = "Inactive"
        /\ goroutine[g].cpms # NoCPMS => goroutine[g].cpms.state = "Inactive"

InTime == faults = 0 /\ late = 0

\* A Get in time finds the CPMS, so that there is no panic.
LEMMA GetFinds ==
    ASSUME TypeOK, DeliverInv, late' = 0, NEW g \in Goroutines, GetCPMS(g)
    PROVE  /\ ~Restart
           /\ goroutine[g].at = "sleep" => cpmsSeen = cpms /\ cpms # NoCPMS /\ ~cpms.deleting
<1>0. Running
  BY DEF GetCPMS, Running
<1>1. goroutine[g].at = "sleep" => cpmsSeen = cpms /\ cpms # NoCPMS /\ ~cpms.deleting
  <2>1. goroutine[g].at = "sleep" => Replaced
    BY InTimeReplaced DEF GetCPMS
  <2> QED
    BY <1>0, <2>1 DEF Replaced, DeliverInv
<1>2. cpmsSeen # NoCPMS
  BY <1>1 DEF GetCPMS, DeliverInv
<1>3. goroutine'[g] # NoGoroutine
  <2>1. goroutine[g] \in Goroutine
    BY DEF GetCPMS, TypeOK
  <2>2. HavingRead(goroutine[g]) \in Goroutine
    BY <2>1 DEF HavingRead, Goroutine, TypeOK
  <2> QED
    BY <1>2, <2>2, GoroutinesAssumption DEF GetCPMS, TypeOK
<1> QED
  BY <1>1, <1>3 DEF Restart

\* No Reconcile takes the CPMS away from a goroutine, and no copy is active.
LEMMA DeliverNext ==
    ASSUME IInv, OffInv, DeliverInv, [Next]_vars, InTime'
    PROVE  DeliverInv'
<1>0. TypeOK /\ CallInv /\ late' = 0 /\ faults' = 0
  BY DEF IInv, InTime
<1>c. /\ faults = 0
      /\ \/ Reconcile \/ Operations \/ EditStrategy \/ FinalizeCPMS \/ RecreateCPMS
         \/ SyncCPMS \/ (\E m \in Masters : SyncMachine(m)) \/ Resync \/ UNCHANGED vars
         \/ \E g \in Goroutines : Background(g)
  BY <1>0, CalmStep
<1>1. ASSUME UNCHANGED <<goroutine, cpms, cpmsSeen>>, active' => active \/ cpmsSeen # NoCPMS
      PROVE  DeliverInv'
  <2>1. Running' <=> Running
    BY <1>1 DEF Running
  <2> QED
    BY <1>1, <2>1 DEF DeliverInv
<1>2. CASE PublicList \/ ListAddresses \/ ReserveIP \/ GetAddress \/ InsertRule \/ PublicRecord
  <2>1. UNCHANGED <<goroutine, cpms, cpmsSeen>> /\ (active' => active)
    BY <1>2 DEF PublicList, ListAddresses, ReserveIP, GetAddress, InsertRule, PublicRecord, Return,
                ForgetLocals, cluster, cache, locals
  <2> QED
    BY <1>1, <2>1
<1>12. CASE DeleteRule \/ PrivateRecord \/ ReleaseIP
  <2>1. UNCHANGED <<goroutine, cpms, cpmsSeen>> /\ (active' => active)
    BY <1>12 DEF DeleteRule, PrivateRecord, ReleaseIP, Return, ForgetLocals, cluster, cache, locals
  <2> QED
    BY <1>1, <2>1
<1>3. CASE PrivateList
  <2>1. UNCHANGED <<goroutine, cpms, cpmsSeen>> /\ (active' => cpmsSeen # NoCPMS)
    BY <1>3 DEF PrivateList, cluster, cache
  <2> QED
    BY <1>1, <2>1
<1>4. CASE DeleteCPMS
  <2>1. HasCPMS /\ UNCHANGED goroutine /\ \A g \in Goroutines : goroutine[g] = NoGoroutine
    BY <1>0, <1>4 DEF DeleteCPMS, CallInv, OffInv, Running, DeliverInv
  <2> QED
    BY <2>1 DEF DeliverInv
<1>5. CASE UpdateMachine
  <2>1. /\ \A g \in Goroutines : goroutine'[g] = goroutine[g] \/ (active /\ goroutine'[g] = Fresh)
        /\ UNCHANGED <<cpms, cpmsSeen, active>>
    BY <1>0, <1>5 DEF UpdateMachine, StartGoroutine, TypeOK, cache
  <2>2. Fresh.at = "sleep" /\ Fresh.cpms = NoCPMS
    BY DEF Fresh
  <2>3. Running' => Running \/ active
    BY <2>1 DEF Running
  <2> QED
    BY <2>1, <2>2, <2>3 DEF DeliverInv
<1>6. CASE \/ Operations \/ EditStrategy \/ (\E m \in Masters : SyncMachine(m)) \/ Resync
           \/ UNCHANGED vars
  <2>1. UNCHANGED <<goroutine, cpms, cpmsSeen, active>>
    BY <1>6 DEF Operations, RuleCreated, RuleDeleted, IPReleased, EditStrategy, SyncMachine, Resync,
                vars, cluster, cache, locals
  <2> QED
    BY <1>1, <2>1
<1>7. CASE FinalizeCPMS \/ RecreateCPMS
  <2>1. UNCHANGED <<goroutine, cpmsSeen, active>> /\ (cpms' # NoCPMS => HasCPMS)
    BY <1>7 DEF FinalizeCPMS, RecreateCPMS, cache, locals
  <2>2. cpms = NoCPMS \/ cpms.deleting
    BY <1>7 DEF FinalizeCPMS, RecreateCPMS
  <2>3. Running' <=> Running
    BY <2>1 DEF Running
  <2> QED
    BY <2>1, <2>2, <2>3 DEF DeliverInv
<1>8. CASE SyncCPMS
  <2>1. UNCHANGED <<goroutine, cpms, active>> /\ cpmsSeen' = cpms
    BY <1>8 DEF SyncCPMS, locals
  <2>2. Running' <=> Running
    BY <2>1 DEF Running
  <2>3. ASSUME NEW g \in Goroutines, goroutine[g] # NoGoroutine, goroutine[g].at # "sleep"
        PROVE  cpms # NoCPMS /\ cpms.state = "Inactive"
    <3>1. cpms # NoCPMS /\ ~cpms.deleting /\ Running
      BY <2>3 DEF DeliverInv, Running
    <3> QED
      BY <3>1 DEF OffInv, Going, Off
  <2> QED
    BY <2>1, <2>2, <2>3 DEF DeliverInv
<1>9. ASSUME NEW g \in Goroutines, GetCPMS(g) PROVE DeliverInv'
  <2>1. ~Restart /\ (goroutine[g].at = "sleep" => cpmsSeen = cpms /\ cpms # NoCPMS /\ ~cpms.deleting)
    BY <1>0, <1>9, GetFinds
  <2>2. /\ goroutine[g] # NoGoroutine /\ UNCHANGED <<cpms, cpmsSeen, active>>
        /\ \A h \in Goroutines : h # g => goroutine'[h] = goroutine[h]
        /\ goroutine'[g].cpms = cpmsSeen
    BY <1>0, <1>9, <2>1, GetShape
  <2>3. Running
    BY <2>2 DEF Running
  <2>4. cpms # NoCPMS /\ ~cpms.deleting /\ cpmsSeen # NoCPMS /\ cpmsSeen.state = "Inactive"
    <3>1. CASE goroutine[g].at = "sleep"
      BY <2>1, <2>3, <3>1 DEF OffInv, Going, Off
    <3>2. CASE goroutine[g].at # "sleep"
      BY <2>2, <3>2 DEF DeliverInv
    <3> QED
      BY <3>1, <3>2
  <2> QED
    BY <2>2, <2>3, <2>4 DEF DeliverInv
<1>10. ASSUME NEW g \in Goroutines, PatchCPMS(g) PROVE DeliverInv'
  <2>1. /\ goroutine[g] # NoGoroutine /\ goroutine[g].at = "patchPools"
        /\ UNCHANGED <<cpmsSeen, active>>
        /\ \A h \in Goroutines : h # g => goroutine'[h] = goroutine[h]
        /\ goroutine'[g].cpms = NoCPMS
        /\ cpms' # NoCPMS <=> cpms # NoCPMS
        /\ cpms # NoCPMS => cpms'.deleting = cpms.deleting
    BY <1>0, <1>10, PatchShape
  <2>2. Running
    BY <2>1 DEF Running
  <2> QED
    BY <2>1, <2>2 DEF DeliverInv
<1>11. ASSUME NEW g \in Goroutines, SetCPMSActive(g) PROVE DeliverInv'
  <2>1. /\ goroutine[g] # NoGoroutine
        /\ \A h \in Goroutines : h # g => goroutine'[h] = goroutine[h]
        /\ goroutine'[g] # NoGoroutine => goroutine'[g].cpms = NoCPMS /\ goroutine'[g].at = "sleep"
    BY <1>0, <1>11, ActiveShape
  <2>2. \A h \in Goroutines : h # g => goroutine'[h] = NoGoroutine
    BY <2>1 DEF OffInv
  <2>3. Running /\ HasCPMS
    BY <2>1 DEF Running, DeliverInv
  <2> QED
    BY <2>1, <2>2, <2>3 DEF DeliverInv
<1> QED
  BY <1>c, <1>2, <1>3, <1>4, <1>5, <1>6, <1>7, <1>8, <1>9, <1>10, <1>11, <1>12
  DEF Reconcile, Background

\* Nothing having failed, and nobody having been early, the invariant holds.
LEMMA DeliverInvariant == Spec => [](InTime => DeliverInv)
<1>1. Init => (InTime => DeliverInv)
  BY DEF Init, DeliverInv, Running
<1>2. IInv /\ (late = 0 => OffInv) /\ (InTime => DeliverInv) /\ [Next]_vars => (InTime => DeliverInv)'
  <2> SUFFICES ASSUME IInv, late = 0 => OffInv, InTime => DeliverInv, [Next]_vars, InTime'
               PROVE  DeliverInv'
    OBVIOUS
  <2>1. InTime
    BY TroublesGrow DEF IInv, InTime
  <2> QED
    BY <2>1, DeliverNext DEF InTime
<1> QED
  BY <1>1, <1>2, Invariant, OffInvariant, PTL DEF Spec

\* When nothing failed and the CPMS was replaced in time, the goroutine that set out to make
\* it active again does not end before it has: no Reconcile deletes the CPMS under it, no
\* Get finds nothing, and its copy is never taken for active.
THEOREM DeliverySafe == Spec => GoroutineDelivers
<1>1. IInv /\ (late = 0 => OffInv) /\ (InTime => DeliverInv) /\ [Next]_vars =>
        [faults' = 0 /\ late' = 0 =>
            \A g \in Goroutines : goroutine[g] # NoGoroutine /\ goroutine'[g] = NoGoroutine =>
                cpms' # NoCPMS /\ cpms'.state = "Active"]_vars
  <2> SUFFICES ASSUME IInv, late = 0 => OffInv, InTime => DeliverInv, Next, faults' = 0, late' = 0,
                      NEW g \in Goroutines, goroutine[g] # NoGoroutine, goroutine'[g] = NoGoroutine
               PROVE  cpms' # NoCPMS /\ cpms'.state = "Active"
    OBVIOUS
  <2>0. TypeOK
    BY DEF IInv
  <2>1. faults = 0 /\ late = 0
    BY <2>0, TroublesGrow
  <2>2. OffInv /\ DeliverInv
    BY <2>1 DEF InTime
  <2>3. PICK h \in Goroutines : Background(h)
    <3>1. ASSUME Reconcile PROVE goroutine'[g] # NoGoroutine
      <4>1. UNCHANGED goroutine \/ StartGoroutine
        BY <3>1 DEF Reconcile, PublicList, ListAddresses, ReserveIP, GetAddress, InsertRule,
                    PublicRecord, PrivateList, DeleteRule, DeleteCPMS, UpdateMachine,
                    PrivateRecord, ReleaseIP
      <4>2. Fresh # NoGoroutine
        BY FreshType, GoroutinesAssumption
      <4> QED
        BY <2>0, <4>1, <4>2 DEF StartGoroutine, TypeOK
    <3>2. ~Crash
      <4>1. faults' # faults + 1
        BY <2>1
      <4> QED
        BY <4>1 DEF Crash
    <3>3. ASSUME Environment, ~Crash PROVE UNCHANGED goroutine
      BY <3>3 DEF Environment, Operations, RuleCreated, RuleDeleted, IPReleased, Error, EditStrategy,
                  FinalizeCPMS, RecreateCPMS, LoseCPMS, SyncCPMS, SyncMachine, Resync
    <3> QED
      BY <3>1, <3>2, <3>3 DEF Next
  <2>4. ~GetCPMS(h)
    <3> SUFFICES ASSUME GetCPMS(h) PROVE FALSE
      OBVIOUS
    <3>1. ~Restart
      BY <2>0, <2>2, GetFinds
    <3> QED
      BY <2>0, <3>1, GetShape
  <2>5. ~PatchCPMS(h)
    BY <2>0, PatchShape
  <2>6. SetCPMSActive(h)
    BY <2>3, <2>4, <2>5 DEF Background
  <2>7. Running /\ goroutine[h] # NoGoroutine /\ goroutine[h].at = "setActive"
    BY <2>6 DEF SetCPMSActive, Running
  <2>8. /\ cpms # NoCPMS /\ cpms.state = "Inactive"
        /\ goroutine[h].cpms # NoCPMS /\ goroutine[h].cpms.state = "Inactive"
    BY <2>0, <2>2, <2>7 DEF DeliverInv, OffInv, Going, Off, TypeOK
  <2>9. faults' # faults + 1
    BY <2>1
  <2>10. cpms' = [cpms EXCEPT !.state = "Active"]
    BY <2>6, <2>8, <2>9 DEF SetCPMSActive
  <2>11. cpms' # NoCPMS
    BY <2>0, <2>6, <2>8, ActiveShape
  <2> QED
    BY <2>0, <2>8, <2>10, <2>11 DEF TypeOK, CPMS
<1> QED
  BY <1>1, DeliverInvariant, Invariant, OffInvariant, PTL DEF Spec, GoroutineDelivers
================================================================================
