-------------------------- MODULE AWSDefaultAPIProofs --------------------------
(***************************************************************************)
(* Proofs about AWSDefaultAPI, for every set of load balancers, masters    *)
(* and goroutines, every number of retries and every bound.                *)
(***************************************************************************)
EXTENDS AWSDefaultAPI, TLAPS

-----------------------------------------------------------------------------
(* The inductive invariant.                                                *)

\* What setDefaultAPIPrivate would delete.
Deletable(a) == Exists(a) /\ canDeleteNlb(nlbs[a])

NoneDeletable == \A a \in Arns : ~Deletable(a)

\* Only the operator's own load balancer has a Name tag in -ext.
ExtInv ==
    \A a \in Arns : Deletable(a) =>
        nlbs[a].name = "ext" /\ nlbs[a].scheme = "internet-facing"

\* There is at most one of them, and none while one is about to be created.
SingleInv ==
    /\ \A a, b \in Arns : Deletable(a) /\ Deletable(b) => a = b
    /\ pc \in {"createNLB", "deleteCPMS", "machines"} => NoneDeletable

\* The load balancer a call is about is not one that a Service may take away, and the
\* CPMS is deleted only if it was read as active.
ArnInv ==
    /\ pc \in {"createListener", "deleteNLB"} => Deletable(arn)
    /\ pc = "deleteCPMS" => active

BaseInv == TypeOK /\ ExtInv /\ SingleInv /\ ArnInv

-----------------------------------------------------------------------------
(* Types.                                                                  *)

\* The load balancers that are ever made have the type of one.
LEMMA NLBTypes ==
    /\ ExtNLB \in NLB /\ IntNLB \in NLB /\ ServiceNLB \in NLB
    /\ [ExtNLB EXCEPT !.listener = TRUE] \in NLB
    /\ [ServiceNLB EXCEPT !.scheme = "internal", !.listener = TRUE] \in NLB
BY DEF ExtNLB, IntNLB, ServiceNLB, NLB, LBNames

\* Resetting Reconcile's locals keeps their types.
LEMMA ForgetType ==
    ASSUME ForgetLocals
    PROVE  /\ todo' \in SUBSET Arns /\ arn' \in Arns /\ lbName' \in LBNames
           /\ active' \in BOOLEAN /\ masterList' \in [Masters -> SUBSET LBNames]
           /\ left' \in SUBSET Masters
BY ArnsAssumption DEF ForgetLocals, LBNames

\* A new goroutine, and one that starts over, is a goroutine before its first Get.
LEMMA FreshType ==
    ASSUME NEW name \in LBNames
    PROVE  /\ Fresh(name) \in Goroutine
           /\ Fresh(name).at = "sleep"
           /\ \A r \in 0..MaxRetries :
                [Fresh(name) EXCEPT !.retries = r] \in Goroutine
                /\ [Fresh(name) EXCEPT !.retries = r].at = "sleep"
BY GoroutinesAssumption DEF Fresh, Goroutine

\* A goroutine whose attempt failed starts over, or is done.
LEMMA AfterFailureType ==
    ASSUME NEW g \in Goroutines, goroutine[g] \in Goroutine
    PROVE  /\ AfterFailure(g) \in Goroutine \cup {NoGoroutine}
           /\ AfterFailure(g) # NoGoroutine => AfterFailure(g).at = "sleep"
<1>1. goroutine[g].lb \in LBNames /\ goroutine[g].retries \in 0..MaxRetries
  BY DEF Goroutine
<1>2. CASE goroutine[g].retries = 0
  BY <1>2 DEF AfterFailure
<1>3. CASE goroutine[g].retries # 0
  <2>1. goroutine[g].retries - 1 \in 0..MaxRetries
    BY <1>1, <1>3, GoroutinesAssumption
  <2>2. AfterFailure(g) = [Fresh(goroutine[g].lb) EXCEPT !.retries = goroutine[g].retries - 1]
    BY <1>3 DEF AfterFailure
  <2> QED
    BY <1>1, <2>1, <2>2, FreshType
<1> QED
  BY <1>2, <1>3

\* The initial states are well typed.
LEMMA TypeInit == Init => TypeOK
<1> SUFFICES ASSUME Init PROVE TypeOK
  OBVIOUS
<1>1. nlbs \in [Arns -> NLB \cup {NoNLB}]
  BY NLBTypes DEF Init
<1>2. machines \in [Masters -> SUBSET LBNames] /\ machinesSeen = machines
  BY DEF Init, LBNames
<1>3. cpms \in CPMS \cup {NoCPMS} /\ cpmsSeen = cpms
  <2>1. \A m \in Masters : machines[m] \in SUBSET LBNames
    BY <1>2
  <2> QED
    BY <2>1 DEF Init, CPMS
<1>4. alias \in Arns
  BY ArnsAssumption DEF Init
<1>5. /\ goroutine \in [Goroutines -> Goroutine \cup {NoGoroutine}]
      /\ \A g \in Goroutines : goroutine[g] = NoGoroutine
  BY DEF Init
<1>6. /\ todo \in SUBSET Arns /\ arn \in Arns /\ lbName \in LBNames /\ active \in BOOLEAN
      /\ masterList \in [Masters -> SUBSET LBNames] /\ left \in SUBSET Masters
  BY ArnsAssumption DEF Init, LBNames
<1>7. /\ listening \in Listening /\ queued \in BOOLEAN /\ pc = "idle" /\ late \in 0..MaxLate
      /\ edits \in 0..MaxEdits /\ drift \in 0..MaxDrift /\ faults \in 0..MaxFaults
  BY BoundsAssumption DEF Init
<1> QED
  BY <1>1, <1>2, <1>3, <1>4, <1>5, <1>6, <1>7 DEF TypeOK

\* Who is early is counted, within the bound.
LEMMA LateType ==
    ASSUME TypeOK, NEW relies, Counted(relies)
    PROVE  late' \in 0..MaxLate
BY BoundsAssumption DEF TypeOK, Counted

\* A CPMS that is marked for deletion is a CPMS.
LEMMA MarkedType ==
    ASSUME TypeOK, cpms # NoCPMS
    PROVE  [cpms EXCEPT !.deleting = TRUE] \in CPMS
BY DEF TypeOK, CPMS

\* Every step keeps the types, once the load balancer a call is about exists.
LEMMA TypeNext == TypeOK /\ ArnInv /\ [Next]_vars => TypeOK'
<1> SUFFICES ASSUME TypeOK, ArnInv, [Next]_vars PROVE TypeOK'
  OBVIOUS
<1> USE DEF TypeOK
<1>1. CASE PublicList
  BY <1>1 DEF PublicList, cloud, cluster, cache, locals, bounds
<1>2. CASE CreateNLB
  BY <1>2, NLBTypes DEF CreateNLB, cloud, cluster, cache, locals, bounds
<1>3. CASE CreateListener
  <2>1. nlbs[arn] \in NLB
    BY <1>3, ArnsAssumption DEF CreateListener, ArnInv, Deletable, Exists
  <2>2. [nlbs[arn] EXCEPT !.listener = TRUE] \in NLB
    BY <2>1 DEF NLB
  <2> QED
    BY <1>3, <2>2, ForgetType DEF CreateListener, Return, cluster, cache, locals, bounds
<1>4. CASE PrivateList
  BY <1>4 DEF PrivateList, InternetFacing, cloud, cluster, cache, locals, bounds
<1>5. CASE ReadTags
  <2>1. \A a \in Arns : Exists(a) => nlbs[a].name \in LBNames
    BY DEF Exists, NLB
  <2> QED
    BY <1>5, <2>1, ArnsAssumption, ForgetType
    DEF ReadTags, Return, cloud, cluster, cache, locals, bounds
<1>6. CASE DeleteNLB
  BY <1>6 DEF DeleteNLB, cloud, cluster, cache, locals, bounds
<1>7. CASE DeleteCPMS
  BY <1>7, ForgetType, MarkedType DEF DeleteCPMS, Return, cloud, cache, locals, bounds
<1>8. CASE UpdateMachine
  <2>1. \A m \in Masters : UpdatedLBs(m) \in SUBSET LBNames
    BY DEF UpdatedLBs
  <2>2. Fresh(lbName) \in Goroutine /\ Fresh(lbName).at = "sleep"
    BY FreshType
  <2> QED
    BY <1>8, <2>1, <2>2 DEF UpdateMachine, StartGoroutine, cloud, cache, locals, bounds
<1>9. CASE UpsertARecord
  BY <1>9, ForgetType DEF UpsertARecord, Return, cluster, cache, bounds
<1>10. ASSUME NEW g \in Goroutines, GetCPMS(g) PROVE TypeOK'
  <2>0. late' \in 0..MaxLate
    BY <1>10, LateType DEF GetCPMS
  <2>1. CASE cpmsSeen = NoCPMS
    BY <1>10, <2>0, <2>1, ForgetType DEF GetCPMS, Restart, cloud
  <2>2. CASE cpmsSeen # NoCPMS
    <3>1. goroutine[g] \in Goroutine
      BY <1>10 DEF GetCPMS
    <3>2. HavingRead(goroutine[g]) \in Goroutine /\ HavingRead(goroutine[g]).cpms # NoCPMS
      BY <3>1, <2>2 DEF HavingRead, Goroutine
    <3> QED
      BY <1>10, <2>0, <2>2, <3>2 DEF GetCPMS, cloud, cluster, cache, locals
  <2> QED
    BY <2>1, <2>2
<1>11. ASSUME NEW g \in Goroutines, PatchCPMS(g) PROVE TypeOK'
  <2>1. goroutine[g] \in Goroutine /\ goroutine[g].cpms \in CPMS
    BY <1>11 DEF PatchCPMS, Goroutine
  <2>2. /\ [goroutine[g] EXCEPT !.at = "getAgain", !.cpms = NoCPMS] \in Goroutine
        /\ [goroutine[g] EXCEPT !.at = "getAgain", !.cpms = NoCPMS].at = "getAgain"
    BY <2>1 DEF Goroutine
  <2>3. cpms # NoCPMS =>
            [cpms EXCEPT !.lbs = RemainingLBs(goroutine[g].cpms, goroutine[g].lb)] \in CPMS
    BY <2>1 DEF RemainingLBs, CPMS
  <2> QED
    BY <1>11, <2>2, <2>3, BoundsAssumption DEF PatchCPMS, cloud, cache, locals
<1>12. ASSUME NEW g \in Goroutines, SetCPMSActive(g) PROVE TypeOK'
  <2>1. goroutine[g] \in Goroutine
    BY <1>12 DEF SetCPMSActive
  <2>3. /\ AfterFailure(g) \in Goroutine \cup {NoGoroutine}
        /\ AfterFailure(g) # NoGoroutine => AfterFailure(g).at = "sleep"
    BY <2>1, AfterFailureType
  <2>4. cpms # NoCPMS => [cpms EXCEPT !.state = "Active"] \in CPMS
    BY DEF CPMS
  <2> QED
    BY <1>12, <2>3, <2>4, BoundsAssumption DEF SetCPMSActive, AfterSuccess, cloud, cache, locals
<1>13. CASE Error
  BY <1>13, ForgetType, BoundsAssumption DEF Error, Return, cloud, cluster, cache
<1>14. CASE Crash
  BY <1>14, ForgetType, BoundsAssumption DEF Crash, Restart, cloud
<1>15. CASE EditStrategy
  BY <1>15, BoundsAssumption, LateType DEF EditStrategy, cloud, cluster, cache, locals
<1>16. CASE RecreateCPMS
  BY <1>16 DEF RecreateCPMS, CPMS, cloud, cache, locals, bounds
<1>17. CASE ServiceChange
  BY <1>17, NLBTypes, BoundsAssumption DEF ServiceChange, cluster, cache, locals
<1>18. CASE BorrowTargetGroup
  BY <1>18, NLBTypes, BoundsAssumption DEF BorrowTargetGroup, cluster, cache, locals
<1>19. CASE FinalizeCPMS
  BY <1>19 DEF FinalizeCPMS, cloud, cache, locals, bounds
<1>22. CASE LoseCPMS
  <2>1. cpms' \in CPMS
    BY <1>22, MarkedType DEF LoseCPMS
  <2> QED
    BY <1>22, <2>1, BoundsAssumption DEF LoseCPMS, cloud, cache, locals
<1>20. CASE Resync \/ SyncCPMS \/ \E m \in Masters : SyncMachine(m)
  BY <1>20 DEF Resync, SyncCPMS, SyncMachine, cloud, cluster, cache, locals, bounds
<1>21. CASE UNCHANGED vars
  BY <1>21 DEF vars, cloud, cluster, cache, locals, bounds
<1> QED
  BY <1>1, <1>2, <1>3, <1>4, <1>5, <1>6, <1>7, <1>8, <1>9, <1>10, <1>11, <1>12, <1>13,
     <1>14, <1>15, <1>16, <1>17, <1>18, <1>19, <1>20, <1>21, <1>22
  DEF Next, Reconcile, Environment, Background

-----------------------------------------------------------------------------
(* The load balancers.                                                     *)

\* A load balancer of a Service, or one that borrows the target group, is none that
\* setDefaultAPIPrivate would delete; a new external one is.
LEMMA DeletableNLBs ==
    /\ ~canDeleteNlb(ServiceNLB) /\ ~canDeleteNlb(IntNLB)
    /\ ~canDeleteNlb([ServiceNLB EXCEPT !.scheme = "internal", !.listener = TRUE])
    /\ ExtNLB.name = "ext" /\ ExtNLB.scheme = "internet-facing" /\ canDeleteNlb(ExtNLB)
    /\ [ExtNLB EXCEPT !.listener = TRUE].name = "ext"
    /\ [ExtNLB EXCEPT !.listener = TRUE].scheme = "internet-facing"
BY DEF canDeleteNlb, ServiceNLB, IntNLB, ExtNLB

Rest == ExtInv /\ SingleInv /\ ArnInv

\* The initial states satisfy the invariant.
LEMMA BaseInit == Init => BaseInv
<1> SUFFICES ASSUME Init PROVE Rest
  BY TypeInit DEF BaseInv, Rest
<1>1. pc = "idle"
  BY DEF Init
<1>2. \A a \in Arns : Deletable(a) => a = ExtArn /\ nlbs[a] = [ExtNLB EXCEPT !.listener = TRUE]
  BY DeletableNLBs, NLBTypes, ArnsAssumption DEF Init, Deletable, Exists
<1> QED
  BY <1>1, <1>2, DeletableNLBs DEF Rest, ExtInv, SingleInv, ArnInv

\* A step that keeps the load balancers, and the place of the Reconcile or ends it.
LEMMA RestStutters ==
    ASSUME Rest, UNCHANGED nlbs, UNCHANGED <<pc, active, arn>> \/ pc' \in {"idle", "upsert", "tags"}
    PROVE  Rest'
BY DEF Rest, ExtInv, SingleInv, ArnInv, NoneDeletable, Deletable, Exists

\* And a step after which there are no more load balancers to delete than before.
LEMMA RestGains ==
    ASSUME Rest, UNCHANGED <<pc, active, arn>>,
           \A a \in Arns : Deletable(a)' => Deletable(a) /\ nlbs'[a] = nlbs[a],
           arn \in Arns, Deletable(arn) => Deletable(arn)'
    PROVE  Rest'
<1>1. ExtInv'
  BY DEF Rest, ExtInv
<1>2. SingleInv'
  BY DEF Rest, SingleInv, NoneDeletable
<1>3. ArnInv'
  BY DEF Rest, ArnInv
<1> QED
  BY <1>1, <1>2, <1>3 DEF Rest

\* Every step keeps the invariant.
LEMMA RestNext == BaseInv /\ [Next]_vars => Rest'
<1> SUFFICES ASSUME TypeOK, Rest, [Next]_vars PROVE Rest'
  BY DEF BaseInv, Rest
<1>1. CASE PublicList
  <2>1. UNCHANGED <<nlbs, active, arn>>
    BY <1>1 DEF PublicList, cloud, locals
  <2>2. CASE UNCHANGED pc
    BY <2>1, <2>2, RestStutters
  <2>3. CASE pc' = "createNLB" /\ \A a \in InternetFacing : nlbs[a].name # "ext"
    <3>1. NoneDeletable
      BY <2>3 DEF Rest, ExtInv, InternetFacing, Deletable, NoneDeletable
    <3>2. NoneDeletable'
      BY <2>1, <3>1 DEF Deletable, Exists, NoneDeletable
    <3> QED
      BY <2>3, <3>2 DEF Rest, ExtInv, SingleInv, ArnInv, NoneDeletable
  <2> QED
    BY <1>1, <2>2, <2>3 DEF PublicList
<1>2. CASE CreateNLB
  <2>1. PICK a \in Arns : nlbs' = [nlbs EXCEPT ![a] = ExtNLB] /\ arn' = a
    BY <1>2 DEF CreateNLB
  <2>2. pc = "createNLB" /\ pc' = "createListener"
    BY <1>2 DEF CreateNLB
  <2>3. \A b \in Arns : ~Deletable(b)
    BY <2>2 DEF Rest, SingleInv, NoneDeletable
  <2>4. \A b \in Arns : Deletable(b)' => b = a
    BY <2>1, <2>3 DEF TypeOK, Deletable, Exists
  <2>5. Deletable(a)' /\ nlbs'[a] = ExtNLB
    BY <2>1, DeletableNLBs, NLBTypes, ArnsAssumption DEF TypeOK, Deletable, Exists
  <2> QED
    BY <2>1, <2>2, <2>4, <2>5, DeletableNLBs DEF Rest, ExtInv, SingleInv, ArnInv
<1>3. CASE CreateListener
  <2>1. CASE Return(FALSE) /\ UNCHANGED nlbs
    BY <2>1, RestStutters DEF Return
  <2>2. CASE pc' = "upsert" /\ nlbs' = [nlbs EXCEPT ![arn] = [nlbs[arn] EXCEPT !.listener = TRUE]]
    <3>1. nlbs[arn] \in NLB /\ Deletable(arn)
      BY <1>3 DEF CreateListener, Rest, ArnInv, Deletable, Exists, TypeOK
    <3>2. /\ nlbs'[arn].name = nlbs[arn].name /\ nlbs'[arn].scheme = nlbs[arn].scheme
          /\ \A a \in Arns : a # arn => nlbs'[a] = nlbs[a]
      BY <2>2, <3>1 DEF TypeOK, NLB
    <3>3. \A a \in Arns : Deletable(a)' => Deletable(a)
      BY <3>1, <3>2 DEF Deletable, Exists
    <3> QED
      BY <2>2, <3>1, <3>2, <3>3 DEF Rest, ExtInv, SingleInv, ArnInv
  <2> QED
    BY <1>3, <2>1, <2>2 DEF CreateListener
<1>4. CASE PrivateList
  BY <1>4, RestStutters DEF PrivateList, cloud
<1>5. CASE ReadTags
  <2>1. UNCHANGED nlbs
    BY <1>5 DEF ReadTags, cloud
  <2>2. CASE pc' \in {"idle", "upsert", "tags"}
    BY <2>1, <2>2, RestStutters
  <2>3. CASE pc' = "deleteNLB" /\ arn' \in Arns /\ Deletable(arn')
    <3>1. Deletable(arn)'
      BY <2>1, <2>3 DEF Deletable, Exists
    <3> QED
      BY <2>1, <2>3, <3>1 DEF Rest, ExtInv, SingleInv, ArnInv, Deletable, Exists
  <2> QED
    BY <1>5, <2>2, <2>3 DEF ReadTags, Return, Deletable, TypeOK
<1>6. CASE DeleteNLB
  <2>1. Deletable(arn) /\ arn \in Arns
    BY <1>6 DEF DeleteNLB, Rest, ArnInv, TypeOK
  <2>2. \A a \in Arns : ~Deletable(a)'
    BY <1>6, <2>1 DEF DeleteNLB, Rest, SingleInv, Deletable, Exists, TypeOK
  <2>3. UNCHANGED active /\ pc' = IF active THEN "deleteCPMS" ELSE "machines"
    BY <1>6 DEF DeleteNLB
  <2> QED
    BY <2>2, <2>3 DEF Rest, ExtInv, SingleInv, ArnInv, NoneDeletable
<1>7. CASE DeleteCPMS
  <2>1. UNCHANGED nlbs /\ pc = "deleteCPMS" /\ pc' \in {"idle", "machines"}
    BY <1>7 DEF DeleteCPMS, Return, cloud
  <2> QED
    BY <2>1 DEF Rest, ExtInv, SingleInv, ArnInv, NoneDeletable, Deletable, Exists
<1>8. CASE UpdateMachine
  <2>1. UNCHANGED <<nlbs, active, arn>> /\ (UNCHANGED pc \/ pc' = "tags")
    BY <1>8 DEF UpdateMachine, cloud
  <2> QED
    BY <2>1, RestStutters
<1>9. CASE UpsertARecord \/ Error \/ Crash
  BY <1>9, RestStutters DEF UpsertARecord, Error, Crash, Return, Restart, cloud
<1>10. ASSUME NEW g \in Goroutines, Background(g) PROVE Rest'
  BY <1>10, RestStutters DEF Background, GetCPMS, PatchCPMS, SetCPMSActive, Restart, cloud, locals
<1>11. CASE EditStrategy \/ FinalizeCPMS \/ RecreateCPMS \/ LoseCPMS
  BY <1>11, RestStutters DEF EditStrategy, FinalizeCPMS, RecreateCPMS, LoseCPMS, cloud, locals
<1>12. CASE Resync \/ SyncCPMS \/ (\E m \in Masters : SyncMachine(m)) \/ UNCHANGED vars
  BY <1>12, RestStutters DEF Resync, SyncCPMS, SyncMachine, vars, cloud, locals
<1>13. CASE ServiceChange
  <2>1. PICK a \in Arns :
            \/ ~Exists(a) /\ nlbs' = [nlbs EXCEPT ![a] = ServiceNLB]
            \/ Exists(a) /\ nlbs[a].service /\ nlbs' = [nlbs EXCEPT ![a] = NoNLB]
    BY <1>13 DEF ServiceChange
  <2>2. ~Deletable(a) /\ ~Deletable(a)' /\ \A b \in Arns : b # a => nlbs'[b] = nlbs[b]
    BY <2>1, DeletableNLBs DEF Deletable, Exists, canDeleteNlb, TypeOK
  <2>3. \A b \in Arns : (Deletable(b)' <=> Deletable(b)) /\ (Deletable(b) => nlbs'[b] = nlbs[b])
    BY <2>2 DEF Deletable, Exists
  <2>4. UNCHANGED <<pc, active, arn>> /\ arn \in Arns
    BY <1>13 DEF ServiceChange, locals, TypeOK
  <2>5. Deletable(arn) => Deletable(arn)'
    BY <2>3, <2>4 DEF Deletable, Exists
  <2> QED
    BY <2>3, <2>4, <2>5, RestGains
<1>14. CASE BorrowTargetGroup
  <2>1. PICK a \in Arns :
            /\ ~Exists(a)
            /\ nlbs' = [nlbs EXCEPT ![a] =
                            [ServiceNLB EXCEPT !.scheme = "internal", !.listener = TRUE]]
    BY <1>14 DEF BorrowTargetGroup
  <2>2. ~Deletable(a) /\ ~Deletable(a)' /\ \A b \in Arns : b # a => nlbs'[b] = nlbs[b]
    BY <2>1, DeletableNLBs DEF Deletable, Exists, TypeOK
  <2>3. \A b \in Arns : (Deletable(b)' <=> Deletable(b)) /\ (Deletable(b) => nlbs'[b] = nlbs[b])
    BY <2>2 DEF Deletable, Exists
  <2>4. UNCHANGED <<pc, active, arn>> /\ arn \in Arns
    BY <1>14 DEF BorrowTargetGroup, locals, TypeOK
  <2>5. Deletable(arn) => Deletable(arn)'
    BY <2>3, <2>4 DEF Deletable, Exists
  <2> QED
    BY <2>3, <2>4, <2>5, RestGains
<1> QED
  BY <1>1, <1>2, <1>3, <1>4, <1>5, <1>6, <1>7, <1>8, <1>9, <1>10, <1>11, <1>12, <1>13, <1>14
  DEF Next, Reconcile, Environment

\* The invariant holds in every reachable state.
LEMMA BaseInvariant == Spec => []BaseInv
<1>1. BaseInv /\ [Next]_vars => BaseInv'
  BY TypeNext, RestNext DEF BaseInv, Rest
<1> QED
  BY BaseInit, <1>1, PTL DEF Spec

\* Every variable of the AWS client's model has its type in every reachable state:
\* in particular no goroutine patches a CPMS it has not read, and its attempts stay
\* within maxRetries.
THEOREM TypeCorrect == Spec => []TypeOK
<1>1. BaseInv => TypeOK
  BY DEF BaseInv
<1> QED
  BY BaseInvariant, <1>1, PTL

-----------------------------------------------------------------------------
(* The refinement of APIScope.                                             *)

\* Nobody touches the internal load balancer, and the external ones are the operator's.
OwnInv ==
    /\ nlbs[IntArn] = IntNLB
    /\ \A a \in Arns : Exists(a) /\ nlbs[a].name = "ext" => Deletable(a)

\* The loop over the load balancers has not passed one that it is to delete, and the
\* record is about to name the internal one only when none of those is left.
LoopInv ==
    /\ pc = "tags" => \A a \in Arns : Deletable(a) => a \in todo
    /\ pc = "upsert" /\ arn = IntArn => \A a \in Arns : ~Deletable(a)
    /\ pc = "upsert" /\ arn # IntArn => Deletable(arn)

ScopeInv == BaseInv /\ OwnInv /\ LoopInv

\* An internal load balancer is none that setDefaultAPIPrivate would delete.
LEMMA IntKept ==
    ASSUME OwnInv
    PROVE  Exists(IntArn) /\ ~Deletable(IntArn) /\ ~nlbs[IntArn].service
<1>1. IntNLB # NoNLB /\ IntNLB.service = FALSE
  BY NLBTypes, ArnsAssumption DEF IntNLB
<1> QED
  BY <1>1, DeletableNLBs DEF OwnInv, Exists, Deletable

LEMMA OwnInit == Init => OwnInv /\ LoopInv
<1> SUFFICES ASSUME Init PROVE OwnInv /\ LoopInv
  OBVIOUS
<1>1. nlbs[IntArn] = IntNLB
  BY ArnsAssumption DEF Init
<1>2. \A a \in Arns : nlbs[a] \in {IntNLB, [ExtNLB EXCEPT !.listener = TRUE], ServiceNLB, NoNLB}
  BY DEF Init
<1>3. IntNLB.name # "ext" /\ ServiceNLB.name # "ext" /\ canDeleteNlb([ExtNLB EXCEPT !.listener = TRUE])
  BY DEF IntNLB, ServiceNLB, ExtNLB, canDeleteNlb
<1>4. \A a \in Arns : Exists(a) /\ nlbs[a].name = "ext" => Deletable(a)
  BY <1>2, <1>3 DEF Exists, Deletable
<1>5. pc = "idle"
  BY DEF Init
<1> QED
  BY <1>1, <1>4, <1>5 DEF OwnInv, LoopInv

\* A step that keeps the load balancers, and the Reconcile where it is or outside the
\* loop and away from the record.
LEMMA OwnStutters ==
    ASSUME OwnInv, LoopInv, UNCHANGED nlbs,
           UNCHANGED <<pc, arn, todo>> \/ pc' \notin {"tags", "upsert"}
    PROVE  OwnInv' /\ LoopInv'
BY DEF OwnInv, LoopInv, Exists, Deletable

\* A step of somebody else, who makes or deletes a load balancer that is not external.
LEMMA OwnOthers ==
    ASSUME TypeOK, OwnInv, LoopInv, UNCHANGED <<pc, arn, todo>>, NEW a \in Arns, a # IntArn,
           NEW nlb, nlbs' = [nlbs EXCEPT ![a] = nlb],
           Exists(a) => ~Deletable(a), nlb # NoNLB => nlb.name # "ext" /\ ~canDeleteNlb(nlb)
    PROVE  /\ OwnInv' /\ LoopInv'
           /\ \A b \in Arns : Deletable(b)' <=> Deletable(b)
<1>1. \A b \in Arns : b # a => nlbs'[b] = nlbs[b] /\ (Deletable(b)' <=> Deletable(b))
  BY DEF TypeOK, Deletable, Exists
<1>2. nlbs'[a] = nlb /\ ~Deletable(a) /\ ~Deletable(a)'
  BY DEF TypeOK, Deletable, Exists
<1>3. \A b \in Arns : Deletable(b)' <=> Deletable(b)
  BY <1>1, <1>2
<1>4. OwnInv'
  BY <1>1, <1>2, <1>3, ArnsAssumption DEF OwnInv, Exists
<1>5. arn \in Arns
  BY DEF TypeOK
<1>6. Deletable(arn)' <=> Deletable(arn)
  <2>1. nlbs'[arn] = nlbs[arn] \/ arn = a
    BY <1>1, <1>5
  <2> QED
    BY <2>1, <1>2 DEF Deletable, Exists
<1>7. LoopInv'
  BY <1>3, <1>6 DEF LoopInv
<1> QED
  BY <1>3, <1>4, <1>7

\* The load balancers of others that come and go.
LEMMA OthersStep ==
    ASSUME TypeOK, OwnInv, LoopInv, ServiceChange \/ BorrowTargetGroup
    PROVE  /\ OwnInv' /\ LoopInv'
           /\ \A b \in Arns : Deletable(b)' <=> Deletable(b)
<1>1. UNCHANGED <<pc, arn, todo>>
  BY DEF ServiceChange, BorrowTargetGroup, locals
<1>2. ServiceNLB.name # "ext" /\ [ServiceNLB EXCEPT !.scheme = "internal", !.listener = TRUE].name # "ext"
  BY DEF ServiceNLB
<1>3. CASE ServiceChange
  <2>1. PICK a \in Arns :
            \/ ~Exists(a) /\ nlbs' = [nlbs EXCEPT ![a] = ServiceNLB]
            \/ Exists(a) /\ nlbs[a].service /\ nlbs' = [nlbs EXCEPT ![a] = NoNLB]
    BY <1>3 DEF ServiceChange
  <2>2. a # IntArn /\ (Exists(a) => ~Deletable(a))
    BY <2>1, IntKept DEF Deletable, canDeleteNlb
  <2> QED
    BY <1>1, <1>2, <2>1, <2>2, OwnOthers, DeletableNLBs
<1>4. CASE BorrowTargetGroup
  <2>1. PICK a \in Arns :
            /\ ~Exists(a)
            /\ nlbs' = [nlbs EXCEPT ![a] =
                            [ServiceNLB EXCEPT !.scheme = "internal", !.listener = TRUE]]
    BY <1>4 DEF BorrowTargetGroup
  <2>2. a # IntArn
    BY <2>1, IntKept
  <2> QED
    BY <1>1, <1>2, <2>1, <2>2, OwnOthers, DeletableNLBs
<1> QED
  BY <1>3, <1>4

\* What the calls that change a load balancer do to it.
LEMMA CreateShape ==
    ASSUME TypeOK, OwnInv, Rest, CreateNLB
    PROVE  /\ arn' \in Arns /\ arn' # IntArn /\ ~Exists(arn')
           /\ nlbs'[arn'] = ExtNLB /\ Deletable(arn)'
           /\ \A b \in Arns : b # arn' => nlbs'[b] = nlbs[b]
<1>1. PICK a \in Arns : ~Exists(a) /\ nlbs' = [nlbs EXCEPT ![a] = ExtNLB] /\ arn' = a
  BY DEF CreateNLB
<1>2. nlbs'[a] = ExtNLB /\ \A b \in Arns : b # a => nlbs'[b] = nlbs[b]
  BY <1>1 DEF TypeOK
<1>3. Deletable(arn)'
  BY <1>1, <1>2, DeletableNLBs, NLBTypes, ArnsAssumption DEF Deletable, Exists
<1> QED
  BY <1>1, <1>2, <1>3, IntKept

LEMMA ListenerShape ==
    ASSUME TypeOK, OwnInv, Rest, CreateListener
    PROVE  /\ arn \in Arns /\ arn # IntArn /\ Deletable(arn)
           /\ \A b \in Arns : Deletable(b)' <=> Deletable(b)
           /\ \A b \in Arns : b # arn => nlbs'[b] = nlbs[b]
           /\ nlbs'[arn] # NoNLB
<1>1. arn \in Arns /\ Deletable(arn) /\ arn # IntArn
  BY IntKept DEF CreateListener, Rest, ArnInv, TypeOK
<1>2. CASE UNCHANGED nlbs
  BY <1>1, <1>2 DEF Deletable, Exists
<1>3. CASE nlbs' = [nlbs EXCEPT ![arn] = [nlbs[arn] EXCEPT !.listener = TRUE]]
  <2>1. nlbs[arn] \in NLB
    BY <1>1 DEF Deletable, Exists, TypeOK
  <2>2. /\ nlbs'[arn] = [nlbs[arn] EXCEPT !.listener = TRUE] /\ nlbs'[arn] \in NLB
        /\ \A b \in Arns : b # arn => nlbs'[b] = nlbs[b]
    BY <1>1, <1>3, <2>1 DEF TypeOK, NLB
  <2>3. /\ nlbs'[arn].name = nlbs[arn].name /\ nlbs'[arn].nameTag = nlbs[arn].nameTag
        /\ nlbs'[arn].service = nlbs[arn].service
    BY <2>1, <2>2 DEF NLB
  <2>4. nlbs'[arn] # NoNLB
    BY <2>2, ArnsAssumption
  <2>5. \A b \in Arns : Deletable(b)' <=> Deletable(b)
    BY <1>1, <2>2, <2>3, <2>4 DEF Deletable, Exists, canDeleteNlb
  <2> QED
    BY <1>1, <2>2, <2>4, <2>5
<1> QED
  BY <1>2, <1>3 DEF CreateListener

LEMMA DeleteShape ==
    ASSUME TypeOK, OwnInv, Rest, DeleteNLB
    PROVE  /\ arn \in Arns /\ arn # IntArn /\ Deletable(arn)
           /\ \A b \in Arns : ~Deletable(b)'
           /\ \A b \in Arns : b # arn => nlbs'[b] = nlbs[b]
           /\ nlbs'[arn] = NoNLB
<1>1. arn \in Arns /\ Deletable(arn) /\ arn # IntArn
  BY IntKept DEF DeleteNLB, Rest, ArnInv, TypeOK
<1>2. nlbs'[arn] = NoNLB /\ \A b \in Arns : b # arn => nlbs'[b] = nlbs[b]
  BY <1>1 DEF DeleteNLB, TypeOK
<1>3. \A b \in Arns : ~Deletable(b)'
  BY <1>1, <1>2 DEF Rest, SingleInv, Deletable, Exists
<1> QED
  BY <1>1, <1>2, <1>3

LEMMA OwnNext == ScopeInv /\ [Next]_vars => OwnInv' /\ LoopInv'
<1> SUFFICES ASSUME TypeOK, Rest, OwnInv, LoopInv, [Next]_vars PROVE OwnInv' /\ LoopInv'
  BY DEF ScopeInv, BaseInv, Rest
<1> USE DEF cloud, cluster, cache, locals, bounds
<1>1. CASE PublicList
  BY <1>1, OwnStutters DEF PublicList
<1>2. CASE CreateNLB
  <2>1. pc' = "createListener"
    BY <1>2 DEF CreateNLB
  <2> QED
    BY <1>2, <2>1, CreateShape, ArnsAssumption DEF OwnInv, LoopInv, Exists, Deletable
<1>3. CASE CreateListener
  <2>1. OwnInv'
    BY <1>3, ListenerShape, ArnsAssumption DEF OwnInv, Deletable, Exists
  <2>2. CASE pc' = "idle"
    BY <2>1, <2>2 DEF LoopInv
  <2>3. CASE pc' = "upsert" /\ UNCHANGED arn
    <3>1. Deletable(arn)' /\ arn # IntArn
      BY <1>3, <2>3, ListenerShape DEF Deletable, Exists
    <3> QED
      BY <2>1, <2>3, <3>1 DEF LoopInv
  <2> QED
    BY <1>3, <2>2, <2>3 DEF CreateListener, Return
<1>4. CASE PrivateList
  <2>1. pc' = "tags" /\ UNCHANGED nlbs /\ todo' = InternetFacing
    BY <1>4 DEF PrivateList
  <2>2. \A a \in Arns : Deletable(a) => a \in InternetFacing
    BY DEF Rest, ExtInv, InternetFacing, Deletable
  <2> QED
    BY <2>1, <2>2 DEF OwnInv, LoopInv, Exists, Deletable
<1>5. CASE ReadTags
  <2>1. UNCHANGED nlbs /\ pc = "tags"
    BY <1>5 DEF ReadTags
  <2>2. CASE pc' \in {"idle", "deleteNLB"}
    BY <2>1, <2>2, OwnStutters
  <2>3. CASE todo = {} /\ arn' = IntArn /\ pc' = "upsert"
    BY <2>1, <2>3 DEF OwnInv, LoopInv, Exists, Deletable
  <2>4. CASE /\ pc' = "tags"
             /\ \E a \in todo : ~canDeleteNlb(nlbs[a]) /\ todo' = todo \ {a}
    BY <2>1, <2>4 DEF OwnInv, LoopInv, Exists, Deletable
  <2> QED
    BY <1>5, <2>1, <2>2, <2>3, <2>4 DEF ReadTags, Return
<1>6. CASE DeleteNLB
  <2>1. pc' \notin {"tags", "upsert"}
    BY <1>6 DEF DeleteNLB
  <2> QED
    BY <1>6, <2>1, DeleteShape, ArnsAssumption DEF OwnInv, LoopInv, Exists, Deletable
<1>7. CASE DeleteCPMS
  BY <1>7, OwnStutters DEF DeleteCPMS, Return
<1>8. CASE UpdateMachine
  <2>1. pc = "machines" /\ UNCHANGED <<nlbs, arn, todo>>
    BY <1>8 DEF UpdateMachine
  <2>2. CASE UNCHANGED pc
    BY <2>1, <2>2, OwnStutters
  <2>3. CASE pc' = "tags"
    BY <2>1, <2>3 DEF Rest, SingleInv, NoneDeletable, OwnInv, LoopInv, Exists, Deletable
  <2> QED
    BY <1>8, <2>2, <2>3 DEF UpdateMachine
<1>9. CASE UpsertARecord
  BY <1>9, OwnStutters DEF UpsertARecord, Return
<1>10. ASSUME NEW g \in Goroutines, Background(g) PROVE OwnInv' /\ LoopInv'
  BY <1>10, OwnStutters DEF Background, GetCPMS, PatchCPMS, SetCPMSActive, Restart
<1>11. CASE Error \/ Crash
  BY <1>11, OwnStutters DEF Error, Crash, Return, Restart
<1>12. CASE EditStrategy \/ FinalizeCPMS \/ RecreateCPMS \/ LoseCPMS
  BY <1>12, OwnStutters DEF EditStrategy, FinalizeCPMS, RecreateCPMS, LoseCPMS
<1>15. CASE Resync \/ SyncCPMS \/ \E m \in Masters : SyncMachine(m)
  BY <1>15, OwnStutters DEF Resync, SyncCPMS, SyncMachine
<1>13. CASE ServiceChange \/ BorrowTargetGroup
  BY <1>13, OthersStep
<1>14. CASE UNCHANGED vars
  BY <1>14, OwnStutters DEF vars
<1> QED
  BY <1>1, <1>2, <1>3, <1>4, <1>5, <1>6, <1>7, <1>8, <1>9, <1>10, <1>11, <1>12, <1>13, <1>14,
     <1>15
  DEF Next, Reconcile, Environment

\* The invariant of the refinement holds in every reachable state.
LEMMA ScopeInvariant == Spec => []ScopeInv
<1>1. Init => ScopeInv
  BY BaseInit, OwnInit DEF ScopeInv
<1>2. ScopeInv /\ [Next]_vars => ScopeInv'
  BY TypeNext, RestNext, OwnNext DEF ScopeInv, BaseInv, Rest
<1> QED
  BY <1>1, <1>2, PTL DEF Spec

\* The operator deletes no load balancer of a Service, and never the internal one,
\* however old the list is on which canDeleteNlb decided.
THEOREM OthersSafe == Spec => OthersKept
<1>1. ScopeInv /\ [Next]_vars =>
        [\A a \in Arns :
            Exists(a) /\ (nlbs[a].service \/ a = IntArn) /\ nlbs'[a] # nlbs[a]
                => drift' # drift]_vars
  <2> SUFFICES ASSUME TypeOK, Rest, OwnInv, Next, NEW a \in Arns,
                      Exists(a), nlbs[a].service \/ a = IntArn, nlbs'[a] # nlbs[a]
               PROVE  drift' # drift
    BY DEF ScopeInv, BaseInv, Rest
  <2>1. ~Deletable(a)
    BY IntKept DEF Deletable, canDeleteNlb
  <2>2. CASE CreateNLB
    BY <2>2, CreateShape
  <2>3. CASE CreateListener
    BY <2>1, <2>3, ListenerShape
  <2>4. CASE DeleteNLB
    BY <2>1, <2>4, DeleteShape
  <2>5. CASE ServiceChange \/ BorrowTargetGroup
    BY <2>5 DEF ServiceChange, BorrowTargetGroup, TypeOK
  <2>6. CASE PublicList \/ PrivateList \/ ReadTags \/ DeleteCPMS \/ UpdateMachine \/ UpsertARecord
    BY <2>6 DEF PublicList, PrivateList, ReadTags, DeleteCPMS, UpdateMachine, UpsertARecord, cloud
  <2>7. CASE Error \/ Crash \/ EditStrategy \/ FinalizeCPMS \/ RecreateCPMS \/ LoseCPMS
    BY <2>7 DEF Error, Crash, Restart, EditStrategy, FinalizeCPMS, RecreateCPMS, LoseCPMS, cloud
  <2>9. CASE Resync \/ SyncCPMS \/ \E m \in Masters : SyncMachine(m)
    BY <2>9 DEF Resync, SyncCPMS, SyncMachine, cloud
  <2>8. ASSUME NEW g \in Goroutines, Background(g) PROVE nlbs' = nlbs
    BY <2>8 DEF Background, GetCPMS, PatchCPMS, SetCPMSActive, Restart, cloud
  <2> QED
    BY <2>2, <2>3, <2>4, <2>5, <2>6, <2>7, <2>8, <2>9 DEF Next, Reconcile, Environment
<1> QED
  BY ScopeInvariant, <1>1, PTL DEF Spec, OthersKept

-----------------------------------------------------------------------------
\* There is an external load balancer exactly when there is one to delete.
LEMMA ExposedIs ==
    ASSUME ExtInv, OwnInv
    PROVE  Exposed <=> \E a \in Arns : Deletable(a)
BY DEF ExtInv, OwnInv, Exposed, InternetFacing, Deletable

\* A step that leaves the load balancers that can be deleted leaves the API's exposure.
LEMMA ExposedSame ==
    ASSUME ExtInv, OwnInv, ExtInv', OwnInv', \A a \in Arns : Deletable(a)' <=> Deletable(a)
    PROVE  Exposed' = Exposed
<1>1. Exposed' <=> \E a \in Arns : Deletable(a)'
  BY DEF ExtInv, OwnInv, Exposed, InternetFacing, Deletable
<1>2. Exposed' \in BOOLEAN /\ Exposed \in BOOLEAN
  BY DEF Exposed
<1> QED
  BY <1>1, <1>2, ExposedIs

LEMMA ExposedUnchanged ==
    ASSUME UNCHANGED nlbs
    PROVE  Exposed' = Exposed
BY DEF Exposed, InternetFacing, Exists

\* A Reconcile that an error or the end of the process ends comes back.
LEMMA ScopeFails ==
    ASSUME UNCHANGED <<listening, nlbs, alias>>, pc' = "idle", queued' = TRUE
    PROVE  Scope!Fail \/ Scope!Wake
<1>1. Goal' = "none" /\ Exposed' = Exposed
  BY ExposedUnchanged DEF Goal
<1>2. CASE Goal = "none"
  BY <1>1, <1>2 DEF Scope!Wake
<1>3. CASE Goal # "none"
  BY <1>1, <1>3 DEF Scope!Fail
<1> QED
  BY <1>2, <1>3

LEMMA ScopeErrs ==
    ASSUME TypeOK, UNCHANGED <<listening, nlbs, alias>>, Return(TRUE)
    PROVE  Scope!Fail \/ Scope!Wake
BY ScopeFails DEF Return, TypeOK

\* The end of a Reconcile without an error.
LEMMA ScopeReturn ==
    ASSUME TypeOK, Return(FALSE)
    PROVE  Goal' = "none" /\ queued' = queued
BY DEF Return, Goal, TypeOK

\* Every step is one of the promise, or none that it sees.
LEMMA ScopeStep == ScopeInv /\ ScopeInv' /\ [Next]_vars => [Scope!Next]_(Scope!vars)
<1> SUFFICES ASSUME ScopeInv, ScopeInv', [Next]_vars PROVE [Scope!Next]_(Scope!vars)
  OBVIOUS
<1>a. TypeOK /\ Rest /\ OwnInv /\ LoopInv /\ ExtInv /\ ExtInv' /\ OwnInv'
  BY DEF ScopeInv, BaseInv, Rest
<1> USE <1>a DEF cloud, cluster, cache, locals, bounds
<1>s. ASSUME UNCHANGED <<listening, queued, alias>>, Exposed' = Exposed, Goal' = Goal
      PROVE  UNCHANGED Scope!vars
  BY <1>s DEF Scope!vars
<1>f. ASSUME Scope!Fail \/ Scope!Wake PROVE Scope!Next
  BY <1>f DEF Scope!Next
<1>1. CASE PublicList
  <2>1. /\ pc = "idle" /\ queued = TRUE /\ queued' = FALSE /\ listening = "external"
        /\ UNCHANGED <<listening, alias, nlbs>>
    BY <1>1 DEF PublicList
  <2>2. Goal = "none" /\ Goal' \in {"none", listening}
    BY <1>1, <2>1 DEF PublicList, Goal
  <2> QED
    BY <2>1, <2>2, ExposedUnchanged DEF Scope!Next, Scope!Start, Scope!Skip
<1>2. CASE CreateNLB
  <2>1. Goal = "external" /\ Goal' = Goal /\ UNCHANGED <<listening, queued, alias>>
    BY <1>2 DEF CreateNLB, Goal
  <2>2. Exposed'
    BY <1>2, CreateShape, DeletableNLBs DEF Exposed, InternetFacing, Deletable
  <2>3. Exposed' = TRUE
    BY <2>2 DEF Exposed
  <2> QED
    BY <2>1, <2>3 DEF Scope!Next, Scope!Expose
<1>3. CASE CreateListener
  <2>1. /\ Goal = "external" /\ UNCHANGED <<listening, alias>>
        /\ Exposed' = Exposed /\ Exposed
    BY <1>3, ListenerShape, ExposedSame, ExposedIs DEF CreateListener, Goal
  <2>2. CASE Return(FALSE)
    BY <2>1, <2>2, ScopeReturn DEF Scope!Next, Scope!GiveUp
  <2>3. CASE pc' = "upsert" /\ UNCHANGED <<queued, arn>>
    <3>1. Goal' = Goal
      BY <1>3, <2>1, <2>3, ListenerShape DEF Goal
    <3> QED
      BY <2>1, <2>3, <3>1, <1>s
  <2> QED
    BY <1>3, <2>2, <2>3 DEF CreateListener
<1>4. CASE PrivateList
  <2>1. /\ pc = "idle" /\ queued = TRUE /\ queued' = FALSE /\ listening = "internal"
        /\ UNCHANGED <<listening, alias, nlbs>> /\ pc' = "tags"
    BY <1>4 DEF PrivateList
  <2>2. Goal = "none" /\ Goal' = listening
    BY <2>1 DEF Goal
  <2> QED
    BY <2>1, <2>2, ExposedUnchanged DEF Scope!Next, Scope!Start
<1>5. CASE ReadTags
  <2>1. pc = "tags" /\ UNCHANGED <<listening, alias, nlbs>>
    BY <1>5 DEF ReadTags
  <2>2. CASE Return(TRUE)
    BY <2>1, <2>2, <1>f, ScopeErrs
  <2>3. CASE /\ UNCHANGED queued
             /\ pc' \in {"tags", "deleteNLB"} \/ (pc' = "upsert" /\ arn' = IntArn)
    <3>1. Goal' = Goal
      BY <2>1, <2>3 DEF Goal
    <3> QED
      BY <2>1, <2>3, <3>1, <1>s, ExposedUnchanged
  <2> QED
    BY <1>5, <2>1, <2>2, <2>3 DEF ReadTags
<1>6. CASE DeleteNLB
  <2>1. Goal = "internal" /\ Goal' = Goal /\ UNCHANGED <<listening, queued, alias>>
    BY <1>6 DEF DeleteNLB, Goal
  <2>2. ~Exposed'
    BY <1>6, DeleteShape DEF OwnInv, Exposed, InternetFacing
  <2>3. Exposed' = FALSE
    BY <2>2 DEF Exposed
  <2> QED
    BY <2>1, <2>3 DEF Scope!Next, Scope!Hide
<1>7. CASE DeleteCPMS
  <2>1. pc = "deleteCPMS" /\ UNCHANGED <<listening, alias, nlbs>>
    BY <1>7 DEF DeleteCPMS
  <2>2. CASE Return(TRUE)
    BY <2>1, <2>2, <1>f, ScopeErrs
  <2>3. CASE UNCHANGED queued /\ pc' = "machines"
    <3>1. Goal' = Goal
      BY <2>1, <2>3 DEF Goal
    <3> QED
      BY <2>1, <2>3, <3>1, <1>s, ExposedUnchanged
  <2> QED
    BY <1>7, <2>2, <2>3 DEF DeleteCPMS
<1>8. CASE UpdateMachine
  <2>1. pc = "machines" /\ pc' \in {"machines", "tags"} /\ UNCHANGED <<listening, alias, nlbs, queued>>
    BY <1>8 DEF UpdateMachine
  <2>2. Goal' = Goal
    BY <2>1 DEF Goal
  <2> QED
    BY <2>1, <2>2, <1>s, ExposedUnchanged
<1>9. CASE UpsertARecord
  <2>1. /\ pc = "upsert" /\ UNCHANGED <<listening, nlbs>> /\ alias' = arn /\ arn \in Arns
        /\ Goal' = "none" /\ queued' = queued /\ Exposed' = Exposed
    BY <1>9, ScopeReturn, ExposedUnchanged DEF UpsertARecord, TypeOK
  <2>2. CASE arn = IntArn
    <3>1. Goal = "internal" /\ ~Exposed
      BY <2>1, <2>2, ExposedIs DEF Goal, LoopInv
    <3> QED
      BY <2>1, <2>2, <3>1 DEF Scope!Next, Scope!PointIn
  <2>3. CASE arn # IntArn
    <3>1. Goal = "external" /\ Exposed
      BY <2>1, <2>3, ExposedIs DEF Goal, LoopInv
    <3> QED
      BY <2>1, <2>3, <3>1 DEF Scope!Next, Scope!PointOut
  <2> QED
    BY <2>2, <2>3
<1>10. ASSUME NEW g \in Goroutines, Background(g) PROVE [Scope!Next]_(Scope!vars)
  <2>1. CASE UNCHANGED <<listening, queued, pc, arn, alias, nlbs>>
    BY <2>1, <1>s, ExposedUnchanged DEF Goal
  <2>2. CASE Restart
    BY <2>2, <1>f, ScopeFails DEF Restart
  <2> QED
    BY <1>10, <2>1, <2>2 DEF Background, GetCPMS, PatchCPMS, SetCPMSActive
<1>11. CASE Error
  BY <1>11, <1>f, ScopeErrs DEF Error
<1>12. CASE Crash
  BY <1>12, <1>f, ScopeFails DEF Crash, Restart
<1>13. CASE EditStrategy
  <2>1. Goal' = Goal /\ Exposed' = Exposed
    BY <1>13, ExposedUnchanged DEF EditStrategy, Goal
  <2> QED
    BY <1>13, <2>1 DEF EditStrategy, Listening, Scope!Next, Scope!Ask, Scope!Scopes
<1>14. CASE Resync
  <2>1. Goal' = Goal /\ Exposed' = Exposed
    BY <1>14, ExposedUnchanged DEF Resync, Goal
  <2> QED
    BY <1>14, <2>1 DEF Resync, Scope!Next, Scope!Wake
<1>15. CASE \/ FinalizeCPMS \/ RecreateCPMS \/ LoseCPMS \/ SyncCPMS
            \/ \E m \in Masters : SyncMachine(m)
  <2>1. UNCHANGED <<listening, queued, pc, arn, alias, nlbs>>
    BY <1>15 DEF FinalizeCPMS, RecreateCPMS, LoseCPMS, SyncCPMS, SyncMachine
  <2> QED
    BY <2>1, <1>s, ExposedUnchanged DEF Goal
<1>16. CASE ServiceChange \/ BorrowTargetGroup
  <2>1. UNCHANGED <<listening, queued, pc, arn, alias>>
    BY <1>16 DEF ServiceChange, BorrowTargetGroup
  <2>2. Exposed' = Exposed
    BY <1>16, OthersStep, ExposedSame
  <2> QED
    BY <2>1, <2>2, <1>s DEF Goal
<1>17. CASE UNCHANGED vars
  BY <1>17, <1>s, ExposedUnchanged DEF vars, Goal
<1> QED
  BY <1>1, <1>2, <1>3, <1>4, <1>5, <1>6, <1>7, <1>8, <1>9, <1>10, <1>11, <1>12, <1>13,
     <1>14, <1>15, <1>16, <1>17
  DEF Next, Reconcile, Environment

\* The installer's public cluster is exposed and its record names the external load
\* balancer; a private one is not, and names the internal.
LEMMA ScopeInit == Init => Scope!Init
<1> SUFFICES ASSUME Init PROVE Scope!Init
  OBVIOUS
<1>1. listening \in Scope!Scopes /\ queued = TRUE /\ Goal = "none"
  BY DEF Init, Listening, Scope!Scopes, Goal
<1>2. OwnInv /\ ExtInv
  BY OwnInit, BaseInit DEF BaseInv
<1>3. Exposed <=> alias # IntArn
  <2>1. PICK public \in BOOLEAN, services \in SUBSET {ServiceArn} :
            /\ nlbs = [a \in Arns |->
                        IF a = IntArn THEN IntNLB
                        ELSE IF a = ExtArn /\ public THEN [ExtNLB EXCEPT !.listener = TRUE]
                        ELSE IF a \in services THEN ServiceNLB ELSE NoNLB]
            /\ alias = IF public THEN ExtArn ELSE IntArn
    BY DEF Init
  <2>2. IntNLB.name # "ext" /\ ServiceNLB.name # "ext"
    BY DEF IntNLB, ServiceNLB
  <2>3. CASE public /\ ExtArn # IntArn
    <3>1. nlbs[ExtArn] = [ExtNLB EXCEPT !.listener = TRUE] /\ alias # IntArn
      BY <2>1, <2>3, ArnsAssumption
    <3> QED
      BY <3>1, DeletableNLBs, NLBTypes, ArnsAssumption DEF Exposed, InternetFacing, Exists
  <2>4. CASE ~(public /\ ExtArn # IntArn)
    <3>1. \A a \in Arns : nlbs[a] \in {IntNLB, ServiceNLB, NoNLB}
      BY <2>1, <2>4
    <3>2. alias = IntArn
      BY <2>1, <2>4
    <3> QED
      BY <2>2, <3>1, <3>2 DEF Exposed, InternetFacing, Exists
  <2> QED
    BY <2>3, <2>4
<1>4. Exposed \in BOOLEAN
  BY DEF Exposed
<1>5. (IF alias = IntArn THEN "in" ELSE "out") = (IF Exposed THEN "out" ELSE "in")
  BY <1>3
<1> QED
  BY <1>1, <1>4, <1>5 DEF Scope!Init

\* setDefaultAPIPublic and setDefaultAPIPrivate of the AWS client keep the promise of
\* APIScope, for any number of load balancers, errors, crashes and edits.
THEOREM ScopeImplemented == Spec => ImplementsScope
BY ScopeInvariant, ScopeInit, ScopeStep, PTL DEF Spec, ImplementsScope, Scope!Spec

Promise ==
    INSTANCE APIScopeProofs WITH
        owed <- queued, goal <- Goal, exposed <- Exposed,
        record <- IF alias = IntArn THEN "in" ELSE "out"

\* On AWS a Reconcile that ends without an error leaves a private API private, or a
\* request in the queue.
THEOREM SettledSafe == Spec => []InternalSettled
<1>1. Scope!Init => Promise!Init
  BY DEF Scope!Init, Promise!Init, Scope!Scopes, Promise!Scopes
<1>2. [Scope!Next]_(Scope!vars) => [Promise!Next]_(Promise!vars)
  BY DEF Scope!Next, Scope!vars, Scope!Scopes, Scope!Private, Scope!Ask, Scope!Wake, Scope!Start,
         Scope!Skip, Scope!GiveUp, Scope!Expose, Scope!Hide, Scope!PointOut, Scope!PointIn,
         Scope!Finish, Scope!Fail,
         Promise!Next, Promise!vars, Promise!Scopes, Promise!Private, Promise!Ask, Promise!Wake,
         Promise!Start, Promise!Skip, Promise!GiveUp, Promise!Expose, Promise!Hide,
         Promise!PointOut, Promise!PointIn, Promise!Finish, Promise!Fail
<1>3. Promise!Settled => InternalSettled
  BY DEF InternalSettled, Scope!Settled, Promise!Settled, Scope!Private, Promise!Private
<1> QED
  BY <1>1, <1>2, <1>3, ScopeImplemented, Promise!SettledAlways, PTL
  DEF ImplementsScope, Scope!Spec, Promise!Spec

-----------------------------------------------------------------------------
(* One goroutine at a time.                                                *)

Running == \E g \in Goroutines : goroutine[g] # NoGoroutine

\* A CPMS that setDefaultAPIPrivate does not take for active, and one that becomes so.
Off(c) == c = NoCPMS \/ c.state = "Inactive"
Going == Off(cpms) \/ cpms.deleting

\* While a goroutine runs, the CPMS is off or on its way: a Reconcile that reads it either
\* finds it off, or has nothing to delete and so no goroutine to start.
OffInv ==
    /\ \A g, h \in Goroutines : goroutine[g] # NoGoroutine /\ goroutine[h] # NoGoroutine => g = h
    /\ Running => Going
    /\ active /\ pc = "machines" => Going
    /\ Running /\ listening = "internal" =>
        \/ Off(cpms) /\ Off(cpmsSeen)
        \/ NoneDeletable /\ pc # "createNLB"
    /\ active /\ pc \in {"deleteNLB", "deleteCPMS", "machines"} => ~Running
    /\ active /\ pc = "tags" /\ Running => NoneDeletable

\* Nobody takes back what went wrong.
LEMMA TroublesGrow ==
    ASSUME TypeOK, [Next]_vars
    PROVE  (late' = 0 => late = 0) /\ (drift' = 0 => drift = 0) /\ (faults' = 0 => faults = 0)
<1>1. late \in Nat /\ drift \in Nat /\ faults \in Nat
  BY BoundsAssumption DEF TypeOK
<1>2. /\ late' \in {late, late + 1} /\ drift' \in {drift, drift + 1}
      /\ faults' \in {faults, faults + 1}
  <2>1. CASE Reconcile
    BY <2>1 DEF Reconcile, PublicList, CreateNLB, CreateListener, PrivateList, ReadTags, DeleteNLB,
                DeleteCPMS, UpdateMachine, UpsertARecord, bounds
  <2>2. CASE Error \/ Crash \/ EditStrategy \/ FinalizeCPMS \/ RecreateCPMS \/ LoseCPMS
    BY <2>2 DEF Error, Crash, EditStrategy, Counted, FinalizeCPMS, RecreateCPMS, LoseCPMS, bounds
  <2>3. CASE \/ ServiceChange \/ BorrowTargetGroup \/ SyncCPMS \/ (\E m \in Masters : SyncMachine(m))
             \/ Resync \/ UNCHANGED vars
    BY <2>3 DEF ServiceChange, BorrowTargetGroup, SyncCPMS, SyncMachine, Resync, vars, bounds
  <2>4. ASSUME NEW g \in Goroutines, Background(g)
        PROVE  /\ late' \in {late, late + 1} /\ drift' \in {drift, drift + 1}
               /\ faults' \in {faults, faults + 1}
    BY <2>4 DEF Background, GetCPMS, Counted, PatchCPMS, SetCPMSActive
  <2> QED
    BY <2>1, <2>2, <2>3, <2>4 DEF Next, Environment
<1> QED
  BY <1>1, <1>2

\* Who relies on the CPMS and is not counted finds it replaced.
LEMMA InTimeReplaced ==
    ASSUME TypeOK, NEW relies, Counted(relies), relies, late' = 0
    PROVE  Replaced
<1>1. late \in Nat
  BY BoundsAssumption DEF TypeOK
<1> QED
  BY <1>1 DEF Counted

\* Steps that start no goroutine, and after which the CPMS is as much off, and there is as
\* little to delete, as before.
LEMMA OffStutters ==
    ASSUME OffInv, UNCHANGED <<goroutine, listening>>,
           Going => Going', Off(cpms) => Off(cpms)',
           Off(cpms) /\ Off(cpmsSeen) => Off(cpmsSeen)',
           NoneDeletable => NoneDeletable',
           \/ UNCHANGED <<pc, active>>
           \/ active' = FALSE /\ pc' # "createNLB"
           \/ pc' \in {"createListener", "upsert"}
    PROVE  OffInv'
<1>1. Running' <=> Running
  BY DEF Running
<1> QED
  BY <1>1 DEF OffInv

\* Without a goroutine there is nothing to show, but for the Reconcile that may start one.
LEMMA OffNone ==
    ASSUME \A g \in Goroutines : goroutine'[g] = NoGoroutine,
           active' /\ pc' = "machines" => Going'
    PROVE  OffInv'
<1>1. ~Running'
  BY DEF Running
<1> QED
  BY <1>1 DEF OffInv

\* The load balancers and the CPMS as they are.
LEMMA OffSame ==
    ASSUME UNCHANGED <<nlbs, cpms, cpmsSeen>>
    PROVE  /\ Going => Going' /\ (Off(cpms) => Off(cpms)') /\ (Off(cpmsSeen) => Off(cpmsSeen)')
           /\ NoneDeletable => NoneDeletable'
BY DEF Going, Off, NoneDeletable, Deletable, Exists

LEMMA OffInit == Init => OffInv
<1> SUFFICES ASSUME Init PROVE OffInv
  OBVIOUS
<1>1. pc = "idle" /\ \A g \in Goroutines : goroutine[g] = NoGoroutine
  BY DEF Init
<1> QED
  BY <1>1 DEF OffInv, Running

\* Each step of the Reconcile.
LEMMA OffReconcile ==
    ASSUME ScopeInv, OffInv, Reconcile
    PROVE  OffInv'
<1>0. TypeOK /\ OwnInv /\ Rest /\ SingleInv /\ ArnInv /\ ExtInv
  BY DEF ScopeInv, BaseInv, Rest
<1>1. CASE PublicList
  <2>1. UNCHANGED <<goroutine, listening, nlbs, cpms, cpmsSeen, active>> /\ listening = "external"
    BY <1>1 DEF PublicList, cloud, cluster, cache, locals
  <2>2. pc' \in {"idle", "createNLB"}
    BY <1>1 DEF PublicList
  <2>3. Running' <=> Running
    BY <2>1 DEF Running
  <2> QED
    BY <2>1, <2>2, <2>3, OffSame DEF OffInv
<1>2. CASE CreateNLB
  <2>1. UNCHANGED <<goroutine, listening, cpms, cpmsSeen>> /\ pc = "createNLB" /\ pc' = "createListener"
    BY <1>2 DEF CreateNLB, cluster, cache
  <2>2. /\ Going => Going' /\ (Off(cpms) => Off(cpms)') /\ (Off(cpmsSeen) => Off(cpmsSeen)')
        /\ Running' <=> Running
    BY <2>1 DEF Going, Off, Running
  <2> QED
    BY <2>1, <2>2 DEF OffInv
<1>3. CASE CreateListener
  <2>1. UNCHANGED <<goroutine, listening, cpms, cpmsSeen>>
    BY <1>3 DEF CreateListener, cluster, cache
  <2>2. NoneDeletable => NoneDeletable'
    BY <1>0, <1>3, ListenerShape DEF NoneDeletable
  <2>3. Going => Going' /\ (Off(cpms) => Off(cpms)') /\ (Off(cpmsSeen) => Off(cpmsSeen)')
    BY <2>1 DEF Going, Off
  <2>4. (active' = FALSE /\ pc' = "idle") \/ pc' = "upsert"
    BY <1>3 DEF CreateListener, Return, ForgetLocals
  <2> QED
    BY <2>1, <2>2, <2>3, <2>4, OffStutters
<1>4. CASE PrivateList
  <2>1. /\ UNCHANGED <<goroutine, listening, nlbs, cpms, cpmsSeen>> /\ listening = "internal"
        /\ pc' = "tags" /\ active' = (cpmsSeen # NoCPMS /\ cpmsSeen.state = "Active")
    BY <1>4 DEF PrivateList, cloud, cluster, cache
  <2>2. Running' <=> Running
    BY <2>1 DEF Running
  <2>3. active' => ~Off(cpmsSeen)
    BY <2>1 DEF Off
  <2> QED
    BY <2>1, <2>2, <2>3, OffSame DEF OffInv
<1>5. CASE ReadTags
  <2>1. UNCHANGED <<goroutine, listening, nlbs, cpms, cpmsSeen>> /\ pc = "tags"
    BY <1>5 DEF ReadTags, cloud, cluster, cache
  <2>2. CASE \/ UNCHANGED <<pc, active>>
             \/ active' = FALSE /\ pc' # "createNLB"
             \/ pc' = "upsert"
    BY <2>1, <2>2, OffSame, OffStutters
  <2>3. CASE pc' = "deleteNLB" /\ UNCHANGED active /\ \E a \in Arns : Deletable(a)
    <3>1. ~NoneDeletable
      BY <2>3 DEF NoneDeletable
    <3>2. Running' <=> Running
      BY <2>1 DEF Running
    <3> QED
      BY <2>1, <2>3, <3>1, <3>2, OffSame DEF OffInv
  <2> QED
    BY <1>0, <1>5, <2>2, <2>3 DEF ReadTags, Return, ForgetLocals, Deletable, TypeOK
<1>6. CASE DeleteNLB
  <2>1. /\ UNCHANGED <<goroutine, listening, cpms, cpmsSeen, active>> /\ pc = "deleteNLB"
        /\ pc' = IF active THEN "deleteCPMS" ELSE "machines"
    BY <1>6 DEF DeleteNLB, cluster, cache
  <2>2. NoneDeletable'
    BY <1>0, <1>6, DeleteShape DEF NoneDeletable
  <2>3. /\ Going => Going' /\ (Off(cpms) => Off(cpms)') /\ (Off(cpmsSeen) => Off(cpmsSeen)')
        /\ Running' <=> Running
    BY <2>1 DEF Going, Off, Running
  <2> QED
    BY <2>1, <2>2, <2>3 DEF OffInv
<1>7. CASE DeleteCPMS
  <2>1. UNCHANGED goroutine /\ pc = "deleteCPMS" /\ active
    BY <1>0, <1>7 DEF DeleteCPMS, ArnInv
  <2>2. \A g \in Goroutines : goroutine'[g] = NoGoroutine
    BY <2>1 DEF OffInv, Running
  <2>3. CASE pc' = "idle"
    BY <2>2, <2>3, OffNone
  <2>4. CASE cpms # NoCPMS /\ cpms' = [cpms EXCEPT !.deleting = TRUE]
    <3>1. cpms'.deleting
      BY <1>0, <2>4 DEF TypeOK, CPMS
    <3> QED
      BY <2>2, <3>1, OffNone DEF Going
  <2> QED
    BY <1>7, <2>3, <2>4 DEF DeleteCPMS, Return
<1>8. CASE UpdateMachine
  <2>1. /\ UNCHANGED <<nlbs, cpms, cpmsSeen, listening, active>> /\ pc = "machines"
        /\ pc' \in {"machines", "tags"}
    BY <1>8 DEF UpdateMachine, cloud, cache
  <2>2. NoneDeletable /\ NoneDeletable'
    BY <1>0, <2>1, OffSame DEF SingleInv
  <2>3. CASE UNCHANGED goroutine
    <3>1. Running' <=> Running
      BY <2>3 DEF Running
    <3> QED
      BY <2>1, <2>2, <2>3, <3>1, OffSame DEF OffInv
  <2>4. CASE active /\ StartGoroutine /\ pc' = "tags"
    <3>1. \A g \in Goroutines : goroutine[g] = NoGoroutine
      BY <2>1, <2>4 DEF OffInv, Running
    <3>2. PICK g \in Goroutines : goroutine' = [goroutine EXCEPT ![g] = Fresh(lbName)]
      BY <2>4 DEF StartGoroutine
    <3>3. \A h \in Goroutines : h # g => goroutine'[h] = NoGoroutine
      BY <1>0, <3>1, <3>2 DEF TypeOK
    <3>4. Going'
      BY <2>1, <2>4, OffSame DEF OffInv
    <3> QED
      BY <2>1, <2>2, <2>4, <3>3, <3>4 DEF OffInv
  <2> QED
    BY <1>8, <2>3, <2>4 DEF UpdateMachine, StartGoroutine
<1>9. CASE UpsertARecord
  <2>1. /\ UNCHANGED <<goroutine, listening, nlbs, cpms, cpmsSeen>>
        /\ pc' = "idle" /\ active' = FALSE
    BY <1>9 DEF UpsertARecord, Return, ForgetLocals, cluster, cache
  <2> QED
    BY <2>1, OffSame, OffStutters
<1> QED
  BY <1>1, <1>2, <1>3, <1>4, <1>5, <1>6, <1>7, <1>8, <1>9 DEF Reconcile

\* Each step of the goroutine: its patches change neither what makes the CPMS off nor what
\* takes it away, and the last one ends the only goroutine.
LEMMA OffBackground ==
    ASSUME ScopeInv, OffInv, NEW g \in Goroutines, Background(g)
    PROVE  OffInv'
<1>0. TypeOK
  BY DEF ScopeInv, BaseInv
<1>1. CASE GetCPMS(g)
  <2>1. CASE Restart
    <3>1. pc' = "idle" /\ \A h \in Goroutines : goroutine'[h] = NoGoroutine
      BY <2>1 DEF Restart
    <3> QED
      BY <3>1, OffNone
  <2>2. CASE /\ goroutine' = [goroutine EXCEPT ![g] = HavingRead(goroutine[g])]
             /\ UNCHANGED <<listening, cloud, cluster, pc, locals>>
    <3>1. UNCHANGED <<listening, nlbs, cpms, cpmsSeen, pc, active>> /\ goroutine[g] # NoGoroutine
      BY <1>1, <2>2 DEF GetCPMS, cloud, cluster, cache, locals
    <3>2. \A h \in Goroutines : h # g => goroutine'[h] = goroutine[h]
      BY <1>0, <2>2 DEF TypeOK
    <3>3. Running
      BY <3>1 DEF Running
    <3> QED
      BY <3>1, <3>2, <3>3, OffSame DEF OffInv
  <2> QED
    BY <1>1, <2>1, <2>2 DEF GetCPMS
<1>2. CASE PatchCPMS(g)
  <2>1. UNCHANGED <<listening, nlbs, cpmsSeen, pc, active>> /\ goroutine[g] # NoGoroutine
    BY <1>2 DEF PatchCPMS, cloud, cache, locals
  <2>2. \A h \in Goroutines : h # g => goroutine'[h] = goroutine[h]
    BY <1>0, <1>2 DEF PatchCPMS, TypeOK
  <2>3. UNCHANGED cpms \/ (cpms # NoCPMS /\ cpms'.state = cpms.state /\ cpms'.deleting = cpms.deleting)
    BY <1>0, <1>2 DEF PatchCPMS, TypeOK, CPMS
  <2>4. Going => Going' /\ (Off(cpms) => Off(cpms)') /\ (Off(cpmsSeen) => Off(cpmsSeen)')
    BY <2>1, <2>3 DEF Going, Off
  <2>5. NoneDeletable => NoneDeletable'
    BY <2>1 DEF NoneDeletable, Deletable, Exists
  <2>6. Running
    BY <2>1 DEF Running
  <2> QED
    BY <2>1, <2>2, <2>4, <2>5, <2>6 DEF OffInv
<1>3. CASE SetCPMSActive(g)
  <2>1. UNCHANGED <<listening, nlbs, cpmsSeen, pc, active>> /\ goroutine[g] # NoGoroutine
    BY <1>3 DEF SetCPMSActive, cloud, cache, locals
  <2>2. Running /\ \A h \in Goroutines : h # g => goroutine[h] = NoGoroutine /\ goroutine'[h] = NoGoroutine
    BY <1>0, <1>3, <2>1 DEF SetCPMSActive, TypeOK, OffInv, Running
  <2>3. CASE UNCHANGED cpms
    BY <2>1, <2>2, <2>3, OffSame DEF OffInv
  <2>4. CASE goroutine' = [goroutine EXCEPT ![g] = NoGoroutine]
    <3>1. \A h \in Goroutines : goroutine'[h] = NoGoroutine
      BY <1>0, <2>2, <2>4 DEF TypeOK
    <3>2. ~(active' /\ pc' = "machines")
      BY <2>1, <2>2 DEF OffInv
    <3> QED
      BY <3>1, <3>2, OffNone
  <2> QED
    BY <1>3, <2>3, <2>4 DEF SetCPMSActive, AfterSuccess
<1> QED
  BY <1>1, <1>2, <1>3 DEF Background

\* Every step keeps it, as long as nobody was early.
LEMMA OffNext ==
    ASSUME ScopeInv, OffInv, [Next]_vars, late' = 0
    PROVE  OffInv'
<1>0. TypeOK /\ OwnInv /\ LoopInv
  BY DEF ScopeInv, BaseInv
<1>1. CASE Error
  <2>1. /\ UNCHANGED <<goroutine, listening, nlbs, cpms, cpmsSeen>>
        /\ pc' = "idle" /\ active' = FALSE
    BY <1>1 DEF Error, Return, ForgetLocals, cloud, cluster, cache
  <2> QED
    BY <2>1, OffSame, OffStutters
<1>2. CASE Crash
  <2>1. pc' = "idle" /\ \A h \in Goroutines : goroutine'[h] = NoGoroutine
    BY <1>2 DEF Crash, Restart
  <2> QED
    BY <2>1, OffNone
<1>3. CASE EditStrategy
  <2>1. UNCHANGED <<goroutine, nlbs, cpms, cpmsSeen, pc, active>>
    BY <1>3 DEF EditStrategy, cloud, cluster, cache, locals
  <2>2. listening' = "internal" => Replaced
    BY <1>0, <1>3, InTimeReplaced DEF EditStrategy
  <2>3. listening' = "internal" /\ Going => Off(cpms)' /\ Off(cpmsSeen)'
    BY <2>1, <2>2 DEF Replaced, Going, Off
  <2>4. Running' <=> Running
    BY <2>1 DEF Running
  <2> QED
    BY <2>1, <2>3, <2>4, OffSame DEF OffInv
<1>4. CASE FinalizeCPMS \/ RecreateCPMS
  <2>1. UNCHANGED <<goroutine, listening, nlbs, cpmsSeen, pc, active>>
    BY <1>4 DEF FinalizeCPMS, RecreateCPMS, cloud, cache, locals
  <2>2. Off(cpms)'
    BY <1>4 DEF FinalizeCPMS, RecreateCPMS, Off
  <2>3. Off(cpmsSeen) => Off(cpmsSeen)'
    BY <2>1 DEF Off
  <2>4. NoneDeletable => NoneDeletable'
    BY <2>1 DEF NoneDeletable, Deletable, Exists
  <2> QED
    BY <2>1, <2>2, <2>3, <2>4, OffStutters DEF Going
<1>5. CASE LoseCPMS
  <2>1. UNCHANGED <<goroutine, listening, nlbs, cpmsSeen, pc, active>>
    BY <1>5 DEF LoseCPMS, cloud, cache, locals
  <2>2. cpms'.deleting /\ cpms'.state = cpms.state /\ cpms # NoCPMS
    BY <1>0, <1>5 DEF LoseCPMS, TypeOK, CPMS
  <2>3. (Off(cpms) => Off(cpms)') /\ Going' /\ (Off(cpmsSeen) => Off(cpmsSeen)')
    BY <2>1, <2>2 DEF Off, Going
  <2>4. NoneDeletable => NoneDeletable'
    BY <2>1 DEF NoneDeletable, Deletable, Exists
  <2> QED
    BY <2>1, <2>3, <2>4, OffStutters
<1>6. CASE ServiceChange \/ BorrowTargetGroup
  <2>1. UNCHANGED <<goroutine, listening, cpms, cpmsSeen, pc, active>>
    BY <1>6 DEF ServiceChange, BorrowTargetGroup, cluster, cache, locals
  <2>2. NoneDeletable => NoneDeletable'
    BY <1>0, <1>6, OthersStep DEF NoneDeletable
  <2>3. Going => Going' /\ (Off(cpms) => Off(cpms)') /\ (Off(cpmsSeen) => Off(cpmsSeen)')
    BY <2>1 DEF Going, Off
  <2> QED
    BY <2>1, <2>2, <2>3, OffStutters
<1>7. CASE SyncCPMS
  <2>1. UNCHANGED <<goroutine, listening, nlbs, cpms, pc, active>> /\ cpmsSeen' = cpms
    BY <1>7 DEF SyncCPMS, cloud, locals
  <2>2. (Going => Going') /\ (Off(cpms) => Off(cpms)') /\ (Off(cpms) => Off(cpmsSeen)')
    BY <2>1 DEF Off, Going
  <2>3. NoneDeletable => NoneDeletable'
    BY <2>1 DEF NoneDeletable, Deletable, Exists
  <2> QED
    BY <2>1, <2>2, <2>3, OffStutters
<1>8. CASE Resync \/ (\E m \in Masters : SyncMachine(m)) \/ UNCHANGED vars
  <2>1. UNCHANGED <<goroutine, listening, nlbs, cpms, cpmsSeen, pc, active>>
    BY <1>8 DEF Resync, SyncMachine, vars, cloud, cluster, cache, locals
  <2> QED
    BY <2>1, OffSame, OffStutters
<1> QED
  BY <1>1, <1>2, <1>3, <1>4, <1>5, <1>6, <1>7, <1>8, OffReconcile, OffBackground
  DEF Next, Environment

LEMMA OffInvariant == Spec => [](late = 0 => OffInv)
<1>1. Init => (late = 0 => OffInv)
  BY OffInit
<1>2. ScopeInv /\ (late = 0 => OffInv) /\ [Next]_vars => (late = 0 => OffInv)'
  <2> SUFFICES ASSUME ScopeInv, late = 0 => OffInv, [Next]_vars, late' = 0 PROVE OffInv'
    OBVIOUS
  <2>1. late = 0
    BY TroublesGrow DEF ScopeInv, BaseInv
  <2> QED
    BY <2>1, OffNext
<1> QED
  BY <1>1, <1>2, ScopeInvariant, PTL DEF Spec

\* At most one goroutine of getLoadBalancerRemovalFunc runs at a time, for any number of
\* edits, failures and crashes, provided that the customer, before making the API private,
\* and the goroutine, before its first Get, give the CPMS the time to be finalized, made
\* again and seen by the cache.
THEOREM SingleGoroutine == Spec => []OneGoroutine
<1>1. (late = 0 => OffInv) => OneGoroutine
  BY DEF OffInv, OneGoroutine
<1> QED
  BY OffInvariant, <1>1, PTL

-----------------------------------------------------------------------------
(* The masters are clean when the goroutine runs.                          *)

OwnNames == {"int", "ext"}
MastersClean == \A m \in Masters : "ext" \notin machines[m]

\* Masters, the CPMS and every copy of them list the cluster's own load balancers only.
NamesInv ==
    /\ \A m \in Masters :
        machines[m] \cup machinesSeen[m] \cup masterList[m] \subseteq OwnNames
    /\ cpms # NoCPMS => cpms.lbs \subseteq OwnNames
    /\ cpmsSeen # NoCPMS => cpmsSeen.lbs \subseteq OwnNames
    /\ \A g \in Goroutines : goroutine[g] # NoGoroutine /\ goroutine[g].cpms # NoCPMS =>
        goroutine[g].cpms.lbs \subseteq OwnNames

\* The masters that the loop of removeAWSLBFromMasterMachines has passed are clean: the
\* cache, and the list that was read, name the external load balancer wherever a Machine
\* still does.
PassedInv ==
    /\ pc \in {"deleteNLB", "deleteCPMS", "machines"} => lbName = "ext"
    /\ \A m \in Masters : "ext" \in machines[m] => "ext" \in machinesSeen[m]
    /\ pc \in {"tags", "deleteNLB", "deleteCPMS", "machines"} =>
        \A m \in Masters : "ext" \in machines[m] => "ext" \in masterList[m]
    /\ pc = "deleteCPMS" => left = Masters
    /\ pc = "machines" => \A m \in Masters \ left : "ext" \notin machines[m]

\* A goroutine runs on clean masters, so that a CPMS that is made while it runs is clean
\* too.
StartInv ==
    \A g \in Goroutines : goroutine[g] # NoGoroutine => goroutine[g].lb = "ext" /\ MastersClean

CleanInv == NamesInv /\ PassedInv /\ StartInv

\* Steps that concern neither the masters nor the CPMS nor a goroutine, and leave the
\* Reconcile where it is or take it out of setDefaultAPIPrivate's loop.
LEMMA CleanStutters ==
    ASSUME CleanInv, UNCHANGED <<machines, cpms, machinesSeen, cpmsSeen, goroutine>>,
           \/ UNCHANGED <<pc, lbName, masterList, left>>
           \/ /\ pc' \notin {"tags", "deleteNLB", "deleteCPMS", "machines"}
              /\ masterList' = masterList \/ masterList' = [m \in Masters |-> {}]
    PROVE  CleanInv'
<1>1. NamesInv'
  BY DEF CleanInv, NamesInv
<1>2. PassedInv'
  BY DEF CleanInv, PassedInv
<1>3. StartInv'
  BY DEF CleanInv, StartInv, MastersClean
<1> QED
  BY <1>1, <1>2, <1>3 DEF CleanInv

\* A restart leaves no goroutine, and a new cache.
LEMMA CleanRestarts ==
    ASSUME CleanInv, Restart
    PROVE  CleanInv'
<1>1. /\ pc' = "idle" /\ UNCHANGED <<machines, cpms>> /\ masterList' = [m \in Masters |-> {}]
      /\ machinesSeen' = machines /\ cpmsSeen' = cpms
      /\ \A g \in Goroutines : goroutine'[g] = NoGoroutine
  BY DEF Restart, ForgetLocals
<1>2. NamesInv'
  BY <1>1 DEF CleanInv, NamesInv
<1>3. PassedInv' /\ StartInv'
  BY <1>1 DEF PassedInv, StartInv
<1> QED
  BY <1>2, <1>3 DEF CleanInv

\* The CPMS is marked, goes, comes back or is seen, and lists what a master or itself did.
LEMMA CleanCPMS ==
    ASSUME CleanInv, UNCHANGED <<machines, machinesSeen, goroutine, masterList, left, lbName>>,
           UNCHANGED pc \/ (pc = "deleteCPMS" /\ pc' = "machines"),
           cpms' # NoCPMS => \/ cpms # NoCPMS /\ cpms'.lbs = cpms.lbs
                             \/ \E m \in Masters : cpms'.lbs = machines[m],
           cpmsSeen' \in {cpmsSeen, cpms}
    PROVE  CleanInv'
<1>1. NamesInv'
  BY DEF CleanInv, NamesInv
<1>2. PassedInv'
  BY DEF CleanInv, PassedInv
<1>3. StartInv'
  BY DEF CleanInv, StartInv, MastersClean
<1> QED
  BY <1>1, <1>2, <1>3 DEF CleanInv

\* Initially the masters and the CPMS are as the installer made them.
LEMMA CleanInit == Init => CleanInv
<1> SUFFICES ASSUME Init PROVE CleanInv
  OBVIOUS
<1>1. \A m \in Masters :
        machines[m] \cup machinesSeen[m] \cup masterList[m] \subseteq OwnNames
  BY DEF Init, OwnNames
<1>2. cpms # NoCPMS => \E m \in Masters : cpms.lbs = machines[m]
  BY DEF Init
<1>3. /\ pc = "idle" /\ machinesSeen = machines /\ cpmsSeen = cpms
      /\ \A g \in Goroutines : goroutine[g] = NoGoroutine
  BY DEF Init
<1>4. NamesInv
  BY <1>1, <1>2, <1>3 DEF NamesInv
<1> QED
  BY <1>3, <1>4 DEF CleanInv, PassedInv, StartInv

\* A master that is updated is clean, and no update adds a name.
LEMMA UpdatedClean ==
    ASSUME CleanInv, pc = "machines", NEW m \in Masters
    PROVE  UpdatedLBs(m) \subseteq OwnNames /\ "ext" \notin UpdatedLBs(m)
BY DEF CleanInv, NamesInv, PassedInv, UpdatedLBs

\* removeAWSLBFromMasterMachines cleans one master after the other, and the goroutine
\* starts when all of them are clean.
LEMMA CleanMachines == ScopeInv /\ CleanInv /\ UpdateMachine => CleanInv'
<1> SUFFICES ASSUME TypeOK, CleanInv, UpdateMachine PROVE CleanInv'
  BY DEF ScopeInv, BaseInv
<1>1. pc = "machines" /\ lbName = "ext" /\ UNCHANGED <<cpms, machinesSeen, cpmsSeen, masterList, lbName>>
  BY DEF UpdateMachine, CleanInv, PassedInv, cache
<1>2. CASE pc' = "machines"
  <2>1. PICK m \in left : /\ machines' = [machines EXCEPT ![m] = UpdatedLBs(m)]
                          /\ left' = left \ {m} /\ UNCHANGED goroutine
    BY <1>1, <1>2 DEF UpdateMachine
  <2>2. m \in Masters /\ "ext" \notin machines'[m] /\ machines'[m] \subseteq OwnNames
    BY <1>1, <2>1, UpdatedClean DEF TypeOK
  <2>3. \A n \in Masters : n # m => machines'[n] = machines[n]
    BY <2>1 DEF TypeOK
  <2>4. NamesInv'
    BY <1>1, <2>1, <2>2, <2>3 DEF CleanInv, NamesInv
  <2>5. PassedInv'
    BY <1>1, <1>2, <2>1, <2>2, <2>3 DEF CleanInv, PassedInv
  <2>6. StartInv'
    BY <1>1, <2>1, <2>2, <2>3 DEF CleanInv, StartInv, MastersClean
  <2> QED
    BY <2>4, <2>5, <2>6 DEF CleanInv
<1>3. CASE pc' # "machines"
  <2>1. left = {} /\ StartGoroutine /\ pc' = "tags" /\ UNCHANGED machines
    BY <1>1, <1>3 DEF UpdateMachine
  <2>2. MastersClean
    BY <1>1, <2>1 DEF CleanInv, PassedInv, MastersClean
  <2>3. \A g \in Goroutines : goroutine'[g] = goroutine[g] \/ goroutine'[g] = Fresh(lbName)
    BY <2>1 DEF StartGoroutine, TypeOK
  <2>4. Fresh(lbName).cpms = NoCPMS /\ Fresh(lbName).lb = "ext"
    BY <1>1 DEF Fresh
  <2>5. NamesInv'
    BY <1>1, <2>1, <2>3, <2>4 DEF CleanInv, NamesInv
  <2>6. PassedInv'
    BY <2>1, <2>2 DEF PassedInv, MastersClean
  <2>7. StartInv'
    BY <1>1, <2>1, <2>2, <2>3, <2>4 DEF CleanInv, StartInv, MastersClean
  <2> QED
    BY <2>5, <2>6, <2>7 DEF CleanInv
<1> QED
  BY <1>2, <1>3

\* What the first patch writes: the external load balancer is taken off the copy's list, or
\* was not on it, and then the CPMS stays as it is.
LEMMA PatchShape ==
    ASSUME ScopeInv, CleanInv, NEW g \in Goroutines, PatchCPMS(g)
    PROVE  /\ UNCHANGED <<machines, machinesSeen, cpmsSeen, pc, lbName, masterList, left>>
           /\ goroutine[g] # NoGoroutine /\ goroutine[g].at = "patchLBs"
           /\ goroutine[g].cpms \in CPMS /\ goroutine[g].cpms # NoCPMS
           /\ goroutine'[g] # NoGoroutine /\ goroutine'[g].lb = "ext"
           /\ goroutine'[g].cpms = NoCPMS /\ goroutine'[g].at = "getAgain"
           /\ \A h \in Goroutines : h # g => goroutine'[h] = goroutine[h]
           /\ cpms' # NoCPMS <=> cpms # NoCPMS
           /\ cpms # NoCPMS =>
                /\ cpms'.lbs \subseteq OwnNames
                /\ cpms'.state = cpms.state /\ cpms'.deleting = cpms.deleting
                /\ "ext" \in cpms'.lbs => cpms'.lbs = cpms.lbs
                /\ faults' = 0 /\ "ext" \in cpms'.lbs => "ext" \notin goroutine[g].cpms.lbs
<1>1. /\ TypeOK /\ goroutine[g] \in Goroutine /\ goroutine[g].at = "patchLBs"
      /\ goroutine[g].cpms \in CPMS /\ goroutine[g].cpms # NoCPMS /\ goroutine[g] # NoGoroutine
      /\ UNCHANGED <<machines, machinesSeen, cpmsSeen, pc, lbName, masterList, left>>
  BY DEF ScopeInv, BaseInv, PatchCPMS, TypeOK, Goroutine, locals, cache
<1>2. goroutine[g].lb = "ext" /\ goroutine[g].cpms.lbs \subseteq OwnNames
  BY <1>1 DEF CleanInv, NamesInv, StartInv
<1>3. [goroutine[g] EXCEPT !.at = "getAgain", !.cpms = NoCPMS] \in Goroutine
  BY <1>1 DEF Goroutine
<1>4. /\ \A h \in Goroutines : h # g => goroutine'[h] = goroutine[h]
      /\ goroutine'[g] = [goroutine[g] EXCEPT !.at = "getAgain", !.cpms = NoCPMS]
  BY <1>1 DEF PatchCPMS, TypeOK
<1>5. /\ goroutine'[g] # NoGoroutine /\ goroutine'[g].lb = "ext"
      /\ goroutine'[g].cpms = NoCPMS /\ goroutine'[g].at = "getAgain"
  BY <1>1, <1>2, <1>3, <1>4, GoroutinesAssumption DEF Goroutine
<1>6. CASE cpms # NoCPMS /\ cpms' = [cpms EXCEPT !.lbs = RemainingLBs(goroutine[g].cpms, goroutine[g].lb)]
  <2>1. cpms \in CPMS /\ cpms.lbs \subseteq OwnNames
    BY <1>1, <1>6 DEF TypeOK, CleanInv, NamesInv
  <2>2. RemainingLBs(goroutine[g].cpms, "ext") \in SUBSET LBNames
    BY <1>1, <2>1 DEF RemainingLBs, CPMS
  <2>3. /\ cpms' \in CPMS /\ cpms'.lbs = RemainingLBs(goroutine[g].cpms, "ext")
        /\ cpms'.state = cpms.state /\ cpms'.deleting = cpms.deleting
    BY <1>2, <1>6, <2>1, <2>2 DEF CPMS
  <2> QED
    BY <1>1, <1>2, <1>4, <1>5, <1>6, <2>1, <2>3, MachinesAssumption DEF RemainingLBs
<1>7. CASE UNCHANGED cpms /\ (cpms = NoCPMS \/ faults' = faults + 1)
  <2>1. cpms # NoCPMS => faults' # 0
    BY <1>1, <1>7, BoundsAssumption DEF TypeOK
  <2> QED
    BY <1>1, <1>4, <1>5, <1>7, <2>1 DEF CleanInv, NamesInv
<1> QED
  BY <1>6, <1>7 DEF PatchCPMS

LEMMA CleanPatch ==
    ASSUME ScopeInv, CleanInv, NEW g \in Goroutines, PatchCPMS(g)
    PROVE  CleanInv'
<1>1. /\ UNCHANGED <<machines, machinesSeen, cpmsSeen, pc, lbName, masterList, left>>
      /\ goroutine[g] # NoGoroutine /\ goroutine'[g].lb = "ext" /\ goroutine'[g].cpms = NoCPMS
      /\ \A h \in Goroutines : h # g => goroutine'[h] = goroutine[h]
      /\ cpms' # NoCPMS => cpms'.lbs \subseteq OwnNames
  BY PatchShape
<1>2. NamesInv'
  BY <1>1 DEF CleanInv, NamesInv
<1>3. PassedInv'
  BY <1>1 DEF CleanInv, PassedInv
<1>4. StartInv'
  BY <1>1 DEF CleanInv, StartInv, MastersClean
<1> QED
  BY <1>2, <1>3, <1>4 DEF CleanInv

\* A Get takes a copy from the cache.
LEMMA GetShape ==
    ASSUME ScopeInv, NEW g \in Goroutines, GetCPMS(g), ~Restart
    PROVE  /\ goroutine[g] # NoGoroutine /\ goroutine[g].at \in {"sleep", "getAgain"}
           /\ cpmsSeen # NoCPMS /\ goroutine' = [goroutine EXCEPT ![g] = HavingRead(goroutine[g])]
           /\ UNCHANGED <<listening, nlbs, alias, machines, cpms, machinesSeen, cpmsSeen, queued,
                          pc, lbName, masterList, left, active, arn>>
           /\ \A h \in Goroutines : h # g => goroutine'[h] = goroutine[h]
           /\ goroutine'[g] # NoGoroutine
           /\ goroutine'[g].lb = goroutine[g].lb /\ goroutine'[g].cpms = cpmsSeen
           /\ goroutine'[g].at = IF goroutine[g].at = "sleep" THEN "patchLBs" ELSE "setActive"
<1>1. /\ TypeOK /\ goroutine[g] \in Goroutine /\ goroutine[g].at \in {"sleep", "getAgain"}
      /\ goroutine[g] # NoGoroutine
  BY DEF ScopeInv, BaseInv, GetCPMS, TypeOK
<1>2. /\ cpmsSeen # NoCPMS /\ goroutine' = [goroutine EXCEPT ![g] = HavingRead(goroutine[g])]
      /\ UNCHANGED <<listening, nlbs, alias, machines, cpms, machinesSeen, cpmsSeen, queued,
                     pc, lbName, masterList, left, active, arn>>
  BY DEF GetCPMS, cloud, cluster, cache, locals
<1>3. /\ HavingRead(goroutine[g]) \in Goroutine
      /\ HavingRead(goroutine[g]).lb = goroutine[g].lb /\ HavingRead(goroutine[g]).cpms = cpmsSeen
      /\ HavingRead(goroutine[g]).at = IF goroutine[g].at = "sleep" THEN "patchLBs" ELSE "setActive"
  BY <1>1 DEF TypeOK, HavingRead, Goroutine
<1> QED
  BY <1>1, <1>2, <1>3, GoroutinesAssumption DEF TypeOK

LEMMA CleanGet ==
    ASSUME ScopeInv, CleanInv, NEW g \in Goroutines, GetCPMS(g)
    PROVE  CleanInv'
<1>1. CASE Restart
  BY <1>1, CleanRestarts
<1>2. CASE ~Restart
  <2>1. /\ UNCHANGED <<machines, cpms, machinesSeen, cpmsSeen, pc, lbName, masterList, left>>
        /\ \A h \in Goroutines : h # g => goroutine'[h] = goroutine[h]
        /\ goroutine[g] # NoGoroutine
        /\ goroutine'[g].lb = goroutine[g].lb /\ goroutine'[g].cpms = cpmsSeen
    BY <1>2, GetShape
  <2>2. NamesInv'
    BY <2>1 DEF CleanInv, NamesInv
  <2>3. PassedInv'
    BY <2>1 DEF CleanInv, PassedInv
  <2>4. StartInv'
    BY <2>1 DEF CleanInv, StartInv, MastersClean
  <2> QED
    BY <2>2, <2>3, <2>4 DEF CleanInv
<1> QED
  BY <1>1, <1>2

\* The goroutine's second patch keeps the list; a failure starts it over.
LEMMA ActiveShape ==
    ASSUME ScopeInv, NEW g \in Goroutines, SetCPMSActive(g)
    PROVE  /\ UNCHANGED <<machines, machinesSeen, cpmsSeen, pc, lbName, masterList, left>>
           /\ goroutine[g] # NoGoroutine
           /\ \A h \in Goroutines : h # g => goroutine'[h] = goroutine[h]
           /\ goroutine'[g] # NoGoroutine =>
                /\ goroutine'[g].lb = goroutine[g].lb /\ goroutine'[g].cpms = NoCPMS
                /\ goroutine'[g].at = "sleep"
           /\ cpms' # NoCPMS <=> cpms # NoCPMS
           /\ cpms # NoCPMS => cpms'.lbs = cpms.lbs /\ cpms'.deleting = cpms.deleting
<1>1. /\ TypeOK /\ goroutine[g] \in Goroutine /\ goroutine[g] # NoGoroutine
      /\ UNCHANGED <<machines, machinesSeen, cpmsSeen, pc, lbName, masterList, left>>
  BY DEF ScopeInv, BaseInv, SetCPMSActive, TypeOK, locals, cache
<1>2. /\ cpms' # NoCPMS <=> cpms # NoCPMS
      /\ cpms # NoCPMS => cpms'.lbs = cpms.lbs /\ cpms'.deleting = cpms.deleting
  BY <1>1, MachinesAssumption DEF SetCPMSActive, TypeOK, CPMS
<1>3. AfterFailure(g) # NoGoroutine =>
            /\ AfterFailure(g).lb = goroutine[g].lb /\ AfterFailure(g).cpms = NoCPMS
            /\ AfterFailure(g).at = "sleep"
  BY DEF AfterFailure, Fresh
<1>4. /\ \A h \in Goroutines : h # g => goroutine'[h] = goroutine[h]
      /\ goroutine'[g] \in {NoGoroutine, AfterFailure(g)}
  BY <1>1 DEF SetCPMSActive, AfterSuccess, TypeOK
<1> QED
  BY <1>1, <1>2, <1>3, <1>4

LEMMA CleanSetActive ==
    ASSUME ScopeInv, CleanInv, NEW g \in Goroutines, SetCPMSActive(g)
    PROVE  CleanInv'
<1>1. /\ UNCHANGED <<machines, machinesSeen, cpmsSeen, pc, lbName, masterList, left>>
      /\ goroutine[g] # NoGoroutine
      /\ \A h \in Goroutines : h # g => goroutine'[h] = goroutine[h]
      /\ goroutine'[g] # NoGoroutine =>
            goroutine'[g].lb = goroutine[g].lb /\ goroutine'[g].cpms = NoCPMS
      /\ cpms' # NoCPMS => cpms # NoCPMS /\ cpms'.lbs = cpms.lbs
  BY ActiveShape
<1>2. NamesInv'
  BY <1>1 DEF CleanInv, NamesInv
<1>3. PassedInv'
  BY <1>1 DEF CleanInv, PassedInv
<1>4. StartInv'
  BY <1>1 DEF CleanInv, StartInv, MastersClean
<1> QED
  BY <1>2, <1>3, <1>4 DEF CleanInv

\* Every step keeps masters and CPMS as clean as they are to be.
LEMMA CleanNext == ScopeInv /\ CleanInv /\ [Next]_vars => CleanInv'
<1> SUFFICES ASSUME ScopeInv, CleanInv, [Next]_vars PROVE CleanInv'
  OBVIOUS
<1>0. TypeOK /\ ExtInv
  BY DEF ScopeInv, BaseInv
<1>1. CASE PublicList \/ CreateNLB
  <2>1. /\ UNCHANGED <<machines, cpms, machinesSeen, cpmsSeen, goroutine, lbName, masterList, left>>
        /\ pc' \in {"idle", "createNLB", "createListener"}
    BY <1>1 DEF PublicList, CreateNLB, cluster, cache, locals
  <2> QED
    BY <2>1, CleanStutters
<1>2. CASE CreateListener \/ UpsertARecord
  <2>1. /\ UNCHANGED <<machines, cpms, machinesSeen, cpmsSeen, goroutine>> /\ pc' \in {"idle", "upsert"}
        /\ masterList' = masterList \/ masterList' = [m \in Masters |-> {}]
    BY <1>2 DEF CreateListener, UpsertARecord, Return, ForgetLocals, cluster, cache, locals
  <2> QED
    BY <2>1, CleanStutters
<1>3. CASE PrivateList
  <2>1. /\ UNCHANGED <<machines, cpms, machinesSeen, cpmsSeen, goroutine>> /\ pc' = "tags"
        /\ masterList' = machinesSeen
    BY <1>3 DEF PrivateList, cluster, cache
  <2>2. NamesInv'
    BY <2>1 DEF CleanInv, NamesInv
  <2>3. PassedInv'
    BY <2>1 DEF CleanInv, PassedInv
  <2>4. StartInv'
    BY <2>1 DEF CleanInv, StartInv, MastersClean
  <2> QED
    BY <2>2, <2>3, <2>4 DEF CleanInv
<1>4. CASE ReadTags
  <2>1. pc = "tags" /\ UNCHANGED <<machines, cpms, machinesSeen, cpmsSeen, goroutine>>
    BY <1>4 DEF ReadTags, cluster, cache
  <2>2. CASE /\ pc' \in {"idle", "upsert"}
             /\ masterList' = masterList \/ masterList' = [m \in Masters |-> {}]
    BY <2>1, <2>2, CleanStutters
  <2>3. CASE UNCHANGED <<pc, lbName, masterList, left>>
    BY <2>1, <2>3, CleanStutters
  <2>4. CASE pc' = "deleteNLB" /\ lbName' = "ext" /\ UNCHANGED masterList
    <3>1. NamesInv'
      BY <2>1, <2>4 DEF CleanInv, NamesInv
    <3>2. PassedInv'
      BY <2>1, <2>4 DEF CleanInv, PassedInv
    <3>3. StartInv'
      BY <2>1 DEF CleanInv, StartInv, MastersClean
    <3> QED
      BY <3>1, <3>2, <3>3 DEF CleanInv
  <2>5. \A a \in todo : Exists(a) /\ canDeleteNlb(nlbs[a]) => nlbs[a].name = "ext"
    BY <1>0 DEF TypeOK, ExtInv, Deletable
  <2> QED
    BY <1>4, <2>2, <2>3, <2>4, <2>5 DEF ReadTags, Return, ForgetLocals
<1>5. CASE DeleteNLB
  <2>1. /\ UNCHANGED <<machines, cpms, machinesSeen, cpmsSeen, goroutine, masterList, lbName>>
        /\ pc = "deleteNLB" /\ pc' \in {"deleteCPMS", "machines"} /\ left' = Masters
    BY <1>5 DEF DeleteNLB, cluster, cache
  <2>2. NamesInv'
    BY <2>1 DEF CleanInv, NamesInv
  <2>3. PassedInv'
    BY <2>1 DEF CleanInv, PassedInv
  <2>4. StartInv'
    BY <2>1 DEF CleanInv, StartInv, MastersClean
  <2> QED
    BY <2>2, <2>3, <2>4 DEF CleanInv
<1>6. CASE DeleteCPMS
  <2>1. CASE UNCHANGED cpms /\ Return(TRUE)
    BY <1>6, <2>1, CleanStutters DEF DeleteCPMS, Return, ForgetLocals, cache
  <2>2. CASE cpms # NoCPMS /\ cpms' = [cpms EXCEPT !.deleting = TRUE] /\ pc' = "machines" /\ UNCHANGED locals
    <3>1. cpms'.lbs = cpms.lbs
      BY <1>0, <2>2 DEF TypeOK, CPMS
    <3> QED
      BY <1>6, <2>2, <3>1, CleanCPMS DEF DeleteCPMS, locals, cache
  <2> QED
    BY <1>6, <2>1, <2>2 DEF DeleteCPMS
<1>7. CASE UpdateMachine
  BY <1>7, CleanMachines
<1>8. ASSUME NEW g \in Goroutines, Background(g) PROVE CleanInv'
  BY <1>8, CleanGet, CleanPatch, CleanSetActive DEF Background
<1>9. CASE Error
  BY <1>9, CleanStutters DEF Error, Return, ForgetLocals, cluster, cache
<1>10. CASE Crash
  BY <1>10, CleanRestarts DEF Crash
<1>11. CASE EditStrategy \/ ServiceChange \/ BorrowTargetGroup \/ Resync \/ UNCHANGED vars
  <2>1. UNCHANGED <<machines, cpms, machinesSeen, cpmsSeen, goroutine, pc, lbName, masterList, left>>
    BY <1>11 DEF EditStrategy, ServiceChange, BorrowTargetGroup, Resync, vars, cluster, cache, locals
  <2> QED
    BY <2>1, CleanStutters
<1>12. CASE FinalizeCPMS \/ RecreateCPMS
  <2>1. cpms' # NoCPMS => \E m \in Masters : cpms'.lbs = machines[m]
    BY <1>12 DEF FinalizeCPMS, RecreateCPMS
  <2>2. UNCHANGED <<machines, machinesSeen, cpmsSeen, goroutine, masterList, left, lbName, pc>>
    BY <1>12 DEF FinalizeCPMS, RecreateCPMS, locals, cache
  <2> QED
    BY <2>1, <2>2, CleanCPMS
<1>13. CASE LoseCPMS
  <2>1. cpms # NoCPMS /\ cpms'.lbs = cpms.lbs
    BY <1>0, <1>13 DEF LoseCPMS, TypeOK, CPMS
  <2>2. UNCHANGED <<machines, machinesSeen, cpmsSeen, goroutine, masterList, left, lbName, pc>>
    BY <1>13 DEF LoseCPMS, locals, cache
  <2> QED
    BY <2>1, <2>2, CleanCPMS
<1>14. CASE SyncCPMS
  BY <1>14, CleanCPMS DEF SyncCPMS, locals
<1>15. ASSUME NEW m \in Masters, SyncMachine(m) PROVE CleanInv'
  <2>1. /\ UNCHANGED <<machines, cpms, cpmsSeen, goroutine, masterList, left, lbName, pc>>
        /\ \A n \in Masters : machinesSeen'[n] \in {machinesSeen[n], machines[n]}
    BY <1>0, <1>15 DEF SyncMachine, locals, TypeOK
  <2>2. NamesInv'
    BY <2>1 DEF CleanInv, NamesInv
  <2>3. PassedInv'
    BY <2>1 DEF CleanInv, PassedInv
  <2>4. StartInv'
    BY <2>1 DEF CleanInv, StartInv, MastersClean
  <2> QED
    BY <2>2, <2>3, <2>4 DEF CleanInv
<1> QED
  BY <1>1, <1>2, <1>3, <1>4, <1>5, <1>6, <1>7, <1>8, <1>9, <1>10, <1>11, <1>12, <1>13, <1>14,
     <1>15
  DEF Next, Reconcile, Environment

\* So they are in every reachable state.
LEMMA CleanInvariant == Spec => []CleanInv
<1>1. ScopeInv /\ CleanInv /\ [Next]_vars => CleanInv'
  BY CleanNext
<1> QED
  BY <1>1, CleanInit, ScopeInvariant, PTL DEF Spec

-----------------------------------------------------------------------------
(* What a Reconcile leaves behind when nothing went wrong.                 *)

Undisturbed == faults = 0 /\ drift = 0

Clean(c) == c # NoCPMS /\ "ext" \notin c.lbs

\* No Reconcile has begun to make the API private: every master lists the external load
\* balancer, that is there or was deleted just now, and nobody touched the CPMS.
Untouched ==
    /\ ~NoneDeletable \/ pc = "deleteCPMS"
    /\ cpms # NoCPMS => ~cpms.deleting
    /\ cpms = NoCPMS => cpmsSeen = NoCPMS /\ ~active
    /\ \A m \in Masters : "ext" \in machines[m]

\* A master lists the external load balancer only until the Reconcile that deletes it has
\* finished; a CPMS, and a cached one, is not clean before that Reconcile has deleted its
\* predecessor, and the cache never hides that the CPMS is not clean.
DirtyInv ==
    /\ MastersClean \/ pc = "machines" \/ Untouched
    /\ Clean(cpms) \/ Clean(cpmsSeen) =>
        MastersClean \/ (pc = "machines" /\ Clean(cpms) /\ ~cpms.deleting)
    /\ cpms # NoCPMS /\ "ext" \in cpms.lbs => ~Clean(cpmsSeen)

\* A step after which nothing has gone wrong yet is none of a customer who deletes things,
\* and no call of it fails.
LEMMA CalmStep ==
    ASSUME TypeOK, [Next]_vars, Undisturbed'
    PROVE  /\ Undisturbed /\ UNCHANGED <<faults, drift>>
           /\ \/ Reconcile \/ EditStrategy \/ FinalizeCPMS \/ RecreateCPMS \/ SyncCPMS
              \/ (\E m \in Masters : SyncMachine(m)) \/ Resync \/ UNCHANGED vars
              \/ \E g \in Goroutines : Background(g)
<1>1. faults = 0 /\ drift = 0 /\ faults' = 0 /\ drift' = 0
  BY TroublesGrow DEF Undisturbed
<1>2. faults' # faults + 1 /\ drift' # drift + 1
  BY <1>1
<1>3. ~Error /\ ~Crash /\ ~ServiceChange /\ ~BorrowTargetGroup /\ ~LoseCPMS
  BY <1>2 DEF Error, Crash, ServiceChange, BorrowTargetGroup, LoseCPMS
<1> QED
  BY <1>1, <1>3 DEF Next, Environment, Undisturbed

\* The masters are dirty to begin with only on a cluster with an external load balancer.
LEMMA DirtyInit == Init => DirtyInv
<1> SUFFICES ASSUME Init PROVE DirtyInv
  OBVIOUS
<1>1. PICK public \in BOOLEAN :
        /\ public => nlbs[ExtArn] = [ExtNLB EXCEPT !.listener = TRUE]
        /\ machines = [m \in Masters |-> IF public THEN {"int", "ext"} ELSE {"int"}]
  BY ArnsAssumption DEF Init
<1>2. [ExtNLB EXCEPT !.listener = TRUE] \in NLB /\ canDeleteNlb([ExtNLB EXCEPT !.listener = TRUE])
  BY NLBTypes DEF ExtNLB, canDeleteNlb
<1>3. public => ~NoneDeletable
  BY <1>1, <1>2, ArnsAssumption DEF NoneDeletable, Deletable, Exists
<1>4. /\ cpms # NoCPMS => ~cpms.deleting /\ \E m \in Masters : cpms.lbs = machines[m]
      /\ cpmsSeen = cpms /\ active = FALSE
  BY DEF Init
<1>5. CASE public
  <2>1. \A m \in Masters : "ext" \in machines[m]
    BY <1>1, <1>5
  <2> QED
    BY <1>3, <1>4, <1>5, <2>1 DEF DirtyInv, Untouched, Clean
<1>6. CASE ~public
  <2>1. MastersClean
    BY <1>1, <1>6 DEF MastersClean
  <2> QED
    BY <1>4, <2>1 DEF DirtyInv, Clean
<1> QED
  BY <1>5, <1>6

\* Steps that touch neither masters nor CPMS, and leave an external load balancer.
LEMMA DirtyStutters ==
    ASSUME DirtyInv, UNCHANGED <<machines, cpms, cpmsSeen>>, NoneDeletable' => NoneDeletable,
           \/ UNCHANGED <<pc, active>>
           \/ pc \notin {"deleteCPMS", "machines"} /\ (active' => active)
    PROVE  DirtyInv'
BY DEF DirtyInv, Untouched, MastersClean, Clean

\* Steps that leave clean masters, and as clean a CPMS as there was.
LEMMA DirtyClean ==
    ASSUME DirtyInv, UNCHANGED machines, MastersClean,
           cpms' # NoCPMS => cpms # NoCPMS /\ ("ext" \in cpms'.lbs => "ext" \in cpms.lbs),
           cpmsSeen' = cpmsSeen \/ (cpmsSeen' = cpms /\ UNCHANGED cpms)
    PROVE  DirtyInv'
BY DEF DirtyInv, MastersClean, Clean

\* One case per action.
LEMMA DirtyNext ==
    ASSUME ScopeInv, CleanInv, DirtyInv, [Next]_vars, Undisturbed'
    PROVE  DirtyInv'
<1>0. TypeOK /\ OwnInv /\ Rest /\ ArnInv
  BY DEF ScopeInv, BaseInv, Rest
<1>c. \/ Reconcile \/ EditStrategy \/ FinalizeCPMS \/ RecreateCPMS \/ SyncCPMS
      \/ (\E m \in Masters : SyncMachine(m)) \/ Resync \/ UNCHANGED vars
      \/ \E g \in Goroutines : Background(g)
  BY <1>0, CalmStep
<1>n. ASSUME UNCHANGED nlbs PROVE NoneDeletable' <=> NoneDeletable
  BY <1>n DEF NoneDeletable, Deletable, Exists
<1>1. CASE PublicList \/ UpsertARecord
  <2>1. /\ UNCHANGED <<nlbs, machines, cpms, cpmsSeen>> /\ pc \in {"idle", "upsert"}
        /\ (active' => active)
    BY <1>1 DEF PublicList, UpsertARecord, Return, ForgetLocals, cloud, cluster, cache, locals
  <2> QED
    BY <1>n, <2>1, DirtyStutters
<1>2. CASE EditStrategy \/ (\E m \in Masters : SyncMachine(m)) \/ Resync \/ UNCHANGED vars
  <2>1. UNCHANGED <<nlbs, machines, cpms, cpmsSeen, pc, active>>
    BY <1>2 DEF EditStrategy, SyncMachine, Resync, vars, cloud, cluster, cache, locals
  <2> QED
    BY <1>n, <2>1, DirtyStutters
<1>3. CASE CreateNLB
  <2>1. ~NoneDeletable'
    <3>1. arn' \in Arns /\ Deletable(arn)'
      BY <1>0, <1>3, CreateShape
    <3> QED
      BY <3>1 DEF NoneDeletable
  <2>2. pc = "createNLB" /\ UNCHANGED <<machines, cpms, cpmsSeen, active>>
    BY <1>3 DEF CreateNLB, cluster, cache
  <2> QED
    BY <2>1, <2>2, DirtyStutters
<1>4. CASE CreateListener
  <2>1. NoneDeletable' => NoneDeletable
    BY <1>0, <1>4, ListenerShape DEF NoneDeletable
  <2>2. pc = "createListener" /\ UNCHANGED <<machines, cpms, cpmsSeen>> /\ (active' => active)
    BY <1>4 DEF CreateListener, Return, ForgetLocals, cluster, cache, locals
  <2> QED
    BY <2>1, <2>2, DirtyStutters
<1>5. CASE PrivateList
  <2>1. /\ UNCHANGED <<nlbs, machines, cpms, cpmsSeen>> /\ pc = "idle" /\ pc' = "tags"
        /\ active' => cpmsSeen # NoCPMS
    BY <1>5 DEF PrivateList, cloud, cluster, cache
  <2> QED
    BY <1>n, <2>1 DEF DirtyInv, Untouched, MastersClean, Clean
<1>6. CASE ReadTags
  <2>1. /\ UNCHANGED <<nlbs, machines, cpms, cpmsSeen>> /\ pc = "tags"
        /\ (active' => active)
    BY <1>6 DEF ReadTags, Return, ForgetLocals, cloud, cluster, cache
  <2> QED
    BY <1>n, <2>1, DirtyStutters
<1>7. CASE DeleteNLB
  <2>1. /\ pc = "deleteNLB" /\ UNCHANGED <<machines, cpms, cpmsSeen, active>>
        /\ pc' = IF active THEN "deleteCPMS" ELSE "machines"
    BY <1>7 DEF DeleteNLB, cluster, cache
  <2> QED
    BY <2>1 DEF DirtyInv, Untouched, MastersClean, Clean
<1>8. CASE DeleteCPMS
  <2>1. pc = "deleteCPMS" /\ active /\ UNCHANGED <<machines, cpmsSeen>>
    BY <1>0, <1>8 DEF DeleteCPMS, ArnInv, cache
  <2>2. CASE cpms = NoCPMS /\ UNCHANGED cpms
    <3>1. MastersClean
      BY <2>1, <2>2 DEF DirtyInv, Untouched
    <3> QED
      BY <2>1, <2>2, <3>1, DirtyClean
  <2>3. CASE cpms # NoCPMS /\ cpms' = [cpms EXCEPT !.deleting = TRUE] /\ pc' = "machines"
    <3>1. cpms' \in CPMS /\ cpms'.lbs = cpms.lbs
      BY <1>0, <2>3 DEF TypeOK, CPMS
    <3> QED
      BY <2>1, <2>3, <3>1, MachinesAssumption DEF DirtyInv, MastersClean, Clean
  <2> QED
    BY <1>8, <2>2, <2>3 DEF DeleteCPMS
<1>9. CASE UpdateMachine
  <2>1. pc = "machines" /\ UNCHANGED <<cpms, cpmsSeen>>
    BY <1>9 DEF UpdateMachine, cache
  <2>2. CASE pc' = "machines"
    <3>1. PICK m \in left : machines' = [machines EXCEPT ![m] = UpdatedLBs(m)]
      BY <1>9, <2>1, <2>2 DEF UpdateMachine
    <3>2. MastersClean => MastersClean'
      BY <1>0, <2>1, <3>1, UpdatedClean DEF MastersClean, TypeOK
    <3> QED
      BY <2>1, <2>2, <3>2 DEF DirtyInv, Clean
  <2>3. CASE pc' # "machines"
    <3>1. left = {} /\ UNCHANGED machines
      BY <1>9, <2>1, <2>3 DEF UpdateMachine
    <3>2. MastersClean
      BY <2>1, <3>1 DEF CleanInv, PassedInv, MastersClean
    <3> QED
      BY <2>1, <3>1, <3>2, DirtyClean
  <2> QED
    BY <2>2, <2>3
<1>10. ASSUME NEW g \in Goroutines, Background(g) PROVE DirtyInv'
  <2>1. MastersClean
    BY <1>10 DEF Background, GetCPMS, PatchCPMS, SetCPMSActive, CleanInv, StartInv
  <2>2. CASE GetCPMS(g)
    <3>1. UNCHANGED <<machines, cpms>> /\ cpmsSeen' \in {cpmsSeen, cpms}
      BY <2>2 DEF GetCPMS, Restart, cluster, cache
    <3> QED
      BY <2>1, <3>1, DirtyClean
  <2>3. CASE PatchCPMS(g)
    BY <2>1, <2>3, PatchShape, DirtyClean
  <2>4. CASE SetCPMSActive(g)
    BY <2>1, <2>4, ActiveShape, DirtyClean
  <2> QED
    BY <1>10, <2>2, <2>3, <2>4 DEF Background
<1>11. CASE FinalizeCPMS
  <2>1. /\ UNCHANGED <<machines, cpmsSeen, pc>> /\ cpms' = NoCPMS
        /\ cpms # NoCPMS /\ cpms.deleting
    BY <1>11 DEF FinalizeCPMS, cache
  <2> QED
    BY <2>1 DEF DirtyInv, Untouched, MastersClean, Clean
<1>12. CASE RecreateCPMS
  <2>1. UNCHANGED <<nlbs, machines, cpmsSeen, pc, active>> /\ cpms = NoCPMS
    BY <1>12 DEF RecreateCPMS, cloud, cache, locals
  <2>2. PICK m \in Masters : cpms'.lbs = machines[m] /\ ~cpms'.deleting
    BY <1>12 DEF RecreateCPMS
  <2> QED
    BY <1>n, <2>1, <2>2 DEF DirtyInv, Untouched, MastersClean, Clean
<1>13. CASE SyncCPMS
  <2>1. UNCHANGED <<nlbs, machines, cpms, pc, active>> /\ cpmsSeen' = cpms
    BY <1>13 DEF SyncCPMS, cloud, locals
  <2> QED
    BY <1>n, <2>1 DEF DirtyInv, Untouched, MastersClean, Clean
<1> QED
  BY <1>c, <1>1, <1>2, <1>3, <1>4, <1>5, <1>6, <1>7, <1>8, <1>9, <1>10, <1>11, <1>12, <1>13
  DEF Reconcile

\* Nothing having gone wrong, the invariant holds.
LEMMA DirtyInvariant == Spec => [](Undisturbed => DirtyInv)
<1>1. Init => (Undisturbed => DirtyInv)
  BY DirtyInit
<1>2. ScopeInv /\ CleanInv /\ (Undisturbed => DirtyInv) /\ [Next]_vars => (Undisturbed => DirtyInv)'
  <2> SUFFICES ASSUME ScopeInv, CleanInv, Undisturbed => DirtyInv, [Next]_vars, Undisturbed'
               PROVE  DirtyInv'
    OBVIOUS
  <2>1. Undisturbed
    BY CalmStep DEF ScopeInv, BaseInv
  <2> QED
    BY <2>1, DirtyNext
<1> QED
  BY <1>1, <1>2, ScopeInvariant, CleanInvariant, PTL DEF Spec

\* When nothing failed and nobody interfered, a private API without a request waiting has
\* no master that lists the external load balancer: deleting it and cleaning the masters
\* are never separated, for any number of masters, edits and panics of the goroutine, and
\* however old the Machines in the cache are.
THEOREM MachinesSafe == Spec => []MachinesSettled
<1>1. ScopeInv /\ (Undisturbed => DirtyInv) /\ InternalSettled => MachinesSettled
  <2> SUFFICES ASSUME ScopeInv, InternalSettled, DirtyInv, pc = "idle", ~queued,
                      listening = "internal"
               PROVE  \A m \in Masters : "ext" \notin machines[m]
    BY DEF MachinesSettled, Undisturbed
  <2>1. ~Exposed
    BY DEF InternalSettled, Scope!Settled, Scope!Private, Goal
  <2>2. NoneDeletable
    BY <2>1, ExposedIs DEF ScopeInv, BaseInv, NoneDeletable
  <2> QED
    BY <2>2 DEF DirtyInv, Untouched, MastersClean
<1> QED
  BY <1>1, DirtyInvariant, ScopeInvariant, SettledSafe, PTL

-----------------------------------------------------------------------------
(* The CPMS is clean when it is made active again.                         *)

\* Not both: somebody was early, and somebody else interfered.
Trusted == faults = 0 /\ (late = 0 \/ drift = 0)

\* What the goroutine read names the external load balancer if the CPMS does, and past its
\* first patch the CPMS is clean.
CopyInv ==
    \A g \in Goroutines : goroutine[g] # NoGoroutine =>
        /\ goroutine[g].at = "patchLBs" /\ cpms # NoCPMS /\ "ext" \in cpms.lbs =>
            "ext" \in goroutine[g].cpms.lbs
        /\ goroutine[g].at \in {"getAgain", "setActive"} /\ cpms # NoCPMS => "ext" \notin cpms.lbs

\* Steps that start no goroutine, and after which the CPMS lists what it did, or is clean.
LEMMA CopyStutters ==
    ASSUME CopyInv, UNCHANGED goroutine,
           cpms' # NoCPMS => "ext" \notin cpms'.lbs \/ (cpms # NoCPMS /\ cpms'.lbs = cpms.lbs)
    PROVE  CopyInv'
BY DEF CopyInv

\* Every step keeps it.
LEMMA CopyNext ==
    ASSUME ScopeInv, CleanInv, Undisturbed => DirtyInv, CopyInv, [Next]_vars, Trusted'
    PROVE  CopyInv'
<1>0. TypeOK
  BY DEF ScopeInv, BaseInv
<1>1. CASE PublicList \/ CreateNLB \/ CreateListener \/ PrivateList \/ ReadTags
  BY <1>1, CopyStutters
  DEF PublicList, CreateNLB, CreateListener, PrivateList, ReadTags, cluster
<1>2. CASE DeleteNLB \/ UpsertARecord \/ Error \/ EditStrategy \/ ServiceChange \/ BorrowTargetGroup
  BY <1>2, CopyStutters
  DEF DeleteNLB, UpsertARecord, Error, EditStrategy, ServiceChange, BorrowTargetGroup, cluster
<1>3. CASE SyncCPMS \/ (\E m \in Masters : SyncMachine(m)) \/ Resync \/ UNCHANGED vars
  BY <1>3, CopyStutters DEF SyncCPMS, SyncMachine, Resync, vars, cluster
<1>4. CASE DeleteCPMS \/ LoseCPMS
  <2>1. UNCHANGED goroutine
    BY <1>4 DEF DeleteCPMS, LoseCPMS
  <2>2. CASE UNCHANGED cpms
    BY <2>1, <2>2, CopyStutters
  <2>3. CASE cpms # NoCPMS /\ cpms' = [cpms EXCEPT !.deleting = TRUE]
    <3>1. cpms'.lbs = cpms.lbs
      BY <1>0, <2>3 DEF TypeOK, CPMS
    <3> QED
      BY <2>1, <2>3, <3>1, CopyStutters
  <2> QED
    BY <1>4, <2>2, <2>3 DEF DeleteCPMS, LoseCPMS
<1>5. CASE UpdateMachine
  <2>1. /\ \A g \in Goroutines : goroutine'[g] = goroutine[g] \/ goroutine'[g] = Fresh(lbName)
        /\ UNCHANGED cpms
    BY <1>0, <1>5 DEF UpdateMachine, StartGoroutine, TypeOK
  <2>2. Fresh(lbName).at = "sleep"
    BY DEF Fresh
  <2> QED
    BY <2>1, <2>2 DEF CopyInv
<1>6. CASE Crash
  BY <1>6 DEF Crash, Restart, CopyInv
<1>7. CASE FinalizeCPMS
  BY <1>7, CopyStutters DEF FinalizeCPMS
<1>8. CASE RecreateCPMS
  <2>1. UNCHANGED goroutine /\ \E m \in Masters : cpms'.lbs = machines[m]
    BY <1>8 DEF RecreateCPMS
  <2>2. ASSUME NEW g \in Goroutines, goroutine[g] # NoGoroutine PROVE "ext" \notin cpms'.lbs
    BY <2>1, <2>2 DEF CleanInv, StartInv, MastersClean
  <2> QED
    BY <2>1, <2>2 DEF CopyInv
<1>9. ASSUME NEW g \in Goroutines, GetCPMS(g) PROVE CopyInv'
  <2>1. CASE Restart
    BY <2>1 DEF Restart, CopyInv
  <2>2. CASE ~Restart
    <3>1. /\ goroutine[g] # NoGoroutine /\ goroutine[g].at \in {"sleep", "getAgain"}
          /\ cpmsSeen # NoCPMS /\ UNCHANGED cpms
          /\ \A h \in Goroutines : h # g => goroutine'[h] = goroutine[h]
          /\ goroutine'[g].cpms = cpmsSeen
          /\ goroutine'[g].at = IF goroutine[g].at = "sleep" THEN "patchLBs" ELSE "setActive"
      BY <1>9, <2>2, GetShape
    <3>2. ASSUME goroutine[g].at = "sleep", cpms # NoCPMS, "ext" \in cpms.lbs
          PROVE  "ext" \in cpmsSeen.lbs
      <4>1. CASE late' = 0
        <5>1. Replaced
          BY <1>0, <1>9, <3>2, <4>1, InTimeReplaced DEF GetCPMS
        <5> QED
          BY <3>2, <5>1 DEF Replaced
      <4>2. CASE drift' = 0
        <5>1. Undisturbed
          BY <1>0, <4>2, TroublesGrow DEF Trusted, Undisturbed
        <5> QED
          BY <3>1, <3>2, <5>1 DEF DirtyInv, Clean
      <4> QED
        BY <4>1, <4>2 DEF Trusted
    <3> QED
      BY <3>1, <3>2 DEF CopyInv
  <2> QED
    BY <2>1, <2>2
<1>10. ASSUME NEW g \in Goroutines, PatchCPMS(g) PROVE CopyInv'
  <2>1. /\ goroutine[g] # NoGoroutine /\ goroutine[g].at = "patchLBs"
        /\ goroutine'[g].at = "getAgain"
        /\ \A h \in Goroutines : h # g => goroutine'[h] = goroutine[h]
        /\ cpms' # NoCPMS <=> cpms # NoCPMS
        /\ cpms # NoCPMS =>
            /\ "ext" \in cpms'.lbs => cpms'.lbs = cpms.lbs
            /\ faults' = 0 /\ "ext" \in cpms'.lbs => "ext" \notin goroutine[g].cpms.lbs
    BY <1>10, PatchShape
  <2>2. cpms' # NoCPMS => "ext" \notin cpms'.lbs
    BY <2>1 DEF CopyInv, Trusted
  <2> QED
    BY <2>1, <2>2 DEF CopyInv
<1>11. ASSUME NEW g \in Goroutines, SetCPMSActive(g) PROVE CopyInv'
  <2>1. /\ \A h \in Goroutines : h # g => goroutine'[h] = goroutine[h]
        /\ goroutine'[g] # NoGoroutine => goroutine'[g].at = "sleep"
        /\ cpms' # NoCPMS <=> cpms # NoCPMS
        /\ cpms # NoCPMS => cpms'.lbs = cpms.lbs
    BY <1>11, ActiveShape
  <2> QED
    BY <2>1 DEF CopyInv
<1> QED
  BY <1>1, <1>2, <1>3, <1>4, <1>5, <1>6, <1>7, <1>8, <1>9, <1>10, <1>11
  DEF Next, Reconcile, Environment, Background

LEMMA CopyInvariant == Spec => [](Trusted => CopyInv)
<1>1. Init => (Trusted => CopyInv)
  BY DEF Init, CopyInv
<1>2. ScopeInv /\ CleanInv /\ (Undisturbed => DirtyInv) /\ (Trusted => CopyInv) /\ [Next]_vars
        => (Trusted => CopyInv)'
  <2> SUFFICES ASSUME ScopeInv, CleanInv, Undisturbed => DirtyInv, Trusted => CopyInv, [Next]_vars,
                      Trusted'
               PROVE  CopyInv'
    OBVIOUS
  <2>1. Trusted
    BY TroublesGrow DEF ScopeInv, BaseInv, Trusted
  <2> QED
    BY <2>1, CopyNext
<1> QED
  BY <1>1, <1>2, ScopeInvariant, CleanInvariant, DirtyInvariant, PTL DEF Spec

\* As long as no call failed, the goroutine of getLoadBalancerRemovalFunc sets the CPMS
\* active only when every load balancer it lists exists: however the API is toggled in the
\* meantime, whoever reads the CPMS too early and however old the cached one is; and, if
\* nobody is too early, whoever else deletes it.
THEOREM ReactivationClean == Spec => ReactivatedClean
<1>1. ScopeInv /\ CleanInv /\ (Trusted => CopyInv) /\ [Next]_vars =>
        [faults' = 0 /\ (late' = 0 \/ drift' = 0) /\ cpms # NoCPMS /\ cpms' # NoCPMS =>
            (cpms.state = "Inactive" /\ cpms'.state = "Active" =>
                \A n \in cpms'.lbs : \E a \in Arns : Exists(a) /\ nlbs[a].name = n)]_vars
  <2> SUFFICES ASSUME ScopeInv, CleanInv, Trusted => CopyInv, Next, faults' = 0,
                      late' = 0 \/ drift' = 0, cpms # NoCPMS, cpms' # NoCPMS,
                      cpms.state = "Inactive", cpms'.state = "Active", NEW n \in cpms'.lbs
               PROVE  \E a \in Arns : Exists(a) /\ nlbs[a].name = n
    OBVIOUS
  <2>0. TypeOK /\ CopyInv
    BY TroublesGrow DEF ScopeInv, BaseInv, Trusted
  <2>1. \E g \in Goroutines : SetCPMSActive(g)
    <3>1. cpms' # cpms
      OBVIOUS
    <3>2. ASSUME NEW g \in Goroutines, PatchCPMS(g) PROVE cpms'.state = cpms.state
      BY <3>2, PatchShape
    <3>3. ASSUME DeleteCPMS \/ LoseCPMS PROVE cpms'.state = cpms.state
      BY <2>0, <3>3 DEF DeleteCPMS, LoseCPMS, TypeOK, CPMS
    <3>4. ASSUME Reconcile, ~DeleteCPMS PROVE FALSE
      BY <3>1, <3>4
      DEF Reconcile, PublicList, CreateNLB, CreateListener, PrivateList, ReadTags, DeleteNLB,
          UpdateMachine, UpsertARecord, cluster
    <3>5. ASSUME Environment, ~LoseCPMS PROVE FALSE
      BY <3>1, <3>5
      DEF Environment, Error, Crash, Restart, EditStrategy, FinalizeCPMS, RecreateCPMS,
          ServiceChange, BorrowTargetGroup, SyncCPMS, SyncMachine, Resync, cluster
    <3>6. ASSUME NEW g \in Goroutines, GetCPMS(g) PROVE FALSE
      BY <3>1, <3>6 DEF GetCPMS, Restart, cluster
    <3> QED
      BY <3>2, <3>3, <3>4, <3>5, <3>6 DEF Next, Background
  <2>2. PICK g \in Goroutines : SetCPMSActive(g)
    BY <2>1
  <2>3. cpms'.lbs = cpms.lbs
    BY <2>2, ActiveShape
  <2>4. "ext" \notin cpms.lbs /\ cpms.lbs \subseteq OwnNames
    BY <2>0, <2>2 DEF CleanInv, CopyInv, NamesInv, SetCPMSActive
  <2>5. n = "int"
    BY <2>3, <2>4 DEF OwnNames
  <2>6. Exists(IntArn) /\ nlbs[IntArn].name = "int" /\ IntArn \in Arns
    BY IntKept, ArnsAssumption DEF ScopeInv, OwnInv, IntNLB
  <2> QED
    BY <2>5, <2>6
<1> QED
  BY <1>1, CleanInvariant, CopyInvariant, ScopeInvariant, PTL DEF Spec, ReactivatedClean

-----------------------------------------------------------------------------
(* And when the CPMS was always replaced in time.                          *)

\* The external load balancer has its listener and the record, but for the moment in
\* which setDefaultAPIPublic makes it.
ListenerInv ==
    /\ \A a \in Arns : Exists(a) /\ nlbs[a].listener => Deletable(a)
    /\ pc = "createListener" => ~nlbs[arn].listener
    /\ pc = "upsert" /\ arn # IntArn => nlbs[arn].listener
    /\ pc \notin {"createListener", "upsert"} =>
        \A a \in Arns : Deletable(a) => alias = a /\ nlbs[a].listener

\* A request for a public API that no longer waits is at work on a load balancer, or has
\* found one.
WorkInv ==
    listening = "external" /\ ~queued =>
        \/ pc \in {"createNLB", "createListener"} \/ (pc = "upsert" /\ arn # IntArn)
        \/ pc = "idle" /\ \E a \in Arns : Deletable(a)

\* Past its sleep the goroutine has a CPMS to work on that stays and is in the cache, and
\* never takes it for active.
DeliverInv ==
    /\ cpms # NoCPMS \/ cpmsSeen # NoCPMS \/ active \/ Running => HasCPMS
    /\ \A g \in Goroutines : goroutine[g] # NoGoroutine =>
        /\ goroutine[g].at # "sleep" =>
            /\ cpms # NoCPMS /\ ~cpms.deleting
            /\ cpmsSeen # NoCPMS /\ cpmsSeen.state = "Inactive"
        /\ goroutine[g].cpms # NoCPMS => goroutine[g].cpms.state = "Inactive"

InTime == Undisturbed /\ late = 0
PublicInv == ListenerInv /\ WorkInv /\ DeliverInv

\* A Get in time finds the CPMS, so that there is no panic.
LEMMA GetFinds ==
    ASSUME ScopeInv, DeliverInv, late' = 0, NEW g \in Goroutines, GetCPMS(g)
    PROVE  /\ ~Restart
           /\ goroutine[g].at = "sleep" => cpmsSeen = cpms /\ cpms # NoCPMS /\ ~cpms.deleting
<1>0. TypeOK /\ Running
  BY DEF ScopeInv, BaseInv, GetCPMS, Running
<1>1. goroutine[g].at = "sleep" => cpmsSeen = cpms /\ cpms # NoCPMS /\ ~cpms.deleting
  <2>1. goroutine[g].at = "sleep" => Replaced
    BY <1>0, InTimeReplaced DEF GetCPMS
  <2> QED
    BY <1>0, <2>1 DEF Replaced, DeliverInv
<1>2. cpmsSeen # NoCPMS
  BY <1>1 DEF GetCPMS, DeliverInv
<1>3. goroutine'[g] # NoGoroutine
  <2>1. goroutine[g] \in Goroutine
    BY <1>0 DEF GetCPMS, TypeOK
  <2>2. HavingRead(goroutine[g]) \in Goroutine
    BY <1>0, <2>1 DEF HavingRead, Goroutine, TypeOK
  <2> QED
    BY <1>0, <1>2, <2>2, GoroutinesAssumption DEF GetCPMS, TypeOK
<1> QED
  BY <1>1, <1>3 DEF Restart

\* The initial states have no goroutine, and every listener is the operator's.
LEMMA PublicInit == Init => PublicInv
<1> SUFFICES ASSUME Init PROVE PublicInv
  OBVIOUS
<1>1. pc = "idle" /\ queued /\ \A g \in Goroutines : goroutine[g] = NoGoroutine
  BY DEF Init
<1>2. IntNLB.listener = FALSE /\ ServiceNLB.listener = FALSE
  BY DEF IntNLB, ServiceNLB
<1>3. [ExtNLB EXCEPT !.listener = TRUE].listener /\ canDeleteNlb([ExtNLB EXCEPT !.listener = TRUE])
  BY DEF ExtNLB, canDeleteNlb
<1>4. PICK public \in BOOLEAN, services \in SUBSET {ServiceArn} :
        /\ nlbs = [a \in Arns |->
                    IF a = IntArn THEN IntNLB
                    ELSE IF a = ExtArn /\ public THEN [ExtNLB EXCEPT !.listener = TRUE]
                    ELSE IF a \in services THEN ServiceNLB ELSE NoNLB]
        /\ alias = IF public THEN ExtArn ELSE IntArn
  BY DEF Init
<1>5. \A a \in Arns : nlbs[a] \in {IntNLB, ServiceNLB, NoNLB} \/
                      (nlbs[a] = [ExtNLB EXCEPT !.listener = TRUE] /\ alias = a)
  BY <1>4
<1>6. ListenerInv
  BY <1>1, <1>2, <1>3, <1>5, DeletableNLBs DEF ListenerInv, Deletable, Exists
<1>7. (cpms # NoCPMS => HasCPMS) /\ cpmsSeen = cpms /\ active = FALSE
  BY DEF Init
<1> QED
  BY <1>1, <1>6, <1>7 DEF PublicInv, WorkInv, DeliverInv, Running

\* Steps that touch neither load balancers nor the record, and leave the Reconcile where
\* it is or keep it away from making one.
LEMMA ListenerStutters ==
    ASSUME ListenerInv, UNCHANGED <<nlbs, alias>>,
           \/ UNCHANGED <<pc, arn>>
           \/ /\ pc \notin {"createListener", "upsert"}
              /\ pc' \notin {"createListener", "upsert"} \/ (pc' = "upsert" /\ arn' = IntArn)
    PROVE  ListenerInv'
<1>1. \A a \in Arns : Deletable(a)' <=> Deletable(a)
  BY DEF Deletable, Exists
<1> QED
  BY <1>1 DEF ListenerInv, Exists

\* setDefaultAPIPublic makes load balancer, listener and record one after the other, and
\* finds the target group free.
LEMMA ListenerNext ==
    ASSUME ScopeInv, PublicInv, [Next]_vars, Undisturbed', late' = 0
    PROVE  ListenerInv'
<1>0. TypeOK /\ OwnInv /\ Rest /\ LoopInv /\ ListenerInv /\ DeliverInv /\ SingleInv
  BY DEF ScopeInv, BaseInv, Rest, PublicInv
<1>c. \/ Reconcile \/ EditStrategy \/ FinalizeCPMS \/ RecreateCPMS \/ SyncCPMS
      \/ (\E m \in Masters : SyncMachine(m)) \/ Resync \/ UNCHANGED vars
      \/ \E g \in Goroutines : Background(g)
  BY <1>0, CalmStep
<1>1. CASE PublicList \/ PrivateList \/ DeleteCPMS \/ UpdateMachine
  <2>1. /\ UNCHANGED <<nlbs, alias>> /\ pc \notin {"createListener", "upsert"}
        /\ pc' \notin {"createListener", "upsert"}
    BY <1>1 DEF PublicList, PrivateList, DeleteCPMS, UpdateMachine, Return, cloud
  <2> QED
    BY <1>0, <2>1, ListenerStutters
<1>2. CASE ReadTags
  <2>1. /\ UNCHANGED <<nlbs, alias>> /\ pc = "tags"
        /\ pc' \notin {"createListener", "upsert"} \/ (pc' = "upsert" /\ arn' = IntArn)
    BY <1>2 DEF ReadTags, Return, cloud
  <2> QED
    BY <1>0, <2>1, ListenerStutters
<1>3. CASE \/ EditStrategy \/ FinalizeCPMS \/ RecreateCPMS \/ SyncCPMS
           \/ (\E m \in Masters : SyncMachine(m)) \/ Resync \/ UNCHANGED vars
  <2>1. UNCHANGED <<nlbs, alias, pc, arn>>
    BY <1>3 DEF EditStrategy, FinalizeCPMS, RecreateCPMS, SyncCPMS, SyncMachine, Resync, vars,
                cloud, locals
  <2> QED
    BY <1>0, <2>1, ListenerStutters
<1>4. CASE CreateNLB
  <2>1. /\ arn' \in Arns /\ nlbs'[arn'] = ExtNLB /\ Deletable(arn)'
        /\ \A b \in Arns : b # arn' => nlbs'[b] = nlbs[b]
    BY <1>0, <1>4, CreateShape
  <2>2. pc' = "createListener" /\ ExtNLB.listener = FALSE
    BY <1>4 DEF CreateNLB, ExtNLB
  <2>3. \A b \in Arns : b # arn' => (Deletable(b)' <=> Deletable(b)) /\ (Exists(b)' <=> Exists(b))
    BY <2>1 DEF Deletable, Exists
  <2>4. ASSUME NEW b \in Arns, Exists(b)', nlbs'[b].listener PROVE Deletable(b)'
    <3>1. b # arn'
      BY <2>1, <2>2, <2>4
    <3> QED
      BY <1>0, <2>1, <2>3, <2>4, <3>1 DEF ListenerInv
  <2> QED
    BY <2>1, <2>2, <2>4 DEF ListenerInv
<1>5. CASE CreateListener
  <2>1. /\ arn \in Arns /\ Deletable(arn)
        /\ \A b \in Arns : Deletable(b)' <=> Deletable(b)
        /\ \A b \in Arns : b # arn => nlbs'[b] = nlbs[b]
    BY <1>0, <1>5, ListenerShape
  <2>2. pc = "createListener" /\ ~nlbs[arn].listener
    BY <1>0, <1>5 DEF CreateListener, ListenerInv
  <2>3. ~Associated
    BY <1>0, <2>1, <2>2 DEF Associated, ListenerInv, SingleInv
  <2>4. /\ pc' = "upsert" /\ arn' = arn
        /\ nlbs' = [nlbs EXCEPT ![arn] = [nlbs[arn] EXCEPT !.listener = TRUE]]
    BY <1>5, <2>3 DEF CreateListener, locals
  <2>5. nlbs[arn] \in NLB
    BY <1>0, <2>1 DEF TypeOK, Deletable, Exists
  <2>6. nlbs'[arn].listener
    BY <1>0, <2>1, <2>4, <2>5 DEF TypeOK, NLB
  <2>7. ASSUME NEW b \in Arns, Exists(b)', nlbs'[b].listener PROVE Deletable(b)'
    <3>1. CASE b = arn
      BY <2>1, <3>1
    <3>2. CASE b # arn
      BY <1>0, <2>1, <2>7, <3>2 DEF ListenerInv, Exists
    <3> QED
      BY <3>1, <3>2
  <2> QED
    BY <2>4, <2>6, <2>7 DEF ListenerInv
<1>6. CASE DeleteNLB
  <2>1. /\ arn \in Arns /\ Deletable(arn) /\ nlbs'[arn] = NoNLB
        /\ \A b \in Arns : ~Deletable(b)'
        /\ \A b \in Arns : b # arn => nlbs'[b] = nlbs[b]
    BY <1>0, <1>6, DeleteShape
  <2>2. pc' \in {"deleteCPMS", "machines"}
    BY <1>6 DEF DeleteNLB
  <2>3. ASSUME NEW b \in Arns, Exists(b)', nlbs'[b].listener PROVE FALSE
    <3>1. b # arn
      BY <2>1, <2>3 DEF Exists
    <3>2. Deletable(b)
      BY <1>0, <2>1, <2>3, <3>1 DEF ListenerInv, Exists
    <3> QED
      BY <1>0, <2>1, <3>1, <3>2 DEF SingleInv
  <2> QED
    BY <2>1, <2>2, <2>3 DEF ListenerInv
<1>7. CASE UpsertARecord
  <2>1. pc = "upsert" /\ pc' = "idle" /\ alias' = arn /\ UNCHANGED nlbs
    BY <1>7 DEF UpsertARecord, Return
  <2>2. \A a \in Arns : (Deletable(a)' <=> Deletable(a)) /\ (Exists(a)' <=> Exists(a))
    BY <2>1 DEF Deletable, Exists
  <2>3. ASSUME NEW a \in Arns, Deletable(a) PROVE a = arn /\ nlbs[a].listener
    <3>1. arn # IntArn
      BY <1>0, <2>1, <2>3 DEF LoopInv
    <3>2. Deletable(arn) /\ nlbs[arn].listener /\ arn \in Arns
      BY <1>0, <2>1, <3>1 DEF LoopInv, ListenerInv, TypeOK
    <3> QED
      BY <1>0, <2>3, <3>2 DEF SingleInv
  <2> QED
    BY <1>0, <2>1, <2>2, <2>3 DEF ListenerInv
<1>8. ASSUME NEW g \in Goroutines, Background(g) PROVE ListenerInv'
  <2>1. CASE GetCPMS(g)
    BY <1>0, <2>1, GetFinds, GetShape, ListenerStutters
  <2>2. CASE PatchCPMS(g) \/ SetCPMSActive(g)
    BY <1>0, <2>2, ListenerStutters DEF PatchCPMS, SetCPMSActive, cloud, locals
  <2> QED
    BY <1>8, <2>1, <2>2 DEF Background
<1> QED
  BY <1>c, <1>1, <1>2, <1>3, <1>4, <1>5, <1>6, <1>7, <1>8 DEF Reconcile

\* A request for a public API is dropped only for a load balancer that is there.
LEMMA WorkNext ==
    ASSUME ScopeInv, PublicInv, [Next]_vars, Undisturbed', late' = 0
    PROVE  WorkInv'
<1>0. TypeOK /\ OwnInv /\ Rest /\ LoopInv /\ ListenerInv /\ DeliverInv /\ SingleInv /\ WorkInv
  BY DEF ScopeInv, BaseInv, Rest, PublicInv
<1>c. \/ Reconcile \/ EditStrategy \/ FinalizeCPMS \/ RecreateCPMS \/ SyncCPMS
      \/ (\E m \in Masters : SyncMachine(m)) \/ Resync \/ UNCHANGED vars
      \/ \E g \in Goroutines : Background(g)
  BY <1>0, CalmStep
<1>1. CASE PublicList
  <2>1. UNCHANGED <<nlbs, pc>> \/ pc' = "createNLB"
    BY <1>1 DEF PublicList, cloud
  <2>2. CASE UNCHANGED <<nlbs, pc>> /\ pc' # "createNLB"
    <3>1. \E a \in InternetFacing : nlbs[a].name = "ext"
      BY <1>1, <2>2 DEF PublicList
    <3>2. \E a \in Arns : Deletable(a)
      BY <1>0, <3>1 DEF OwnInv, InternetFacing
    <3>3. \E a \in Arns : Deletable(a)'
      BY <2>2, <3>2 DEF Deletable, Exists
    <3>4. pc' = "idle"
      BY <1>1, <2>2 DEF PublicList
    <3> QED
      BY <3>3, <3>4 DEF WorkInv
  <2> QED
    BY <2>1, <2>2 DEF WorkInv
<1>2. CASE CreateNLB
  BY <1>2 DEF CreateNLB, WorkInv
<1>3. CASE CreateListener
  <2>1. arn \in Arns /\ arn # IntArn /\ Deletable(arn) /\ pc = "createListener"
    BY <1>0, <1>3, ListenerShape DEF CreateListener
  <2>2. ~Associated
    BY <1>0, <2>1 DEF Associated, ListenerInv, SingleInv
  <2> QED
    BY <1>3, <2>1, <2>2 DEF CreateListener, WorkInv, locals
<1>4. CASE PrivateList
  BY <1>4 DEF PrivateList, WorkInv
<1>5. CASE ReadTags \/ DeleteNLB \/ DeleteCPMS \/ UpdateMachine
  <2>1. /\ pc \in {"tags", "deleteNLB", "deleteCPMS", "machines"} /\ UNCHANGED listening
        /\ UNCHANGED queued \/ Return(TRUE)
    BY <1>5 DEF ReadTags, DeleteNLB, DeleteCPMS, UpdateMachine
  <2>2. Return(TRUE) => queued'
    BY DEF Return
  <2>3. listening = "external" => queued
    BY <1>0, <2>1 DEF WorkInv
  <2>4. listening' = "external" => queued'
    <3>1. CASE UNCHANGED queued
      BY <2>1, <2>3, <3>1
    <3>2. CASE Return(TRUE)
      BY <2>2, <3>2
    <3> QED
      BY <2>1, <3>1, <3>2
  <2> QED
    BY <2>4 DEF WorkInv
<1>6. CASE UpsertARecord
  <2>1. /\ pc = "upsert" /\ pc' = "idle" /\ UNCHANGED <<nlbs, listening>>
        /\ queued' = (queued \/ FALSE)
    BY <1>6 DEF UpsertARecord, Return
  <2>2. ASSUME listening = "external", ~queued PROVE \E a \in Arns : Deletable(a)'
    <3>1. arn # IntArn
      BY <1>0, <2>1, <2>2 DEF WorkInv
    <3>2. arn \in Arns /\ Deletable(arn)
      BY <1>0, <2>1, <3>1 DEF LoopInv, TypeOK
    <3> QED
      BY <2>1, <3>2 DEF Deletable, Exists
  <2> QED
    BY <1>0, <2>1, <2>2 DEF WorkInv, TypeOK
<1>7. CASE EditStrategy \/ Resync
  BY <1>7 DEF EditStrategy, Resync, WorkInv
<1>8. ASSUME UNCHANGED <<listening, queued, pc, arn, nlbs>> PROVE WorkInv'
  <2>1. \A a \in Arns : Deletable(a)' <=> Deletable(a)
    BY <1>8 DEF Deletable, Exists
  <2> QED
    BY <1>0, <1>8, <2>1 DEF WorkInv
<1>9. CASE \/ FinalizeCPMS \/ RecreateCPMS \/ SyncCPMS \/ (\E m \in Masters : SyncMachine(m))
           \/ UNCHANGED vars
  BY <1>8, <1>9 DEF FinalizeCPMS, RecreateCPMS, SyncCPMS, SyncMachine, vars, cloud, locals
<1>10. ASSUME NEW g \in Goroutines, Background(g) PROVE WorkInv'
  <2>1. CASE GetCPMS(g)
    BY <1>0, <1>8, <2>1, GetFinds, GetShape
  <2>2. CASE PatchCPMS(g) \/ SetCPMSActive(g)
    BY <1>8, <2>2 DEF PatchCPMS, SetCPMSActive, cloud, locals
  <2> QED
    BY <1>10, <2>1, <2>2 DEF Background
<1> QED
  BY <1>c, <1>1, <1>2, <1>3, <1>4, <1>5, <1>6, <1>7, <1>9, <1>10 DEF Reconcile

\* No Reconcile takes the CPMS away from a goroutine, and no copy is active.
LEMMA DeliverNext ==
    ASSUME ScopeInv, CleanInv, OffInv, PublicInv, [Next]_vars, Undisturbed', late' = 0
    PROVE  DeliverInv'
<1>0. TypeOK /\ ArnInv /\ DeliverInv
  BY DEF ScopeInv, BaseInv, PublicInv
<1>c. /\ UNCHANGED <<faults, drift>>
      /\ \/ Reconcile \/ EditStrategy \/ FinalizeCPMS \/ RecreateCPMS \/ SyncCPMS
         \/ (\E m \in Masters : SyncMachine(m)) \/ Resync \/ UNCHANGED vars
         \/ \E g \in Goroutines : Background(g)
  BY <1>0, CalmStep
<1>1. ASSUME UNCHANGED <<goroutine, cpms, cpmsSeen>>, active' => active \/ cpmsSeen # NoCPMS
      PROVE  DeliverInv'
  <2>1. Running' <=> Running
    BY <1>1 DEF Running
  <2> QED
    BY <1>0, <1>1, <2>1 DEF DeliverInv
<1>2. CASE PublicList \/ CreateNLB \/ CreateListener \/ ReadTags \/ DeleteNLB \/ UpsertARecord
  <2>1. UNCHANGED <<goroutine, cpms, cpmsSeen>> /\ (active' => active)
    BY <1>2 DEF PublicList, CreateNLB, CreateListener, ReadTags, DeleteNLB, UpsertARecord, Return,
                ForgetLocals, cluster, cache, locals
  <2> QED
    BY <1>1, <2>1
<1>3. CASE PrivateList
  <2>1. UNCHANGED <<goroutine, cpms, cpmsSeen>> /\ (active' => cpmsSeen # NoCPMS)
    BY <1>3 DEF PrivateList, cluster, cache
  <2> QED
    BY <1>1, <2>1
<1>4. CASE DeleteCPMS
  <2>1. HasCPMS /\ UNCHANGED goroutine /\ \A g \in Goroutines : goroutine[g] = NoGoroutine
    BY <1>0, <1>4 DEF DeleteCPMS, ArnInv, OffInv, Running, DeliverInv
  <2> QED
    BY <2>1 DEF DeliverInv
<1>5. CASE UpdateMachine
  <2>1. /\ \A g \in Goroutines : goroutine'[g] = goroutine[g] \/ (active /\ goroutine'[g] = Fresh(lbName))
        /\ UNCHANGED <<cpms, cpmsSeen, active>>
    BY <1>0, <1>5 DEF UpdateMachine, StartGoroutine, TypeOK, cache
  <2>2. Fresh(lbName).at = "sleep" /\ Fresh(lbName).cpms = NoCPMS
    BY DEF Fresh
  <2>3. Running' => Running \/ active
    BY <2>1 DEF Running
  <2> QED
    BY <1>0, <2>1, <2>2, <2>3 DEF DeliverInv
<1>6. CASE EditStrategy \/ (\E m \in Masters : SyncMachine(m)) \/ Resync \/ UNCHANGED vars
  <2>1. UNCHANGED <<goroutine, cpms, cpmsSeen, active>>
    BY <1>6 DEF EditStrategy, SyncMachine, Resync, vars, cluster, cache, locals
  <2> QED
    BY <1>1, <2>1
<1>7. CASE FinalizeCPMS \/ RecreateCPMS
  <2>1. UNCHANGED <<goroutine, cpmsSeen, active>> /\ (cpms' # NoCPMS => HasCPMS)
    BY <1>7 DEF FinalizeCPMS, RecreateCPMS, cache, locals
  <2>2. cpms = NoCPMS \/ cpms.deleting
    BY <1>7 DEF FinalizeCPMS, RecreateCPMS
  <2>3. Running' <=> Running
    BY <2>1 DEF Running
  <2> QED
    BY <1>0, <2>1, <2>2, <2>3 DEF DeliverInv
<1>8. CASE SyncCPMS
  <2>1. UNCHANGED <<goroutine, cpms, active>> /\ cpmsSeen' = cpms
    BY <1>8 DEF SyncCPMS, locals
  <2>2. Running' <=> Running
    BY <2>1 DEF Running
  <2>3. ASSUME NEW g \in Goroutines, goroutine[g] # NoGoroutine, goroutine[g].at # "sleep"
        PROVE  cpms # NoCPMS /\ cpms.state = "Inactive"
    <3>1. cpms # NoCPMS /\ ~cpms.deleting /\ Running
      BY <1>0, <2>3 DEF DeliverInv, Running
    <3> QED
      BY <3>1 DEF OffInv, Going, Off
  <2> QED
    BY <1>0, <2>1, <2>2, <2>3 DEF DeliverInv
<1>9. ASSUME NEW g \in Goroutines, GetCPMS(g) PROVE DeliverInv'
  <2>1. ~Restart /\ (goroutine[g].at = "sleep" => cpmsSeen = cpms /\ cpms # NoCPMS /\ ~cpms.deleting)
    BY <1>0, <1>9, GetFinds
  <2>2. /\ goroutine[g] # NoGoroutine /\ UNCHANGED <<cpms, cpmsSeen, active>>
        /\ \A h \in Goroutines : h # g => goroutine'[h] = goroutine[h]
        /\ goroutine'[g].cpms = cpmsSeen
    BY <1>9, <2>1, GetShape
  <2>3. Running
    BY <2>2 DEF Running
  <2>4. cpms # NoCPMS /\ ~cpms.deleting /\ cpmsSeen # NoCPMS /\ cpmsSeen.state = "Inactive"
    <3>1. CASE goroutine[g].at = "sleep"
      BY <2>1, <2>3, <3>1 DEF OffInv, Going, Off
    <3>2. CASE goroutine[g].at # "sleep"
      BY <1>0, <2>2, <3>2 DEF DeliverInv
    <3> QED
      BY <3>1, <3>2
  <2> QED
    BY <1>0, <2>2, <2>3, <2>4 DEF DeliverInv
<1>10. ASSUME NEW g \in Goroutines, PatchCPMS(g) PROVE DeliverInv'
  <2>1. /\ goroutine[g] # NoGoroutine /\ goroutine[g].at = "patchLBs" /\ UNCHANGED cpmsSeen
        /\ \A h \in Goroutines : h # g => goroutine'[h] = goroutine[h]
        /\ goroutine'[g].cpms = NoCPMS
        /\ cpms' # NoCPMS <=> cpms # NoCPMS
        /\ cpms # NoCPMS => cpms'.deleting = cpms.deleting
    BY <1>10, PatchShape
  <2>2. UNCHANGED active /\ Running
    BY <1>10, <2>1 DEF PatchCPMS, locals, Running
  <2> QED
    BY <1>0, <2>1, <2>2 DEF DeliverInv
<1>11. ASSUME NEW g \in Goroutines, SetCPMSActive(g) PROVE DeliverInv'
  <2>1. /\ goroutine[g] # NoGoroutine
        /\ \A h \in Goroutines : h # g => goroutine'[h] = goroutine[h]
        /\ goroutine'[g] # NoGoroutine => goroutine'[g].cpms = NoCPMS /\ goroutine'[g].at = "sleep"
    BY <1>11, ActiveShape
  <2>2. \A h \in Goroutines : h # g => goroutine'[h] = NoGoroutine
    BY <2>1 DEF OffInv
  <2>3. Running /\ HasCPMS
    BY <1>0, <2>1 DEF Running, DeliverInv
  <2> QED
    BY <2>1, <2>2, <2>3 DEF DeliverInv
<1> QED
  BY <1>c, <1>2, <1>3, <1>4, <1>5, <1>6, <1>7, <1>8, <1>9, <1>10, <1>11 DEF Reconcile, Background

\* Nothing having gone wrong, the invariant holds.
LEMMA PublicInvariant == Spec => [](InTime => PublicInv)
<1>1. Init => (InTime => PublicInv)
  BY PublicInit
<1>2. ScopeInv /\ CleanInv /\ (late = 0 => OffInv) /\ (InTime => PublicInv) /\ [Next]_vars
        => (InTime => PublicInv)'
  <2> SUFFICES ASSUME ScopeInv, CleanInv, late = 0 => OffInv, InTime => PublicInv, [Next]_vars,
                      Undisturbed', late' = 0
               PROVE  PublicInv'
    BY DEF InTime
  <2>1. PublicInv /\ OffInv
    BY CalmStep, TroublesGrow DEF ScopeInv, BaseInv, InTime
  <2> QED
    BY <2>1, ListenerNext, WorkNext, DeliverNext DEF PublicInv
<1> QED
  BY <1>1, <1>2, ScopeInvariant, CleanInvariant, OffInvariant, PTL DEF Spec

\* When nothing failed, nobody interfered and the CPMS was replaced in time, a public API
\* without a request waiting is served: the load balancer that the early return of
\* setDefaultAPIPublic relies on is in the record and has its listener.
THEOREM ExternalSafe == Spec => []ExternalSettled
<1>1. ScopeInv /\ (InTime => PublicInv) => ExternalSettled
  <2> SUFFICES ASSUME ScopeInv, PublicInv, pc = "idle", ~queued, listening = "external"
               PROVE  alias \in InternetFacing /\ nlbs[alias].listener
    BY DEF ExternalSettled, InTime, Undisturbed
  <2>1. PICK a \in Arns : Deletable(a)
    BY DEF PublicInv, WorkInv
  <2>2. alias = a /\ nlbs[a].listener
    BY <2>1 DEF PublicInv, ListenerInv
  <2>3. a \in InternetFacing
    BY <2>1 DEF ScopeInv, BaseInv, ExtInv, InternetFacing, Deletable
  <2> QED
    BY <2>2, <2>3
<1> QED
  BY <1>1, PublicInvariant, ScopeInvariant, PTL

\* Under the same conditions the goroutine that set out to make the CPMS active again
\* does not end before it has: no Reconcile deletes the CPMS under it, no Get finds
\* nothing, and its copy is never taken for active.
THEOREM DeliverySafe == Spec => GoroutineDelivers
<1>1. ScopeInv /\ CleanInv /\ (late = 0 => OffInv) /\ (InTime => PublicInv) /\ [Next]_vars =>
        [faults' = 0 /\ drift = 0 /\ late' = 0 =>
            \A g \in Goroutines : goroutine[g] # NoGoroutine /\ goroutine'[g] = NoGoroutine =>
                cpms' # NoCPMS /\ cpms'.state = "Active"]_vars
  <2> SUFFICES ASSUME ScopeInv, CleanInv, late = 0 => OffInv, InTime => PublicInv, Next,
                      faults' = 0, drift = 0, late' = 0,
                      NEW g \in Goroutines, goroutine[g] # NoGoroutine, goroutine'[g] = NoGoroutine
               PROVE  cpms' # NoCPMS /\ cpms'.state = "Active"
    OBVIOUS
  <2>0. TypeOK
    BY DEF ScopeInv, BaseInv
  <2>1. faults = 0 /\ late = 0
    BY <2>0, TroublesGrow
  <2>2. OffInv /\ DeliverInv
    BY <2>1 DEF InTime, Undisturbed, PublicInv
  <2>3. PICK h \in Goroutines : Background(h)
    <3>1. ASSUME Reconcile PROVE goroutine'[g] # NoGoroutine
      <4>1. UNCHANGED goroutine \/ (pc = "machines" /\ StartGoroutine)
        BY <3>1 DEF Reconcile, PublicList, CreateNLB, CreateListener, PrivateList, ReadTags,
                    DeleteNLB, DeleteCPMS, UpdateMachine, UpsertARecord
      <4>2. lbName \in LBNames /\ Fresh(lbName) # NoGoroutine
        BY <2>0, FreshType, GoroutinesAssumption DEF TypeOK
      <4> QED
        BY <2>0, <4>1, <4>2 DEF StartGoroutine, TypeOK
    <3>2. ~Crash
      <4>1. faults' # faults + 1
        BY <2>1
      <4> QED
        BY <4>1 DEF Crash
    <3>3. ASSUME Environment, ~Crash PROVE UNCHANGED goroutine
      BY <3>3 DEF Environment, Error, EditStrategy, FinalizeCPMS, RecreateCPMS, ServiceChange,
                  BorrowTargetGroup, LoseCPMS, SyncCPMS, SyncMachine, Resync
    <3> QED
      BY <3>1, <3>2, <3>3 DEF Next
  <2>4. ~GetCPMS(h)
    <3> SUFFICES ASSUME GetCPMS(h) PROVE FALSE
      OBVIOUS
    <3>1. ~Restart
      BY <2>2, GetFinds
    <3> QED
      BY <3>1, GetShape
  <2>5. ~PatchCPMS(h)
    BY PatchShape
  <2>6. SetCPMSActive(h)
    BY <2>3, <2>4, <2>5 DEF Background
  <2>7. Running /\ goroutine[h] # NoGoroutine /\ goroutine[h].at = "setActive"
    BY <2>6 DEF SetCPMSActive, Running
  <2>8. /\ cpms # NoCPMS /\ cpms.state = "Inactive"
        /\ goroutine[h].cpms # NoCPMS /\ goroutine[h].cpms.state = "Inactive"
    BY <2>0, <2>2, <2>7 DEF DeliverInv, OffInv, Going, Off, TypeOK
  <2>9. faults' # faults + 1
    BY <2>1
  <2>10. cpms' = [cpms EXCEPT !.state = "Active"]
    BY <2>6, <2>8, <2>9 DEF SetCPMSActive
  <2>11. cpms' # NoCPMS
    BY <2>6, <2>8, ActiveShape
  <2> QED
    BY <2>0, <2>8, <2>10, <2>11 DEF TypeOK, CPMS
<1> QED
  BY <1>1, PublicInvariant, ScopeInvariant, CleanInvariant, OffInvariant, PTL
  DEF Spec, GoroutineDelivers
================================================================================
