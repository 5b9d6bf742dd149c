----------------------------- MODULE OperatorProofs ----------------------------
(***************************************************************************)
(* The composition of the PublishingStrategy controller with a cloud       *)
(* client: what was proved of the controller alone still holds, and the    *)
(* whole keeps the promise of its client.                                  *)
(***************************************************************************)
EXTENDS Operator, PublishingStrategyProofs

\* The calls of a Reconcile that still owes the API its scope, and those after.
BeforeAlias == Calls \ {"disown", "disownPatch", "unpublish", "unpublishDelete"}
AfterAlias == {"disown", "disownPatch", "unpublish", "unpublishDelete"}

\* A goal is held from the first call of a Reconcile to the end of ensureAliasScope.
GoalInv ==
    /\ pc \in BeforeAlias => goal \in {"internal", "external"}
    /\ pc \notin BeforeAlias => goal = "none"
    /\ listening \in {"internal", "external"}

-----------------------------------------------------------------------------
(* The controller's own invariants.                                        *)

\* A change of the API's scope is nothing to the controller's locals.
LEMMA EditScopeKeeps ==
    ASSUME TypeOK, MapInv, EditScope
    PROVE  TypeOK' /\ MapInv'
<1>1. UNCHANGED <<ics, cache, ps, drift, faults, pc, inst, base, owned, i, target, snap, todo>>
  BY DEF EditScope, server, locals
<1>2. edits' \in 0..MaxEdits /\ queued' \in BOOLEAN
  BY BoundsAssumption DEF EditScope, TypeOK
<1>3. TypeOK'
  BY <1>1, <1>2 DEF TypeOK
<1> QED
  BY <1>1, <1>3, MapIdle

\* Every other step is one of the controller, or none.
LEMMA StepOfController ==
    ASSUME [OperatorNext]_all
    PROVE  [Next]_vars \/ EditScope
BY DEF OperatorNext, OperatorStep, Start, SetDefaultAPI, ensureAliasScope, OtherStep, Calling,
       Next, Reconcile, all, controller

LEMMA ControllerNext == TypeOK /\ MapInv /\ [OperatorNext]_all => TypeOK' /\ MapInv'
BY StepOfController, EditScopeKeeps, TypeNext, MapNext

\* No Reconcile unpublishes or disowns an IngressController its list asks for, also while
\* customers change the scope of the API and the cloud client is at work.
THEOREM ComposedListedSafe == OperatorSpec => []ListedIsKept
<1>1. TypeOK /\ MapInv => ListedIsKept
  <2> SUFFICES ASSUME TypeOK, MapInv PROVE ListedIsKept
    OBVIOUS
  <2>1. DOMAIN inst = 1..Len(inst)
    BY ListType DEF TypeOK
  <2>2. ASSUME pc \in AfterLoop
        PROVE  \A n \in Listed(inst) : owned[n] = "verified"
    BY <2>1, <2>2 DEF MapInv, VerifiedInv, Listed
  <2> QED
    BY <2>2 DEF ListedIsKept, MapInv, TargetInv, AfterLoop
<1>2. OperatorInit => TypeOK /\ MapInv
  BY TypeInit, MapInit DEF OperatorInit
<1> QED
  BY <1>1, <1>2, ControllerNext, PTL DEF OperatorSpec

-----------------------------------------------------------------------------
(* The promise of the cloud client.                                        *)

\* A Reconcile that ends before ensureAliasScope always comes back.
LEMMA CallingShape ==
    ASSUME TypeOK, Calling
    PROVE  /\ ps' = ps
           /\ \/ pc \in BeforeAlias /\ pc' \in BeforeAlias /\ queued' = queued
              \/ pc \in BeforeAlias /\ pc' = "idle" /\ queued' = TRUE
              \/ pc \in AfterAlias /\ pc' \in AfterAlias /\ queued' = queued
              \/ pc \in AfterAlias /\ pc' = "idle" /\ queued' \in {queued, TRUE}
<1> USE DEF BeforeAlias, AfterAlias, Calls, env
<1>1. CASE List
  BY <1>1 DEF List, Return, Proceed
<1>2. CASE RejectMalformed
  BY <1>2 DEF RejectMalformed, Return
<1>3. CASE GetIngress
  <2>1. Verdict(cache[TargetName(inst[i])], inst[i]) \in IngressSteps \cup {"requeue", "next"}
    BY VerdictType
  <2> QED
    BY <1>3, <2>1 DEF GetIngress, Return, Proceed, IngressSteps
<1>4. CASE Create \/ AddFinalizer \/ DeleteMismatch \/ Patch
  BY <1>4 DEF Create, AddFinalizer, DeleteMismatch, Patch, Return
<1>5. CASE RemoveFinalizer \/ DeleteGone
  BY <1>5 DEF RemoveFinalizer, DeleteGone, Return
<1>6. CASE AnnotateGet \/ AnnotatePatch
  BY <1>6 DEF AnnotateGet, AnnotatePatch, Return
<1>7. CASE DisownGet \/ DisownPatch
  BY <1>7 DEF DisownGet, DisownPatch, Return, TypeOK
<1>8. CASE UnpublishGet \/ UnpublishDelete
  BY <1>8 DEF UnpublishGet, UnpublishDelete, Return, TypeOK
<1> QED
  BY <1>1, <1>2, <1>3, <1>4, <1>5, <1>6, <1>7, <1>8 DEF Calling

\* What others do to the request and to the strategy.
LEMMA EnvironmentShape ==
    ASSUME Environment
    PROVE  /\ pc' = pc
           /\ (queued' = queued /\ ps' = ps) \/ queued' = TRUE
BY DEF Environment, Sync, Resync, EditStrategy, ClusterCreateDefault, NativeCreate,
       ManualDelete, ClusterAdmit, ClusterCleanup, idle, env

LEMMA GoalNext == TypeOK /\ GoalInv /\ [OperatorNext]_all => GoalInv'
<1> SUFFICES ASSUME TypeOK, GoalInv, [OperatorNext]_all PROVE GoalInv'
  OBVIOUS
<1> USE DEF GoalInv
<1>1. CASE Start
  BY <1>1 DEF Start, Begin, api, BeforeAlias, Calls
<1>2. CASE SetDefaultAPI
  BY <1>2 DEF SetDefaultAPI, controller, vars
<1>3. CASE ensureAliasScope
  BY <1>3 DEF ensureAliasScope, AliasScope, api, BeforeAlias
<1>4. CASE EditScope
  BY <1>4 DEF EditScope
<1>5. CASE OtherStep(Calling)
  BY <1>5, CallingShape DEF OtherStep, api, BeforeAlias, AfterAlias, Calls
<1>6. CASE OtherStep(Fault)
  BY <1>6 DEF OtherStep, Fault, Return, api, BeforeAlias, Calls
<1>7. CASE OtherStep(Environment)
  BY <1>7, EnvironmentShape DEF OtherStep, api, BeforeAlias, Calls
<1>8. CASE UNCHANGED all
  BY <1>8 DEF all, vars, api
<1> QED
  BY <1>1, <1>2, <1>3, <1>4, <1>5, <1>6, <1>7, <1>8 DEF OperatorNext, OperatorStep

LEMMA GoalInit == OperatorInit => GoalInv
BY DEF OperatorInit, Init, GoalInv, BeforeAlias, Calls

\* Every step of the operator is a step of the promise, or none that it sees.
LEMMA ScopeStep == TypeOK /\ GoalInv /\ [OperatorNext]_all => [Client!Next]_(Client!vars)
<1> SUFFICES ASSUME TypeOK, GoalInv, [OperatorNext]_all PROVE [Client!Next]_(Client!vars)
  OBVIOUS
<1> USE DEF Client!Next, Client!vars
<1>1. CASE Start
  <2>1. CASE ps = NoStrategy
    BY <1>1, <2>1 DEF Start, Begin, api, GoalInv, BeforeAlias, Calls, Asked, Client!Skip
  <2>2. CASE ps # NoStrategy
    BY <1>1, <2>2 DEF Start, Begin, api, GoalInv, BeforeAlias, Calls, Asked, Client!Start
  <2> QED
    BY <2>1, <2>2
<1>2. CASE SetDefaultAPI
  BY <1>2 DEF SetDefaultAPI
<1>3. CASE ensureAliasScope
  <2>1. ps' = ps /\ queued' = queued /\ UNCHANGED <<listening, exposed, record>>
    BY <1>3 DEF ensureAliasScope, AliasScope, env, api
  <2>2. goal \in {"internal", "external"}
    BY <1>3 DEF ensureAliasScope, AliasScope, GoalInv, BeforeAlias, Calls
  <2>3. CASE goal = "external"
    BY <1>3, <2>1, <2>3 DEF ensureAliasScope, Asked, Client!GiveUp
  <2>4. CASE goal = "internal"
    BY <1>3, <2>1, <2>4 DEF ensureAliasScope, Asked, Client!Finish
  <2> QED
    BY <2>2, <2>3, <2>4
<1>4. CASE EditScope
  BY <1>4 DEF EditScope, Asked, Client!Ask, Client!Scopes, GoalInv
<1>5. CASE OtherStep(Calling)
  <2>1. ps' = ps /\ UNCHANGED <<listening, exposed, record>> /\ Asked' = Asked
    BY <1>5, CallingShape DEF OtherStep, api, Asked
  <2>2. CASE pc' \in Calls /\ queued' = queued
    BY <1>5, <2>1, <2>2 DEF OtherStep, Calls
  <2>3. CASE pc \in BeforeAlias /\ pc' = "idle" /\ queued' = TRUE
    BY <1>5, <2>1, <2>3 DEF OtherStep, GoalInv, Client!Fail
  <2>4. CASE pc \in AfterAlias /\ pc' = "idle" /\ queued' \in {queued, TRUE}
    BY <1>5, <2>1, <2>4 DEF OtherStep, GoalInv, BeforeAlias, AfterAlias, Client!Wake
  <2> QED
    BY <1>5, <2>2, <2>3, <2>4, CallingShape DEF OtherStep, BeforeAlias, AfterAlias, Calls
<1>6. CASE OtherStep(Fault)
  <2>1. /\ ps' = ps /\ UNCHANGED <<listening, exposed, record>> /\ Asked' = Asked
        /\ queued' = TRUE /\ goal' = "none"
    BY <1>6 DEF OtherStep, Fault, Return, api, Asked
  <2>2. CASE pc \in BeforeAlias
    BY <2>1, <2>2 DEF GoalInv, Client!Fail
  <2>3. CASE pc \notin BeforeAlias
    BY <2>1, <2>3 DEF GoalInv, Client!Wake
  <2> QED
    BY <2>2, <2>3
<1>7. CASE OtherStep(Environment)
  <2>1. UNCHANGED <<listening, exposed, record, goal>>
    BY <1>7, EnvironmentShape DEF OtherStep, api, GoalInv, BeforeAlias, Calls
  <2>2. CASE queued' = queued /\ ps' = ps
    BY <2>1, <2>2 DEF Asked
  <2>3. CASE queued' = TRUE /\ Asked' = Asked
    BY <2>1, <2>3 DEF Client!Wake
  <2>4. CASE queued' = TRUE /\ Asked' # Asked
    BY <2>1, <2>4 DEF Client!Ask, Client!Scopes, Asked, GoalInv
  <2> QED
    BY <1>7, <2>2, <2>3, <2>4, EnvironmentShape DEF OtherStep
<1>8. CASE UNCHANGED all
  BY <1>8 DEF all, vars, env, api, Asked
<1> QED
  BY <1>1, <1>2, <1>3, <1>4, <1>5, <1>6, <1>7, <1>8 DEF OperatorNext, OperatorStep

\* The operator as a whole implements APIScope: for every list, version and number of
\* IngressControllers, a Reconcile that does not reach ensureAliasScope leaves a request,
\* and the load balancer and the record change in the order a cloud client promises.
THEOREM ComposedScope == OperatorSpec => ImplementsScope
<1>1. OperatorInit => Client!Init
  BY DEF OperatorInit, Init, Client!Init, Client!Scopes, Asked
<1>2. OperatorInit => TypeOK /\ MapInv
  BY TypeInit, MapInit DEF OperatorInit
<1> QED
  BY <1>1, <1>2, GoalInit, GoalNext, ControllerNext, ScopeStep, PTL
     DEF OperatorSpec, ImplementsScope, Client!Spec

Promise == INSTANCE APIScopeProofs WITH listening <- Asked, owed <- queued

\* The operator at rest has made a private API private, for every list, version, fault and
\* outside change: what it inherits from APIScope as a whole.
THEOREM ComposedSettled == OperatorSpec => []ScopeSettled
<1>1. Client!Init => Promise!Init
  BY DEF Client!Init, Promise!Init, Client!Scopes, Promise!Scopes
<1>2. [Client!Next]_(Client!vars) => [Promise!Next]_(Promise!vars)
  BY DEF Client!Next, Client!vars, Client!Scopes, Client!Private, Client!Ask, Client!Wake,
         Client!Start, Client!Skip, Client!GiveUp, Client!Expose, Client!Hide, Client!PointOut,
         Client!PointIn, Client!Finish, Client!Fail,
         Promise!Next, Promise!vars, Promise!Scopes, Promise!Private, Promise!Ask, Promise!Wake,
         Promise!Start, Promise!Skip, Promise!GiveUp, Promise!Expose, Promise!Hide,
         Promise!PointOut, Promise!PointIn, Promise!Finish, Promise!Fail
<1>3. Promise!Settled /\ GoalInv => ScopeSettled
  BY DEF Promise!Settled, Promise!Private, Client!Private, ScopeSettled, GoalInv, BeforeAlias, Calls
<1>4. OperatorInit => TypeOK /\ MapInv
  BY TypeInit, MapInit DEF OperatorInit
<1>5. OperatorSpec => []GoalInv
  BY <1>4, GoalInit, GoalNext, ControllerNext, PTL DEF OperatorSpec
<1> QED
  BY <1>1, <1>2, <1>3, <1>5, ComposedScope, Promise!SettledAlways, PTL
  DEF ImplementsScope, Client!Spec, Promise!Spec
================================================================================
