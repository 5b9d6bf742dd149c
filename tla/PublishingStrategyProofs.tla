---------------------- MODULE PublishingStrategyProofs ----------------------
(***************************************************************************)
(* Proofs about PublishingStrategy, for every set of names, domains and    *)
(* strategies, every version and every bound.                              *)
(***************************************************************************)
EXTENDS PublishingStrategy, SequenceTheorems, TLAPS

IngressSteps ==
    {"create", "addFinalizer", "deleteStatic", "deleteLBType", "patch",
     "removeFinalizer", "deleteGone"}

-----------------------------------------------------------------------------
(* The operators the actions are built from.                               *)

\* A strategy is a finite list.
LEMMA ListType ==
    ASSUME NEW list \in Strategies \cup {<<>>}
    PROVE  list \in Seq(ApplicationIngress) /\ Len(list) \in Nat
<1>1. list \in Seq(ApplicationIngress)
  <2>1. CASE list \in Strategies
    BY <2>1, StrategiesAssumption
  <2>2. CASE list = <<>>
    BY <2>2, EmptySeq
  <2> QED
    BY <2>1, <2>2
<1> QED
  BY <1>1

\* An entry of a strategy is an ApplicationIngress and names an IngressController.
LEMMA EntryType ==
    ASSUME NEW list \in Strategies \cup {<<>>}, NEW k \in 1..Len(list)
    PROVE  list[k] \in ApplicationIngress /\ TargetName(list[k]) \in Names
<1>1. list \in Seq(ApplicationIngress)
  BY ListType
<1>2. list[k] \in ApplicationIngress
  BY <1>1
<1>3. list[k].default \in BOOLEAN /\ list[k].dnsName \in Domains
  BY <1>2 DEF ApplicationIngress
<1> QED
  BY <1>2, <1>3, NamesAssumption, DomainsAssumption DEF TargetName

\* generateIngressController yields an IngressController.
LEMMA GenerateType ==
    ASSUME NEW ai \in ApplicationIngress
    PROVE  generateIngressController(ai) \in IngressController
<1>1. ProviderParameters(ai) \in Providers \cup {Nil}
  BY DEF ProviderParameters, Providers
<1>2. NoStatus \in Status
  BY SelectorsAssumption DEF NoStatus, Status
<1> QED
  BY <1>1, <1>2 DEF generateIngressController, IngressController, ApplicationIngress, Scopes

\* What the API server stores for it is one too.
LEMMA StoredType ==
    ASSUME NEW ic \in IngressController, ic.selector # Nil
    PROVE  [ic EXCEPT !.selector = Stored(ic.selector)] \in IngressController
BY SelectorsAssumption DEF IngressController, Stored

\* The field patches of ensurePatchableSpec keep the type.
LEMMA PatchedType ==
    ASSUME NEW ic \in IngressController, NEW d \in IngressController, NEW field
    PROVE  Patched(ic, d, field) \in IngressController
<1>1. [ic EXCEPT !.selector = d.selector] \in IngressController
  BY DEF IngressController
<1>2. [ic EXCEPT !.certificate = d.certificate] \in IngressController
  BY DEF IngressController
<1>3. [ic EXCEPT !.placement = d.placement] \in IngressController
  BY DEF IngressController
<1>4. [ic EXCEPT !.scope = d.scope, !.provider = d.provider] \in IngressController
  BY DEF IngressController
<1> QED
  BY <1>1, <1>2, <1>3, <1>4 DEF Patched

\* A merge patch keeps the type.
LEMMA MergePatchType ==
    ASSUME NEW cur \in IngressController, NEW old \in IngressController,
           NEW new \in IngressController
    PROVE  MergePatch(cur, old, new) \in IngressController
<1>1. (IF new.selector = Nil THEN Nil ELSE Stored(new.selector)) \in Selectors \cup {Nil}
  BY SelectorsAssumption DEF IngressController, Stored
<1> QED
  BY <1>1 DEF MergePatch, Merged, IngressController

\* Deleting an object leaves an IngressController or nothing.
LEMMA DeletedType ==
    ASSUME NEW ic \in IngressController \cup {NoIC}
    PROVE  Deleted(ic) \in IngressController \cup {NoIC}
BY NoICAssumption DEF Deleted, Settled, IngressController

\* So does taking a finalizer away.
LEMMA WithoutType ==
    ASSUME NEW ic \in IngressController, NEW finalizer
    PROVE  Without(ic, finalizer) \in IngressController \cup {NoIC}
BY DEF Without, Settled, IngressController

\* What cluster-ingress-operator creates and admits has the type.
LEMMA BareType == Bare \in IngressController
BY SelectorsAssumption DEF Bare, NoStatus, Status, IngressController

\* Admission keeps the type.
LEMMA AdmittedType ==
    ASSUME NEW ic \in IngressController
    PROVE  Admitted(ic) \in IngressController
<1>1. AdmittedStatus(ic) \in Status
  BY DomainsAssumption, SelectorsAssumption
     DEF AdmittedStatus, IngressController, Status, Scopes
<1> QED
  BY <1>1 DEF Admitted, IngressController

\* The call that follows a Get is one of those the loop makes.
LEMMA VerdictType ==
    ASSUME NEW ic, NEW ai
    PROVE  Verdict(ic, ai) \in IngressSteps \cup {"requeue", "next"}
BY DEF Verdict, DeletingStep, StaticStep, IngressSteps

-----------------------------------------------------------------------------
(* Type correctness.                                                       *)

\* The clusters the operator starts on are well typed.
LEMMA TypeInit == Init => TypeOK
<1> SUFFICES ASSUME Init PROVE TypeOK
  OBVIOUS
<1>1. ASSUME NEW list \in Strategies, NEW n \in Names
      PROVE  Established(list, n) \subseteq IngressController \cup {NoIC}
  <2>1. ASSUME NEW k \in DOMAIN list
        PROVE  Admitted([generateIngressController(list[k]) EXCEPT !.selector = Stored(@)])
                   \in IngressController
    <3>1. list[k] \in ApplicationIngress
      BY StrategiesAssumption
    <3>2. generateIngressController(list[k]) \in IngressController
      BY <3>1, GenerateType
    <3>3. generateIngressController(list[k]).selector # Nil
      BY <3>1, SelectorsAssumption DEF generateIngressController, ApplicationIngress
    <3> QED
      BY <3>2, <3>3, StoredType, AdmittedType
  <2> QED
    BY <2>1, BareType, AdmittedType DEF Established
<1>2. ics \in [Names -> IngressController \cup {NoIC}]
  <2>1. PICK list \in Strategies :
            /\ ics \in [Names -> UNION {Established(list, n) : n \in Names}]
            /\ \A n \in Names : ics[n] \in Established(list, n)
    BY DEF Init
  <2> QED
    BY <2>1, <1>1
<1> QED
  BY <1>2, NamesAssumption, BoundsAssumption DEF Init, TypeOK

\* Every return from Reconcile resets its locals to well-typed values.
LEMMA ReturnType ==
    ASSUME TypeOK, NEW requeue \in BOOLEAN, Return(requeue)
    PROVE  /\ queued' \in BOOLEAN /\ pc' = "idle" /\ inst' = <<>> /\ base' \in BOOLEAN
           /\ owned' \in [Names -> {"absent", "unverified", "verified"}]
           /\ i' = 0 /\ i' \in 0..(Len(inst') + 1) /\ target' = "default" /\ target' \in Names
           /\ snap' = NoIC /\ todo' = {}
<1>1. Len(<<>>) = 0
  OBVIOUS
<1> QED
  BY <1>1, NamesAssumption DEF TypeOK, Return, ForgetLocals

\* The step to the next entry, or out of the loop, does too.
LEMMA ProceedType ==
    ASSUME TypeOK, NEW k \in 1..(Len(inst) + 1), NEW m, Proceed(k, m),
           m \in [Names -> {"absent", "unverified", "verified"}]
    PROVE  /\ queued' \in BOOLEAN /\ inst' = inst /\ base' \in BOOLEAN
           /\ pc' \in {"ingress", "annotate"} /\ (pc' = "ingress" => i' \in 1..Len(inst'))
           /\ owned' \in [Names -> {"absent", "unverified", "verified"}]
           /\ i' \in 0..(Len(inst') + 1) /\ target' \in Names
           /\ snap' = NoIC /\ todo' \in SUBSET Names
<1>1. Len(inst) \in Nat
  BY StrategiesAssumption DEF TypeOK
<1> QED
  BY <1>1, NamesAssumption DEF TypeOK, Proceed

\* Every step keeps the types: one case per action.
LEMMA TypeNext == TypeOK /\ [Next]_vars => TypeOK'
<1> SUFFICES ASSUME TypeOK, [Next]_vars PROVE TypeOK'
  OBVIOUS
<1> USE NamesAssumption, BoundsAssumption
<1>a. Len(inst) \in Nat
  BY ListType DEF TypeOK
<1>b. ASSUME i \in 1..Len(inst)
      PROVE  /\ inst[i] \in ApplicationIngress
             /\ TargetName(inst[i]) \in Names
             /\ generateIngressController(inst[i]) \in IngressController
             /\ generateIngressController(inst[i]).selector # Nil
  <2>1. inst[i] \in ApplicationIngress /\ TargetName(inst[i]) \in Names
    BY <1>b, EntryType DEF TypeOK
  <2>2. generateIngressController(inst[i]).selector # Nil
    BY <2>1, SelectorsAssumption DEF generateIngressController, ApplicationIngress
  <2> QED
    BY <2>1, <2>2, GenerateType
<1>1. CASE Begin
  <2>1. CASE ps = NoStrategy
    BY <1>1, <2>1, StrategiesAssumption DEF Begin, TypeOK, server, locals, Calls
  <2>2. CASE ps # NoStrategy
    <3>1. ps \in Seq(ApplicationIngress)
      BY <2>2, StrategiesAssumption DEF TypeOK
    <3>2. i' = 0 /\ inst' = ps /\ 0 \in 0..(Len(ps) + 1)
      BY <1>1, <2>2, <3>1 DEF Begin, TypeOK
    <3>3. base' \in BOOLEAN
      BY <1>1, <2>2 DEF Begin, TypeOK
    <3>4. faults' \in 0..MaxFaults
      BY <1>1, <2>2 DEF Begin, TypeOK
    <3> QED
      BY <1>1, <2>2, <3>2, <3>3, <3>4 DEF Begin, TypeOK, server, Calls
  <2> QED
    BY <2>1, <2>2
<1>2. CASE List
  <2>1. CASE Return(TRUE)
    BY <1>2, <2>1, ReturnType DEF List, TypeOK, server, env
  <2>2. CASE Proceed(1, [n \in Names |-> IF n \in Owned(cache) THEN "unverified"
                                                             ELSE "absent"])
    BY <1>2, <2>2, <1>a, ProceedType DEF List, TypeOK, server, env, Calls
  <2> QED
    BY <1>2, <2>1, <2>2 DEF List
<1>3. CASE RejectMalformed
  BY <1>3, ReturnType DEF RejectMalformed, TypeOK, server, env
<1>4. CASE GetIngress
  <2> DEFINE name == TargetName(inst[i])
             step == Verdict(cache[name], inst[i])
  <2>1. i \in 1..Len(inst) /\ name \in Names
    BY <1>4, <1>b DEF GetIngress, TypeOK
  <2>2. Verified(name) \in [Names -> {"absent", "unverified", "verified"}]
    BY <2>1 DEF Verified, TypeOK
  <2>3. CASE Return(TRUE)
    BY <1>4, <2>3, ReturnType DEF GetIngress, TypeOK, server, env
  <2>4. CASE Proceed(i + 1, Verified(name))
    <3>1. i + 1 \in 1..(Len(inst) + 1)
      BY <2>1, <1>a
    <3> QED
      BY <1>4, <2>2, <2>4, <3>1, ProceedType DEF GetIngress, TypeOK, server, env, Calls
  <2>5. CASE /\ step \notin {"requeue", "next"}
             /\ pc' = step /\ owned' = Verified(name)
             /\ target' = name /\ snap' = cache[name]
             /\ UNCHANGED <<queued, inst, base, i, todo>>
    <3>1. step \in IngressSteps
      BY <2>5, VerdictType
    <3>2. snap' \in IngressController \cup {NoIC}
      BY <2>1, <2>5 DEF TypeOK
    <3>3. step # "create" => snap' # NoIC
      BY <2>5 DEF Verdict
    <3> QED
      BY <1>4, <2>1, <2>2, <2>5, <3>1, <3>2, <3>3
         DEF GetIngress, TypeOK, server, env, Calls, IngressSteps
  <2> QED
    BY <1>4, <2>3, <2>4, <2>5 DEF GetIngress
<1>5. CASE Create
  <2>1. i \in 1..Len(inst)
    BY <1>5 DEF Create, TypeOK
  <2>2. [generateIngressController(inst[i])
            EXCEPT !.selector = Stored(generateIngressController(inst[i]).selector)]
            \in IngressController
    BY <2>1, <1>b, StoredType
  <2>3. ics' \in [Names -> IngressController \cup {NoIC}]
    BY <1>5, <2>2 DEF Create, TypeOK
  <2> QED
    BY <1>5, <2>3, ReturnType DEF Create, TypeOK, env
<1>6. CASE AddFinalizer
  <2>1. CASE ics[target] = snap
    <3>1. ics[target] \in IngressController
      BY <1>6, <2>1 DEF AddFinalizer, TypeOK
    <3>2. [ics[target] EXCEPT !.finalizers = @ \cup {Cloud}] \in IngressController
      BY <3>1 DEF IngressController
    <3>3. ics' = [ics EXCEPT ![target] = [ics[target] EXCEPT !.finalizers = @ \cup {Cloud}]]
      BY <1>6, <2>1, <3>1 DEF AddFinalizer
    <3>4. /\ ics' \in [Names -> IngressController \cup {NoIC}]
          /\ ics'[target] \in IngressController
      BY <3>2, <3>3 DEF TypeOK
    <3> QED
      BY <1>6, <2>1, <3>4, NoICAssumption DEF AddFinalizer, TypeOK, env, Calls
  <2>2. CASE ics[target] # snap
    BY <1>6, <2>2, ReturnType DEF AddFinalizer, TypeOK, env
  <2> QED
    BY <2>1, <2>2
<1>7. CASE DeleteMismatch
  <2>1. ics' \in [Names -> IngressController \cup {NoIC}]
    BY <1>7, DeletedType DEF DeleteMismatch, TypeOK
  <2> QED
    BY <1>7, <2>1, ReturnType DEF DeleteMismatch, TypeOK, env
<1>8. CASE Patch
  <2> DEFINE d == generateIngressController(inst[i])
             new == MergePatch(ics[target], snap, Patched(snap, d, FieldToPatch(snap, d, target)))
  <2>1. i \in 1..Len(inst) /\ snap \in IngressController
    BY <1>8 DEF Patch, TypeOK
  <2>2. ics[target] # NoIC => new \in IngressController
    BY <2>1, <1>b, PatchedType, MergePatchType DEF TypeOK
  <2>3. ics' \in [Names -> IngressController \cup {NoIC}]
    BY <1>8, <2>2 DEF Patch, TypeOK
  <2> QED
    BY <1>8, <2>3, ReturnType DEF Patch, TypeOK, env
<1>9. CASE RemoveFinalizer
  <2>1. CASE ics[target] = snap
    <3>1. ics[target] \in IngressController
      BY <1>9, <2>1 DEF RemoveFinalizer, TypeOK
    <3>4. ics' \in [Names -> IngressController \cup {NoIC}]
      BY <1>9, <2>1, <3>1, WithoutType DEF RemoveFinalizer, TypeOK
    <3> QED
      BY <1>9, <2>1, <3>4 DEF RemoveFinalizer, TypeOK, env, locals, Calls
  <2>2. CASE ics[target] # snap
    BY <1>9, <2>2, ReturnType DEF RemoveFinalizer, TypeOK, env
  <2> QED
    BY <2>1, <2>2
<1>10. CASE DeleteGone
  <2>1. ics' \in [Names -> IngressController \cup {NoIC}]
    BY <1>10, DeletedType DEF DeleteGone, TypeOK
  <2> QED
    BY <1>10, <2>1 DEF DeleteGone, TypeOK, env, locals, Calls
<1>11. CASE AnnotateGet
  <2>1. CASE todo = {} /\ pc' = "alias" /\ UNCHANGED <<queued, locals>>
    BY <1>11, <2>1 DEF AnnotateGet, TypeOK, server, env, locals, Calls
  <2>2. CASE Return(TRUE)
    BY <1>11, <2>2, ReturnType DEF AnnotateGet, TypeOK, server, env
  <2>3. CASE /\ pc' = "alias" /\ todo' = {}
             /\ UNCHANGED <<queued, inst, base, owned, i, target, snap>>
    BY <1>11, <2>3 DEF AnnotateGet, TypeOK, server, env, Calls
  <2>4. ASSUME NEW n \in todo, cache[n] # NoIC,
               pc' = "annotatePatch", todo' = todo \ {n}, target' = n, snap' = cache[n],
               UNCHANGED <<queued, inst, base, owned, i>>
        PROVE  TypeOK'
    BY <1>11, <2>4 DEF AnnotateGet, TypeOK, server, env, Calls
  <2> QED
    BY <1>11, <2>1, <2>2, <2>3, <2>4 DEF AnnotateGet
<1>12. CASE AnnotatePatch
  <2>1. CASE ics[target] = NoIC
    BY <1>12, <2>1, ReturnType DEF AnnotatePatch, TypeOK, env
  <2>2. CASE ics[target] # NoIC
    <3>1. snap \in IngressController /\ ics[target] \in IngressController
      BY <1>12, <2>2 DEF AnnotatePatch, TypeOK
    <3>2. Annotated(snap) \in IngressController
      BY <3>1 DEF Annotated, IngressController
    <3>3. MergePatch(ics[target], snap, Annotated(snap)) \in IngressController
      BY <3>1, <3>2, MergePatchType
    <3>4. ics' \in [Names -> IngressController \cup {NoIC}]
      BY <1>12, <2>2, <3>3 DEF AnnotatePatch, TypeOK
    <3> QED
      BY <1>12, <2>2, <3>4 DEF AnnotatePatch, TypeOK, env, Calls
  <2> QED
    BY <2>1, <2>2
<1>13. CASE AliasScope
  BY <1>13 DEF AliasScope, TypeOK, server, env, Calls
<1>14. CASE DisownGet
  <2>1. CASE cache["default"] = NoIC
    BY <1>14, <2>1, ReturnType DEF DisownGet, TypeOK, server, env
  <2>2. CASE cache["default"] # NoIC
    BY <1>14, <2>2 DEF DisownGet, TypeOK, server, env, Calls
  <2> QED
    BY <2>1, <2>2
<1>15. CASE DisownPatch
  <2>1. CASE UNCHANGED ics /\ Return(TRUE)
    BY <1>15, <2>1, ReturnType DEF DisownPatch, TypeOK, env
  <2>2. CASE /\ ics["default"] # NoIC
             /\ ics' = [ics EXCEPT !["default"] =
                            MergePatch(ics["default"], snap, Disowned(snap))]
             /\ Return(FALSE)
    <3>1. snap \in IngressController /\ ics["default"] \in IngressController
      BY <1>15, <2>2 DEF DisownPatch, TypeOK
    <3>2. Disowned(snap) \in IngressController
      BY <3>1 DEF Disowned, IngressController
    <3>3. ics' \in [Names -> IngressController \cup {NoIC}]
      BY <2>2, <3>1, <3>2, MergePatchType DEF TypeOK
    <3> QED
      BY <1>15, <2>2, <3>3, ReturnType DEF DisownPatch, TypeOK, env
  <2> QED
    BY <1>15, <2>1, <2>2 DEF DisownPatch
<1>16. CASE UnpublishGet
  <2>1. CASE \E requeue \in BOOLEAN : Return(requeue)
    BY <1>16, <2>1, ReturnType DEF UnpublishGet, TypeOK, server, env
  <2>2. ASSUME NEW n \in todo,
               pc' = "unpublishDelete", todo' = todo \ {n}, target' = n,
               UNCHANGED <<queued, inst, base, owned, i, snap>>
        PROVE  TypeOK'
    BY <1>16, <2>2 DEF UnpublishGet, TypeOK, server, env, Calls
  <2> QED
    BY <1>16, <2>1, <2>2 DEF UnpublishGet
<1>17. CASE UnpublishDelete
  <2>1. CASE ics[target] = NoIC
    BY <1>17, <2>1, ReturnType DEF UnpublishDelete, TypeOK, env
  <2>2. CASE ics[target] # NoIC
    <3>a. target \in Names /\ ics \in [Names -> IngressController \cup {NoIC}]
      BY DEF TypeOK
    <3>b. Deleted(ics[target]) \in IngressController \cup {NoIC}
      BY <3>a, DeletedType
    <3>c. ics' = [ics EXCEPT ![target] = Deleted(ics[target])]
      BY <1>17, <2>2 DEF UnpublishDelete
    <3>1. ics' \in [Names -> IngressController \cup {NoIC}]
      BY <3>a, <3>b, <3>c
    <3> QED
      BY <1>17, <2>2, <3>1 DEF UnpublishDelete, TypeOK, env, Calls
  <2> QED
    BY <2>1, <2>2
<1>18. CASE Fault
  <2>1. faults' \in 0..MaxFaults
    BY <1>18 DEF Fault, TypeOK
  <2> QED
    BY <1>18, <2>1, ReturnType DEF Fault, TypeOK, server
<1>19. CASE Sync \/ Resync
  BY <1>19 DEF Sync, Resync, TypeOK, server, env, idle, locals
<1>20. CASE EditStrategy
  BY <1>20 DEF EditStrategy, TypeOK, server, locals
<1>21. CASE ClusterCreateDefault
  BY <1>21, BareType DEF ClusterCreateDefault, TypeOK, env, idle, locals
<1>22. ASSUME NEW n \in Names, NativeCreate(n) PROVE TypeOK'
  BY <1>22, BareType DEF NativeCreate, TypeOK, env, idle, locals
<1>23. ASSUME NEW n \in Names, ManualDelete(n) PROVE TypeOK'
  BY <1>23, DeletedType DEF ManualDelete, TypeOK, env, idle, locals
<1>24. ASSUME NEW n \in Names, ClusterAdmit(n) PROVE TypeOK'
  BY <1>24, AdmittedType DEF ClusterAdmit, TypeOK, env, idle, locals
<1>25. ASSUME NEW n \in Names, ClusterCleanup(n) PROVE TypeOK'
  <2>1. ics[n] \in IngressController
    BY <1>25 DEF ClusterCleanup, TypeOK
  <2>4. ics' \in [Names -> IngressController \cup {NoIC}]
    BY <1>25, <2>1, WithoutType DEF ClusterCleanup, TypeOK
  <2> QED
    BY <1>25, <2>4 DEF ClusterCleanup, TypeOK, env, idle, locals
<1>26. CASE UNCHANGED vars
  BY <1>26 DEF vars, server, env, locals, TypeOK
<1> QED
  BY <1>1, <1>2, <1>3, <1>4, <1>5, <1>6, <1>7, <1>8, <1>9, <1>10, <1>11, <1>12, <1>13,
     <1>14, <1>15, <1>16, <1>17, <1>18, <1>19, <1>20, <1>21, <1>22, <1>23, <1>24, <1>25,
     <1>26
     DEF Next, Reconcile, Environment

\* Every reachable state is well typed: Reconcile's locals stay within the list
\* and the objects it writes are IngressControllers (the whole controller).
THEOREM TypeCorrect == Spec => []TypeOK
<1> QED
  BY TypeInit, TypeNext, PTL DEF Spec

-----------------------------------------------------------------------------
(* The handshake over the default IngressController.  Its object goes      *)
(* through three phases: without the Cloud finalizer, Armed with it, and   *)
(* Draining once it is being deleted.  The cache lags behind, so the       *)
(* invariant says which phases the server can be in, given what the cache  *)
(* still shows and what the running Reconcile holds.                       *)

HasCloud(ic) == ic # NoIC /\ Cloud \in ic.finalizers
Armed(ic) == HasCloud(ic) /\ ~ic.deleting
Draining(ic) == HasCloud(ic) /\ ic.deleting

CacheArmed == Armed(cache["default"]) => HasCloud(ics["default"])
CacheDraining == Draining(cache["default"]) => ~Armed(ics["default"])

AddInv ==
    pc = "addFinalizer" /\ target = "default" =>
        /\ Cloud \notin snap.finalizers /\ ~snap.deleting
        /\ Draining(cache["default"]) => HasCloud(ics["default"])

RemoveInv ==
    pc = "removeFinalizer" /\ target = "default" =>
        Draining(snap) /\ ~Armed(ics["default"]) /\ ~Armed(cache["default"])

HandshakeInv ==
    /\ CacheArmed /\ CacheDraining /\ AddInv /\ RemoveInv
    /\ pc \notin {"disown", "disownPatch"}
    /\ HandshakeArmed

\* A write that neither gives nor takes the finalizer, nor revives the object.
Kept(old, new) == (HasCloud(new) <=> HasCloud(old)) /\ (Armed(new) => Armed(old))

\* A Delete is such a write.
LEMMA DeletedKept ==
    ASSUME NEW ic \in IngressController \cup {NoIC}
    PROVE  Kept(ic, Deleted(ic))
<1>1. CASE ic = NoIC
  BY <1>1 DEF Kept, Deleted
<1>2. CASE ic # NoIC
  <2> DEFINE gone == [ic EXCEPT !.deleting = TRUE]
  <2>1. gone \in IngressController /\ gone.deleting /\ gone.finalizers = ic.finalizers
    BY <1>2 DEF IngressController
  <2>2. gone # NoIC
    BY <2>1, NoICAssumption
  <2>3. Deleted(ic) = IF gone.finalizers = {} THEN NoIC ELSE gone
    BY <1>2, <2>1 DEF Deleted, Settled
  <2> HIDE DEF gone
  <2>4. CASE ic.finalizers = {}
    BY <2>1, <2>3, <2>4 DEF Kept, HasCloud, Armed
  <2>5. CASE ic.finalizers # {}
    BY <1>2, <2>1, <2>2, <2>3, <2>5 DEF Kept, HasCloud, Armed
  <2> QED
    BY <2>4, <2>5
<1> QED
  BY <1>1, <1>2

\* So is a patch of anything but the finalizers.
LEMMA MergePatchKept ==
    ASSUME NEW cur \in IngressController, NEW old \in IngressController,
           NEW new \in IngressController, new.finalizers = old.finalizers
    PROVE  Kept(cur, MergePatch(cur, old, new))
<1>1. MergePatch(cur, old, new) # NoIC
  BY MergePatchType, NoICAssumption
<1>2. /\ MergePatch(cur, old, new).finalizers = cur.finalizers
      /\ MergePatch(cur, old, new).deleting = cur.deleting
  BY DEF MergePatch, Merged
<1>3. cur # NoIC
  BY NoICAssumption
<1> QED
  BY <1>1, <1>2, <1>3 DEF Kept, HasCloud, Armed

\* So is an admission by cluster-ingress-operator.
LEMMA AdmittedKept ==
    ASSUME NEW ic \in IngressController
    PROVE  Kept(ic, Admitted(ic))
<1>1. Admitted(ic) # NoIC /\ ic # NoIC
  BY AdmittedType, NoICAssumption
<1>2. /\ Admitted(ic).finalizers = ic.finalizers \cup {Cluster}
      /\ Admitted(ic).deleting = ic.deleting
  BY DEF Admitted, IngressController
<1>3. Cloud # Cluster
  BY DEF Cloud, Cluster
<1> QED
  BY <1>1, <1>2, <1>3 DEF Kept, HasCloud, Armed

\* So is its removal of its own finalizer.
LEMMA CleanedKept ==
    ASSUME NEW ic \in IngressController, ic.deleting
    PROVE  Kept(ic, Without(ic, Cluster))
<1>1. Cloud # Cluster
  BY DEF Cloud, Cluster
<1> QED
  BY <1>1, NoICAssumption DEF Kept, Without, Settled, HasCloud, Armed, IngressController

\* Such a write keeps the invariant, if the Reconcile waits or moves to a call
\* that takes no part in the handshake.
LEMMA KeptStep ==
    ASSUME TypeOK, HandshakeInv, Kept(ics["default"], ics'["default"]), cache' = cache,
           \/ UNCHANGED <<pc, target, snap>>
           \/ pc' \notin {"addFinalizer", "removeFinalizer", "deleteStatic",
                          "disown", "disownPatch"}
    PROVE  HandshakeInv'
<1>1. CacheArmed' /\ CacheDraining'
  BY DEF HandshakeInv, CacheArmed, CacheDraining, Kept, Armed, Draining, HasCloud
<1>2. AddInv'
  BY DEF HandshakeInv, AddInv, Kept, Draining, HasCloud
<1>3. RemoveInv'
  BY DEF HandshakeInv, RemoveInv, Kept, Armed, Draining, HasCloud
<1>4. HandshakeArmed'
  BY DEF HandshakeInv, HandshakeArmed, Kept, HasCloud
<1> QED
  BY <1>1, <1>2, <1>3, <1>4 DEF HandshakeInv

\* No handshake is under way when the operator starts.
LEMMA HandshakeInit == Init => HandshakeInv
BY DEF Init, HandshakeInv, CacheArmed, CacheDraining, AddInv, RemoveInv, HandshakeArmed,
       Armed, Draining

\* Every step keeps the invariant of the handshake, below 4.13.
LEMMA HandshakeNext ==
    ASSUME Minor < 13
    PROVE  TypeOK /\ HandshakeInv /\ [Next]_vars => HandshakeInv'
<1> SUFFICES ASSUME TypeOK, HandshakeInv, [Next]_vars PROVE HandshakeInv'
  OBVIOUS
<1> DEFINE dflt == "default"
<1>a. dflt \in Names /\ ics[dflt] \in IngressController \cup {NoIC}
  BY NamesAssumption DEF TypeOK
<1>b. ~IsVersionHigherThan(13)
  BY ClusterAssumption DEF IsVersionHigherThan
<1>c. Kept(ics[dflt], ics[dflt])
  BY DEF Kept
<1>d. ASSUME Return(TRUE) \/ Return(FALSE)
      PROVE  pc' \notin {"addFinalizer", "removeFinalizer", "deleteStatic",
                         "disown", "disownPatch"}
  BY <1>d DEF Return
<1>1. CASE Begin
  BY <1>1, <1>c, KeptStep DEF Begin, server, locals
<1>2. CASE List
  BY <1>2, <1>c, <1>d, KeptStep DEF List, server, Proceed
<1>3. CASE RejectMalformed
  BY <1>3, <1>c, <1>d, KeptStep DEF RejectMalformed, server
<1>4. CASE GetIngress
  <2> DEFINE name == TargetName(inst[i])
             step == Verdict(cache[name], inst[i])
  <2>0. UNCHANGED <<ics, cache>>
    BY <1>4 DEF GetIngress, server
  <2>1. CASE Return(TRUE) \/ Proceed(i + 1, Verified(name))
    BY <2>0, <2>1, <1>c, <1>d, KeptStep DEF Proceed
  <2>2. CASE /\ step \notin {"requeue", "next"}
             /\ pc' = step /\ target' = name /\ snap' = cache[name]
    <3>1. step \notin {"disown", "disownPatch"}
      BY VerdictType DEF IngressSteps
    <3>2. CacheArmed' /\ CacheDraining'
      BY <2>0 DEF HandshakeInv, CacheArmed, CacheDraining
    <3>3. ASSUME name = dflt, step = "addFinalizer"
          PROVE  ~cache[dflt].deleting /\ Cloud \notin cache[dflt].finalizers
      BY <3>3 DEF Verdict, DeletingStep, StaticStep
    <3>4. AddInv'
      BY <2>0, <2>2, <3>3 DEF AddInv, Draining, HasCloud
    <3>5. ASSUME name = dflt, step = "removeFinalizer"
          PROVE  Draining(cache[dflt])
      BY <3>5 DEF Verdict, DeletingStep, StaticStep, Draining, HasCloud
    <3>6. RemoveInv'
      BY <2>0, <2>2, <3>5 DEF RemoveInv, HandshakeInv, CacheDraining, Armed, Draining
    <3>7. ASSUME name = dflt, step = "deleteStatic"
          PROVE  Armed(cache[dflt])
      BY <3>7 DEF Verdict, DeletingStep, StaticStep, Armed, HasCloud
    <3>8. HandshakeArmed'
      BY <2>0, <2>2, <3>7 DEF HandshakeArmed, HandshakeInv, CacheArmed, HasCloud
    <3> QED
      BY <2>2, <3>1, <3>2, <3>4, <3>6, <3>8 DEF HandshakeInv
  <2> QED
    BY <1>4, <2>1, <2>2 DEF GetIngress
<1>5. CASE Create
  <2> DEFINE new == [generateIngressController(inst[i]) EXCEPT
                        !.selector = Stored(generateIngressController(inst[i]).selector)]
  <2>1. ~HasCloud(new)
    BY DEF generateIngressController, HasCloud
  <2>2. ics[dflt] = NoIC => Kept(ics[dflt], new)
    BY <2>1 DEF Kept, HasCloud, Armed
  <2>3. Kept(ics[dflt], ics'[dflt])
    BY <1>5, <1>a, <1>c, <2>2 DEF Create, TypeOK
  <2> QED
    BY <1>5, <1>d, <2>3, KeptStep DEF Create
<1>6. CASE AddFinalizer
  <2>1. CASE ics[target] = snap
    <3>1. /\ pc' = "deleteStatic" /\ UNCHANGED <<cache, target>>
          /\ ics' = [ics EXCEPT ![target].finalizers = @ \cup {Cloud}]
      BY <1>6, <2>1 DEF AddFinalizer
    <3>2. CASE target # dflt
      <4>1. ics'[dflt] = ics[dflt]
        BY <3>1, <3>2, <1>a DEF TypeOK
      <4> QED
        BY <3>1, <3>2, <4>1 DEF HandshakeInv, CacheArmed, CacheDraining, AddInv, RemoveInv,
                                HandshakeArmed
    <3>3. CASE target = dflt
      <4>1. ics[dflt] \in IngressController /\ ics[dflt] # NoIC
        BY <1>6, <2>1, <3>3 DEF AddFinalizer, TypeOK
      <4>2. ~HasCloud(ics[dflt])
        BY <1>6, <2>1, <3>3 DEF AddFinalizer, HandshakeInv, AddInv, HasCloud
      <4>3. ~Draining(cache[dflt])
        BY <1>6, <2>1, <3>3, <4>2 DEF AddFinalizer, HandshakeInv, AddInv
      <4>4. ics'[dflt] = [ics[dflt] EXCEPT !.finalizers = @ \cup {Cloud}]
        BY <3>1, <3>3, <1>a DEF TypeOK
      <4>5. HasCloud(ics'[dflt])
        <5>1. ics'[dflt] \in IngressController /\ Cloud \in ics'[dflt].finalizers
          BY <4>1, <4>4 DEF IngressController
        <5> QED
          BY <5>1, NoICAssumption DEF HasCloud
      <4> QED
        BY <3>1, <4>3, <4>5 DEF HandshakeInv, CacheArmed, CacheDraining, AddInv, RemoveInv,
                                HandshakeArmed, HasCloud
    <3> QED
      BY <3>2, <3>3
  <2>2. CASE ics[target] # snap
    BY <1>6, <2>2, <1>c, <1>d, KeptStep DEF AddFinalizer
  <2> QED
    BY <2>1, <2>2
<1>7. CASE DeleteMismatch
  <2>1. Kept(ics[dflt], ics'[dflt])
    BY <1>7, <1>a, <1>c, DeletedKept DEF DeleteMismatch, TypeOK
  <2> QED
    BY <1>7, <1>d, <2>1, KeptStep DEF DeleteMismatch
<1>8. CASE Patch
  <2> DEFINE d == generateIngressController(inst[i])
             field == FieldToPatch(snap, d, target)
  <2>1. i \in 1..Len(inst) /\ snap \in IngressController
    BY <1>8 DEF Patch, TypeOK
  <2>2. d \in IngressController
    BY <2>1, EntryType, GenerateType DEF TypeOK
  <2>3. Patched(snap, d, field) \in IngressController
    BY <2>1, <2>2, PatchedType
  <2>4. Patched(snap, d, field).finalizers = snap.finalizers
    BY <2>1 DEF Patched, IngressController
  <2>5. ics[target] # NoIC =>
            Kept(ics[target], MergePatch(ics[target], snap, Patched(snap, d, field)))
    BY <2>1, <2>3, <2>4, MergePatchKept DEF TypeOK
  <2>6. Kept(ics[dflt], ics'[dflt])
    BY <1>8, <1>a, <1>c, <2>5 DEF Patch, TypeOK
  <2> QED
    BY <1>8, <1>d, <2>6, KeptStep DEF Patch
<1>9. CASE RemoveFinalizer
  <2>1. CASE ics[target] = snap
    <3>1. /\ pc' = "deleteGone" /\ UNCHANGED <<cache, target, snap>>
          /\ ics' = [ics EXCEPT ![target] = Without(@, Cloud)]
      BY <1>9, <2>1 DEF RemoveFinalizer, locals
    <3>2. CASE target # dflt
      <4>1. ics'[dflt] = ics[dflt]
        BY <3>1, <3>2, <1>a DEF TypeOK
      <4> QED
        BY <1>c, <3>1, <4>1, KeptStep
    <3>3. CASE target = dflt
      <4>1. ~Armed(cache[dflt])
        BY <1>9, <3>3 DEF RemoveFinalizer, HandshakeInv, RemoveInv
      <4>2. ics'[dflt] = Without(ics[dflt], Cloud)
        BY <3>1, <3>3, <1>a DEF TypeOK
      <4>3. ics[dflt] \in IngressController
        BY <1>9, <2>1, <3>3 DEF RemoveFinalizer, TypeOK
      <4>4. ~HasCloud(ics'[dflt])
        BY <4>2, <4>3 DEF Without, Settled, HasCloud, IngressController
      <4> QED
        BY <3>1, <4>1, <4>4 DEF HandshakeInv, CacheArmed, CacheDraining, AddInv, RemoveInv,
                                HandshakeArmed, Armed
    <3> QED
      BY <3>2, <3>3
  <2>2. CASE ics[target] # snap
    BY <1>9, <2>2, <1>c, <1>d, KeptStep DEF RemoveFinalizer
  <2> QED
    BY <2>1, <2>2
<1>10. CASE DeleteGone
  <2>1. Kept(ics[dflt], ics'[dflt])
    BY <1>10, <1>a, <1>c, DeletedKept DEF DeleteGone, TypeOK
  <2> QED
    BY <1>10, <2>1, KeptStep DEF DeleteGone
<1>11. CASE AnnotateGet
  BY <1>11, <1>c, <1>d, KeptStep DEF AnnotateGet, server
<1>12. CASE AnnotatePatch
  <2>1. CASE ics[target] = NoIC
    BY <1>12, <2>1, <1>c, <1>d, KeptStep DEF AnnotatePatch
  <2>2. CASE ics[target] # NoIC
    <3>1. snap \in IngressController /\ ics[target] \in IngressController
      BY <1>12, <2>2 DEF AnnotatePatch, TypeOK
    <3>2. Annotated(snap) \in IngressController /\ Annotated(snap).finalizers = snap.finalizers
      BY <3>1 DEF Annotated, IngressController
    <3>3. Kept(ics[target], MergePatch(ics[target], snap, Annotated(snap)))
      BY <3>1, <3>2, MergePatchKept
    <3>4. Kept(ics[dflt], ics'[dflt])
      BY <1>12, <2>2, <1>a, <1>c, <3>3 DEF AnnotatePatch, TypeOK
    <3> QED
      BY <1>12, <2>2, <3>4, KeptStep DEF AnnotatePatch
  <2> QED
    BY <2>1, <2>2
<1>13. CASE AliasScope
  BY <1>13, <1>b, <1>c, KeptStep DEF AliasScope, server
<1>14. CASE DisownGet \/ DisownPatch
  BY <1>14 DEF DisownGet, DisownPatch, HandshakeInv
<1>16. CASE UnpublishGet
  BY <1>16, <1>c, <1>d, KeptStep DEF UnpublishGet, server
<1>17. CASE UnpublishDelete
  <2>a. ics' = ics \/ ics' = [ics EXCEPT ![target] = Deleted(ics[target])]
    BY <1>17 DEF UnpublishDelete
  <2>b. /\ ics \in [Names -> IngressController \cup {NoIC}] /\ target \in Names
    BY DEF TypeOK
  <2>1. Kept(ics[dflt], ics'[dflt])
    BY <2>a, <2>b, <1>a, <1>c, DeletedKept
  <2> QED
    BY <1>17, <1>d, <2>1, KeptStep DEF UnpublishDelete
<1>18. CASE Fault
  BY <1>18, <1>c, <1>d, KeptStep DEF Fault, server
<1>19. CASE Sync
  <2>1. cache' = ics /\ UNCHANGED <<ics, pc, target, snap>>
    BY <1>19 DEF Sync, idle, locals
  <2> QED
    BY <2>1 DEF HandshakeInv, CacheArmed, CacheDraining, AddInv, RemoveInv, HandshakeArmed,
                Armed, Draining
<1>20. CASE Resync \/ EditStrategy
  BY <1>20, <1>c, KeptStep DEF Resync, EditStrategy, server, locals
<1>21. CASE ClusterCreateDefault
  <2>1. ics[dflt] = NoIC /\ ics'[dflt] = Bare
    BY <1>21, <1>a DEF ClusterCreateDefault, TypeOK
  <2>2. Kept(ics[dflt], ics'[dflt])
    BY <2>1 DEF Kept, HasCloud, Armed, Bare
  <2> QED
    BY <1>21, <2>2, KeptStep DEF ClusterCreateDefault, idle, locals
<1>22. ASSUME NEW n \in Names, NativeCreate(n) PROVE HandshakeInv'
  <2>1. ics'[dflt] = ics[dflt]
    BY <1>22, <1>a DEF NativeCreate, TypeOK
  <2> QED
    BY <1>22, <1>c, <2>1, KeptStep DEF NativeCreate, idle, locals
<1>23. ASSUME NEW n \in Names, ManualDelete(n) PROVE HandshakeInv'
  <2>1. Kept(ics[dflt], ics'[dflt])
    BY <1>23, <1>a, <1>c, DeletedKept DEF ManualDelete, TypeOK
  <2> QED
    BY <1>23, <2>1, KeptStep DEF ManualDelete, idle, locals
<1>24. ASSUME NEW n \in Names, ClusterAdmit(n) PROVE HandshakeInv'
  <2>1. Kept(ics[dflt], ics'[dflt])
    BY <1>24, <1>a, <1>c, AdmittedKept DEF ClusterAdmit, TypeOK
  <2> QED
    BY <1>24, <2>1, KeptStep DEF ClusterAdmit, idle, locals
<1>25. ASSUME NEW n \in Names, ClusterCleanup(n) PROVE HandshakeInv'
  <2>1. Kept(ics[dflt], ics'[dflt])
    BY <1>25, <1>a, <1>c, CleanedKept DEF ClusterCleanup, TypeOK
  <2> QED
    BY <1>25, <2>1, KeptStep DEF ClusterCleanup, idle, locals
<1>26. CASE UNCHANGED vars
  BY <1>26, <1>c, KeptStep DEF vars, server, locals
<1> QED
  BY <1>1, <1>2, <1>3, <1>4, <1>5, <1>6, <1>7, <1>8, <1>9, <1>10, <1>11, <1>12, <1>13,
     <1>14, <1>16, <1>17, <1>18, <1>19, <1>20, <1>21, <1>22, <1>23, <1>24, <1>25, <1>26
     DEF Next, Reconcile, Environment

\* Below 4.13 the Delete of ensureStaticSpec never reaches a "default" without
\* the Cloud finalizer: a decision taken on a cached copy that already has it is
\* still right, because only a later phase of the same handshake can have come.
THEOREM HandshakeSafe ==
    ASSUME Minor < 13
    PROVE  Spec => []HandshakeArmed
<1>1. HandshakeInv => HandshakeArmed
  BY DEF HandshakeInv
<1> QED
  BY <1>1, TypeInit, TypeNext, HandshakeInit, HandshakeNext, PTL DEF Spec

-----------------------------------------------------------------------------
(* The map of owned IngressControllers.                                    *)

AfterList == Calls \ {"list"}
AfterLoop ==
    {"annotate", "annotatePatch", "alias", "disown", "disownPatch",
     "unpublish", "unpublishDelete"}

\* Entries before the current one are verified; after the loop, all of them.
VerifiedInv ==
    /\ pc \in IngressSteps \cup {"ingress"} =>
        \A k \in 1..(i - 1) : owned[TargetName(inst[k])] = "verified"
    /\ pc \in AfterLoop =>
        \A k \in 1..Len(inst) : owned[TargetName(inst[k])] = "verified"

\* No listed second IngressController is missing from the map.
KnownInv ==
    pc \in AfterList =>
        \A k \in 1..Len(inst) :
            ~inst[k].default => owned[TargetName(inst[k])] # "absent"

\* What each call is about, in terms of the map.
TargetInv ==
    /\ pc \in IngressSteps => target = TargetName(inst[i])
    /\ pc \in {"annotate", "annotatePatch"} => \A n \in todo : owned[n] = "verified"
    /\ pc = "annotatePatch" => owned[target] = "verified"
    /\ pc \in {"disown", "disownPatch"} => owned["default"] # "verified"
    /\ pc \in {"unpublish", "unpublishDelete"} => \A n \in todo : owned[n] = "unverified"
    /\ pc = "unpublishDelete" => owned[target] = "unverified"

MapInv == VerifiedInv /\ KnownInv /\ TargetInv

\* Nothing is known before a Reconcile has listed.
LEMMA MapInit == Init => MapInv
BY DEF Init, MapInv, VerifiedInv, KnownInv, TargetInv, IngressSteps, AfterList, AfterLoop, Calls

\* A step that leaves the call and the map alone, or that ends the Reconcile,
\* keeps the invariant.
LEMMA MapIdle ==
    ASSUME MapInv,
           \/ UNCHANGED <<pc, inst, owned, i, target, todo>>
           \/ pc' \in {"idle", "list"}
    PROVE  MapInv'
<1>1. CASE UNCHANGED <<pc, inst, owned, i, target, todo>>
  BY <1>1 DEF MapInv, VerifiedInv, KnownInv, TargetInv
<1>2. CASE pc' \in {"idle", "list"}
  BY <1>2 DEF MapInv, VerifiedInv, KnownInv, TargetInv, IngressSteps, AfterList, AfterLoop, Calls
<1> QED
  BY <1>1, <1>2

\* The loop goes on with a map in which every earlier entry is verified.
LEMMA MapProceed ==
    ASSUME TypeOK, NEW k \in 1..(Len(inst) + 1), NEW m, Proceed(k, m),
           \A j \in 1..(k - 1) : m[TargetName(inst[j])] = "verified",
           \A j \in 1..Len(inst) : ~inst[j].default => m[TargetName(inst[j])] # "absent"
    PROVE  MapInv'
<1>1. Len(inst) \in Nat
  BY ListType DEF TypeOK
<1>2. inst' = inst /\ owned' = m /\ i' = k
  BY DEF Proceed
<1>3. VerifiedInv'
  <2>1. CASE pc' = "ingress"
    BY <1>2, <2>1 DEF VerifiedInv, AfterLoop
  <2>2. CASE k > Len(inst) /\ pc' = "annotate"
    <3>1. k - 1 = Len(inst)
      BY <1>1, <2>2
    <3> QED
      BY <1>2, <2>2, <3>1 DEF VerifiedInv, IngressSteps
  <2> QED
    BY <2>1, <2>2 DEF Proceed
<1>4. KnownInv'
  BY <1>2 DEF KnownInv
<1>5. TargetInv'
  BY <1>2 DEF TargetInv, Proceed, IngressSteps
<1> QED
  BY <1>3, <1>4, <1>5 DEF MapInv

\* A call about the entry the loop is at follows another one about it.
LEMMA MapSameEntry ==
    ASSUME MapInv, pc \in IngressSteps, pc' \in IngressSteps,
           UNCHANGED <<inst, owned, i, target>>
    PROVE  MapInv'
BY DEF MapInv, VerifiedInv, KnownInv, TargetInv, IngressSteps, AfterList, AfterLoop, Calls

\* Every step keeps what the map and the current call have to do with each other.
LEMMA MapNext == TypeOK /\ MapInv /\ [Next]_vars => MapInv'
<1> SUFFICES ASSUME TypeOK, MapInv, [Next]_vars PROVE MapInv'
  OBVIOUS
<1>a. Len(inst) \in Nat
  BY ListType DEF TypeOK
<1>b. ASSUME Return(TRUE) \/ Return(FALSE) PROVE MapInv'
  BY <1>b, MapIdle DEF Return
<1>1. CASE Begin
  BY <1>1, MapIdle DEF Begin, locals
<1>2. CASE List
  <2> DEFINE m == [n \in Names |-> IF n \in Owned(cache) THEN "unverified" ELSE "absent"]
  <2>1. CASE ~NewSecondIngress(inst, Owned(cache)) /\ Proceed(1, m)
    <3>1. ASSUME NEW j \in 1..Len(inst), ~inst[j].default
          PROVE  m[TargetName(inst[j])] # "absent"
      <4>1. j \in DOMAIN inst /\ TargetName(inst[j]) = IngressName[inst[j].dnsName]
        BY <3>1, ListType DEF TypeOK, TargetName
      <4>2. TargetName(inst[j]) \in Owned(cache)
        BY <2>1, <3>1, <4>1 DEF NewSecondIngress
      <4> QED
        BY <4>2 DEF Owned
    <3>2. 1 \in 1..(Len(inst) + 1) /\ 1..(1 - 1) = {}
      BY <1>a
    <3> HIDE DEF m
    <3> QED
      BY <2>1, <3>1, <3>2, MapProceed
  <2> QED
    BY <1>2, <1>b, <2>1 DEF List
<1>3. CASE RejectMalformed
  BY <1>3, <1>b DEF RejectMalformed
<1>4. CASE GetIngress
  <2> DEFINE name == TargetName(inst[i])
             step == Verdict(cache[name], inst[i])
  <2>1. i \in 1..Len(inst) /\ name \in Names /\ pc = "ingress"
    BY <1>4, EntryType DEF GetIngress, TypeOK
  <2>2. \A j \in 1..(i - 1) : owned[TargetName(inst[j])] = "verified"
    BY <2>1 DEF MapInv, VerifiedInv
  <2>3. \A j \in 1..Len(inst) : ~inst[j].default => owned[TargetName(inst[j])] # "absent"
    BY <2>1 DEF MapInv, KnownInv, AfterList, Calls
  <2>4. \A j \in 1..Len(inst) :
            Verified(name)[TargetName(inst[j])] \in {"verified", owned[TargetName(inst[j])]}
    BY <2>1, EntryType DEF Verified, TypeOK
  <2>5. cache[name] # NoIC => Verified(name)[name] = "verified"
    BY <2>1 DEF Verified, TypeOK
  <2>6. \A j \in 1..Len(inst) :
            ~inst[j].default => Verified(name)[TargetName(inst[j])] # "absent"
    BY <2>3, <2>4
  <2>7. \A j \in 1..(i - 1) : Verified(name)[TargetName(inst[j])] = "verified"
    <3>1. \A j \in 1..(i - 1) : j \in 1..Len(inst)
      BY <1>a, <2>1
    <3> QED
      BY <2>2, <2>4, <3>1
  <2>8. CASE step = "next" /\ Proceed(i + 1, Verified(name))
    <3>1. cache[name] # NoIC
      BY <2>8 DEF Verdict
    <3>2. i + 1 \in 1..(Len(inst) + 1)
      BY <1>a, <2>1
    <3>3. \A j \in 1..((i + 1) - 1) : j = i \/ j \in 1..(i - 1)
      BY <2>1
    <3>4. \A j \in 1..((i + 1) - 1) : Verified(name)[TargetName(inst[j])] = "verified"
      BY <2>5, <2>7, <3>1, <3>3
    <3> QED
      BY <2>6, <2>8, <3>2, <3>4, MapProceed
  <2>9. CASE /\ step \notin {"requeue", "next"}
             /\ pc' = step /\ owned' = Verified(name) /\ target' = name
             /\ UNCHANGED <<inst, i>>
    <3>1. pc' \in IngressSteps
      BY <2>9, VerdictType
    <3>2. VerifiedInv'
      BY <2>7, <2>9, <3>1 DEF VerifiedInv, AfterLoop, IngressSteps
    <3>3. KnownInv'
      BY <2>6, <2>9 DEF KnownInv
    <3>4. TargetInv'
      BY <2>9, <3>1 DEF TargetInv, IngressSteps
    <3> QED
      BY <3>2, <3>3, <3>4 DEF MapInv
  <2> QED
    BY <1>4, <1>b, <2>8, <2>9 DEF GetIngress
<1>5. CASE Create \/ DeleteMismatch \/ Patch
  BY <1>5, <1>b DEF Create, DeleteMismatch, Patch
<1>6. CASE AddFinalizer
  BY <1>6, <1>b, MapSameEntry DEF AddFinalizer, IngressSteps
<1>7. CASE RemoveFinalizer
  BY <1>7, <1>b, MapSameEntry DEF RemoveFinalizer, IngressSteps, locals
<1>8. CASE DeleteGone
  BY <1>8, MapSameEntry DEF DeleteGone, IngressSteps, locals
<1>9. CASE AnnotateGet
  <2>1. CASE pc' = "alias" /\ UNCHANGED <<inst, owned>>
    BY <1>9, <2>1 DEF AnnotateGet, MapInv, VerifiedInv, KnownInv, TargetInv, AfterList,
                      AfterLoop, IngressSteps, Calls
  <2>2. ASSUME NEW n \in todo, pc' = "annotatePatch", todo' = todo \ {n}, target' = n,
               UNCHANGED <<inst, owned>>
        PROVE  MapInv'
    BY <1>9, <2>2 DEF AnnotateGet, MapInv, VerifiedInv, KnownInv, TargetInv, AfterList,
                      AfterLoop, IngressSteps, Calls
  <2> QED
    BY <1>9, <1>b, <2>1, <2>2 DEF AnnotateGet, locals
<1>10. CASE AnnotatePatch
  <2>1. CASE pc' = "annotate" /\ UNCHANGED <<inst, owned, todo>>
    BY <1>10, <2>1 DEF AnnotatePatch, MapInv, VerifiedInv, KnownInv, TargetInv, AfterList,
                       AfterLoop, IngressSteps, Calls
  <2> QED
    BY <1>10, <1>b, <2>1 DEF AnnotatePatch
<1>11. CASE AliasScope
  BY <1>11 DEF AliasScope, MapInv, VerifiedInv, KnownInv, TargetInv, AfterList,
               AfterLoop, IngressSteps, Calls
<1>12. CASE DisownGet
  <2>1. CASE pc' = "disownPatch" /\ UNCHANGED <<inst, owned>>
    BY <1>12, <2>1 DEF DisownGet, MapInv, VerifiedInv, KnownInv, TargetInv, AfterList,
                       AfterLoop, IngressSteps, Calls
  <2> QED
    BY <1>12, <1>b, <2>1 DEF DisownGet
<1>13. CASE DisownPatch
  BY <1>13, <1>b DEF DisownPatch
<1>14. CASE UnpublishGet
  <2>1. ASSUME NEW n \in todo, pc' = "unpublishDelete", todo' = todo \ {n}, target' = n,
               UNCHANGED <<inst, owned>>
        PROVE  MapInv'
    BY <1>14, <2>1 DEF UnpublishGet, MapInv, VerifiedInv, KnownInv, TargetInv, AfterList,
                       AfterLoop, IngressSteps, Calls
  <2> QED
    BY <1>14, <1>b, <2>1 DEF UnpublishGet
<1>15. CASE UnpublishDelete
  <2>1. CASE pc' = "unpublish" /\ UNCHANGED <<inst, owned, todo>>
    BY <1>15, <2>1 DEF UnpublishDelete, MapInv, VerifiedInv, KnownInv, TargetInv, AfterList,
                       AfterLoop, IngressSteps, Calls
  <2> QED
    BY <1>15, <1>b, <2>1 DEF UnpublishDelete
<1>16. CASE Fault
  BY <1>16, <1>b DEF Fault
<1>17. CASE Environment
  BY <1>17, MapIdle DEF Environment, Sync, Resync, EditStrategy, ClusterCreateDefault,
     NativeCreate, ManualDelete, ClusterAdmit, ClusterCleanup, idle, locals
<1>18. CASE UNCHANGED vars
  BY <1>18, MapIdle DEF vars, locals
<1> QED
  BY <1>1, <1>2, <1>3, <1>4, <1>5, <1>6, <1>7, <1>8, <1>9, <1>10, <1>11, <1>12, <1>13,
     <1>14, <1>15, <1>16, <1>17, <1>18 DEF Next, Reconcile

\* deleteUnpublishedIngressControllers and disownIngressController never reach an
\* IngressController of the running Reconcile's list, on any version, whatever
\* the cache shows while the loop runs.
THEOREM ListedSafe == Spec => []ListedIsKept
<1>1. TypeOK /\ MapInv => ListedIsKept
  <2> SUFFICES ASSUME TypeOK, MapInv PROVE ListedIsKept
    OBVIOUS
  <2>1. DOMAIN inst = 1..Len(inst)
    BY ListType DEF TypeOK
  <2>2. ASSUME pc \in AfterLoop
        PROVE  \A n \in Listed(inst) : owned[n] = "verified"
    BY <2>1, <2>2 DEF MapInv, VerifiedInv, Listed
  <2> QED
    BY <2>2 DEF ListedIsKept, MapInv, TargetInv, AfterLoop
<1> QED
  BY <1>1, TypeInit, TypeNext, MapInit, MapNext, PTL DEF Spec

\* A second IngressController that the List of a Reconcile did not find owned is
\* not written to by that Reconcile (ensureNoNewSecondIngressCreated holds for
\* everything the loop, the annotations, the handover and the deletions do).
THEOREM UnownedSafe == Spec => UnownedUntouched
<1>1. TypeOK /\ MapInv /\ [Next]_vars =>
        [\A n \in Names \ {"default"} :
            pc \notin {"idle", "list"} /\ owned[n] = "absent" /\ ics'[n] # ics[n]
                => UNCHANGED pc]_vars
  <2> SUFFICES ASSUME TypeOK, MapInv, [Next]_vars, NEW n \in Names \ {"default"},
                      pc \notin {"idle", "list"}, owned[n] = "absent", ics'[n] # ics[n]
               PROVE  UNCHANGED pc
    BY DEF vars, server
  <2>1. pc \in IngressSteps => target # n
    <3> SUFFICES ASSUME pc \in IngressSteps, target = n PROVE FALSE
      OBVIOUS
    <3>1. i \in 1..Len(inst) /\ target = TargetName(inst[i])
      BY DEF TypeOK, MapInv, TargetInv, IngressSteps
    <3>2. ~inst[i].default
      BY <3>1 DEF TargetName
    <3> QED
      BY <3>1, <3>2 DEF MapInv, KnownInv, AfterList, IngressSteps, Calls
  <2>2. pc \in {"annotatePatch", "unpublishDelete"} => target # n
    BY DEF MapInv, TargetInv
  <2>3. ics \in [Names -> IngressController \cup {NoIC}]
    BY DEF TypeOK
  <2>4. ~(Create \/ AddFinalizer \/ DeleteMismatch \/ Patch \/ RemoveFinalizer \/ DeleteGone)
    BY <2>1, <2>3 DEF Create, AddFinalizer, DeleteMismatch, Patch, RemoveFinalizer, DeleteGone,
                      IngressSteps
  <2>5. ~(AnnotatePatch \/ UnpublishDelete \/ DisownPatch)
    BY <2>2, <2>3 DEF AnnotatePatch, UnpublishDelete, DisownPatch
  <2>6. ~(Begin \/ List \/ RejectMalformed \/ GetIngress \/ AnnotateGet \/ AliasScope
          \/ DisownGet \/ UnpublishGet \/ Fault \/ UNCHANGED vars)
    BY DEF Begin, List, RejectMalformed, GetIngress, AnnotateGet, AliasScope, DisownGet,
           UnpublishGet, Fault, vars, server
  <2>7. CASE Environment
    BY <2>7 DEF Environment, Sync, Resync, EditStrategy, ClusterCreateDefault,
       NativeCreate, ManualDelete, ClusterAdmit, ClusterCleanup, idle
  <2> QED
    BY <2>4, <2>5, <2>6, <2>7 DEF Next, Reconcile
<1> QED
  BY <1>1, TypeInit, TypeNext, MapInit, MapNext, PTL DEF Spec, UnownedUntouched
=============================================================================
