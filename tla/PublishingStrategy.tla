-------------------------- MODULE PublishingStrategy --------------------------
(***************************************************************************)
(* The PublishingStrategy controller of cloud-ingress-operator             *)
(* (controllers/publishingstrategy): one Reconcile at a time, cut at every *)
(* call to the API server.  The controller reads IngressControllers from   *)
(* an informer cache that lags behind the server and writes to the server  *)
(* itself; cluster-ingress-operator, customers, crashes and API errors act *)
(* between any two calls.                                                  *)
(***************************************************************************)
EXTENDS Integers, Sequences

CONSTANTS
    Names,           \* names of IngressControllers, "default" among them
    Domains,         \* DNS names an ApplicationIngress may ask for
    IngressName,     \* the part of a DNS name before its first period
    BaseDomain,      \* the DNS names that end in the cluster's base domain
    ClusterDomain,   \* the domain cluster-ingress-operator gives by default
    Certificates,
    Selectors,       \* route selectors; see Stored for "empty" and "none"
    ClusterSelector, \* the selector cluster-ingress-operator puts in a status
    Strategies,      \* the applicationIngress lists a customer may set
    NoStrategy,      \* the PublishingStrategy does not exist
    NoIC,            \* no IngressController of that name exists
    Minor,           \* the cluster runs OpenShift 4.Minor
    Platform,
    MaxEdits,        \* bound on edits of the PublishingStrategy
    MaxDrift,        \* bound on what others do to IngressControllers by hand
    MaxFaults,       \* bound on API errors, crashes and failed cloud calls
    MaxTroubles      \* bound on the last two together

Nil == "nil"                            \* an unset pointer or string field
Cluster == "ClusterIngressFinalizer"    \* cluster-ingress-operator's finalizer
Cloud == "CloudIngressFinalizer"        \* this operator's finalizer

ApplicationIngress ==
    [default : BOOLEAN, dnsName : Domains, listening : {"internal", "external"},
     certificate : Certificates, routeSelector : Selectors,
     type : {"", "Classic", "NLB"}]

Scopes == {"Internal", "External"}
\* Classic1800 is a Classic load balancer with the 30 minute idle timeout set.
Providers == {"Classic", "Classic1800", "NLB"}

Status ==
    [domain : Domains \cup {Nil}, scope : Scopes \cup {Nil},
     provider : Providers \cup {Nil}, selector : Selectors]

IngressController ==
    [domain : Domains \cup {Nil}, scope : Scopes \cup {Nil},
     provider : Providers \cup {Nil}, selector : Selectors \cup {Nil},
     certificate : Certificates \cup {Nil}, placement : {"infra", Nil},
     owner : {"none", "cloud", "cluster"}, autoDeleteLB : BOOLEAN,
     finalizers : SUBSET {Cluster, Cloud}, deleting : BOOLEAN, status : Status]

ASSUME NamesAssumption == "default" \in Names
ASSUME DomainsAssumption ==
    /\ IngressName \in [Domains -> Names]
    /\ BaseDomain \subseteq Domains
    /\ ClusterDomain \in BaseDomain
ASSUME SelectorsAssumption ==
    {"none", "empty", ClusterSelector} \subseteq Selectors /\ Nil \notin Selectors
ASSUME StrategiesAssumption ==
    /\ Strategies \subseteq Seq(ApplicationIngress)
    /\ NoStrategy \notin Strategies
ASSUME NoICAssumption == NoIC \notin IngressController
ASSUME ClusterAssumption == Minor \in Nat /\ Platform \in {"AWS", "GCP"}
ASSUME BoundsAssumption ==
    MaxEdits \in Nat /\ MaxDrift \in Nat /\ MaxFaults \in Nat /\ MaxTroubles \in Nat

-----------------------------------------------------------------------------
VARIABLES
    ps,       \* the PublishingStrategy, as its informer last saw it
    ics,      \* the IngressControllers on the API server
    cache,    \* the informer's copy of them: a state the server was in
    queued,   \* a reconcile request waits in the work queue
    pc,       \* the call the running Reconcile makes next; "idle" between two
    inst,     \* Reconcile's instance.Spec.ApplicationIngress
    base,     \* clusterBaseDomain was read (FALSE: it is the empty string)
    owned,    \* ownedIngressExistingMap
    i,        \* the ApplicationIngress the loop is at
    target,   \* the IngressController the next call is about
    snap,     \* Reconcile's own copy of that object
    todo,     \* map entries a range loop has not visited yet
    edits, drift, faults

server == <<ics, cache>>
env == <<ps, edits, drift, faults>>
locals == <<inst, base, owned, i, target, snap, todo>>
vars == <<server, env, queued, pc, locals>>

\* One more thing may go wrong.
Troubled == drift + faults < MaxTroubles

-----------------------------------------------------------------------------
(* What Reconcile computes without calling anything.                       *)

IsVersionHigherThan(minor) == Minor >= minor

\* getIngressName, and the name "default" for the default entry.
TargetName(ai) == IF ai.default THEN "default" ELSE IngressName[ai.dnsName]

Listed(list) == {TargetName(list[k]) : k \in DOMAIN list}

NoStatus == [domain |-> Nil, scope |-> Nil, provider |-> Nil, selector |-> "empty"]

LoadBalancerType(ai) == IF ai.type = "" THEN "Classic" ELSE ai.type

ProviderParameters(ai) ==
    IF Platform # "AWS" THEN Nil
    ELSE IF LoadBalancerType(ai) = "NLB" THEN "NLB"
    ELSE IF IsVersionHigherThan(11) THEN "Classic1800" ELSE "Classic"

generateIngressController(ai) ==
    [domain |-> ai.dnsName,
     scope |-> IF ai.listening = "internal" THEN "Internal" ELSE "External",
     provider |-> ProviderParameters(ai),
     selector |-> ai.routeSelector,
     certificate |-> ai.certificate,
     placement |-> "infra",
     owner |-> "cloud", autoDeleteLB |-> FALSE,
     finalizers |-> {}, deleting |-> FALSE, status |-> NoStatus]

\* HasSuffix(dnsName, clusterBaseDomain): every name ends in the empty string.
MalformedDefault(ai) == ai.default /\ base /\ ai.dnsName \notin BaseDomain

\* A slip: the entries that are looked up are the default ones.
NewSecondIngressInverted(list, known) ==
    \E k \in DOMAIN list : list[k].default /\ TargetName(list[k]) \notin known

NewSecondIngress(list, known) ==
    \E k \in DOMAIN list : ~list[k].default /\ IngressName[list[k].dnsName] \notin known

validateStaticSpec(ic, d) ==
    /\ d.domain = ic.domain
    /\ IsVersionHigherThan(10) \/ d.scope = ic.scope

validateStaticStatus(ic, d) ==
    /\ d.domain = ic.status.domain
    /\ IsVersionHigherThan(10) \/ d.scope = ic.status.scope

SameType(type, provider) == (type = "NLB") <=> (provider = "NLB")

validateAWSLoadBalancerType(ic, ai) ==
    IF ic.scope = Nil
    THEN ic.status.scope # Nil /\ SameType(LoadBalancerType(ai), ic.status.provider)
    ELSE SameType(LoadBalancerType(ai), ic.provider)

\* The first field that differs, in the order the code looks at them.
PatchableField(ic, d) ==
    IF d.selector # ic.selector THEN "selector"
    ELSE IF d.certificate # ic.certificate THEN "certificate"
    ELSE IF d.placement # ic.placement THEN "placement"
    ELSE IF \/ IsVersionHigherThan(10) /\ d.scope # ic.scope
            \/ IsVersionHigherThan(11) /\ d.provider # ic.provider THEN "endpoint"
    ELSE "none"

\* What ensurePatchableSpec does about it: for the default IngressController a
\* selector that the status already shows is good enough, and ends the check.
FieldToPatch(ic, d, name) ==
    IF /\ name = "default" /\ PatchableField(ic, d) = "selector"
       /\ d.selector = ic.status.selector
    THEN "none" ELSE PatchableField(ic, d)

Patched(ic, d, field) ==
    IF field = "selector" THEN [ic EXCEPT !.selector = d.selector]
    ELSE IF field = "certificate" THEN [ic EXCEPT !.certificate = d.certificate]
    ELSE IF field = "placement" THEN [ic EXCEPT !.placement = d.placement]
    ELSE [ic EXCEPT !.scope = d.scope, !.provider = d.provider]

\* A slip: the operator waits for its own finalizer to go away.
DeletingStepWaits(ic) == IF ic.finalizers # {} THEN "requeue" ELSE "deleteGone"

\* The steps of ensureIngressController that come before a write.
DeletingStep(ic) ==
    IF Cluster \in ic.finalizers THEN "requeue"
    ELSE IF Cloud \in ic.finalizers THEN "removeFinalizer"
    ELSE "deleteGone"

\* A slip: the static delete of "default" without its finalizer.
StaticStepUnarmed(ic, d, name) ==
    IF validateStaticSpec(ic, d) \/ (name = "default" /\ validateStaticStatus(ic, d))
    THEN "match" ELSE "deleteStatic"

StaticStep(ic, d, name) ==
    IF validateStaticSpec(ic, d) THEN "match"
    ELSE IF name # "default" THEN "deleteStatic"
    ELSE IF validateStaticStatus(ic, d) THEN "match"
    ELSE IF Cloud \in ic.finalizers THEN "deleteStatic" ELSE "addFinalizer"

-----------------------------------------------------------------------------
(* The API server, as the client calls in src/ rely on it.                 *)

\* LabelSelector.MatchLabels is omitempty: an empty map is not stored.
Stored(selector) == IF selector = "empty" THEN "none" ELSE selector

Merged(cur, old, new) == IF new = old THEN cur ELSE new

\* A merge patch made by client.MergeFrom(old): it carries only the fields in
\* which new differs from old, and no resourceVersion to hold it back.
MergePatch(cur, old, new) ==
    [domain |-> cur.domain,
     scope |-> Merged(cur.scope, old.scope, new.scope),
     provider |-> Merged(cur.provider, old.provider, new.provider),
     selector |-> Merged(cur.selector, old.selector, IF new.selector = Nil THEN Nil
                                                     ELSE Stored(new.selector)),
     certificate |-> Merged(cur.certificate, old.certificate, new.certificate),
     placement |-> Merged(cur.placement, old.placement, new.placement),
     owner |-> Merged(cur.owner, old.owner, new.owner),
     autoDeleteLB |-> Merged(cur.autoDeleteLB, old.autoDeleteLB, new.autoDeleteLB),
     finalizers |-> Merged(cur.finalizers, old.finalizers, new.finalizers),
     deleting |-> cur.deleting, status |-> cur.status]

\* No finalizer can be added to an object that is being deleted.
Admissible(cur, new) == cur.deleting => new.finalizers \subseteq cur.finalizers

\* An object that is being deleted goes when its last finalizer does.
Settled(ic) == IF ic.deleting /\ ic.finalizers = {} THEN NoIC ELSE ic

Without(ic, finalizer) == Settled([ic EXCEPT !.finalizers = @ \ {finalizer}])

Deleted(ic) == IF ic = NoIC THEN NoIC ELSE Settled([ic EXCEPT !.deleting = TRUE])

-----------------------------------------------------------------------------
(* How a Reconcile starts and ends.                                        *)

ForgetLocals ==
    /\ inst' = <<>> /\ base' = TRUE /\ owned' = [n \in Names |-> "absent"]
    /\ i' = 0 /\ target' = "default" /\ snap' = NoIC /\ todo' = {}

\* return reconcile.Result{...}: with Requeue or an error the request is queued.
Return(requeue) ==
    /\ pc' = "idle" /\ queued' = (queued \/ requeue)
    /\ ForgetLocals

Begin ==
    /\ pc = "idle" /\ queued
    /\ queued' = FALSE
    /\ \/ /\ ps = NoStrategy
          /\ UNCHANGED <<pc, locals, faults>>
       \/ /\ ps # NoStrategy
          /\ \/ base' = TRUE /\ UNCHANGED faults
             \/ base' = FALSE /\ Troubled /\ faults < MaxFaults /\ faults' = faults + 1
          /\ inst' = ps /\ pc' = "list"
          /\ UNCHANGED <<owned, i, target, snap, todo>>
    /\ UNCHANGED <<server, ps, edits, drift>>

\* A slip: the loop runs once more than there are entries.
ProceedPastEnd(k, m) ==
    /\ i' = k
    /\ owned' = m
    /\ \/ k <= Len(inst) + 1 /\ pc' = "ingress" /\ todo' = {}
       \/ k > Len(inst) + 1 /\ pc' = "annotate" /\ todo' = {n \in Names : m[n] = "verified"}
    /\ target' = "default" /\ snap' = NoIC
    /\ UNCHANGED <<inst, base, queued>>

\* The loop goes on with entry k, or ends with the map in state m.
Proceed(k, m) ==
    /\ i' = k
    /\ owned' = m
    /\ \/ k <= Len(inst) /\ pc' = "ingress" /\ todo' = {}
       \/ k > Len(inst) /\ pc' = "annotate" /\ todo' = {n \in Names : m[n] = "verified"}
    /\ target' = "default" /\ snap' = NoIC
    /\ UNCHANGED <<inst, base, queued>>

Owned(objects) == {n \in Names : objects[n] # NoIC /\ objects[n].owner = "cloud"}

List ==
    /\ pc = "list"
    /\ \/ /\ NewSecondIngress(inst, Owned(cache))
          /\ Return(TRUE)
       \/ /\ ~NewSecondIngress(inst, Owned(cache))
          /\ Proceed(1, [n \in Names |-> IF n \in Owned(cache) THEN "unverified"
                                                              ELSE "absent"])
    /\ UNCHANGED <<server, env>>

-----------------------------------------------------------------------------
(* The loop over the ApplicationIngresses.                                 *)

\* The call that follows the Get of entry ai's IngressController.
Verdict(ic, ai) ==
    LET d == generateIngressController(ai)
        name == TargetName(ai)
    IN  IF ic = NoIC THEN "create"
        ELSE IF ic.deleting THEN DeletingStep(ic)
        ELSE IF Platform = "AWS" /\ ~validateAWSLoadBalancerType(ic, ai) THEN "deleteLBType"
        ELSE IF StaticStep(ic, d, name) # "match" THEN StaticStep(ic, d, name)
        ELSE IF FieldToPatch(ic, d, name) # "none" THEN "patch" ELSE "next"

\* A slip: the list is refused without an error.
RejectMalformedDone ==
    /\ pc = "ingress" /\ MalformedDefault(inst[i])
    /\ Return(FALSE)
    /\ UNCHANGED <<server, env>>

RejectMalformed ==
    /\ pc = "ingress" /\ MalformedDefault(inst[i])
    /\ Return(TRUE)
    /\ UNCHANGED <<server, env>>

Verified(name) == IF cache[name] = NoIC THEN owned ELSE [owned EXCEPT ![name] = "verified"]

GetIngress ==
    /\ pc = "ingress" /\ ~MalformedDefault(inst[i])
    /\ LET name == TargetName(inst[i])
           step == Verdict(cache[name], inst[i])
       IN  \/ step = "requeue" /\ Return(TRUE)
           \/ step = "next" /\ Proceed(i + 1, Verified(name))
           \/ /\ step \notin {"requeue", "next"}
              /\ pc' = step /\ owned' = Verified(name)
              /\ target' = name /\ snap' = cache[name]
              /\ UNCHANGED <<queued, inst, base, i, todo>>
    /\ UNCHANGED <<server, env>>

\* Create: AlreadyExists is an error; success and error both come back.
Create ==
    /\ pc = "create"
    /\ LET d == generateIngressController(inst[i])
       IN  ics' = IF ics[target] # NoIC THEN ics
                  ELSE [ics EXCEPT ![target] = [d EXCEPT !.selector = Stored(d.selector)]]
    /\ Return(TRUE)
    /\ UNCHANGED <<cache, env>>

\* Update carries the resourceVersion of the copy: equal objects stand for it.
AddFinalizer ==
    /\ pc = "addFinalizer"
    /\ \/ /\ ics[target] = snap
          /\ ics' = [ics EXCEPT ![target].finalizers = @ \cup {Cloud}]
          /\ snap' = ics'[target]
          /\ pc' = "deleteStatic"
          /\ UNCHANGED <<queued, inst, base, owned, i, target, todo>>
       \/ ics[target] # snap /\ Return(TRUE) /\ UNCHANGED ics
    /\ UNCHANGED <<cache, env>>

\* Delete goes by name alone; its error is logged and the request comes back.
DeleteMismatch ==
    /\ pc \in {"deleteStatic", "deleteLBType"}
    /\ ics' = [ics EXCEPT ![target] = Deleted(@)]
    /\ Return(TRUE)
    /\ UNCHANGED <<cache, env>>

Patch ==
    /\ pc = "patch"
    /\ LET d == generateIngressController(inst[i])
           field == FieldToPatch(snap, d, target)
       IN  ics' = IF ics[target] = NoIC THEN ics
                  ELSE [ics EXCEPT ![target] = MergePatch(@, snap, Patched(snap, d, field))]
    /\ Return(TRUE)
    /\ UNCHANGED <<cache, env>>

RemoveFinalizer ==
    /\ pc = "removeFinalizer"
    /\ \/ /\ ics[target] = snap
          /\ ics' = [ics EXCEPT ![target] = Without(@, Cloud)]
          /\ pc' = "deleteGone"
          /\ UNCHANGED <<queued, locals>>
       \/ ics[target] # snap /\ Return(TRUE) /\ UNCHANGED ics
    /\ UNCHANGED <<cache, env>>

\* Whatever has that name by now is deleted; NotFound is as good.
DeleteGone ==
    /\ pc = "deleteGone"
    /\ ics' = [ics EXCEPT ![target] = Deleted(@)]
    /\ pc' = "create"
    /\ UNCHANGED <<cache, env, queued, locals>>

-----------------------------------------------------------------------------
(* ensureAnnotationsDefined, ensureAliasScope and the two ways to end.     *)

Annotated(ic) == [ic EXCEPT !.owner = "cloud", !.autoDeleteLB = TRUE]

\* One turn of the range over the map, in Go's arbitrary order: an entry that
\* has the annotation ends the loop for all the others.
AnnotateGet ==
    /\ pc = "annotate"
    /\ \/ /\ todo = {}
          /\ pc' = "alias" /\ UNCHANGED <<queued, locals>>
       \/ \E n \in todo :
          \/ cache[n] = NoIC /\ Return(TRUE)
          \/ /\ cache[n] # NoIC /\ cache[n].autoDeleteLB
             /\ pc' = "alias" /\ todo' = {}
             /\ UNCHANGED <<queued, inst, base, owned, i, target, snap>>
          \/ /\ cache[n] # NoIC /\ ~cache[n].autoDeleteLB
             /\ pc' = "annotatePatch" /\ todo' = todo \ {n}
             /\ target' = n /\ snap' = cache[n]
             /\ UNCHANGED <<queued, inst, base, owned, i>>
    /\ UNCHANGED <<server, env>>

AnnotatePatch ==
    /\ pc = "annotatePatch"
    /\ \/ /\ ics[target] = NoIC
          /\ Return(TRUE) /\ UNCHANGED ics
       \/ /\ ics[target] # NoIC
          /\ ics' = [ics EXCEPT ![target] = MergePatch(@, snap, Annotated(snap))]
          /\ pc' = "annotate" /\ target' = "default" /\ snap' = NoIC
          /\ UNCHANGED <<queued, inst, base, owned, i, todo>>
    /\ UNCHANGED <<cache, env>>

\* A slip: the version alone decides about the handover.
AliasScopeByVersion ==
    /\ pc = "alias"
    /\ \/ IsVersionHigherThan(13) /\ pc' = "disown" /\ UNCHANGED todo
       \/ /\ ~IsVersionHigherThan(13)
          /\ pc' = "unpublish" /\ todo' = {n \in Names : owned[n] = "unverified"}
    /\ UNCHANGED <<server, env, queued, inst, base, owned, i, target, snap>>

\* SetDefaultAPIPrivate or SetDefaultAPIPublic succeeds (its failure is a Fault);
\* a default IngressController nobody asked for is then handed over.
AliasScope ==
    /\ pc = "alias"
    /\ \/ /\ IsVersionHigherThan(13) /\ owned["default"] # "verified"
          /\ pc' = "disown" /\ UNCHANGED todo
       \/ /\ ~(IsVersionHigherThan(13) /\ owned["default"] # "verified")
          /\ pc' = "unpublish" /\ todo' = {n \in Names : owned[n] = "unverified"}
    /\ UNCHANGED <<server, env, queued, inst, base, owned, i, target, snap>>

DisownGet ==
    /\ pc = "disown"
    /\ \/ cache["default"] = NoIC /\ Return(TRUE)
       \/ /\ cache["default"] # NoIC
          /\ pc' = "disownPatch" /\ snap' = cache["default"]
          /\ UNCHANGED <<queued, inst, base, owned, i, target, todo>>
    /\ UNCHANGED <<server, env>>

\* A slip: the annotation that says who owns it is left as it is.
DisownedInPart(ic) == [ic EXCEPT !.autoDeleteLB = TRUE, !.finalizers = {Cluster}]

Disowned(ic) ==
    [ic EXCEPT !.owner = "cluster", !.autoDeleteLB = TRUE, !.finalizers = {Cluster}]

\* Success ends the reconcile: deleteUnpublishedIngressControllers is not reached.
DisownPatch ==
    /\ pc = "disownPatch"
    /\ LET cur == ics["default"]
           new == MergePatch(cur, snap, Disowned(snap))
       IN  \/ /\ cur # NoIC /\ Admissible(cur, new)
              /\ ics' = [ics EXCEPT !["default"] = new]
              /\ Return(FALSE)
           \/ cur # NoIC /\ ~Admissible(cur, new) /\ Return(TRUE) /\ UNCHANGED ics
           \/ cur = NoIC /\ Return(TRUE) /\ UNCHANGED ics
    /\ UNCHANGED <<cache, env>>

UnpublishGet ==
    /\ pc = "unpublish"
    /\ \/ todo = {} /\ Return(FALSE)
       \/ \E n \in todo :
          \/ cache[n] = NoIC /\ Return(TRUE)
          \/ /\ cache[n] # NoIC
             /\ pc' = "unpublishDelete" /\ todo' = todo \ {n} /\ target' = n
             /\ UNCHANGED <<queued, inst, base, owned, i, snap>>
    /\ UNCHANGED <<server, env>>

UnpublishDelete ==
    /\ pc = "unpublishDelete"
    /\ \/ ics[target] = NoIC /\ Return(TRUE) /\ UNCHANGED ics
       \/ /\ ics[target] # NoIC
          /\ ics' = [ics EXCEPT ![target] = Deleted(@)]
          /\ pc' = "unpublish" /\ target' = "default"
          /\ UNCHANGED <<queued, inst, base, owned, i, snap, todo>>
    /\ UNCHANGED <<cache, env>>

\* A call fails, the cloud client fails, or the operator restarts: whatever the
\* Reconcile knew is gone and the request is queued again.
Fault ==
    /\ pc # "idle" /\ Troubled /\ faults < MaxFaults
    /\ faults' = faults + 1
    /\ Return(TRUE)
    /\ UNCHANGED <<server, ps, edits, drift>>

Reconcile ==
    \/ Begin \/ List \/ RejectMalformed \/ GetIngress
    \/ Create \/ AddFinalizer \/ DeleteMismatch \/ Patch
    \/ RemoveFinalizer \/ DeleteGone
    \/ AnnotateGet \/ AnnotatePatch \/ AliasScope
    \/ DisownGet \/ DisownPatch \/ UnpublishGet \/ UnpublishDelete

-----------------------------------------------------------------------------
(* Everyone else.                                                          *)

idle == <<queued, pc, locals>>

\* The informer catches up: events of one watch arrive in order.
Sync ==
    /\ cache # ics
    /\ cache' = ics
    /\ UNCHANGED <<ics, env, idle>>

\* The periodic resync, or a restart while nothing ran, queues the request.
Resync ==
    /\ ~queued
    /\ queued' = TRUE
    /\ UNCHANGED <<server, env, pc, locals>>

EditStrategy ==
    /\ edits < MaxEdits
    /\ edits' = edits + 1
    /\ ps' \in (Strategies \cup {NoStrategy}) \ {ps}
    /\ queued' = TRUE
    /\ UNCHANGED <<server, drift, faults, pc, locals>>

\* An IngressController that states nothing and belongs to nobody.
Bare ==
    [domain |-> Nil, scope |-> Nil, provider |-> Nil, selector |-> Nil,
     certificate |-> Nil, placement |-> Nil, owner |-> "none", autoDeleteLB |-> FALSE,
     finalizers |-> {}, deleting |-> FALSE, status |-> NoStatus]

\* A customer creates a natively managed second IngressController.
NativeCreate(n) ==
    /\ n # "default" /\ ics[n] = NoIC /\ Troubled /\ drift < MaxDrift
    /\ drift' = drift + 1
    /\ ics' = [ics EXCEPT ![n] = Bare]
    /\ UNCHANGED <<cache, ps, edits, faults, idle>>

\* Somebody deletes an IngressController by hand.
ManualDelete(n) ==
    /\ ics[n] # NoIC /\ ~ics[n].deleting /\ Troubled /\ drift < MaxDrift
    /\ drift' = drift + 1
    /\ ics' = [ics EXCEPT ![n] = Deleted(@)]
    /\ UNCHANGED <<cache, ps, edits, faults, idle>>

\* cluster-ingress-operator admits an IngressController: its finalizer, and a
\* status whose domain is settled once and whose endpoint follows the spec
\* from 4.10 on.
AdmittedStatus(ic) ==
    LET settled == ic.status.scope # Nil /\ ~IsVersionHigherThan(10)
    IN  [domain |-> IF ic.status.domain # Nil THEN ic.status.domain
                    ELSE IF ic.domain = Nil THEN ClusterDomain ELSE ic.domain,
         scope |-> IF settled THEN ic.status.scope
                   ELSE IF ic.scope = Nil THEN "External" ELSE ic.scope,
         provider |-> IF settled THEN ic.status.provider ELSE ic.provider,
         selector |-> ClusterSelector]

Admitted(ic) ==
    [ic EXCEPT !.finalizers = @ \cup {Cluster}, !.status = AdmittedStatus(ic)]

ClusterAdmit(n) ==
    /\ ics[n] # NoIC /\ ~ics[n].deleting
    /\ Admitted(ics[n]) # ics[n]
    /\ ics' = [ics EXCEPT ![n] = Admitted(@)]
    /\ UNCHANGED <<cache, env, idle>>

\* It has removed what depends on an IngressController that is being deleted.
ClusterCleanup(n) ==
    /\ ics[n] # NoIC /\ ics[n].deleting /\ Cluster \in ics[n].finalizers
    /\ ics' = [ics EXCEPT ![n] = Without(@, Cluster)]
    /\ UNCHANGED <<cache, env, idle>>

\* It creates "default" whenever there is none.
ClusterCreateDefault ==
    /\ ics["default"] = NoIC
    /\ ics' = [ics EXCEPT !["default"] = Bare]
    /\ UNCHANGED <<cache, env, idle>>

Environment ==
    \/ Sync \/ Resync \/ EditStrategy \/ ClusterCreateDefault
    \/ \E n \in Names : \/ NativeCreate(n) \/ ManualDelete(n)
                        \/ ClusterAdmit(n) \/ ClusterCleanup(n)

-----------------------------------------------------------------------------
\* The operator starts on a cluster where some list was reconciled before: an
\* IngressController of that list is owned and admitted; "default" may also be
\* as cluster-ingress-operator first made it, and others may never have existed.
Established(list, n) ==
    {Admitted([generateIngressController(list[k]) EXCEPT !.selector = Stored(@)]) :
        k \in {k \in DOMAIN list : TargetName(list[k]) = n}}
    \cup (IF n = "default" THEN {Admitted(Bare)} ELSE {NoIC})

Init ==
    /\ ps \in Strategies
    /\ \E list \in Strategies :
        /\ \A k \in DOMAIN list : list[k].default => list[k].dnsName \in BaseDomain
        /\ ics \in [Names -> UNION {Established(list, n) : n \in Names}]
        /\ \A n \in Names : ics[n] \in Established(list, n)
    /\ cache = ics
    /\ queued = TRUE /\ pc = "idle"
    /\ inst = <<>> /\ base = TRUE /\ owned = [n \in Names |-> "absent"]
    /\ i = 0 /\ target = "default" /\ snap = NoIC /\ todo = {}
    /\ edits = 0 /\ drift = 0 /\ faults = 0

Next == Reconcile \/ Fault \/ Environment

\* A queued request is taken and every call returns, the watch delivers, and
\* cluster-ingress-operator does its work.
Fairness ==
    /\ WF_vars(Reconcile)
    /\ WF_vars(Sync)
    /\ WF_vars(ClusterCreateDefault)
    /\ \A n \in Names : WF_vars(ClusterAdmit(n)) /\ WF_vars(ClusterCleanup(n))

Spec == Init /\ [][Next]_vars /\ Fairness

\* "Create the desiredIngressController (hopefully before cluster-ingress-operator
\* did)": between the removal of the finalizer and the Create, the operator does
\* not lose the race for ever.
DeleteGoneFirst == DeleteGone /\ ics[target] = NoIC
CreateFirst == Create /\ ics[target] = NoIC

\* Requests come back through a rate limiter whose delay doubles: in the end the
\* cluster has settled, and the watch has caught up, before a Reconcile begins.
Quiet ==
    /\ cache = ics
    /\ ics["default"] # NoIC
    /\ \A n \in Names : ics[n] # NoIC =>
        IF ics[n].deleting THEN Cluster \notin ics[n].finalizers
                           ELSE Admitted(ics[n]) = ics[n]

Backoff == <>[][Begin => Quiet]_vars

\* The controller does not watch IngressControllers: what a stale read or an
\* outsider made it miss, it finds at the informers' next resync.
LiveSpec ==
    /\ Spec /\ WF_vars(Resync)
    /\ SF_vars(DeleteGoneFirst) /\ SF_vars(CreateFirst)

-----------------------------------------------------------------------------
(* Properties.                                                             *)

Calls ==
    {"list", "ingress", "create", "addFinalizer", "deleteStatic", "deleteLBType",
     "patch", "removeFinalizer", "deleteGone", "annotate", "annotatePatch", "alias",
     "disown", "disownPatch", "unpublish", "unpublishDelete"}

\* Every variable has its type; the loop index stays within the list while an
\* entry is being worked on (Reconcile's locals and the objects it writes).
TypeOK ==
    /\ ps \in Strategies \cup {NoStrategy}
    /\ ics \in [Names -> IngressController \cup {NoIC}]
    /\ cache \in [Names -> IngressController \cup {NoIC}]
    /\ queued \in BOOLEAN /\ pc \in Calls \cup {"idle"}
    /\ inst \in Strategies \cup {<<>>} /\ base \in BOOLEAN
    /\ owned \in [Names -> {"absent", "unverified", "verified"}]
    /\ i \in 0..(Len(inst) + 1) /\ target \in Names
    /\ snap \in IngressController \cup {NoIC}
    /\ todo \in SUBSET Names
    /\ edits \in 0..MaxEdits /\ drift \in 0..MaxDrift /\ faults \in 0..MaxFaults
    /\ pc \in {"ingress", "create", "addFinalizer", "deleteStatic", "deleteLBType",
               "patch", "removeFinalizer", "deleteGone"} => i \in 1..Len(inst)
    /\ pc \in {"idle", "list"} => i = 0
    /\ pc \in {"addFinalizer", "patch", "removeFinalizer", "annotatePatch", "disownPatch"}
           => snap # NoIC

\* "Prior to deleting the ingress controller, we are adding a finalizer ...
\* cloud-ingress will take care of the final IngressController delete": when
\* ensureStaticSpec sends its Delete of "default", the server's object carries
\* the Cloud finalizer, however old the copy the decision was taken on.
HandshakeArmed ==
    pc = "deleteStatic" /\ target = "default" =>
        ics["default"] # NoIC /\ Cloud \in ics["default"].finalizers

\* An IngressController that the running Reconcile's list asks for is neither
\* deleted by deleteUnpublishedIngressControllers nor, being "default",
\* disowned, whatever vanished or appeared while the loop ran.
ListedIsKept ==
    /\ pc = "unpublish" => todo \cap Listed(inst) = {}
    /\ pc = "unpublishDelete" => (todo \cup {target}) \cap Listed(inst) = {}
    /\ pc \in {"disown", "disownPatch"} => "default" \notin Listed(inst)

\* A second IngressController that had no cloud-ingress-operator annotation in
\* the List of a Reconcile (a native one, or none at all) is not created,
\* patched or deleted by that Reconcile (ensureNoNewSecondIngressCreated).
UnownedUntouched ==
    [][\A n \in Names \ {"default"} :
        pc \notin {"idle", "list"} /\ owned[n] = "absent" /\ ics'[n] # ics[n]
            => UNCHANGED pc]_vars

\* What the strategy asks for is there: each listed IngressController exists,
\* is not being deleted and would be found right by the next Reconcile.
Published ==
    ps # NoStrategy =>
        \A k \in DOMAIN ps :
            Verdict(ics[TargetName(ps[k])], ps[k]) = "next"

\* And nothing else is: an owned IngressController that is not listed is gone, or is
\* owned no longer.
Unpublished == ps # NoStrategy => Owned(ics) \subseteq Listed(ps)

\* The strategy asks for a second IngressController the operator does not own.
Denied == ps # NoStrategy /\ NewSecondIngress(ps, Owned(ics))

\* The default is outside the base domain, which Reconcile refuses before anything else.
Malformed ==
    ps # NoStrategy /\ \E k \in DOMAIN ps : ps[k].default /\ ps[k].dnsName \notin BaseDomain

\* Once customers and faults are done, the reconciles bring the cluster to what
\* the strategy says and keep it there, a default handed over and taken back among it,
\* unless the strategy is one that they refuse: it asks for a new second
\* IngressController, or for a default outside the base domain.
Converges == Backoff => <>[](Denied \/ Malformed \/ (Published /\ Unpublished))

(* What comments of the controller say, where the code does otherwise.     *)

\* "assume that we want to 'disown' the native ingress controller. Any remaining
\* ingresses will be deleted as per usual": in the end nothing unlisted is owned.
RemainingDeleted == Backoff => <>[]Unpublished

\* "If you have existing second ingress controllers, these can still be updated
\* and deleted as normal": an owned IngressController that stays listed stays.
SecondSurvivesUpdate ==
    \A n \in Names :
        /\ n \in Owned(ics) /\ Backoff
        /\ [](ps # NoStrategy => n \in Listed(ps)) /\ [](ps # NoStrategy)
        => <>[](n \in Owned(ics))
===============================================================================
