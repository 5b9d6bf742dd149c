-------------------------------- MODULE Operator -------------------------------
(***************************************************************************)
(* The PublishingStrategy controller together with the cloud client it     *)
(* calls.  PublishingStrategy takes ensureAliasScope for one call; here the *)
(* call is what APIScope says a cloud client does, step by step, for the   *)
(* scope the Reconcile read at its start.  The scope of the API comes last *)
(* in Reconcile: everything that ends a Reconcile before it, the           *)
(* IngressControllers' errors and waits among them, holds it up.           *)
(***************************************************************************)
EXTENDS PublishingStrategy

VARIABLES
    listening,  \* Spec.DefaultAPIServerIngress.Listening
    goal,       \* the same of Reconcile's instance; "none" once the call is done
    exposed, record     \* see APIScope

api == <<listening, exposed, record>>
controller == vars
all == <<vars, api, goal>>

\* A PublishingStrategy that does not exist asks for nothing.
Asked == IF ps = NoStrategy THEN "external" ELSE listening

Client == INSTANCE APIScope WITH listening <- Asked, owed <- queued

-----------------------------------------------------------------------------
Start ==
    /\ Begin
    /\ goal' = IF ps = NoStrategy THEN "none" ELSE listening
    /\ UNCHANGED api

\* SetDefaultAPIPublic or SetDefaultAPIPrivate at work.
SetDefaultAPI ==
    /\ pc = "alias"
    /\ UNCHANGED <<controller, listening, goal>>
    /\ Client!Expose \/ Client!Hide \/ Client!PointOut \/ Client!PointIn

\* It returns no error.
ensureAliasScope ==
    /\ AliasScope
    /\ goal = "external" => exposed
    /\ goal = "internal" => Client!Private
    /\ goal' = "none"
    /\ UNCHANGED api

\* A customer changes the scope of the API.
EditScope ==
    /\ ps # NoStrategy /\ edits < MaxEdits
    /\ edits' = edits + 1
    /\ listening' \in {"internal", "external"} \ {listening}
    /\ queued' = TRUE
    /\ UNCHANGED <<server, ps, drift, faults, pc, locals, goal, exposed, record>>

\* Every other step; one that ends the Reconcile ends what it wanted of the API.
OtherStep(A) ==
    /\ A
    /\ goal' = IF pc' = "idle" THEN "none" ELSE goal
    /\ UNCHANGED api

Calling ==
    \/ List \/ RejectMalformed \/ GetIngress \/ Create \/ AddFinalizer
    \/ DeleteMismatch \/ Patch \/ RemoveFinalizer \/ DeleteGone
    \/ AnnotateGet \/ AnnotatePatch
    \/ DisownGet \/ DisownPatch \/ UnpublishGet \/ UnpublishDelete

OperatorStep == Start \/ SetDefaultAPI \/ ensureAliasScope \/ OtherStep(Calling)

OperatorInit ==
    /\ Init
    /\ listening \in {"internal", "external"} /\ goal = "none"
    /\ exposed \in BOOLEAN
    /\ record = IF exposed THEN "out" ELSE "in"

OperatorNext == OperatorStep \/ EditScope \/ OtherStep(Fault) \/ OtherStep(Environment)

\* As in LiveSpec, the cloud client's calls among those that return.
OperatorSpec ==
    /\ OperatorInit /\ [][OperatorNext]_all
    /\ WF_all(OperatorStep)
    /\ WF_all(OtherStep(Sync)) /\ WF_all(OtherStep(Resync))
    /\ WF_all(OtherStep(ClusterCreateDefault))
    /\ \A n \in Names :
        WF_all(OtherStep(ClusterAdmit(n))) /\ WF_all(OtherStep(ClusterCleanup(n)))
    /\ SF_all(OtherStep(DeleteGoneFirst)) /\ SF_all(OtherStep(CreateFirst))

-----------------------------------------------------------------------------
(* Properties.                                                             *)

\* The operator as a whole keeps the promise of the cloud client it calls: whichever
\* of its many returns a Reconcile takes before ensureAliasScope, a request for a
\* private API is still owed; the record and the load balancer change in that order.
ImplementsScope == Client!Spec

\* An operator at rest owes nothing: when no request waits and no Reconcile runs, an API
\* that the strategy wants private is private, whichever of Reconcile's many returns before
\* or after ensureAliasScope was the last one.
ScopeSettled == ~queued /\ pc = "idle" /\ Asked = "internal" => Client!Private

\* The API becomes private if it is to be, whatever IngressControllers are deleted,
\* recreated, handed over or changed by others on the way, unless the list is one
\* that ensureNoNewSecondIngressCreated or the base domain check refuses: such a list
\* keeps the API as public as it is.
ScopeServed ==
    Backoff => <>[](Denied \/ Malformed \/ (Asked = "internal" => Client!Private))
===============================================================================
