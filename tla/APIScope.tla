------------------------------- MODULE APIScope -------------------------------
(***************************************************************************)
(* What a cloud client promises about the scope of api.<cluster-domain>    *)
(* (SetDefaultAPIPrivate and SetDefaultAPIPublic of cloudclient.go),       *)
(* whatever load balancers, records and Machines a cloud has: in which     *)
(* order an external load balancer and the record change, what a request   *)
(* that ends may leave undone, and that a request to be private is never   *)
(* forgotten.  A request to be public may be: both clients return success  *)
(* when the load balancer is there already.                                *)
(***************************************************************************)

VARIABLES
    listening,  \* what the PublishingStrategy asks for
    owed,       \* a request waits
    goal,       \* what the running request read, "none" between two
    exposed,    \* there is an external load balancer for the API
    record      \* the record names an external ("out") or the internal one

vars == <<listening, owed, goal, exposed, record>>

Scopes == {"internal", "external"}

Private == record = "in" /\ ~exposed

-----------------------------------------------------------------------------
\* The customer's edit queues a request; a resync or a restart does too.
Ask ==
    /\ listening' \in Scopes \ {listening}
    /\ owed' = TRUE
    /\ UNCHANGED <<goal, exposed, record>>

Wake ==
    /\ owed' = TRUE
    /\ UNCHANGED <<listening, goal, exposed, record>>

Start ==
    /\ goal = "none" /\ owed
    /\ goal' = listening /\ owed' = FALSE
    /\ UNCHANGED <<listening, exposed, record>>

\* A request to be public finds nothing to do, or gives up.
Skip ==
    /\ goal = "none" /\ owed /\ listening = "external"
    /\ owed' = FALSE
    /\ UNCHANGED <<listening, goal, exposed, record>>

GiveUp ==
    /\ goal = "external" /\ exposed
    /\ goal' = "none"
    /\ UNCHANGED <<listening, owed, exposed, record>>

Expose ==
    /\ goal = "external"
    /\ exposed' = TRUE
    /\ UNCHANGED <<listening, owed, goal, record>>

Hide ==
    /\ goal = "internal"
    /\ exposed' = FALSE
    /\ UNCHANGED <<listening, owed, goal, record>>

\* The record follows the load balancer: outwards once there is one, inwards once
\* there is none.  It may be the last thing the request does.
PointOut ==
    /\ goal = "external" /\ exposed
    /\ record' = "out" /\ goal' \in {goal, "none"}
    /\ UNCHANGED <<listening, owed, exposed>>

PointIn ==
    /\ goal = "internal" /\ ~exposed
    /\ record' = "in" /\ goal' \in {goal, "none"}
    /\ UNCHANGED <<listening, owed, exposed>>

Finish ==
    /\ goal = "internal" /\ Private
    /\ goal' = "none"
    /\ UNCHANGED <<listening, owed, exposed, record>>

\* An error or the end of the process: the request comes back.
Fail ==
    /\ goal # "none"
    /\ goal' = "none" /\ owed' = TRUE
    /\ UNCHANGED <<listening, exposed, record>>

-----------------------------------------------------------------------------
Init ==
    /\ listening \in Scopes /\ owed = TRUE /\ goal = "none"
    /\ exposed \in BOOLEAN
    /\ record = IF exposed THEN "out" ELSE "in"

Next ==
    \/ Ask \/ Wake \/ Start \/ Skip \/ GiveUp \/ Expose \/ Hide
    \/ PointOut \/ PointIn \/ Finish \/ Fail

Spec == Init /\ [][Next]_vars

TypeOK ==
    /\ listening \in Scopes /\ owed \in BOOLEAN /\ goal \in Scopes \cup {"none"}
    /\ exposed \in BOOLEAN /\ record \in {"in", "out"}

\* When no request waits, the running one works for what is asked now; and when
\* none runs either, an API that is to be private is private.
Settled ==
    ~owed =>
        /\ goal # "none" => goal = listening
        /\ goal = "none" /\ listening = "internal" => Private
===============================================================================
