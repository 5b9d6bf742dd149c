----------------------------- MODULE RouterService -----------------------------
(***************************************************************************)
(* The RouterService controller (controllers/routerservice): below 4.11 it *)
(* keeps the idle timeout annotation of the router Services at 1800, by a  *)
(* Get from the informer cache and an Update that carries the resource     *)
(* version of what was read.  Others create, change and delete Services,   *)
(* and from 4.11 on cluster-ingress-operator maintains the annotation.     *)
(* The operator reads the cluster's version once, when it starts.          *)
(***************************************************************************)
EXTENDS Integers, Sequences

CONSTANTS
    Services,      \* names of Services
    IngressNS,     \* those in the namespace openshift-ingress
    NoService,     \* there is no Service of that name
    NoReconcile,
    FirstMinor,    \* the cluster runs OpenShift 4.FirstMinor
    LastMinor,     \* bound on upgrades
    ClusterValue,  \* the annotation cluster-ingress-operator wants from 4.11 on
    MaxWrites,     \* bound on what others do to Services
    MaxFaults      \* bound on failed calls and crashes

Values == {"none", "1800", "other"}     \* of the annotation

Service == [type : {"LoadBalancer", "ClusterIP"}, value : Values]

\* A Reconcile between its Get and its Update; stale: the server has a newer version.
Reconciling == [svc : Services, read : Service, stale : BOOLEAN]

ASSUME ServicesAssumption == IngressNS \subseteq Services /\ NoService \notin Service
ASSUME ReconcileAssumption == NoReconcile \notin Reconciling
ASSUME VersionAssumption ==
    FirstMinor \in Nat /\ LastMinor \in Nat /\ FirstMinor <= LastMinor /\ ClusterValue \in Values
ASSUME BoundsAssumption == MaxWrites \in Nat /\ MaxFaults \in Nat

VARIABLES
    svcs,      \* the Services on the API server
    cache,     \* the informer's copy of them
    events,    \* what the watch has yet to deliver about each
    queue,     \* the requests that wait
    running,   \* the Reconcile that is about to Update
    minor,     \* the cluster's version
    known,     \* CLUSTER_VERSION, as SetClusterVersion found it
    writes, faults

vars == <<svcs, cache, events, queue, running, minor, known, writes, faults>>

-----------------------------------------------------------------------------
\* The server stores an object, or deletes it.
Put(s, svc) ==
    /\ svcs' = [svcs EXCEPT ![s] = svc]
    /\ events' = [events EXCEPT ![s] = Append(events[s], svc)]

\* Somebody other than the operator does.
OthersPut(s, svc) ==
    /\ Put(s, svc)
    /\ running' = IF running # NoReconcile /\ running.svc = s
                  THEN [running EXCEPT !.stale = TRUE] ELSE running

IsVersionHigherThan(v) == known >= v

\* A slip: an annotation that is there is taken for the right one.
ToAnnotateMissing(svc) ==
    /\ svc # NoService /\ svc.type = "LoadBalancer" /\ ~IsVersionHigherThan(11)
    /\ svc.value = "none"

\* The Update is needed: HasAnnotation, or the value of the annotation, says so.
ToAnnotate(svc) ==
    /\ svc # NoService /\ svc.type = "LoadBalancer" /\ ~IsVersionHigherThan(11)
    /\ svc.value # "1800"

\* A slip: the copy is sent without its resource version.
GetUnversioned(s) ==
    /\ running = NoReconcile /\ s \in queue
    /\ queue' = queue \ {s}
    /\ running' = IF ToAnnotate(cache[s])
                  THEN [svc |-> s, read |-> cache[s], stale |-> FALSE]
                  ELSE NoReconcile
    /\ UNCHANGED <<svcs, cache, events, minor, known, writes, faults>>

Get(s) ==
    /\ running = NoReconcile /\ s \in queue
    /\ queue' = queue \ {s}
    /\ running' = IF ToAnnotate(cache[s])
                  THEN [svc |-> s, read |-> cache[s], stale |-> events[s] # <<>>]
                  ELSE NoReconcile
    /\ UNCHANGED <<svcs, cache, events, minor, known, writes, faults>>

\* A slip: the object is written whatever became of it since it was read.
UpdateForced ==
    /\ running # NoReconcile
    /\ Put(running.svc, [running.read EXCEPT !.value = "1800"])
    /\ running' = NoReconcile
    /\ UNCHANGED <<cache, queue, minor, known, writes, faults>>

\* The server takes the Update of the version it has; an error queues the request.
Update ==
    /\ running # NoReconcile
    /\ \/ /\ ~running.stale
          /\ Put(running.svc, [running.read EXCEPT !.value = "1800"]) /\ UNCHANGED queue
       \/ /\ running.stale
          /\ queue' = queue \cup {running.svc} /\ UNCHANGED <<svcs, events>>
    /\ running' = NoReconcile
    /\ UNCHANGED <<cache, minor, known, writes, faults>>

\* eventPredicates: creations and updates of the namespace, and every deletion, since
\* predicate.Funcs without a DeleteFunc lets all of them through.
Passes(s, new) == new = NoService \/ s \in IngressNS

\* The watch delivers the next event.
Watch(s) ==
    /\ events[s] # <<>>
    /\ cache' = [cache EXCEPT ![s] = Head(events[s])]
    /\ events' = [events EXCEPT ![s] = Tail(events[s])]
    /\ queue' = IF Passes(s, Head(events[s])) THEN queue \cup {s} ELSE queue
    /\ UNCHANGED <<svcs, running, minor, known, writes, faults>>

\* A slip: the version of an earlier start is kept.
StartedBefore ==
    /\ known' = known
    /\ cache' = svcs /\ events' = [s \in Services |-> <<>>]
    /\ queue' = {s \in IngressNS : svcs[s] # NoService}
    /\ running' = NoReconcile

\* The process starts: the version is read, and the informer lists the Services, each
\* of which is a creation.
Started ==
    /\ known' = minor
    /\ cache' = svcs /\ events' = [s \in Services |-> <<>>]
    /\ queue' = {s \in IngressNS : svcs[s] # NoService}
    /\ running' = NoReconcile

-----------------------------------------------------------------------------
(* Everyone else.                                                          *)

UpdateFails ==
    /\ running # NoReconcile
    /\ faults < MaxFaults /\ faults' = faults + 1
    /\ queue' = queue \cup {running.svc} /\ running' = NoReconcile
    /\ UNCHANGED <<svcs, cache, events, minor, known, writes>>

Crash ==
    /\ faults < MaxFaults /\ faults' = faults + 1
    /\ Started
    /\ UNCHANGED <<svcs, minor, writes>>

\* A Service is created, changed or deleted.
Write(s) ==
    /\ writes < MaxWrites /\ writes' = writes + 1
    /\ \E svc \in Service \cup {NoService} : svc # svcs[s] /\ OthersPut(s, svc)
    /\ UNCHANGED <<cache, queue, minor, known, faults>>

Upgrade ==
    /\ minor < LastMinor /\ minor' = minor + 1
    /\ UNCHANGED <<svcs, cache, events, queue, running, known, writes, faults>>

\* An upgrade drains the node the operator runs on, some time.
Drain ==
    /\ known # minor
    /\ Started
    /\ UNCHANGED <<svcs, minor, writes, faults>>

\* cluster-ingress-operator of 4.11 and later repairs the annotation.
Maintain(s) ==
    /\ minor >= 11 /\ s \in IngressNS
    /\ svcs[s] # NoService /\ svcs[s].type = "LoadBalancer" /\ svcs[s].value # ClusterValue
    /\ OthersPut(s, [svcs[s] EXCEPT !.value = ClusterValue])
    /\ UNCHANGED <<cache, queue, minor, known, writes, faults>>

Init ==
    /\ svcs \in [Services -> Service \cup {NoService}]
    /\ cache = svcs /\ events = [s \in Services |-> <<>>]
    /\ queue = {s \in IngressNS : svcs[s] # NoService}
    /\ running = NoReconcile
    /\ minor = FirstMinor /\ known = FirstMinor /\ writes = 0 /\ faults = 0

Next ==
    \/ Update \/ UpdateFails \/ Crash \/ Upgrade \/ Drain
    \/ \E s \in Services : Get(s) \/ Watch(s) \/ Write(s) \/ Maintain(s)

\* Requests are served, the watch delivers, cluster-ingress-operator does its work, and
\* an upgrade reaches the operator's node.
Fairness ==
    /\ WF_vars(Update) /\ WF_vars(Drain)
    /\ \A s \in Services : WF_vars(Get(s)) /\ WF_vars(Watch(s)) /\ WF_vars(Maintain(s))

Spec == Init /\ [][Next]_vars /\ Fairness

-----------------------------------------------------------------------------
(* Properties.                                                             *)

\* Every variable has its type, what the Reconcile took for current is what the server
\* has, and the informer is behind the server only by the events it waits for.
TypeOK ==
    /\ svcs \in [Services -> Service \cup {NoService}]
    /\ cache \in [Services -> Service \cup {NoService}]
    /\ events \in [Services -> Seq(Service \cup {NoService})]
    /\ queue \in SUBSET Services
    /\ running \in Reconciling \cup {NoReconcile}
    /\ minor \in FirstMinor..LastMinor /\ known \in FirstMinor..minor
    /\ writes \in 0..MaxWrites /\ faults \in 0..MaxFaults
    /\ \A s \in Services :
        svcs[s] = IF events[s] = <<>> THEN cache[s] ELSE events[s][Len(events[s])]
    /\ running # NoReconcile /\ ~running.stale => svcs[running.svc] = running.read

\* The Update of a Reconcile, as opposed to what others write.
OperatorWrites(s) ==
    running # NoReconcile /\ running' = NoReconcile /\ svcs'[s] # svcs[s]

\* Reconcile decides on a cached copy and writes the whole object: what others did to
\* the Service in between is never undone, and a Service that is gone does not come back.
OnlyAnnotation ==
    [][\A s \in Services : OperatorWrites(s) =>
        svcs[s] # NoService /\ svcs'[s] = [svcs[s] EXCEPT !.value = "1800"]]_vars

\* The controller hears of a Service only through its queue: below 4.11 a router Service
\* whose annotation is missing or wrong has an event on its way, a request in the queue or
\* a Reconcile at work, whatever raced, failed, crashed or met a conflict.
NoneForgotten ==
    \A s \in IngressNS :
        /\ ~IsVersionHigherThan(11) /\ s \notin queue /\ events[s] = <<>>
        /\ running = NoReconcile \/ running.svc # s
        /\ svcs[s] # NoService /\ svcs[s].type = "LoadBalancer"
        => svcs[s].value = "1800"

\* "Only set timeout annotations on services for < OCP 4.11. In 4.11+, the
\* cluster-ingress-operator maintains this annotation": in the end a router Service has
\* the annotation of whoever is in charge, although the operator may learn of an upgrade
\* long after cluster-ingress-operator did.
AnnotationSettles ==
    \A s \in IngressNS :
        <>[](svcs[s] # NoService /\ svcs[s].type = "LoadBalancer" =>
                svcs[s].value = IF minor >= 11 THEN ClusterValue ELSE "1800")

\* "Only filter on services in the openshift-ingress namespace and create/update
\* events": the operator writes to no Service of another namespace.
ForeignUntouched ==
    [][\A s \in Services \ IngressNS : ~OperatorWrites(s)]_vars
================================================================================
