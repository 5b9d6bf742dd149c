-------------------------- MODULE RouterServiceProofs --------------------------
(***************************************************************************)
(* Proofs about RouterService, for every set of Services, every range of   *)
(* versions and every bound.                                               *)
(***************************************************************************)
EXTENDS RouterService, TLAPS

Stored == Service \cup {NoService}

\* The informer is behind the server only by the events it waits for, and what the
\* Reconcile took for current is what the server has: TypeOK as two parts.
CacheInv ==
    \A s \in Services :
        svcs[s] = IF events[s] = <<>> THEN cache[s] ELSE events[s][Len(events[s])]

CurrentInv == running # NoReconcile /\ ~running.stale => svcs[running.svc] = running.read

Types ==
    /\ svcs \in [Services -> Stored] /\ cache \in [Services -> Stored]
    /\ events \in [Services -> Seq(Stored)]
    /\ queue \in SUBSET Services
    /\ running \in Reconciling \cup {NoReconcile}
    /\ minor \in FirstMinor..LastMinor /\ known \in FirstMinor..minor
    /\ writes \in 0..MaxWrites /\ faults \in 0..MaxFaults

LEMMA Parts == TypeOK <=> Types /\ CacheInv /\ CurrentInv
BY DEF TypeOK, Types, CacheInv, CurrentInv, Stored

LEMMA TypeInit == Init => TypeOK
<1> SUFFICES ASSUME Init PROVE Types /\ CacheInv /\ CurrentInv
  BY Parts
<1>1. Types
  BY ServicesAssumption, VersionAssumption, BoundsAssumption DEF Init, Types, Stored
<1>2. CacheInv /\ CurrentInv
  BY DEF Init, CacheInv, CurrentInv
<1> QED
  BY <1>1, <1>2

\* What the server stores is the last event, whatever waited before.
LEMMA PutShape ==
    ASSUME Types, CacheInv, NEW s \in Services, NEW svc \in Stored, Put(s, svc), UNCHANGED cache
    PROVE  /\ svcs' \in [Services -> Stored] /\ events' \in [Services -> Seq(Stored)]
           /\ CacheInv'
           /\ svcs'[s] = svc /\ \A t \in Services : t # s => svcs'[t] = svcs[t]
<1>1. /\ svcs' \in [Services -> Stored] /\ svcs'[s] = svc
      /\ \A t \in Services : t # s => svcs'[t] = svcs[t]
  BY DEF Put, Types
<1>2. /\ events' \in [Services -> Seq(Stored)] /\ events'[s] = Append(events[s], svc)
      /\ \A t \in Services : t # s => events'[t] = events[t]
  BY DEF Put, Types
<1>3. events[s] \in Seq(Stored)
  BY DEF Types
<1>4. events'[s] # <<>> /\ events'[s][Len(events'[s])] = svc
  BY <1>2, <1>3
<1>5. CacheInv'
  BY <1>1, <1>2, <1>4 DEF CacheInv
<1> QED
  BY <1>1, <1>2, <1>5

\* A write of others makes the copy of a running Reconcile stale.
LEMMA OthersPutShape ==
    ASSUME Types, CacheInv, CurrentInv, NEW s \in Services, NEW svc \in Stored,
           OthersPut(s, svc), UNCHANGED cache
    PROVE  /\ svcs' \in [Services -> Stored] /\ events' \in [Services -> Seq(Stored)]
           /\ running' \in Reconciling \cup {NoReconcile}
           /\ (running' = NoReconcile <=> running = NoReconcile)
           /\ CacheInv' /\ CurrentInv'
<1>1. /\ svcs' \in [Services -> Stored] /\ events' \in [Services -> Seq(Stored)]
      /\ CacheInv'
      /\ svcs'[s] = svc /\ \A t \in Services : t # s => svcs'[t] = svcs[t]
  BY PutShape DEF OthersPut
<1>2. CASE running # NoReconcile /\ running.svc = s
  <2>1. running \in Reconciling /\ running' = [running EXCEPT !.stale = TRUE]
    BY <1>2 DEF OthersPut, Types
  <2>2. running' \in Reconciling /\ running'.stale = TRUE
    BY <2>1 DEF Reconciling
  <2> QED
    BY <1>1, <1>2, <2>2, ReconcileAssumption DEF CurrentInv
<1>3. CASE running = NoReconcile \/ running.svc # s
  <2>1. running' = running
    BY <1>3 DEF OthersPut
  <2>2. running # NoReconcile => running.svc \in Services
    BY DEF Types, Reconciling
  <2>3. CurrentInv'
    BY <1>1, <1>3, <2>1, <2>2 DEF CurrentInv
  <2> QED
    BY <1>1, <2>1, <2>3 DEF Types
<1> QED
  BY <1>2, <1>3

\* The last of the events that wait is the last one still when the first was delivered.
LEMMA LastStays ==
    ASSUME NEW q \in Seq(Stored), q # <<>>
    PROVE  /\ Head(q) \in Stored /\ Tail(q) \in Seq(Stored)
           /\ Tail(q) = <<>> => Head(q) = q[Len(q)]
           /\ Tail(q) # <<>> => Tail(q)[Len(Tail(q))] = q[Len(q)]
<1>1. Len(q) \in Nat /\ Len(q) > 0
  OBVIOUS
<1>2. Head(q) = q[1] /\ Head(q) \in Stored
  BY <1>1
<1>3. Tail(q) \in Seq(Stored) /\ Len(Tail(q)) = Len(q) - 1
  BY <1>1
<1>4. CASE Tail(q) = <<>>
  BY <1>1, <1>2, <1>3, <1>4
<1>5. CASE Tail(q) # <<>>
  <2>1. Len(Tail(q)) > 0
    BY <1>3, <1>5
  <2>2. Tail(q)[Len(q) - 1] = q[Len(q)]
    BY <1>1, <1>3, <2>1
  <2> QED
    BY <1>2, <1>3, <1>5, <2>2
<1> QED
  BY <1>4, <1>5, <1>2, <1>3

LEMMA TypeNext == TypeOK /\ [Next]_vars => TypeOK'
<1> SUFFICES ASSUME Types, CacheInv, CurrentInv, [Next]_vars
             PROVE  Types' /\ CacheInv' /\ CurrentInv'
  BY Parts DEF TypeOK, Types, CacheInv, CurrentInv, Stored
<1>s. ASSUME Started, UNCHANGED <<svcs, minor, writes>>, faults' \in 0..MaxFaults
      PROVE  Types' /\ CacheInv' /\ CurrentInv'
  <2>1. Types'
    BY <1>s, ServicesAssumption, VersionAssumption DEF Started, Types
  <2>2. CacheInv' /\ CurrentInv'
    BY <1>s DEF Started, CacheInv, CurrentInv
  <2> QED
    BY <2>1, <2>2
<1>1. ASSUME NEW s \in Services, Get(s) PROVE Types' /\ CacheInv' /\ CurrentInv'
  <2>1. UNCHANGED <<svcs, cache, events, minor, known, writes, faults>> /\ queue' \in SUBSET Services
    BY <1>1 DEF Get, Types
  <2>2. CASE running' = NoReconcile
    BY <2>1, <2>2 DEF Types, CacheInv, CurrentInv
  <2>3. CASE ToAnnotate(cache[s]) /\ running' = [svc |-> s, read |-> cache[s], stale |-> events[s] # <<>>]
    <3>1. cache[s] \in Service
      BY <2>3 DEF ToAnnotate, Types, Stored
    <3>2. running' \in Reconciling /\ running'.svc = s /\ running'.read = cache[s]
          /\ running'.stale = (events[s] # <<>>)
      BY <2>3, <3>1 DEF Reconciling
    <3>3. CurrentInv'
      BY <2>1, <3>2 DEF CurrentInv, CacheInv
    <3> QED
      BY <2>1, <3>2, <3>3 DEF Types, CacheInv
  <2> QED
    BY <1>1, <2>2, <2>3 DEF Get
<1>2. CASE Update
  <2>0. running \in Reconciling /\ running.svc \in Services /\ running.read \in Service
    BY <1>2 DEF Update, Types, Reconciling
  <2>1. CASE running.stale
    BY <1>2, <2>0, <2>1 DEF Update, Types, CacheInv, CurrentInv
  <2>2. CASE ~running.stale
    <3>1. [running.read EXCEPT !.value = "1800"] \in Stored
      BY <2>0 DEF Service, Values, Stored
    <3>2. Put(running.svc, [running.read EXCEPT !.value = "1800"]) /\ running' = NoReconcile
          /\ UNCHANGED <<cache, queue, minor, known, writes, faults>>
      BY <1>2, <2>2 DEF Update
    <3> QED
      BY <2>0, <3>1, <3>2, PutShape DEF Types, CurrentInv
  <2> QED
    BY <2>1, <2>2
<1>3. CASE UpdateFails
  <2>1. running.svc \in Services
    BY <1>3 DEF UpdateFails, Types, Reconciling
  <2> QED
    BY <1>3, <2>1, BoundsAssumption DEF UpdateFails, Types, CacheInv, CurrentInv
<1>4. CASE Crash
  BY <1>4, <1>s, BoundsAssumption DEF Crash, Types
<1>5. CASE Drain
  BY <1>5, <1>s DEF Drain, Types
<1>6. CASE Upgrade
  BY <1>6, VersionAssumption DEF Upgrade, Types, CacheInv, CurrentInv
<1>7. ASSUME NEW s \in Services, Watch(s) PROVE Types' /\ CacheInv' /\ CurrentInv'
  <2>1. events[s] \in Seq(Stored) /\ events[s] # <<>>
    BY <1>7 DEF Watch, Types
  <2>2. /\ Head(events[s]) \in Stored /\ Tail(events[s]) \in Seq(Stored)
        /\ Tail(events[s]) = <<>> => Head(events[s]) = events[s][Len(events[s])]
        /\ Tail(events[s]) # <<>> =>
            Tail(events[s])[Len(Tail(events[s]))] = events[s][Len(events[s])]
    BY <2>1, LastStays
  <2>3. /\ cache' = [cache EXCEPT ![s] = Head(events[s])]
        /\ events' = [events EXCEPT ![s] = Tail(events[s])]
        /\ queue' \in SUBSET Services
        /\ UNCHANGED <<svcs, running, minor, known, writes, faults>>
    BY <1>7 DEF Watch, Types
  <2>4. Types'
    BY <2>2, <2>3 DEF Types
  <2>5. CacheInv'
    <3>1. /\ cache'[s] = Head(events[s]) /\ events'[s] = Tail(events[s])
          /\ svcs[s] = events[s][Len(events[s])]
      BY <2>1, <2>3 DEF CacheInv, Types
    <3>2. svcs'[s] = IF events'[s] = <<>> THEN cache'[s] ELSE events'[s][Len(events'[s])]
      BY <2>2, <2>3, <3>1
    <3>3. \A t \in Services : t # s => cache'[t] = cache[t] /\ events'[t] = events[t]
      BY <2>3 DEF Types
    <3> QED
      BY <2>3, <3>2, <3>3 DEF CacheInv
  <2>6. CurrentInv'
    BY <2>3 DEF CurrentInv
  <2> QED
    BY <2>4, <2>5, <2>6
<1>8. ASSUME NEW s \in Services, Write(s) PROVE Types' /\ CacheInv' /\ CurrentInv'
  <2>1. PICK svc \in Stored : OthersPut(s, svc)
    BY <1>8 DEF Write, Stored
  <2>2. UNCHANGED <<cache, queue, minor, known, faults>> /\ writes' \in 0..MaxWrites
    BY <1>8, BoundsAssumption DEF Write, Types
  <2> QED
    BY <2>1, <2>2, OthersPutShape DEF Types
<1>9. ASSUME NEW s \in Services, Maintain(s) PROVE Types' /\ CacheInv' /\ CurrentInv'
  <2>1. svcs[s] \in Service
    BY <1>9 DEF Maintain, Types, Stored
  <2>2. [svcs[s] EXCEPT !.value = ClusterValue] \in Stored
    BY <2>1, VersionAssumption DEF Service, Stored
  <2>3. /\ OthersPut(s, [svcs[s] EXCEPT !.value = ClusterValue])
        /\ UNCHANGED <<cache, queue, minor, known, writes, faults>>
    BY <1>9 DEF Maintain
  <2> QED
    BY <2>2, <2>3, OthersPutShape DEF Types
<1>10. CASE UNCHANGED vars
  BY <1>10 DEF vars, Types, CacheInv, CurrentInv
<1> QED
  BY <1>1, <1>2, <1>3, <1>4, <1>5, <1>6, <1>7, <1>8, <1>9, <1>10 DEF Next

\* In every reachable state the informer's copies are behind the server by the events it
\* waits for and nothing else, and the copy that Update takes for current is current.
THEOREM TypeCorrect == Spec => []TypeOK
BY TypeInit, TypeNext, PTL DEF Spec

\* For any number of Services, writers, upgrades and crashes: an Update of the RouterService
\* controller changes the annotation of a Service that is there, and nothing else of it.
THEOREM AnnotationSafe == Spec => OnlyAnnotation
<1>1. TypeOK /\ [Next]_vars =>
        [\A s \in Services : OperatorWrites(s) =>
            svcs[s] # NoService /\ svcs'[s] = [svcs[s] EXCEPT !.value = "1800"]]_vars
  <2> SUFFICES ASSUME Types, CacheInv, CurrentInv, Next, NEW s \in Services, OperatorWrites(s)
               PROVE  svcs[s] # NoService /\ svcs'[s] = [svcs[s] EXCEPT !.value = "1800"]
    BY Parts
  <2>0. running # NoReconcile /\ running' = NoReconcile /\ svcs' # svcs
    BY DEF OperatorWrites
  <2>1. CASE Update
    <3>1. ~running.stale /\ svcs' = [svcs EXCEPT ![running.svc] = [running.read EXCEPT !.value = "1800"]]
      BY <2>0, <2>1 DEF Update, Put
    <3>2. running.svc \in Services /\ running.read \in Service
      BY <2>0 DEF Types, Reconciling
    <3>3. s = running.svc
      BY <3>1, <3>2 DEF OperatorWrites, Types
    <3>4. svcs[s] = running.read /\ svcs'[s] = [running.read EXCEPT !.value = "1800"]
      BY <2>0, <3>1, <3>2, <3>3 DEF CurrentInv, Types
    <3> QED
      BY <3>2, <3>4, ServicesAssumption
  <2>2. CASE UpdateFails \/ Crash \/ Drain \/ Upgrade
    BY <2>0, <2>2 DEF UpdateFails, Crash, Drain, Upgrade
  <2>3. ASSUME NEW t \in Services, Get(t) \/ Watch(t) PROVE FALSE
    BY <2>0, <2>3 DEF Get, Watch
  <2>4. ASSUME NEW t \in Services, Write(t) PROVE FALSE
    <3>1. PICK svc \in Stored : OthersPut(t, svc)
      BY <2>4 DEF Write, Stored
    <3> QED
      BY <2>0, <2>4, <3>1, OthersPutShape DEF Write
  <2>5. ASSUME NEW t \in Services, Maintain(t) PROVE FALSE
    <3>1. [svcs[t] EXCEPT !.value = ClusterValue] \in Stored
      BY <2>5, VersionAssumption DEF Maintain, Types, Service, Stored
    <3> QED
      BY <2>0, <2>5, <3>1, OthersPutShape DEF Maintain
  <2> QED
    BY <2>1, <2>2, <2>3, <2>4, <2>5 DEF Next
<1> QED
  BY TypeCorrect, <1>1, PTL DEF Spec, OnlyAnnotation

-----------------------------------------------------------------------------
(* No Service is forgotten.                                                *)

AtWork(s) == running # NoReconcile /\ running.svc = s

\* What the informer shows to be wrong is asked for, at work, or out of date.
PendingInv ==
    \A s \in IngressNS :
        ToAnnotate(cache[s]) => s \in queue \/ AtWork(s) \/ events[s] # <<>>

\* A write of others is an event that has yet to come, and ends no Reconcile.
LEMMA PendingPut ==
    ASSUME TypeOK, PendingInv, NEW s \in Services, NEW svc \in Stored, OthersPut(s, svc),
           UNCHANGED <<cache, queue, known>>
    PROVE  PendingInv'
<1>1. events'[s] # <<>> /\ \A t \in Services : t # s => events'[t] = events[t]
  BY Parts DEF OthersPut, Put, Types
<1>2. \A t \in Services : AtWork(t) => AtWork(t)'
  <2>1. CASE running = NoReconcile \/ running.svc # s
    BY <2>1 DEF OthersPut, AtWork
  <2>2. CASE running # NoReconcile /\ running.svc = s
    <3>1. running \in Reconciling /\ running' = [running EXCEPT !.stale = TRUE]
      BY <2>2 DEF OthersPut, TypeOK
    <3>2. running' \in Reconciling /\ running'.svc = running.svc
      BY <3>1 DEF Reconciling
    <3> QED
      BY <3>2, ReconcileAssumption DEF AtWork
  <2> QED
    BY <2>1, <2>2
<1> QED
  BY <1>1, <1>2, ServicesAssumption DEF PendingInv, ToAnnotate, IsVersionHigherThan

\* A start lists every Service as a creation.
LEMMA PendingStarted ==
    ASSUME TypeOK, Started, UNCHANGED svcs
    PROVE  PendingInv'
BY DEF Started, PendingInv, ToAnnotate

LEMMA PendingNext == TypeOK /\ PendingInv /\ [Next]_vars => PendingInv'
<1> SUFFICES ASSUME TypeOK, Types, PendingInv, [Next]_vars PROVE PendingInv'
  BY Parts
<1> USE DEF IsVersionHigherThan
<1>1. ASSUME NEW s \in Services, Get(s) PROVE PendingInv'
  <2>1. UNCHANGED <<cache, events, known>> /\ running = NoReconcile /\ queue' = queue \ {s}
    BY <1>1 DEF Get
  <2>2. ASSUME ToAnnotate(cache[s]) PROVE AtWork(s)'
    <3>1. running' = [svc |-> s, read |-> cache[s], stale |-> events[s] # <<>>]
      BY <1>1, <2>2 DEF Get
    <3>2. cache[s] \in Service
      BY <2>2 DEF ToAnnotate, Types, Stored
    <3>3. running' \in Reconciling /\ running'.svc = s
      BY <3>1, <3>2 DEF Reconciling
    <3> QED
      BY <3>3, ReconcileAssumption DEF AtWork
  <2>3. \A t \in Services : ~AtWork(t)
    BY <2>1 DEF AtWork
  <2> QED
    BY <2>1, <2>2, <2>3, ServicesAssumption DEF PendingInv, ToAnnotate
<1>2. CASE Update
  <2>0. running \in Reconciling /\ running.svc \in Services
    BY <1>2 DEF Update, Types, Reconciling
  <2>1. UNCHANGED <<cache, known>>
    BY <1>2 DEF Update
  <2>2. /\ running.svc \in queue' \/ events'[running.svc] # <<>>
        /\ queue \subseteq queue'
        /\ \A t \in Services : t # running.svc => events'[t] = events[t]
    BY <1>2, <2>0 DEF Update, Put, Types
  <2> QED
    BY <2>1, <2>2, ServicesAssumption DEF PendingInv, AtWork, ToAnnotate
<1>3. CASE UpdateFails
  <2>1. /\ UNCHANGED <<cache, events, known>> /\ queue' = queue \cup {running.svc}
    BY <1>3 DEF UpdateFails
  <2> QED
    BY <2>1 DEF PendingInv, AtWork, ToAnnotate
<1>4. CASE Crash \/ Drain
  BY <1>4, PendingStarted DEF Crash, Drain
<1>5. CASE Upgrade \/ UNCHANGED vars
  BY <1>5 DEF Upgrade, vars, PendingInv, AtWork, ToAnnotate
<1>6. ASSUME NEW s \in Services, Watch(s) PROVE PendingInv'
  <2>1. /\ UNCHANGED <<running, known>> /\ queue \subseteq queue'
        /\ s \in IngressNS => s \in queue'
    BY <1>6 DEF Watch, Passes
  <2>2. \A t \in Services : t # s => cache'[t] = cache[t] /\ events'[t] = events[t]
    BY <1>6 DEF Watch, Types
  <2> QED
    BY <2>1, <2>2, ServicesAssumption DEF PendingInv, AtWork, ToAnnotate
<1>7. ASSUME NEW s \in Services, Write(s) PROVE PendingInv'
  <2>1. PICK svc \in Stored : OthersPut(s, svc)
    BY <1>7 DEF Write, Stored
  <2> QED
    BY <1>7, <2>1, PendingPut DEF Write
<1>8. ASSUME NEW s \in Services, Maintain(s) PROVE PendingInv'
  <2>1. [svcs[s] EXCEPT !.value = ClusterValue] \in Stored
    BY <1>8, VersionAssumption DEF Maintain, Types, Service, Stored
  <2> QED
    BY <1>8, <2>1, PendingPut DEF Maintain
<1> QED
  BY <1>1, <1>2, <1>3, <1>4, <1>5, <1>6, <1>7, <1>8 DEF Next

\* Below 4.11 no router Service stays without the annotation unless the controller has
\* yet to hear of it or to get to it, for any number of Services, writers, conflicts,
\* upgrades and crashes: the safety core of AnnotationSettles.
THEOREM NoneForgottenSafe == Spec => []NoneForgotten
<1>1. Init => PendingInv
  BY DEF Init, PendingInv, ToAnnotate
<1>2. TypeOK /\ PendingInv => NoneForgotten
  BY Parts, ServicesAssumption
  DEF NoneForgotten, PendingInv, AtWork, CacheInv, ToAnnotate, IsVersionHigherThan
<1> QED
  BY <1>1, <1>2, TypeCorrect, PendingNext, PTL DEF Spec
================================================================================
