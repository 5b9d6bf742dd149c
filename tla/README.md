# A TLA+ verification of cloud-ingress-operator

The operator runs in OpenShift clusters on AWS and GCP. It reconciles two custom
resources: an `APIScheme` (the admin endpoint `rh-api`) and a `PublishingStrategy`
(the cluster's IngressControllers and whether `api.<cluster-domain>` is public). This
directory models it in TLA+, model-checks the models with TLC and proves the central
invariants with TLAPS.

## 1. Inventory

| Component | State | Operations | Talks to |
|---|---|---|---|
| PublishingStrategy controller (`controllers/publishingstrategy`) | none of its own between Reconciles; IngressControllers on the API server, a lagging cache of them | compare each listed ingress with its IngressController; create, delete and recreate, patch, annotate, hand over, unpublish | API server, cluster-ingress-operator (admits, cleans up, creates "default"), cloud client |
| Default API scope (`pkg/cloudclient/{aws,gcp}`) | load balancers, the A record, the masters' Machines, the ControlPlaneMachineSet (CPMS) | make public, make private; a background goroutine sets the CPMS active again | AWS or GCP, machine API |
| APIScheme controller (`controllers/apischeme`) | the APIScheme with status and finalizer, the Service, a metric | create and repair the Service, ensure or delete the DNS records | cloud client, the cloud provider's Service controller |
| Admin API DNS (`pkg/cloudclient/{aws,gcp}`) | a record in two zones, the load balancer of the Service | ensure, delete | AWS or GCP |
| RouterService controller (`controllers/routerservice`) | an annotation on router Services, a lagging cache of them, the work queue | set it below 4.11 | API server, cluster-ingress-operator (maintains it from 4.11 on) |
| Subnet selection (`getPublicSubnets` in `pkg/cloudclient/aws`) | subnets and route tables, as two loops of paged calls read them | find a public subnet for a new load balancer | AWS |
| Version, platform, credentials, metrics, manager | read at start or at each call | | |

The PublishingStrategy controller calls the default API scope as the last thing in its
Reconcile, through the interface `CloudClient`; the APIScheme controller calls the admin DNS
functions; the controllers share nothing but the API server. Each controller has one worker.

What is hard here:

- **Every decision is taken on a cache, every write goes to the server.** Writes differ in
  what protects them: `Update` carries a resourceVersion, `Patch` (MergeFrom) and
  `Delete` do not.
- **Work is cut into Reconciles.** A deletion and the recreation are in different ones,
  with edits, other operators and restarts in between, and every Reconcile starts with
  checks that may refuse what the previous one began.
- **Sequences of cloud calls** in which any call may fail, and which a retry starts from
  the top, with early returns that look at one of the effects only.
- **A goroutine nobody waits for**, which relies on a sleep: that within a minute the
  ControlPlaneMachineSet it deleted has been finalized, made again and seen by the cache.
- **Operations that GCP runs on** after the call returned: a rule or an address that is being
  deleted is still listed.
- **Version boundaries** (4.10, 4.11, 4.13) at which the rules change.

What makes each component correct: IngressControllers converge to the list, what is
listed is never removed as unlisted, what belongs to others is never touched, the
delete handshake with cluster-ingress-operator is armed; the API's record, load balancer,
Machines and CPMS agree with the wanted scope and a request for a private API is never
forgotten; the record never names an address the cluster gave back; a router Service's
annotation is that of whoever is in charge and nothing else of it changes; a wanted admin
endpoint is served, a deleted APIScheme goes away and takes its records with it. `PROJECT.json`
lists the hazards, each at its line with the properties that cover it.

## 2. Modules

### PublishingStrategy

`Reconcile`, cut at every call to the API server: `pc` names the call that comes next, and
the code between two calls belongs to the action of the first. `inst`, `base`, `owned`,
`i`, `target`, `snap`, `todo` are Reconcile's locals (`owned` is
`ownedIngressExistingMap`: "absent", "unverified" = FALSE, "verified" = TRUE). Reads come
from `cache`, writes go to `ics`; `Sync` brings the cache up to date. What the Reconcile
decides without a call are operators with the code's names (`validateStaticSpec`,
`generateIngressController`, ...), and `Verdict` is the loop body's choice of the next write.

An IngressController is a record of the fields the code compares. Names, domains,
certificates and selectors are opaque; `IngressName` is the first label of a domain and
`BaseDomain` the domains with the cluster's suffix. `Classic1800` is a Classic load
balancer with the idle timeout that 4.11+ sets. Where a read of the base domain fails,
`base` is FALSE and the suffix check holds for every name.

External, modelled from how the code uses it: the API server (merge patches per field,
conflicts of `Update` by comparison of whole objects, no new finalizer on an object that
is being deleted, empty selectors not stored), the informer, cluster-ingress-operator,
customers. `Fault` is any failed call or a restart: locals are lost, the request is
queued. `AliasScope` stands for the whole of ensureAliasScope, which Operator takes apart; its
failure is a `Fault`.

### APIScope

The abstract specification of `SetDefaultAPIPrivate` and `SetDefaultAPIPublic`: what is asked
(`listening`), whether a request waits (`owed`), what the running one works for (`goal`),
whether an external load balancer is there (`exposed`) and where the record points. It says
in which order load balancer and record change, and that a request to be private ends
only with a private API or with another request. A request to be public may be dropped
(`Skip`, `GiveUp`): both clients return success when the load balancer is there. `Settled`
is what follows.

### AWSDefaultAPI

`setDefaultAPIPublic` and `setDefaultAPIPrivate` at the grain of AWS and API calls, with
the goroutine of `getLoadBalancerRemovalFunc` as a process of its own. A load balancer is
a record of its name class, scheme, tags and whether it has the listener; ARNs are model
values and an ARN the record still names is not reused. `Goroutines` bounds how many
goroutines can exist at once (two: enough to see a second one). `Restart` is the end of the
process, by a crash or by the nil pointer the goroutine follows when the CPMS is not back:
it takes the Reconcile and all goroutines with it, and fills the cache anew.

Machines and the CPMS are read from the manager's cache (`machinesSeen`, `cpmsSeen`), which
`SyncMachine` and `SyncCPMS` bring up to date one object at a time, and written on the
server (`machines`, `cpms`). `DeleteCPMS` only marks the CPMS (`deleting`): it stays, active as
before, until `FinalizeCPMS` removes its finalizer, and no code looks at the mark.
`RecreateCPMS` then makes it again, inactive, as the comment in the code describes, from the
providerSpec of a master. `Replaced` says that this has come to its end. Two actors rely on it
without knowing: the goroutine, with its sleep of a minute, and the customer, who asks for a
private API again. Either may be early, and `late` counts how often one was; a property that
needs them to wait has `late = 0` as a premise.

`Scope` is the refinement mapping to APIScope: `Goal` is read off `pc`, `Exposed` is the test that
`setDefaultAPIPublic` makes.

### GCPDefaultAPI

The same for `pkg/cloudclient/gcp`: the forwarding rule `<cluster>-api`, the static address it
uses, the record in the public zone, target pools of the masters and of the CPMS, and the
goroutine. `rule` and `address` pass through the states of GCP's operations ("creating",
"deleting", "RELEASING"), which the code does not wait for except after the reservation
of an address. GCP refuses to delete a rule on which an operation runs, and to release an
address that a rule uses. Cache, deletion and `late` are as on AWS; `MaxFaults` bounds the
faults and the early steps together (`Troubles`). A failed update of a master is logged and the loop goes on, unlike
on AWS. In the mapping to APIScope a rule no longer counts once its deletion was accepted.

### AWSSubnets

`getPublicSubnets` in a VPC that others may change between its calls. A VPC is a list of
subnets, the tables they are associated with, the main table and the tables with an
internet gateway. The loops append every reply and go on while it carries a `NextToken`,
which they never send: `MaxTurns` bounds turns that cannot change what comes next.
`PublicSubnet` is the reference definition that `isSubnetPublic` is checked against.

### RouterService

`Reconcile` of the RouterService controller, cut between its Get (from the cache) and its
Update (with the resource version that was read; `stale` says that the server has a newer
one). `events` is the watch: what the informer has yet to deliver, in order. The event filter
(`Passes`) is the code's, the missing DeleteFunc included. `minor` is the cluster's version
and `known` the one the operator read when it started; `Drain` restarts it some time after
an upgrade.

### Operator

PublishingStrategy composed with APIScope. `Start` records the scope that Reconcile's instance
asks for, `SetDefaultAPI` takes the cloud client's steps while `pc` is "alias",
`ensureAliasScope` ends the call, and `OtherStep` is every other step of the controller, its
faults and its environment. The API's scope is the last thing in Reconcile, so what ends a
Reconcile before it holds the API back; `ImplementsScope` says that the composition as a
whole still keeps the promise of APIScope towards the customer.

### APIScheme

`Reconcile` of the APIScheme controller with the admin DNS functions of both clouds
(`Platform`). A Service is identified by its uid, after which its load balancer is named;
`dns` gives for each zone the uid whose load balancer the record names. Status is the state, the last message
and whether it was ever Ready; status updates conflict silently, as in the code. Route 53's
ten retries per call are one call. The `DnsUpdateError` case of the switch is not modelled:
nothing in the code constructs that error.

### MCPublishingStrategy, MCOperator

Small instances for TLC: two names ("default" and "apps2"), five domains of which one is
outside the base domain, two of one name, and a small set of lists per run. The other
modules are their own instances: their configurations give every constant its value.

### ...Proofs

Theorems and proofs of the module they are named after; see section 5.

Definitions named as slips (`...Unarmed`, `...Blind`, ...) stand beside the ones they
distort. No specification uses them; they serve to show that each property notices a
plausible bug.

## 3. Runs

`tlc -config <run>.cfg <module>` in this directory.

| Run | Module | Expect | What it shows |
|---|---|---|---|
| PSUpdates412 | MCPublishingStrategy | pass | 4.12, an edit of domain, scope, certificate and membership and an outside change or a fault, at any moment: armed handshake, unowned untouched, and convergence to exactly the list |
| PSHandover413 | MCPublishingStrategy | pass | 4.13, four edits that take the default off the list, put it back or ask for one that is refused: types, and convergence to exactly the list, the default handed over or taken back |
| PSEmptied413 | MCPublishingStrategy | violation | 4.13, everything taken off the list: the default is handed over and the second ingress, owned and unlisted, stays for ever |
| PSSecond412 | MCPublishingStrategy | violation | new domain for an existing second ingress: deleted, then refused |
| Operator413 | MCOperator | pass | 4.13 with handover, another domain, a refused list, edits of the API's scope and a fault: listed kept, the promise of APIScope kept by the whole operator, private in the end |
| AWSScope | AWSDefaultAPI | pass | two edits and one fault, outside change or early step: others' load balancers kept, APIScope implemented, private in the end; without fault and outside change no master left behind; without a fault no unclean CPMS made active; if nobody is early either, one goroutine, which ends with its work done, and a public API served |
| AWSSubnets | AWSSubnets | pass | every VPC of up to three subnets and tables, one change meanwhile: the choice is right, the search ends if the VPC fits on one page |
| GCPScope | GCPDefaultAPI | pass | two edits and one fault or early step: the record is reserved, APIScope implemented, private in the end; without a fault no master left behind and no unclean CPMS made active; if nobody is early either, one goroutine, which ends with its work done, and a public API served |
| SchemeAWS | APIScheme | pass | a wanted endpoint is served in the end and Ready is true when it is written, two edits, one outside change, one fault |
| SchemeGCP | APIScheme | pass | the same; deletion completes and leaves no record |
| Router410 | RouterService | pass | upgrade from 4.10 to 4.11 with writes, deletions and a crash: only the annotation is written, no Service is forgotten, and it settles |
| RouterForeign | RouterService | violation | a foreign Service that is deleted and made again is written to |

The runs' configurations are the constants of `*.cfg`; no run takes more than a few minutes.

Each violation is a disagreement between the code and a comment or message in it;
`findings` in `PROJECT.json` quotes both. For RouterForeign it takes a namespace other than
openshift-ingress that the operator watches: `WATCH_NAMESPACE` in
`deploy/50_cloud-ingress-operator.Deployment.yaml` names openshift-kube-apiserver too, where the
APIScheme controller deletes and recreates the Service of rh-api.

Other limits of the code that the model exhibits. A passing run shows each one when its
constants are changed, or the premise of the property is dropped, as stated:

| Run | Change | Property that then fails | Why |
|---|---|---|---|
| AWSScope, GCPScope | drop `late = 0` | `OneGoroutine` | private, public and private again before the CPMS is finalized: its deletion mark is not looked at, the cache shows it active, and a second goroutine starts |
| AWSScope, GCPScope | drop `late = 0` | `CPMSBack`, `GoroutineDelivers` | a goroutine that reads before the CPMS is back follows a nil pointer, the process restarts and nobody comes back to the work; one that reads the old, still active CPMS takes its work for done |
| AWSScope | two masters, `MaxTroubles = 2`, `CHECK_DEADLOCK FALSE`, drop `late' = 0 \/ drift' = 0` | `ReactivatedClean` | the CPMS that somebody deleted too is made again from a master not yet updated, while the cache shows the goroutine the clean one before it |
| AWSScope | drop `faults = 0` | `PublicServed`, `ExternalSettled` | after a failure between load balancer and record the retry finds the load balancer and returns |
| AWSScope | drop `faults = 0` | `MachinesSettled` | the load balancer is deleted before its name is taken off the masters; the retry does not see it any more |
| AWSScope | drop `faults = 0` | `CPMSBack`, `ReactivatedClean` | a crash ends the goroutine; a failed patch of the CPMS's load balancers is only logged |
| SchemeGCP | `"disable"` in `Edits`, `MaxEdits = 2` | `DeletionCompletes` | a disabled APIScheme returns before its deletion is looked at |
| SchemeGCP | `Platform = "AWS"` | `DeletionCompletes`, `DNSRemoved` | a lost load balancer is waited for; a record of an older one survives |
| PSUpdates412 | `Strategies <- DomainStrategies` | `Converges` | dropped from the list during the delete handshake, "default" keeps the operator's finalizer, which only the loop over the list removes, and hangs in deletion |
| PSUpdates412 | `Minor = 13`, `Strategies <- DomainStrategies`, `MaxEdits = 2` | `HandshakeArmed` | the handover overwrites the finalizers, and an older copy still shows the operator's |
| PSUpdates412 | `Minor = 13`, `Strategies <- EmptiedStrategies` | `Converges` | the early return that PSEmptied413 is about |
| PSHandover413 | `MaxTroubles = 1` with `MaxDrift = 1` or `MaxFaults = 1` | `Converges` | a default deleted by hand, or a foreign domain that passes while the base domain cannot be read, begins the delete handshake; a list without the default then strands it as above |

More are visible in the actions and have no property of their own:

- An IngressController replaced by a native one of the same name between `List` and
  `UnpublishDelete` is deleted by name.
- When the base domain cannot be read, a default of a foreign domain passes the check.
- A list that is refused or denied also keeps the API's scope as it is: `ScopeServed` excepts it.
- GCP: a failed listing is taken for a deleted forwarding rule (`EnsureDNS`) and a working
  Service is recreated. After a failed release of the external address the retry finds the
  record right and returns, so that the address stays reserved. A master whose update failed
  keeps its target pool: `MachinesSettled` excepts faults. A request to be public that meets a
  rule still being deleted succeeds without doing anything; only the resync repairs it.
- AWS: a VPC with a second page of subnets or route tables keeps the worker for ever;
  `Returns` excepts it. A VPC that changes during the search may give a wrong choice;
  `SelectionRight` excepts it.

**Bounds.** Every counter is a constant: `MaxEdits` (customer's edits), `MaxDrift` (what
others do), `MaxLate` (uses of a CPMS that is not replaced yet), `MaxFaults` (failed calls,
restarts). `MaxTroubles` bounds drift, early steps and faults together (on GCP, where there is no
drift, `MaxFaults` does). One edit during a Reconcile
already exposes a Reconcile to a list that changed under it, and the initial states add a
second change (the cluster is as *some* list left it, the strategy asks for any). One drift
or one fault can fall between any two calls. Two edits of the scope, with an initial state
that asks for either, are a toggle to public and back beside the goroutine that the first
Reconcile left; one early step is what it takes for each of the limits above. PSUpdates412 has
an edit and an outside change or a fault; PSHandover413 has edits alone, since anything that goes
wrong during a handover may strand the default (table above); Operator413 has an edit, of the list
or of the API's scope, and a fault. AWSScope and GCPScope have two edits and one thing that goes
wrong, of any kind: the interplay of several, for the properties that are proved, is what the
proofs cover. They have one master, to stay small: an update of the masters may still be cut off
before or after it, and `MachinesSafe` is proved for any number; two `Goroutines` are
enough to see a second one; four
UIDs leave one for a new Service whatever the records and the cache still refer to
(`UIDsAssumption`). Two IPs let a new reservation give another address.
In AWSSubnets `PageSize` is 2, so that a VPC of three is two pages, and one turn of a loop
with a token shows what all of them do. Three writes of others let a Service be deleted and
made again between a Get and an Update, or change its type and back.
`MaxRetries` is 1 instead of 5: the one failure of a run is followed by a last attempt; the
theorems are for any number. The runs of
APIScheme, RouterService and AWSSubnets do not check for deadlock: once the APIScheme is gone, the queue
empty or the search over, nothing needs to happen.

**Fairness.** Weak fairness of `Reconcile` (the work queue is served and calls return), of
the watch (`Sync*`), of the other operators' work (`ClusterAdmit`, `ClusterCleanup`,
`ClusterCreateDefault`, `Maintain`, `Provision`, `CleanupService`, `FinalizeCPMS`,
`RecreateCPMS`), of GCP's
operations and of each goroutine. Faults, edits and drift have none. Further assumptions are
stated where they are used:

- `LiveSpec` adds the periodic resync of the informers, since the controller does not
  watch IngressControllers, and strong fairness of winning the race for "default"
  ("hopefully before cluster-ingress-operator did" in the code).
- `Backoff` (PublishingStrategy) and `Patience` (APIScheme): the growing delay of the rate
  limiter, and the waits of 60 seconds, are long enough in the end for the cluster to settle
  before a Reconcile begins. They are premises of the liveness properties.
- GCPDefaultAPI has the resync too (every ten hours): without it `PublicServed` fails, because
  of the early return on a rule that is being deleted. AWSDefaultAPI does without.
- RouterService: `Drain`. An upgrade of the cluster reboots its nodes, and the operator with
  them, so that it learns the new version.
- `LostWhenReady`: a premise of `EndpointServed`. On AWS a load balancer lost before the
  first success is taken for one still being made.

## 4. Properties

- `HandshakeArmed`: the Delete of a mismatched "default" finds the operator's finalizer.
- `ListedIsKept`: nothing the running list asks for is unpublished or disowned.
- `UnownedUntouched`: a second IngressController that was not owned in the List is not written to.
- `Converges`: in the end the IngressControllers are what the list says, nothing the operator
  owns is unlisted, and both stay so, unless the list is one that Reconcile refuses. "What
  the list says" is measured with the code's checks: a field hidden by
  the early end of `validatePatchableStatus` is not seen. `RemainingDeleted` is its second half
  alone, as a comment in the code promises it for an emptied list.
- `OneGoroutine`: at most one goroutine works on the CPMS, whatever fails, crashes or is deleted by
  others, as long as the API is not made private again, and no goroutine wakes, before the CPMS was
  replaced (`late = 0`). `OthersKept`: nobody else's load balancer is deleted.
- `MachinesSettled`: a client at rest has left no master behind. `ReactivatedClean`: no CPMS that lists
  a removed load balancer is made active. Both are for runs of the client in which no call failed (on
  AWS `MachinesSettled` also wants nobody else to interfere), and hold however old the cache is and
  however early the goroutine or the customer.
- `PrivateServed`: the API becomes private, whatever fails. `PublicServed` and `CPMSBack`, with their safety
  cores `ExternalSettled` and `GoroutineDelivers`, hold when nothing failed, nobody interfered and the CPMS
  was replaced in time. `ExternalSettled` is proved and has no run. On GCP there is no such property: the early return may take a rule that
  is being deleted for one that serves.
- `RecordReserved`: the record never names an address that was released.
- `ImplementsScope`: the refinement of APIScope by each cloud client and by the composed
  operator. `InternalSettled`: when no request waits or runs, an API that is to be private is;
  `ScopeSettled` says it of the composed operator. Both follow from the refinement by a
  theorem (`SettledAlways`), so the runs check the refinement only.
- `ScopeServed`: the composed operator makes the API private, unless the list is refused.
- `SelectionRight`, `Returns`: subnet selection. Its `TypeOK` is proved and has no run.
- `OnlyAnnotation`, `AnnotationSettles`, `ForeignUntouched`: the RouterService controller.
  `NoneForgotten`: a router Service without its annotation has an event, a request or a
  Reconcile on its way.
- `EndpointServed`, `DeletionCompletes`, `DNSRemoved`: the admin endpoint. `ReadyTruthful`: when
  the status turns Ready, both records name the Service that was read, and that one had the
  settings and the access list the APIScheme still has.

## 5. Proofs

`tlapm <module>.tla`. All constants are arbitrary, under the ASSUMEs of the
modules (names, types and that null values are not ordinary ones).

- `PublishingStrategyProofs!TypeCorrect`: `Spec => []TypeOK`. `TypeOK` is inductive: its last
  conjuncts tie `pc` to the index and to the copy.
- `HandshakeSafe`: `Spec => []HandshakeArmed` for `Minor < 13`. The inductive invariant
  `HandshakeInv` is needed because the decision is taken on an old copy: it says that a copy
  of "default" with the Cloud finalizer that is not being deleted implies that the server's
  object has the finalizer, since below 4.13 only `RemoveFinalizer` takes it off, and only from
  an object that is being deleted. For 4.13+ the statement is false (section 3).
- `ListedSafe`: `Spec => []ListedIsKept`, through `MapInv`: every entry the loop has passed is
  verified in the map, and what is known of it is kept to the end.
- `UnownedSafe`: `Spec => UnownedUntouched`, from the same `MapInv`: whatever the Reconcile is
  about to write is "default" or an entry of the map.
- `AWSDefaultAPIProofs!TypeCorrect`: `Spec => []TypeOK`.
- `OthersSafe`: `Spec => OthersKept`. The list is old when `DeleteNLB` runs; that the load balancer is
  still the operator's follows from `ArnInv` (tags of one that is deletable do not change) and
  `OwnInv` (nobody touches the internal one, and what is named -ext is the operator's).
- `ScopeImplemented`: `Spec => ImplementsScope`. `ScopeInv` is `BaseInv` (types, and that at most one
  deletable load balancer exists), `OwnInv` and `LoopInv`: every load balancer that is to be
  deleted is still ahead of the loop, so that none is left when the record turns inwards.
- `SettledSafe`: `Spec => []InternalSettled`, from `ScopeImplemented` and `APIScopeProofs!SettledAlways`
  (`Spec => [](TypeOK /\ Settled)`), instantiated with the same mapping.
- `SingleGoroutine`: `Spec => []OneGoroutine`. `OffInv`, which holds while `late = 0`, says that the CPMS is off or
  being deleted while a goroutine runs, and what a Reconcile may then read: either the CPMS and the
  cached one are both off, or there is nothing to delete and so no goroutine to start. It is
  inductive because a new external load balancer comes only with a toggle, and a toggle back is late
  unless the CPMS was replaced.
- `MachinesSafe`: `Spec => []MachinesSettled`, for any `late`. The order of the argument: `PassedInv` (a cached
  list of masters names the load balancer wherever a Machine does, and the masters the loop has passed are
  clean), then `DirtyInv` (a master lists the load balancer only until the Reconcile that deletes it is
  done, and the cache never hides a CPMS that lists it behind a clean copy). A panic of the goroutine ends
  a Reconcile without a fault; that a goroutine runs only on clean masters (`StartInv`) makes it harmless.
- `ReactivationClean`: `Spec => ReactivatedClean`. `CleanInv` adds `NamesInv` (who may list which names); `CopyInv`
  says that what the goroutine read lists the load balancer if the CPMS does, and that the CPMS is clean
  past its first patch. With cached reads this needs the last part of `DirtyInv`, or that the goroutine
  was not early: hence `late' = 0 \/ drift' = 0`.
- `ExternalSafe`: `Spec => []ExternalSettled`, and `DeliverySafe`: `Spec => GoroutineDelivers`. `PublicInv` is
  `ListenerInv` (a load balancer has its listener and the record but for the moment in which it is made),
  `WorkInv` (a request for a public API that no longer waits is at work or has found one) and
  `DeliverInv` (past its sleep the goroutine has a CPMS that stays and is cached, and its copy is
  inactive).
- `GCPDefaultAPIProofs`: `TypeCorrect`, `RecordSafe` (`Spec => []RecordReserved`), `ScopeImplemented` and
  `SettledSafe` rest on `IInv`. Its `CallInv` says what the Reconcile knows
  at each call: an address it reads is reserved, a rule it made is still there when the
  record turns outwards, none is exposed when it turns inwards, and the record is internal
  before the address is released. `RecordReserved` is not inductive without it.
  `SingleGoroutine` (`OffInv`, for `late = 0`), `MachinesSafe` and `ReactivationClean` (`PassedInv`, `DirtyInv`,
  `CopyInv`, for `faults = 0`) and `DeliverySafe` (`DeliverInv`, for both) follow the AWS proofs.
- `OperatorProofs!ComposedListedSafe`: `OperatorSpec => []ListedIsKept`: each step of the composition
  is one of the controller or a stutter. `ComposedScope`: `OperatorSpec => ImplementsScope`, through
  `GoalInv`, which ties `goal` to the calls before ensureAliasScope. `ComposedSettled`:
  `OperatorSpec => []ScopeSettled`, from the refinement and `APIScopeProofs!SettledAlways`.
- `APISchemeProofs!TypeCorrect`: with `FoundInv` and `LbsInv` (the only load balancer is the Service's),
  needed to show that an identity is left for a new Service. `DNSSafe`: `Spec => []DNSRemoved`
  for `Platform = "GCP"`; on AWS it is false (section 3). `ReadySafe`: `Spec => ReadyTruthful` on both
  platforms, through `FitInv` (from the DNS calls on, the copy of the Service fits the copy of the
  APIScheme, and a record that was made stays) and `OnlyReady` (no other step writes that status).
- `RouterServiceProofs!TypeCorrect`: `TypeOK` is inductive; it says that the server's object is the last
  event or the cached copy, and that a copy which is not stale is the server's.
  `AnnotationSafe`: `Spec => OnlyAnnotation`. `NoneForgottenSafe`: `Spec => []NoneForgotten`, through
  `PendingInv`, which speaks of the cached copies: what they show to be wrong is asked for, at work or
  out of date.
- `AWSSubnetsProofs`: `TypeCorrect` and `SelectionSafe` (`Spec => []SelectionRight`), for VPCs and pages of any
  size. `ReadInv`: in a VPC that nobody changed, a loop that is left got everything with one
  reply. `SubnetTable` is a choice of the last table that names the subnet; each subnet has one at most,
  so what the search returns needs no induction over the list of tables.

The premises `faults = 0`, `drift = 0` and `late = 0` are not assumptions: the theorems are about every behaviour,
and say nothing more of one once something failed or was early, because there the code gives no such
promise (section 3).

Only model-checked: all liveness (`Converges`, `ScopeServed`, `PrivateServed`, `PublicServed`,
`CPMSBack`, `EndpointServed`, `DeletionCompletes`, `AnnotationSettles`, `Returns`), since fairness is out of the
prover's reach. Of those of the API's scope, of the admin endpoint and of the annotation the
safety cores above are proved.

## 6. Not modelled

Parsing of versions, credentials, install-config and provider IDs; the wiring of the manager,
the metrics server and the health endpoint; generated code and tests. Listings of forwarding
rules, addresses and record sets on GCP are complete in the model (the code reads one
page). A version that changes while the PublishingStrategy controller runs (`Minor` is a
constant there; RouterService has the upgrade). Nil pointers inside IngressControllers whose
strategy is not a load balancer. DNS names without a period. What is left of these files is
data conversion without control of its own.

## 7. Plan

1. Done: PublishingStrategy, AWSDefaultAPI, APIScheme, GCPDefaultAPI, AWSSubnets, RouterService; APIScope
   and its refinement by both cloud clients and by the composed Operator; their runs; every
   invariant and action property of a passing run as a theorem.
2. Field-level convergence (what `FieldToPatch` hides), runs with empty selectors and on GCP.
3. Proofs: the safety core of `Converges` (what a Reconcile that ends without an error and without a
   change of others leaves right), and that a wanted APIScheme is always polled.
