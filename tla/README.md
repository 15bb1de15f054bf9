# A TLA+ model of kranix-core

kranix-core is the control plane of the Kranix platform: an HTTP API puts
workloads into a store, and one reconcile loop turns them into calls of runtime
drivers, guarded by policy, quotas, a circuit breaker, warm standbys, health
gates and a rollout strategy. These modules model that core as the code does it,
TLC checks them on small instances, and TLAPS proves most of their safety
properties for all values of their parameters.

`PROJECT.json` maps each definition to the lines it models, and lists the runs,
the mutants that show each property has teeth, the hazards, the findings and the
theorems.

## 1. Inventory

### Components, their state and their operations

| Component (source) | State | Operations | Modelled by |
|---|---|---|---|
| Reconcile loop (`internal/reconciler`) | none of its own; works on pointers it got from `List` | `Start` (ticker), `reconcileAll`, `reconcileOne` | Core, and one aspect each in CircuitBreaker, WarmStandby, Rollout, Dependencies |
| Memory store (`internal/state/store.go`) | map ID → pointer, watcher channels | `Get`, `List`, `Create`, `Update`, `Delete`, `Watch` | Core, EventLog, RollbackHistory |
| Workload API (`internal/server`) | none | create, bulk deploy, restart, delete, rollback, events, secret rotation, quotas; list, search, diff | Core, RollbackHistory, EventLog |
| Policy (`internal/policy`) | configuration | `Validate`, `Enforce` (no caller) | Admission; EventLog (the default limits it writes into the workload) |
| Hard quotas (`internal/resourcequota`, `internal/quotaaggregate`) | limits per namespace and team | `Enforce`, quota API | Admission (`Enforce`), Core (set and delete) |
| Scheduler (`internal/scheduler`) | drivers, node registry | priority rank, `Schedule`, node filtering, cost-aware placement, `RequestRollingRestart` | Admission, Core, Placement, Rollout |
| Circuit breaker (`internal/circuitbreaker`) | `Status.CircuitBreaker` of each workload | `SyncFromWorkload`, `AllowRoute`, `RecordRouteAttempt` | CircuitEngine, CircuitBreaker |
| Warm standby (`internal/warmstandby`) | a second workload `<id>-standby`, `Status.WarmStandby` | `EnsureColdStandby`, `Promote`, `ShouldAutoPromote` | WarmStandby |
| Secret rotation (`internal/secretrotation`) | versions seen, dependents per secret | `IndexWorkload`, `HandleRotation` | Core |
| Rollback history (`internal/rollouthistory`, `internal/state/versioned_store.go`) | `RollbackVersions`, `Status.Rollback` | `RecordInitial`, `RecordBeforeUpdate`, `Revert` | RollbackHistory (the history), Core (rollbacks beside the loop) |
| Event sourcing (`internal/eventsourcing`) | list of events per aggregate, subscriptions | `Append` and the `Record…` functions, `GetEvents`, `Subscribe`, `CleanupOldEvents` | EventLog |
| Rollout manager (`internal/rollout`) | none | five strategies, each a list of `Schedule` calls | Rollout |
| Health gates (`internal/healthgate`) | none | `EvaluateHealthGates`, `executeCheck` | Rollout |
| etcd store (`internal/state/etcd.go`) | keys in etcd, a mutex, a watch channel | as the memory store, but hands out copies | EtcdStore; as "copies" in CircuitBreaker, RollbackHistory, Rollout |
| Autoscaler (`internal/autoscaler`) | none | rounds: list, decide from metrics, write replica counts back | Core, RollbackHistory (its write-back) |
| Dependency resolver (`internal/dependency`) | none | `ResolveDeploymentOrder`, `CheckDependencies`, `WaitDependencies` | DeployOrder, DependencyOrder, Dependencies |
| Event bus (`internal/eventbus`) | a slice of channels per event type, a mutex | `Subscribe`, `Unsubscribe`, `Publish`, `PublishAsync` | EventBus |
| Multi-tenancy, failure prediction, drift detector, cron, postgres, plugin registry, node and migration API, filters and paging | | | not modelled, see section 7 |

### How they interact

The API handlers, the reconcile loop and the autoscaler are goroutines that
share the store.
The memory store's lock protects the map and not the objects: `Get` and `List`
return the stored pointers, both sides change objects without a lock, and
`Update` stores whatever pointer its caller holds. One goroutine runs all
passes, one workload after the other, in the order of `WorkloadSchedulingRank`.
A pass of `reconcileOne` runs custom controllers, policy, quota, circuit sync
and a store update, promotion of the standby, `EnsureColdStandby`, secrets and
a possible rolling restart, cron, `AllowRoute`, and, for a Pending workload, the
rollout and `postSchedule`. Store writes are recorded in the event log.

### What is hard

* stale pointers: a pass, a restart or a rotation writes an object back that a
  client has replaced or deleted (Core);
* checks at the start of a pass and effects at its end and after it, while
  quotas change, the autoscaler adds replicas and rollbacks write old specs into
  objects that run (Core);
* changes of the stored object that no `Update` follows, so that nothing records
  them (EventLog);
* marks that are set and reset by different goroutines (Core: pending restarts);
* two syncs of the breaker in one pass, deadlines against reports, and counters
  that are kept with the memory store and lost with etcd (CircuitBreaker);
* two workloads, each with passes of its own, that share one standby object
  (WarmStandby);
* a rollout of several driver calls that fails or crashes half-way and starts
  over on an object it has already changed (Rollout);
* long sequences of redeploys and rollbacks (RollbackHistory), and a log that is
  cleaned up while it is read and subscribed to (EventLog);
* a slice that publishers read without the lock under which it is rearranged,
  and sends that wait (EventBus);
* waits with a deadline for workloads that come up, fail, recover and have their
  circuits synced by the very act of asking (Dependencies);
* a mutex that one operation takes twice (EtcdStore).

## 2. Modules

* **Admission** – `policy.Validate`, `resourcequota.Enforce` and the scheduling
  rank as operators on the fields of a spec that they read. `deployOne` stores
  every workload in the namespace `default` without tags, labels or tenant, so
  the only quota that can apply is that of `default`, and required tags reject
  everything.
* **Core** (EXTENDS Admission) – memory store, API handlers, rollbacks, secret
  rotation, quota requests, autoscaler and the loop. `heap` is the sequence of
  `types.Workload` objects allocated, `store` maps an ID to an index of it, `rec`
  is the loop (its program counter, what is left of the listed pointers, the
  pointer it works on), `req` the handlers, `scaler` the round of the autoscaler,
  `limits` the quota of the namespace. `kept` is what a workload can be rolled
  back to: the revisions of each object, as a set, any of which a client may name.
  A step ends where a goroutine takes the store's lock or calls a driver; a round
  of the autoscaler has three (the count is read and metrics are asked for, the
  new count is set in the shared object, `Update`). A spec is what clients submit;
  the default limits and the winner's image that passes write into it are in
  EventLog. `runtime` is what drivers deployed; `accepted`, `grant` and the fields
  `owed` and `restored` are history variables. `grant` is the limit that applied at
  the last admission, what the autoscaler and rollbacks have added since, and
  whether somebody other than the loop wrote a replaced object back; it lasts until
  the next admission, or until the next `List` if an object was written back.
  `restored` marks an object whose spec a rollback wrote and no pass has admitted
  since.
* **CircuitEngine** – the breaker as operators on a status record;
  **CircuitBreaker** – one workload under the loop with it, the runtime's
  reports, redeploys and time. `openUntil` counts the ticks that are left.
  `live` distinguishes memory store and etcd.
* **WarmStandby** (EXTENDS CircuitEngine) – a primary and its standby, the
  passes of both, redeploy, delete, reports, time.
* **Placement** – `filterNodes`, `selectCheapestNode` and the pinning of the
  chosen node. **Rollout** (EXTENDS Placement) – `ExecuteRollout`: the gate,
  then the strategy's `Schedule` calls one by one, any of which may fail, with
  redeploys and crashes of core between the calls.
* **RollbackHistory** – one workload behind a `VersionedStore`: redeploy,
  rollback by ID and by default, delete, and a holder that writes back what it
  read earlier. A spec is a pair: the fields that `specsEqual` compares, and the
  rest.
* **EventLog** – the events of one workload, with the store operations that
  record them, clean-up, a client that pages through the log with any of the
  limits in `Limits` (none when not positive) and a bounded subscription. Specs
  live in cells, because the log keeps pointers to them. A holder takes the stored
  pointer. A rollback or the autoscaler changes the spec (`Change`) and calls
  `Update`; a pass may fill in default limits or take over an image (`Amend`) and
  then call `Update` or return without (`EndWithoutUpdate`). `unrecorded` are the
  objects changed in place since an event last had their spec.
* **DeployOrder** – what `ResolveDeploymentOrder` promises: an order that grows
  by workloads whose dependencies are in it, and ends complete or with the
  verdict "circular". **DependencyOrder** – Kahn's algorithm and the depth-first
  search for a cycle as the code has them, over lists of dependencies with
  repeated, self and unknown entries; it refines DeployOrder.
  **Dependencies** (EXTENDS DependencyOrder, CircuitEngine) – a client that
  deploys in that order, with `WaitDependencies` before each workload, beside
  the loop and the runtime. `at` is the position of the workload deployed last.
  `main` does not call the resolver; this client is what the repository's README
  describes.
* **EventBus** – the slice of subscribers of one event type as header and backing
  array: `append` in place or into a new array, `Unsubscribe` shifting element by
  element, and publishers that go through the array with no lock.
* **EtcdStore** – the operations of the etcd store with its `RWMutex` and the
  channel of a watcher.
* **MC…** give values to the constants. **…_proofs** hold the theorems:
  one module per model, History_proofs for RollbackHistory and EventLog together,
  and CircuitEngine_proofs the lemmas about the breaker that three of them share.

Operators marked as mutants are wrong variants of the definition they precede.
They are used by no specification.

## 3. Runs that pass

| Run | States | Question | What it shows |
|---|---|---|---|
| `core` | 505 766 | Can interleavings of handlers, rollbacks, autoscaler and loop bring back what was deleted, run what was rejected, exceed the quota, forget a restart, or keep the loop from coming to rest? | `NoResurrection`: only `Create` fills an empty slot. `RejectedNeverRuns`: the loop lets nothing run that policy rejects; only a rollback does (section 4). `RunningWithinQuota`: from an admission to the next, through the pass and after it, the one goroutine of the loop makes check-then-act safe, up to the replicas that the autoscaler and rollbacks add and except when somebody writes a replaced object back. `RotationRestarts`: a marked workload is restarted after its mark, but for one race (section 4). `ComesToRest`: every admissible workload ends Running with no restart pending. |
| `circuit` | 1 260 | Are counters, deadline and state of a circuit consistent under any reports, in both stores? | `CountersMatchState`, `NoRouteDuringCooldown`, `ProbeBudget` (memory store), and the two promises of a breaker: `HealthyCloses` and `FailedIsCutOff`. |
| `standby` | 4 036 | Does a standby take over, and give back? | `StatusMatchesStandby`, `FailoverCompletes` (deployed at full size in the end), `FailbackWantsCold` (spec back to zero). |
| `rollout` | 12 851 | What is left after failed, crashed and repeated rollouts? | `RunningIsComplete`, `BlockedKeepsOld`, `PlacedWithinBudget`, and `RolloutsEnd`. |
| `history` | 496 007 | Is the history sound after any sequence of writes? | `Bookkeeping`, `UndoAvailable`, `RollbackKeepsHistory`. |
| `eventlog` | 1 017 601 | Does the log agree with the store, and can a client read it without loss? | `LogInOrder`; `LogTellsState`: the last of the store's events has the stored spec unless the stored object was changed in place and not written back since, and old and new specs chain where the old object was never changed in place; `PagesExact`, `NoGapAfterCatchUp`. |
| `dependencies` | 204 412 | Is the deployment order right for every small graph, and does following it with waits work? | `ImplementsDeployOrder` (refinement), `CycleReported`: what is reported is a cycle of the graph. `OrderSuffices`: no wait times out without a failure or a missing dependency. `StartsOnSatisfied`, `DeploymentEnds`. |
| `eventbus` | 79 799 | What does a publisher without a lock see? | `ListExact`: between updates the list is exactly the open channels, in the order of subscription. `PrefixServed`: subscribers before a removed one are offered the event exactly once (`PublishAsync` drops it when the buffer is full). `CallsReturn`: a stuck `Publish` blocks nobody else. |

### Bounds

* Core: two IDs, two handlers, three requests, a spec of one replica and a
  rejected one of two, a quota of one that can be raised to two or deleted, one
  round of the autoscaler on the small spec (one to two replicas). Three requests
  let each pair of handlers overlap with a pass and with a third change (deploy,
  replace, deploy beside it; deploy, rotate, delete; deploy the rejected spec,
  replace it, roll back to it). Each exception of `RejectedNeverRuns` and
  `RunningWithinQuota` occurs: without it TLC finds the property violated. The
  secret starts unseen or seen once, so one request is enough for an effective
  rotation. The metrics take every outcome, but only an increase changes the count
  in this instance; a decrease only lowers what the quota counts. `core_desired`
  needs one ID, one handler and two requests, with an admissible spec of two
  replicas.
* CircuitBreaker: thresholds 3 and 3, cool-down 2, two probes. The
  thresholds are odd, so that a pass with its two syncs can stop just short of
  them, and they come from all three sources (default, configuration, spec).
* WarmStandby: standby of 2 for a primary of 1, thresholds 3 and 2, so that the
  replica counts are told apart and the two syncs do not trip in one pass.
* Rollout: four nodes (three of the default registry with costs, one without),
  eight submissions covering each strategy, gate mode and preference and, because
  no policy checks them, a negative replica count with a share of 150; four
  disturbances (redeploys and crashes).
* RollbackHistory: three versions kept, six writes: the history overflows.
* Dependencies: every list of workloads and every graph of three IDs with at most
  two entries per list and three in all (a cycle through all three, a repeated
  entry, a diamond's half), one ID per kind of condition, one slow tick, one
  failure, waits of three and four ticks: a circuit trips, cools down and closes
  within a wait.
* EventBus: three subscribers, so that `append` works both in place and with a
  new array, one removal, one caller of each kind, buffers of one.
* EtcdStore: two goroutines and two calls.
* EventLog: three events, two specs (symmetric: no definition tells them apart), an
  age of one tick, a channel of one, pages of one event and without a limit:
  clean-up empties the log and the channel overflows.

### Fairness

Weak fairness for the loop and for time: the ticker fires for ever and
`reconcileAll` visits every stored workload. Weak fairness for handlers: they
run to their end and wait for nobody. Strong fairness for a successful driver
call (and for a health check that passes): a driver asked again and again
succeeds once. This is not in the code but is what a retry loop relies on;
without it no deployment need ever succeed. Nothing is assumed of clients, and
the reports of a runtime are free except where a property says that a phase
lasts. In WarmStandby a pass that is due and whose driver succeeds is weakly
fair. In Dependencies the client, the loop and the arrival of replicas are weakly
fair, recovery from a failure is not. In EventBus every goroutine that can go on
does, but no subscriber has to receive and no context has to end.

## 4. Runs that find a disagreement

| Run | The documentation | The code |
|---|---|---|
| `core_desired` | README: observe, compare, diff, apply | A redeploy during a pass is overwritten by the pass's pointer; the old spec is marked Running and no diff is ever made. |
| `standby_promotion` | README: the standby is scaled when the circuit opens | `EnsureColdStandby` sets it back to zero in the same pass while the primary still reports Running. |
| `rollout_placement` | README: architecture and draining filter the nodes | The first placement pins a selector no node carries; the next `Schedule` falls back to all nodes. |
| `etcd_delete` | etcd.go: "Delete removes a workload" | `Delete` holds the write lock and calls `Get`, which waits for the read lock: it never returns, and neither does any later call of the store. |

Met while modelling, without a run of their own:

* a rotation that marks a workload between the driver call of a restart and its
  reset of `pending_restart` is lost; `RotationRestarts` names this exception;
* `deployOne` stores a fresh object, so after a redeploy the history holds only
  the spec just replaced, and not the last `max_versions` ones as the
  repository's README says; `UndoAvailable` states what holds;
* `WorkloadUpdated` points to the live old spec, so events that the README calls
  immutable change; for the old spec of an update `LogTellsState` leaves out objects
  changed in place;
* a rollback asks neither policy nor quota. Deploy a spec that policy rejects,
  replace it, wait until the replacement runs and roll back: the workload is marked
  Running with a priority that the repository's README says policy validates. The
  passes that reject it leave it Running. `RejectedNeverRuns` names this exception,
  and `RunningWithinQuota` counts the replicas that rollbacks and the autoscaler add;
* `Validate` writes default limits into the stored object. A pass that policy or
  quota then stops returns without `Update`, and so does an A/B rollout that fails
  after it took the winner's image over: no event has the spec that the store holds,
  and a replay of the log ends at another one. `LogTellsState` names this exception;
* the autoscaler raises replicas without asking the quota, leaves the phase
  Running, so that no pass deploys the new count, and never reads its cool-downs;
* `Publish` can send on a channel that `Unsubscribe` closes, which panics, and
  can serve one subscriber twice and another not at all;
* with etcd, `List` of a namespace asks for a key prefix that no key has, so
  quotas see no peers, and a watcher is never told of a deletion made elsewhere;
* the transition of the second sync (inside `AllowRoute`) is never announced; an
  unreadable gate timeout means 0 and not the default; TCP, command and
  Prometheus checks always pass; a rollback leaves the phase Running, so the
  restored spec is not rolled out; a cost limit that `parseCost` cannot read, such
  as `$0.50`, counts as none; a resolver built without a circuit engine dereferences
  nil when a dependency is missing from the memory store; a cron workload runs once, and a suspended one
  skips the cron gate; `CleanupOldEvents` has no caller.

## 5. Proofs

Every theorem holds for all values of the constants that satisfy the named
assumptions of the modules. These are types (`CoreAssumption`,
`AdmissionAssumption`, `StandbyAssumption`, `HistoryAssumption`,
`EventLogAssumption`, `DependenciesAssumption`, `RolloutAssumption`, `ConfigAssumption`) and little
more: finitely many IDs (`OrderAssumption`) and goroutines
(`EventBusAssumption`), and in `PlacementAssumption` that a node has an ID and
that entries of the registry with one ID cost the same, because `GetNodeCost`
takes an ID. Counts that come from JSON or YAML are integers, zero and negative
ones included (limits of the breaker, replicas in Core, replicas, counts and
shares in Rollout); an overflow of their 32 bits is not modelled. The bounds
that keep TLC's instances finite are constants too: the theorems hold for every
bound. Two theorems have a hypothesis on the constants, because their properties
are not meant for all of them: `QuotaHolds` asks for specs without negative counts
(`NonNegative`), which policy would let pass, and `NobodyWaitsInVain` for workloads
that come up before the shortest wait is over and that ask for a replica where
somebody depends on their health (`Timely`). The instances of the runs satisfy
both, which TLC checks. Each inductive invariant was first checked by TLC on the instance of its
run.

| Module | Theorems | Properties |
|---|---|---|
| Core_proofs | `TypeCorrect`, `NeverRuns`, `RotationCarriedOut`, `DeletedStaysDeleted`, `QuotaHolds` | `TypeOK`, `RejectedNeverRuns`, `RotationRestarts`, `NoResurrection`, `RunningWithinQuota` |
| CircuitBreaker_proofs | `TypeCorrect`, `CountersAgree`, `CooldownRespected`, `ProbesBounded` | `TypeOK`, `CountersMatchState`, `NoRouteDuringCooldown`, `ProbeBudget` |
| WarmStandby_proofs | `TypeCorrect`, `StatusTellsStandby` | `TypeOK`, `StatusMatchesStandby` |
| Rollout_proofs | `TypeCorrect`, `RunningMeansRolledOut`, `GateKeepsOld`, `BudgetHolds` | `TypeOK`, `RunningIsComplete`, `BlockedKeepsOld`, `PlacedWithinBudget` |
| History_proofs | `TypeCorrect`, `HistoryKept`, `UndoStaysAvailable`, `RollbackLosesNothing` | `TypeOK`, `Bookkeeping`, `UndoAvailable`, `RollbackKeepsHistory` |
| | `LogTypeCorrect`, `LogOrdered`, `LogTells`, `PagesExactHolds`, `CatchUpComplete` | `LogTypeOK`, `LogInOrder`, `LogTellsState`, `PagesExact`, `NoGapAfterCatchUp` |
| Dependencies_proofs | `TypeCorrect`, `CyclesAreReported`, `SortImplementsDeployOrder`, `StartIsSatisfied`, `NobodyWaitsInVain` | `TypeOK`, `CycleReported`, `ImplementsDeployOrder`, `StartsOnSatisfied`, `OrderSuffices` |
| EventBus_proofs | `TypeCorrect`, `SliceIsExact`, `PrefixIsServed` | `TypeOK`, `ListExact`, `PrefixServed` |

### The arguments

**Core.** `RejectedNeverRuns` speaks of the phase, which the loop sets at the end
of a pass, while a rollback may change the spec of the very object the pass works
on. So `RecOK` adds that a pass beyond admission holds an object whose spec policy
admits or a rollback wrote since (`restored`), and `ReqOK` that a handler about to
write holds an object. All steps but a deploy, an admission and a rollback keep
specs and these marks (`SameObjects`). The revisions have an invariant of their own
(`KeptOK`), needed for the type of what a rollback restores. `RotationRestarts`
speaks of the states at rest; `OwedIsPending` says at all times that a restart
that is owed is still marked pending and that nobody is between the driver call
and the reset of the mark. `NoResurrection` needs no more than the types: every
action but `DeployCreate` fills a slot only where there was an object.

`RunningWithinQuota` compares what runs with a limit that was checked at the start
of the pass, when the workload of the pass did not run yet. `QuotaInv` keeps what
is left of that check until the next admission (`LoadOK`): the replicas that run
beside the workload of the pass, plus its own, are within the limit and the
additions; when the pass ends, its workload joins the others. That counts no
workload twice because what runs under an ID the loop has listed is the object it
has listed, unless a replaced one was written back (`SeenOK`), and because the
objects of the passes to come have other IDs (`PassOK`). A deploy adds nothing:
between `Create` and `Update` it holds a Pending object that nobody else can reach
(`FreshOK`), so nobody can let it run before it is stored. A rollback and the
autoscaler change the count of one object, and what that adds to a load is at most
what it adds to `grant`. No count is ever negative (`CountOK`), for which the
revisions (`KeptCount`) and the count the autoscaler is about to set (`ToCount`) may
not be either. The sum is a fold in an order that `CHOOSE` picks; `AnyFirst` shows
that the order does not matter, `SumMonotone` and `SumMore` how sums
compare. These are inductions over finite sets, done as arguments about a smallest
counterexample (`Smallest`).

**CircuitBreaker.** The effective limits are positive (`LimitsPositive`),
`SyncFromWorkload` preserves `Consistent` state by state
(`SyncKeepsConsistent`), and each action preserves

    TypeOK /\ CountersMatchState /\ (~EnabledFor => cb.state = "none")
    /\ DeadlineAddsUp /\ NoRouteDuringCooldown /\ ProbesCounted

`NoRouteDuringCooldown` is not inductive alone: it needs `DeadlineAddsUp`, that
the time gone since the last trip and the time left add up to the open duration,
and that a half-open circuit is past its deadline. `ProbeBudget` follows from
`ProbesCounted`: with the memory store, the probes of a half-open period are at
most the stored attempts. The lemmas about the engine are in
CircuitEngine_proofs; WarmStandby and Dependencies use their summary, that each
operation keeps a status `Sound`.

**WarmStandby.** Two circuits, one with the spec of the primary and one without a
spec: the lemmas are instantiated for the second. `StatusMatchesStandby` is
inductive together with the types of both workloads.

**Rollout.** An attempt works on the stored object or on a copy, which earlier
attempts may have changed. `AttemptOK` says how far: what it works on differs
from what was submitted only in the image of an A/B variant and in the node
selectors, so the strategy's plan is still that of the submitted spec. It also
says that the calls made so far are deployed as planned. The parts of a plan are
distinct, so a call does not undo an earlier one; when the last has been made,
`RunningIsComplete` holds. `PlacedWithinBudget` rests on the fact that the node
is chosen among the affordable ones and that what earlier placements changed is
not the budget.

**RollbackHistory.** `Bookkeeping` speaks of the stored object only, but a holder
may write back what it read long ago, so the inductive invariant demands the
same of the held object, together with the fact that every revision ID met so
far is smaller than the next fresh one: a new revision repeats no ID, and
trimming keeps the rest distinct. For the two action properties, a record moves
the history by no or one place (`RecordMoves`), moves add up (`MovesAdd`), and a
rollback is one record in the memory store and one or two with etcd.

**EventLog.** Clean-up and pages filter the log, and a filter of a sequence is hard
to reason about; `Shape` makes it easy: the events kept are the last ones issued, in
order of version and of time, so that what a filter selects is one stretch of the
log. `Shape` gives `LogInOrder`. `PagesExact` follows from `PagesOK`: what the client
has read is older than the version it asks for next, and of what the log still holds
nothing older is unread. `LogTellsState` is inductive with `PointersOK`, which says
that what the log points to was written before, and that a cell that was changed
in place is marked as such. `Amend` and `Change` mark the object in `edited` for
good and in `unrecorded` until an `Update` writes it back; that the second set is
within the first is part of `LogTypeOK`. Versions restart at 1 after a clean-up that emptied the
log; from then on `PagesOK` promises nothing, as the property does not.

**Dependencies.** `OrderInv` describes Kahn's algorithm (in-degrees count the
edges from what is not placed yet, the queue holds what has none) and the
search (the path is a path of the graph, and every set of nodes that the search
has left has one that none of them leads to). When the queue is empty and
something is left, every node left has an edge from another one left, so a search
that has left them all without a cycle contradicts this. That gives `CycleReported`,
and with it each step maps to a step of DeployOrder or to a stutter
(`SortImplementsDeployOrder`). `ClientInv` says that the dependencies a round of
checks has passed were seen to meet their condition. `OrderSuffices` says that no
wait times out without a failure. Its invariant `WaitInv` has three parts: what a
workload depends on is placed before it (`PlacedOK`); whatever the client has gone
past is deployed (`StartedOK`), so every dependency of a workload that waits is
there; and without failures no circuit ever counted one and each tick of a wait was
one of the slow ones of the environment, or everything is up and the checks of this
tick pass (`PatienceOK`). So the wait is over before its time is.

**EventBus.** `PrefixServed` is about a call that reads an array while others
write to it. The invariant keeps, per call, the channels it copied (`snap`) and
up to where its array is untouched (`safe`): up to there the array is as it was
copied, behind it there is no element of that prefix, and what has been sent or
is about to be agrees with it (`CallArray`, `CallServes`). An append in place
writes a channel that no call has copied, behind the slice and so behind `safe`;
growth leaves the old array alone for ever; a removal lowers `safe` to below the
position it removes and moves elements only from behind that position.
`ShiftOK` says what the slice holds in the middle of a removal: without one
position it is the open channels but the one that goes, in order. At the end of
the removal that is `ListExact`.

### Only model-checked

* All liveness properties (`ComesToRest`, `HealthyCloses`, `FailedIsCutOff`,
  `FailoverCompletes`, `FailbackWantsCold`, `RolloutsEnd`, `DeploymentEnds`,
  `CallsReturn`): the prover does not reason about fairness.
* The expected violations of section 4, which are counterexamples.

Every invariant that a passing run checks is proved, and so is every action
property and the refinement.

## 6. Plan

Done in the order of importance: Core, CircuitBreaker, RollbackHistory,
EventLog, WarmStandby, Placement and Rollout, Admission; then the dependency
resolver with its abstract specification, the event bus, the etcd store, and in
Core the quota requests, the autoscaler and the rollbacks; then the theorems of
section 5. What could follow:

1. Core: custom controllers that change objects during a pass.
2. An abstract store that keeps the last accepted write, refined by Core without
   stale write-backs.

## 7. Not modelled

* Multi-tenancy and failure prediction: nothing in the repository calls them, so
  there is no order of calls to model; the prediction is floating-point
  statistics besides.
* Cron: calendar arithmetic of a library. Whether a schedule is due is a
  nondeterministic parameter of a pass in CircuitBreaker. Core has no gate: a
  Pending workload has no last schedule time and is due whenever a pass reaches
  it. Custom controllers: their effect on phases is in the reports.
* Postgres: SQL without state of its own. Drift detector: it gets a nil
  driver and the workloads listed at start, compares and notifies, and the event
  it publishes for `auto_reconcile` has no subscriber. Node, runtime and migration API: delegate to external operations.
* List, search, diff, filter and tag helpers: pure reads of one object.
* Data races on single fields: a step is a stretch of code between two lock
  operations or driver calls, so what is explored is the order of such
  stretches.
* Contents of messages, logs and timestamps that nothing reads.
