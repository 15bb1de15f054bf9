--------------------------------- MODULE Core ---------------------------------
(***************************************************************************)
(* The control plane as it runs with the memory store: the HTTP API        *)
(* handlers (internal/server), the reconcile loop (internal/reconciler),   *)
(* the autoscaler (internal/autoscaler), secret rotation                   *)
(* (internal/secretrotation), the quota engine's limits                    *)
(* (internal/resourcequota) and the map they share                         *)
(* (internal/state/store.go).                                              *)
(*                                                                         *)
(* The store maps a workload ID to a POINTER, and Get and List hand that   *)
(* pointer out: handlers and the reconcile loop change the object without  *)
(* the store's lock, and Update puts whatever pointer the caller holds     *)
(* back under the ID.  heap is the sequence of objects ever allocated, a   *)
(* pointer is an index of it.  With rollback_history enabled the store is  *)
(* a VersionedStore, and each object carries the revisions that a client   *)
(* may roll it back to.                                                    *)
(*                                                                         *)
(* A step ends where a goroutine takes the store's lock or calls a runtime *)
(* driver.  Left out, because separate modules or none of these properties *)
(* tell them apart: warm standby, cron schedules, and the circuit breaker, *)
(* which stays closed for workloads that are never unhealthy (module       *)
(* CircuitBreaker); its unconditional store.Update is kept.  A spec is     *)
(* what clients submit: the default limits that Validate fills in and the  *)
(* image that an A/B rollout takes over are not part of it (module         *)
(* EventLog has them).                                                     *)
(***************************************************************************)
EXTENDS Admission, Sequences

CONSTANTS
    Ids,         \* workload IDs
    Handlers,    \* concurrent HTTP handlers
    RotateAll,   \* secret_rotation.enabled of the configuration
    HardLimits,  \* resource_quota.hard_limits of the namespace
    Quotas,      \* what clients may put as a quota
    MaxRequests, \* bound: API requests in a behaviour
    MaxRounds,   \* bound: rounds of the autoscaler
    MaxVersion   \* bound: versions of the secret, the only one that specs refer to

ASSUME CoreAssumption ==
    /\ RotateAll \in BOOLEAN
    /\ HardLimits \in Quota
    /\ Quotas \subseteq Quota
    /\ {MaxRequests, MaxRounds} \subseteq Nat
    /\ MaxVersion \in Nat \ {0}

VARIABLES
    heap,      \* every types.Workload allocated
    kept,      \* RollbackVersions of each object, as the set of its revisions
    store,     \* MemoryStore.workloads: a pointer, Nil when absent
    registry,  \* secretrotation.Registry.workloads: IDs that refer to the secret
    version,   \* secretrotation.Registry.versions of the secret, 0 when unseen
    limits,    \* resourcequota.Engine.namespace
    rec,       \* the goroutine of the reconcile loop
    scaler,    \* the goroutine of the autoscaler
    req,       \* the API handlers
    requests,  \* API requests accepted so far
    runtime,   \* the spec a runtime driver last deployed for an ID (external)
    rounds,    \* rounds of the autoscaler so far
    accepted,  \* the spec of the last deploy the store took, per ID (history)
    grant      \* the limit under which the loop last admitted a workload, the
               \* replicas added to objects since, and whether a replaced object
               \* was written back since List (history)

quotaVars == <<limits, grant>>
scalerVars == <<scaler, rounds>>
aside == <<accepted, quotaVars, scalerVars>>
vars == <<heap, kept, store, registry, version, rec, req, requests, runtime, aside>>

Nil == 0
Nothing == "nothing"

(* owed is history: a rotation was marked on the object and no driver call *)
(* has (re)started it since; "raced" when the mark came after the driver   *)
(* call of a restart and before its reset of pending.  So is restored: a   *)
(* rollback wrote the spec and no pass has admitted the workload since.    *)
Object == [id : Ids, spec : Specs, replicas : Int, phase : {"Pending", "Running"},
           pending : BOOLEAN, owed : {"no", "yes", "raced"}, restored : BOOLEAN]

(* A revision; specs differ from replicas once the autoscaler was there.   *)
Revision == [spec : Specs, replicas : Int]

Pointers == 1 .. Len(heap)
MaxObjects == MaxRequests

RecSteps == {"next", "persist", "secrets", "clear", "route", "finish"}
ReqSteps == {"idle", "update", "clear", "mark", "save", "revert"}
ScalerSteps == {"next", "scale", "save"}

TypeOK ==
    /\ heap \in Seq(Object)
    /\ Len(heap) <= MaxObjects
    /\ kept \in [1 .. MaxObjects -> SUBSET Revision]
    /\ store \in [Ids -> Pointers \cup {Nil}]
    /\ \A id \in Ids : store[id] # Nil => heap[store[id]].id = id
    /\ registry \subseteq Ids
    /\ version \in 0 .. MaxVersion
    /\ rec \in [pc : RecSteps, queue : SUBSET Pointers, obj : Pointers \cup {Nil}]
    /\ req \in [Handlers -> [pc : ReqSteps, obj : Pointers \cup {Nil}, todo : SUBSET Ids]]
    /\ requests \in 0 .. MaxRequests
    /\ runtime \in [Ids -> Specs \cup {Nothing}]
    /\ accepted \in [Ids -> Specs \cup {Nothing}]
    /\ limits \in Quota
    /\ scaler \in [pc : ScalerSteps, queue : SUBSET Pointers, obj : Pointers \cup {Nil}, to : Int]
    /\ rounds \in 0 .. MaxRounds
    /\ grant \in [limit : Nat, added : Nat, stale : BOOLEAN]

Idle == [pc |-> "idle", obj |-> Nil, todo |-> {}]
NotScaling == [pc |-> "next", queue |-> {}, obj |-> Nil, to |-> 0]
NoGrant == [limit |-> 0, added |-> 0, stale |-> FALSE]
Between == [pc |-> "next", queue |-> {}, obj |-> Nil]

(* No workload yet; the first version of the secret may have been reported.*)
Init ==
    /\ heap = <<>>
    /\ kept = [p \in 1 .. MaxObjects |-> {}]
    /\ store = [id \in Ids |-> Nil]
    /\ registry = {}
    /\ version \in {0, 1}
    /\ rec = Between
    /\ req = [h \in Handlers |-> Idle]
    /\ requests = 0
    /\ runtime = [id \in Ids |-> Nothing]
    /\ accepted = [id \in Ids |-> Nothing]
    /\ limits = HardLimits
    /\ scaler = NotScaling
    /\ rounds = 0
    /\ grant = NoGrant

snapshotRevision(w) == [spec |-> w.spec, replicas |-> w.replicas]

(* VersionedStore.Create and Update, in front of the map.  The first one   *)
(* comes before the refusal of an existing ID; the second compares the     *)
(* object with itself, and keeps nothing, unless it was replaced.  How     *)
(* many revisions are kept, and that equal ones are not, is module         *)
(* RollbackHistory's; here any that was taken may still be there.          *)
RecordInitial(p, w) == kept' = [kept EXCEPT ![p] = {snapshotRevision(w)}]

RecordBeforeUpdate(p) ==
    LET q == store[heap[p].id]
    IN kept' = IF q \in {Nil, p} THEN kept
               ELSE [kept EXCEPT ![p] = @ \cup {snapshotRevision(heap[q])}]

(* Mutant of StoreUpdate: an upsert, as if the ID always existed.          *)
StoreUpsert(p) ==
    /\ RecordBeforeUpdate(p)
    /\ store' = [store EXCEPT ![heap[p].id] = p]

(***************************************************************************)
(* MemoryStore.Update: ErrWorkloadNotFound when the ID is gone, otherwise  *)
(* the map gets the caller's pointer.                                      *)
(***************************************************************************)
StoreUpdate(p) ==
    /\ RecordBeforeUpdate(p)
    /\ store' = [store EXCEPT ![heap[p].id] = IF @ = Nil THEN Nil ELSE p]

(***************************************************************************)
(* API handlers.  They are all alike, so a request may as well go to one   *)
(* fixed idle handler.                                                     *)
(***************************************************************************)
Free == CHOOSE h \in Handlers : req[h].pc = "idle"

Request(h) ==
    /\ req[h].pc = "idle"
    /\ h = Free
    /\ requests < MaxRequests
    /\ requests' = requests + 1

(* Somebody else than the loop writes back an object that was replaced.    *)
NoteStale(p) == grant' = [grant EXCEPT !.stale = @ \/ store[heap[p].id] \notin {Nil, p}]

(* An object's replica count is about to become n.                         *)
NoteAdded(p, n) ==
    grant' = [grant EXCEPT !.added = IF n > heap[p].replicas THEN @ + (n - heap[p].replicas) ELSE @]

Done(h) == req' = [req EXCEPT ![h] = Idle]

(* Mutant of NewWorkload: Status.Phase keeps its zero value.               *)
NewWorkloadNoPhase(id, spec) ==
    [id |-> id, spec |-> spec, replicas |-> Text[spec].replicas, phase |-> "",
     pending |-> FALSE, owed |-> "no", restored |-> FALSE]

NewWorkload(id, spec) ==
    [id |-> id, spec |-> spec, replicas |-> Text[spec].replicas, phase |-> "Pending",
     pending |-> FALSE, owed |-> "no", restored |-> FALSE]

(* The registry only grows: neither a delete nor a redeploy takes an ID    *)
(* out of it.  IndexWorkload registers a workload that refers to a secret. *)
RegisterWorkload(id) == registry' = registry \cup {id}
WorkloadsForSecret == registry

EnabledFor(w) == Text[w.spec].secrets.enabled \/ RotateAll

IndexWorkload(w) ==
    IF EnabledFor(w) /\ Text[w.spec].secrets.refs \ {""} # {}
    THEN RegisterWorkload(w.id) ELSE UNCHANGED registry

(* deployOne, up to MemoryStore.Create: a new object enters the map, and   *)
(* the secret references are indexed; or the ID exists, and the handler    *)
(* goes on to Update.                                                      *)
DeployCreate(h, id, spec) ==
    LET p == Len(heap) + 1 IN
    /\ Request(h)
    /\ heap' = Append(heap, NewWorkload(id, spec))
    /\ RecordInitial(p, NewWorkload(id, spec))
    /\ IF store[id] = Nil
       THEN /\ store' = [store EXCEPT ![id] = p]
            /\ IndexWorkload(NewWorkload(id, spec))
            /\ accepted' = [accepted EXCEPT ![id] = spec]
            /\ Done(h)
       ELSE /\ req' = [req EXCEPT ![h] = [pc |-> "update", obj |-> p, todo |-> {}]]
            /\ UNCHANGED <<store, registry, accepted>>
    /\ UNCHANGED <<version, rec, runtime, quotaVars, scalerVars>>

(* deployOne after ErrWorkloadAlreadyExists: Update replaces the pointer.  *)
DeployUpdate(h) ==
    LET p == req[h].obj
        id == heap[p].id
    IN /\ req[h].pc = "update"
       /\ StoreUpdate(p)
       /\ accepted' = IF store[id] = Nil THEN accepted
                      ELSE [accepted EXCEPT ![id] = heap[p].spec]
       /\ Done(h)
       /\ UNCHANGED <<heap, registry, version, rec, requests, runtime, quotaVars, scalerVars>>

(* handleDeleteWorkload: MemoryStore.Delete.  No driver is told.           *)
Delete(h, id) ==
    /\ Request(h)
    /\ store[id] # Nil
    /\ store' = [store EXCEPT ![id] = Nil]
    /\ accepted' = [accepted EXCEPT ![id] = Nothing]
    /\ UNCHANGED <<heap, kept, registry, version, rec, req, runtime, quotaVars, scalerVars>>

RollbackVersions(id) == IF store[id] = Nil THEN {} ELSE kept[store[id]]

(* handleRollbackWorkload and Revert, up to its store.Update: the spec of  *)
(* a revision is written into the stored object, whatever its phase, and   *)
(* neither policy nor quota is asked.                                      *)
Rollback(h, id, rev) ==
    LET p == store[id] IN
    /\ Request(h)
    /\ rev \in RollbackVersions(id)
    /\ heap' = [heap EXCEPT ![p].spec = rev.spec, ![p].replicas = rev.replicas,
                            ![p].restored = TRUE]
    /\ kept' = [kept EXCEPT ![p] = @ \cup {snapshotRevision(heap[p])}]
    /\ NoteAdded(p, rev.replicas)
    /\ req' = [req EXCEPT ![h] = [pc |-> "revert", obj |-> p, todo |-> {}]]
    /\ UNCHANGED <<store, registry, version, rec, runtime, accepted, limits, scalerVars>>

(* Revert's store.Update: the phase stays, so no pass deploys the spec.    *)
RollbackSave(h) ==
    LET p == req[h].obj
        id == heap[p].id
    IN /\ req[h].pc = "revert"
       /\ StoreUpdate(p)
       /\ NoteStale(p)
       /\ accepted' = IF store[id] = Nil THEN accepted
                      ELSE [accepted EXCEPT ![id] = heap[p].spec]
       /\ Done(h)
       /\ UNCHANGED <<heap, registry, version, rec, requests, runtime, limits, scalerVars>>

(* RequestRollingRestart: on success the containers were started anew and  *)
(* have read the secret, either by driver.Restart or, when that fails, by  *)
(* driver.Deploy of the whole workload.                                    *)
RollingRestart(p, redeploys) ==
    /\ heap' = [heap EXCEPT ![p].owed = "no"]
    /\ runtime' = IF redeploys THEN [runtime EXCEPT ![heap[p].id] = heap[p].spec]
                  ELSE runtime

(* restartOne: Get, then the driver call; a failed call ends the request.  *)
RestartIssue(h, id, redeploys) ==
    /\ Request(h)
    /\ store[id] # Nil
    /\ RollingRestart(store[id], redeploys)
    /\ req' = [req EXCEPT ![h] = [pc |-> "clear", obj |-> store[id], todo |-> {}]]
    /\ UNCHANGED <<kept, store, registry, version, rec, aside>>

(* clearPendingRestart and Update.                                         *)
RestartClear(h) ==
    LET p == req[h].obj IN
    /\ req[h].pc = "clear"
    /\ heap' = [heap EXCEPT ![p].pending = FALSE]
    /\ StoreUpdate(p)
    /\ NoteStale(p)
    /\ Done(h)
    /\ UNCHANGED <<registry, version, rec, requests, runtime, accepted, limits, scalerVars>>

(* The answer of ObserveVersion: the version changed, and it is not the    *)
(* first one seen.                                                         *)
Changed(v) == version # v /\ version # 0

(* HandleRotation up to the loop; WorkloadsForSecret is read once.         *)
RotateObserve(h, v) ==
    /\ Request(h)
    /\ version' = v
    /\ req' = [req EXCEPT ![h] =
                 IF Changed(v) /\ WorkloadsForSecret # {}
                 THEN [pc |-> "mark", obj |-> Nil, todo |-> WorkloadsForSecret]
                 ELSE Idle]
    /\ UNCHANGED <<heap, kept, store, registry, rec, runtime, aside>>

NextMark(h, todo) ==
    req' = [req EXCEPT ![h] =
              IF todo = {} THEN Idle ELSE [pc |-> "mark", obj |-> Nil, todo |-> todo]]

(* A restart of the object is between the driver call and the reset.       *)
Restarting(p) ==
    \/ rec.pc = "clear" /\ rec.obj = p
    \/ \E h \in Handlers : req[h].pc = "clear" /\ req[h].obj = p

(* One iteration: Get and mark through the pointer, then Update.           *)
RotateMark(h, id) ==
    LET p == store[id] IN
    /\ req[h].pc = "mark"
    /\ id \in req[h].todo
    /\ IF p = Nil \/ ~EnabledFor(heap[p])
       THEN NextMark(h, req[h].todo \ {id}) /\ UNCHANGED heap
       ELSE /\ heap' = [heap EXCEPT ![p].pending = TRUE,
                                    ![p].owed = IF Restarting(p) THEN "raced" ELSE "yes"]
            /\ req' = [req EXCEPT ![h] = [pc |-> "save", obj |-> p, todo |-> @.todo \ {id}]]
    /\ UNCHANGED <<kept, store, registry, version, rec, requests, runtime, aside>>

RotateSave(h) ==
    /\ req[h].pc = "save"
    /\ StoreUpdate(req[h].obj)
    /\ NoteStale(req[h].obj)
    /\ NextMark(h, req[h].todo)
    /\ UNCHANGED <<heap, registry, version, rec, requests, runtime, accepted, limits, scalerVars>>

(* handlePutQuota and handleDeleteQuota: SetNamespaceQuota and             *)
(* DeleteNamespaceQuota, which is refused when there is none.              *)
PutQuota(h, lim) ==
    /\ Request(h)
    /\ limits' = lim
    /\ UNCHANGED <<heap, kept, store, registry, version, rec, req, runtime, accepted, grant, scalerVars>>

DeleteQuota(h) ==
    /\ Request(h)
    /\ limits # NoQuota
    /\ limits' = NoQuota
    /\ UNCHANGED <<heap, kept, store, registry, version, rec, req, runtime, accepted, grant, scalerVars>>

(***************************************************************************)
(* The autoscaler.  A metric (external) is missing or, compared with its   *)
(* target, high, low or in between.                                        *)
(***************************************************************************)
Outcome == {"error", "high", "low", "fine"}
Metrics == [cpu : Outcome, memory : Outcome, custom : {"error", "high", "fine"}]

(* One metric decides, or leaves it to the next; a failed one ends it.     *)
Decide(target, metric, t, n, next) ==
    IF ~target THEN next
    ELSE CASE metric = "error" -> n
           [] metric = "high" /\ n < t.max -> n + 1
           [] metric = "low" /\ n > t.min -> n - 1
           [] OTHER -> next

(* evaluateScaling of a workload of n replicas.  Custom metrics have a     *)
(* threshold and no low end, and a failed one is passed over.              *)
evaluateScaling(t, n, m) ==
    LET custom == IF t.custom /\ m.custom = "high" /\ n < t.max THEN n + 1 ELSE n
    IN Decide(t.cpu, m.cpu, t, n, Decide(t.memory, m.memory, t, n, custom))

(* checkAllWorkloads: List.                                                *)
ScaleRound ==
    /\ scaler = NotScaling
    /\ rounds < MaxRounds
    /\ rounds' = rounds + 1
    /\ scaler' = [scaler EXCEPT !.queue = {store[id] : id \in Ids} \ {Nil}]
    /\ UNCHANGED <<heap, kept, store, registry, version, rec, req, requests, runtime, accepted, quotaVars>>

Replicas(w) ==
    LET t == Text[w.spec].scaling IN
    IF t.enabled THEN {evaluateScaling(t, w.replicas, m) : m \in Metrics} ELSE {w.replicas}

(* One iteration: a workload that does not scale is skipped; otherwise the *)
(* count is read before the metrics are asked for.                         *)
Evaluate(p, n) ==
    /\ scaler.pc = "next"
    /\ scaler' = IF n = heap[p].replicas THEN [scaler EXCEPT !.queue = @ \ {p}]
                 ELSE [pc |-> "scale", queue |-> scaler.queue \ {p}, obj |-> p, to |-> n]
    /\ UNCHANGED <<heap, kept, store, registry, version, rec, req, requests, runtime, accepted, quotaVars, rounds>>

(* scaleWorkload up to its store.Update: the count is set in the shared    *)
(* object, over whatever it is by now, and no quota is asked.              *)
Scale ==
    LET p == scaler.obj IN
    /\ scaler.pc = "scale"
    /\ heap' = [heap EXCEPT ![p].replicas = scaler.to]
    /\ NoteAdded(p, scaler.to)
    /\ scaler' = [scaler EXCEPT !.pc = "save", !.to = 0]
    /\ UNCHANGED <<kept, store, registry, version, rec, req, requests, runtime, accepted, limits, rounds>>

(* store.Update: the phase stays, so no pass deploys the new count.        *)
ScaleWorkload ==
    /\ scaler.pc = "save"
    /\ StoreUpdate(scaler.obj)
    /\ NoteStale(scaler.obj)
    /\ scaler' = [scaler EXCEPT !.pc = "next", !.obj = Nil]
    /\ UNCHANGED <<heap, registry, version, rec, req, requests, runtime, accepted, limits, rounds>>

Autoscaler ==
    \/ ScaleRound
    \/ \E p \in scaler.queue : \E n \in Replicas(heap[p]) : Evaluate(p, n)
    \/ Scale
    \/ ScaleWorkload

(***************************************************************************)
(* The reconcile loop.                                                     *)
(***************************************************************************)
Step(pc) == rec' = [rec EXCEPT !.pc = pc]
PassEnds == rec' = [pc |-> "next", queue |-> rec.queue, obj |-> Nil]

(* reconcileAll: List.                                                     *)
List ==
    /\ rec = Between
    /\ rec' = [rec EXCEPT !.queue = {store[id] : id \in Ids} \ {Nil}]
    /\ grant' = IF grant.stale THEN NoGrant ELSE grant
    /\ UNCHANGED <<heap, kept, store, registry, version, req, requests, runtime, accepted, limits, scalerVars>>

(* The next pointer of the list sorted at List: higher ranks first, map    *)
(* order within a rank.  A rollback since List changes the rank and not    *)
(* the place, so a restored object is anywhere.                            *)
First(queue) ==
    LET rank(p) == WorkloadSchedulingRank(heap[p].spec)
    IN {p \in queue : \A q \in queue :
          heap[p].restored \/ heap[q].restored \/ rank(q) <= rank(p)}

(* The replicas of all stored workloads but one, and the verdict on that   *)
(* one.                                                                    *)
Peers(id) == [i \in {j \in Ids \ {id} : store[j] # Nil} |-> heap[store[i]].replicas]
Admitted(w) == Validate(w.spec) /\ Enforce(limits, w.replicas, Peers(w.id))

Granted == [limit |-> limits.replicas, added |-> 0, stale |-> grant.stale]

(* Mutant of Admit: the verdict of policy and quota is ignored.            *)
AdmitAll(p) ==
    /\ rec.pc = "next"
    /\ p \in First(rec.queue)
    /\ rec' = [pc |-> "persist", queue |-> rec.queue \ {p}, obj |-> p]
    /\ grant' = Granted
    /\ heap' = [heap EXCEPT ![p].restored = FALSE]
    /\ UNCHANGED <<kept, store, registry, version, req, requests, runtime, accepted, limits, scalerVars>>

(* reconcileOne up to the circuit status: a rejected workload is skipped.  *)
Admit(p) ==
    /\ rec.pc = "next"
    /\ p \in First(rec.queue)
    /\ IF Admitted(heap[p])
       THEN /\ rec' = [pc |-> "persist", queue |-> rec.queue \ {p}, obj |-> p]
            /\ grant' = Granted
            /\ heap' = [heap EXCEPT ![p].restored = FALSE]
       ELSE /\ rec' = [rec EXCEPT !.queue = @ \ {p}]
            /\ UNCHANGED <<heap, grant>>
    /\ UNCHANGED <<kept, store, registry, version, req, requests, runtime, accepted, limits, scalerVars>>

(* store.Update after SyncFromWorkload.                                    *)
Persist ==
    /\ rec.pc = "persist"
    /\ StoreUpdate(rec.obj)
    /\ Step("secrets")
    /\ UNCHANGED <<heap, registry, version, req, requests, runtime, aside>>

WantsRestart(w) == w.pending /\ w.phase = "Running"

(* IndexWorkload, and the rolling restart of a Running workload that has   *)
(* one pending.                                                            *)
Secrets(redeploys) ==
    /\ rec.pc = "secrets"
    /\ IndexWorkload(heap[rec.obj])
    /\ IF WantsRestart(heap[rec.obj])
       THEN RollingRestart(rec.obj, redeploys) /\ Step("clear")
       ELSE Step("route") /\ UNCHANGED <<heap, runtime>>
    /\ UNCHANGED <<kept, store, version, req, requests, aside>>

(* Mutant of RestartFails: PendingRestart is reset all the same.           *)
RestartFailsClears ==
    /\ rec.pc = "secrets"
    /\ WantsRestart(heap[rec.obj])
    /\ IndexWorkload(heap[rec.obj])
    /\ heap' = [heap EXCEPT ![rec.obj].pending = FALSE]
    /\ Step("route")
    /\ UNCHANGED <<kept, store, version, req, requests, runtime, aside>>

(* A failed restart is logged and the pass goes on.                        *)
RestartFails ==
    /\ rec.pc = "secrets"
    /\ WantsRestart(heap[rec.obj])
    /\ IndexWorkload(heap[rec.obj])
    /\ Step("route")
    /\ UNCHANGED <<heap, kept, store, version, req, requests, runtime, aside>>

(* Mutant of ClearPending: PendingRestart stays set.                       *)
ClearNothing ==
    /\ rec.pc = "clear"
    /\ StoreUpdate(rec.obj)
    /\ Step("route")
    /\ UNCHANGED <<heap, registry, version, req, requests, runtime, aside>>

(* PendingRestart is reset and the object written back.                    *)
ClearPending ==
    /\ rec.pc = "clear"
    /\ heap' = [heap EXCEPT ![rec.obj].pending = FALSE]
    /\ StoreUpdate(rec.obj)
    /\ Step("route")
    /\ UNCHANGED <<registry, version, req, requests, runtime, aside>>

(* A Pending workload is rolled out; any other one ends its pass here, and *)
(* so does a failed rollout.                                               *)
Rollout ==
    LET w == heap[rec.obj] IN
    /\ rec.pc = "route"
    /\ w.phase = "Pending"
    /\ runtime' = [runtime EXCEPT ![w.id] = w.spec]
    /\ heap' = [heap EXCEPT ![rec.obj].owed = "no"]
    /\ Step("finish")
    /\ UNCHANGED <<kept, store, registry, version, req, requests, aside>>

NoRollout ==
    /\ rec.pc = "route"
    /\ PassEnds
    /\ UNCHANGED <<heap, kept, store, registry, version, req, requests, runtime, aside>>

(* postSchedule.                                                           *)
PostSchedule ==
    /\ rec.pc = "finish"
    /\ heap' = [heap EXCEPT ![rec.obj].phase = "Running"]
    /\ StoreUpdate(rec.obj)
    /\ PassEnds
    /\ UNCHANGED <<registry, version, req, requests, runtime, aside>>

Loop ==
    \/ List
    \/ \E p \in rec.queue : Admit(p)
    \/ Persist
    \/ \E redeploys \in BOOLEAN : Secrets(redeploys)
    \/ RestartFails
    \/ ClearPending
    \/ Rollout
    \/ NoRollout
    \/ PostSchedule

Handle(h) ==
    \/ DeployUpdate(h)
    \/ RestartClear(h)
    \/ \E id \in Ids : RotateMark(h, id)
    \/ RotateSave(h)
    \/ RollbackSave(h)

(* The handlers' requests.                                                 *)
HandleCreateWorkload(h) == \E id \in Ids, spec \in Specs : DeployCreate(h, id, spec)
HandleDeleteWorkload(h) == \E id \in Ids : Delete(h, id)
HandleRollbackWorkload(h) == \E id \in Ids : \E rev \in RollbackVersions(id) : Rollback(h, id, rev)
HandleRestartWorkload(h) == \E id \in Ids, redeploys \in BOOLEAN : RestartIssue(h, id, redeploys)
HandleQuota(h) == DeleteQuota(h) \/ \E lim \in Quotas : PutQuota(h, lim)
HandleSecretRotated(h) == \E v \in 1 .. MaxVersion : RotateObserve(h, v)

Next ==
    \/ \E h \in Handlers : HandleCreateWorkload(h)
    \/ \E h \in Handlers : HandleDeleteWorkload(h)
    \/ \E h \in Handlers : HandleRollbackWorkload(h)
    \/ \E h \in Handlers : HandleRestartWorkload(h)
    \/ \E h \in Handlers : HandleSecretRotated(h)
    \/ \E h \in Handlers : HandleQuota(h)
    \/ Autoscaler
    \/ \E h \in Handlers : Handle(h)
    \/ Loop

(* The loop's ticker fires for ever, handlers run to their end, and a      *)
(* driver that is asked again and again succeeds in the end.               *)
RestartSucceeds ==
    /\ rec.pc = "secrets"
    /\ WantsRestart(heap[rec.obj])
    /\ \E redeploys \in BOOLEAN : Secrets(redeploys)

Fairness ==
    /\ WF_vars(Loop)
    /\ WF_vars(\E h \in Handlers : Handle(h))
    /\ SF_vars(RestartSucceeds)
    /\ SF_vars(Rollout)

Spec == Init /\ [][Next]_vars
FairSpec == Spec /\ Fairness

(***************************************************************************)
(* Properties.                                                             *)
(***************************************************************************)

(* A deleted workload stays deleted until a client deploys the ID again,   *)
(* whatever stale pointers the reconcile loop, a restart or a rotation     *)
(* still write back: only deployOne's Create fills an empty slot.          *)
NoResurrection ==
    [][\A id \in Ids : store[id] = Nil /\ store'[id] # Nil
          => \E h \in Handlers, spec \in Specs : DeployCreate(h, id, spec)]_vars

(* Policy comes before the rollout: no interleaving brings a rejected spec *)
(* to the phase Running, with one exception, the spec that a rollback put  *)
(* into the object and that no pass has admitted since.                    *)
RejectedNeverRuns ==
    \A p \in Pointers :
       heap[p].phase = "Running" /\ ~heap[p].restored => Validate(heap[p].spec)

(* What RunningWithinQuota asks of the specs.                              *)
NonNegative == \A spec \in Specs : Text[spec].replicas >= 0 /\ Text[spec].scaling.min >= 0

(* From the admission of a workload to the next one, through the pass and  *)
(* after its end, what runs stays within the hard quota that admitted it,  *)
(* although the quota is checked at the start of the pass only and clients *)
(* deploy, delete and replace workloads all the time.  Three things break  *)
(* into it: the autoscaler and a rollback raise counts with no check, by   *)
(* grant.added, and a restart, a rotation, a rollback or the autoscaler    *)
(* can write a replaced object back and its replicas with it.  It is about *)
(* specs that ask for no negative count, of replicas or as the least the   *)
(* autoscaler may leave: Validate lets one pass, and it would make room    *)
(* for others.                                                             *)
RunningWithinQuota ==
    LET running == {id \in Ids : store[id] # Nil /\ heap[store[id]].phase = "Running"}
    IN ~grant.stale /\ grant.limit > 0 =>
          SumRequests([id \in running |-> heap[store[id]].replicas]) <= grant.limit + grant.added

(* What reconcileOne leaves alone: a workload that policy and quota admit, *)
(* runs and has no restart pending.                                        *)
Admissible(id) == store[id] # Nil /\ Admitted(heap[store[id]])

Quiet ==
    /\ \A h \in Handlers : req[h].pc = "idle"
    /\ rec.obj = Nil
    /\ \A id \in Ids : Admissible(id) =>
          heap[store[id]].phase = "Running" /\ ~heap[store[id]].pending

(* Once clients stop, the loop comes to rest: every admissible workload    *)
(* gets deployed and every pending restart is carried out.                 *)
ComesToRest == <>[](rec.obj = Nil => Quiet)

(* README: "Observe current state -> Compare to desired state -> Compute   *)
(* diff -> Apply actions -> repeat".  At rest, what runs is what the       *)
(* client last deployed.                                                   *)
ActualIsDesired ==
    Quiet => \A id \in Ids : Admissible(id) => runtime[id] = accepted[id]

(* Secret rotation: at rest, no workload that was marked pending_restart   *)
(* is left without a restart since its mark, whatever was redeployed,      *)
(* restarted or scaled meanwhile and however often the driver failed; with *)
(* one exception, the mark that comes between the driver call of a restart *)
(* and its reset of the flag.                                              *)
RotationRestarts ==
    Quiet => \A id \in Ids : Admissible(id) => heap[store[id]].owed # "yes"
==============================================================================
