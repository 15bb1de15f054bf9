---------------------------- MODULE RollbackHistory ----------------------------
(***************************************************************************)
(* The revision history of one workload: VersionedStore                    *)
(* (internal/state/versioned_store.go) around a store, the snapshots of    *)
(* internal/rollouthistory/history.go, and the requests that use them      *)
(* (deployOne, handleRollbackWorkload).                                    *)
(*                                                                         *)
(* Requests do not overlap here (module Core is about overlapping ones),   *)
(* but the reconcile loop and the autoscaler hold a workload they took     *)
(* from List and write it back later, whatever happened in between.  With  *)
(* the memory store (live) what they hold is the stored object itself,     *)
(* until a redeploy replaces it; with etcd it is a copy.                   *)
(***************************************************************************)
EXTENDS Naturals, Sequences, FiniteSets

CONSTANTS
    Keys,        \* what specsEqual compares: image, replicas and backend
    Rests,       \* the rest of a spec (environment, resources, ...)
    MaxVersions, \* rollback_history.max_versions, at least 1 after NewVersionedStore
    MaxWrites    \* bound: writes in a behaviour (each makes at most 2 revisions)

ASSUME HistoryAssumption ==
    /\ MaxVersions \in Nat \ {0}
    /\ MaxWrites \in Nat

VARIABLES
    live,   \* memory store, or etcd
    cur,    \* the stored workload
    held,   \* what the loop or the autoscaler took from List
    fresh,  \* revision IDs and objects handed out so far
    writes  \* writes made so far

vars == <<live, cur, held, fresh, writes>>

SpecType == [key : Keys, rest : Rests]
Revision(n) == [rid : 1 .. n, spec : SpecType]

(* A types.Workload: obj tells objects apart; count and active are         *)
(* Status.Rollback.Count and ActiveID.  Revision IDs and objects are the   *)
(* numbers 1 .. n handed out so far.                                       *)
Workload(n) == [obj : 1 .. n, spec : SpecType, revs : Seq(Revision(n)),
                count : Nat, active : 1 .. n]
NoWorkload == [obj |-> 0]

TypeOK ==
    /\ live \in BOOLEAN
    /\ cur \in Workload(fresh) \/ cur = NoWorkload
    /\ held \in Workload(fresh) \/ held = NoWorkload
    /\ fresh \in Nat
    /\ writes \in 0 .. MaxWrites

Init ==
    /\ live \in BOOLEAN
    /\ cur = NoWorkload
    /\ held = NoWorkload
    /\ fresh = 0
    /\ writes = 0

Exists == cur.obj # 0

Write ==
    /\ writes < MaxWrites
    /\ writes' = writes + 1

(***************************************************************************)
(* history.go.  A revision gets the ID that fresh hands out.               *)
(***************************************************************************)

(* Mutants of Prepend: the trim is forgotten; the newest old one is lost.  *)
PrependUntrimmed(revs, rev) == <<rev>> \o revs
PrependDropsNewest(revs, rev) ==
    IF Len(revs) >= MaxVersions THEN <<rev>> \o Tail(revs) ELSE <<rev>> \o revs

Prepend(revs, rev) ==
    LET out == <<rev>> \o revs
    IN IF Len(out) > MaxVersions THEN SubSeq(out, 1, MaxVersions) ELSE out

SpecsEqual(a, b) == a.key = b.key

RefreshStatus(w, activeID) ==
    [obj |-> w.obj, spec |-> w.spec, revs |-> w.revs, count |-> Len(w.revs),
     active |-> activeID]

(* RecordInitial: the snapshot of a new workload is of its own spec.       *)
RecordInitial(w, rid) ==
    RefreshStatus([w EXCEPT !.revs = <<[rid |-> rid, spec |-> w.spec]>>], rid)

(* Mutant of RecordBeforeUpdate: the snapshot is of the new spec.          *)
RecordNewSpec(next, previous, rid) ==
    IF SpecsEqual(previous.spec, next.spec)
    THEN next
    ELSE RefreshStatus([next EXCEPT !.revs = Prepend(@, [rid |-> rid, spec |-> next.spec])],
                       rid)

(* RecordBeforeUpdate: next remembers the spec it replaces.                *)
RecordBeforeUpdate(next, previous, rid) ==
    IF SpecsEqual(previous.spec, next.spec)
    THEN next
    ELSE RefreshStatus([next EXCEPT !.revs = Prepend(@, [rid |-> rid, spec |-> previous.spec])],
                       rid)

(***************************************************************************)
(* VersionedStore.Update: the stored object is read as previous.  When it  *)
(* is the object being written, the two are equal by then.                 *)
(***************************************************************************)
SameObject(w) == live /\ Exists /\ w.obj = cur.obj

StoreUpdate(w, rid) ==
    IF SameObject(w) THEN w ELSE RecordBeforeUpdate(w, cur, rid)

(***************************************************************************)
(* Requests.                                                               *)
(***************************************************************************)

(* deployOne.  VersionedStore.Create records the initial revision before   *)
(* the inner Create; when that says the ID exists, the same object goes to *)
(* Update.  EtcdStore.Create never says so and overwrites.                 *)
Deploy(s) ==
    LET new == RecordInitial([obj |-> fresh + 1, spec |-> s, revs |-> <<>>,
                              count |-> 0, active |-> 0], fresh + 1)
    IN /\ Write
       /\ cur' = IF live /\ Exists THEN StoreUpdate(new, fresh + 2) ELSE new
       /\ fresh' = fresh + 2
       /\ UNCHANGED <<live, held>>

(* Mutant of Revert: newRevisionID returns the same ID again.              *)
RevertSameIDs(rev) ==
    LET changed == [cur EXCEPT !.spec = rev.spec]
        reverted == RefreshStatus(RecordBeforeUpdate(changed, cur, fresh + 1), rev.rid)
    IN /\ cur' = IF live THEN reverted ELSE RecordBeforeUpdate(reverted, cur, fresh + 2)
       /\ held' = held
       /\ fresh' = fresh

(* Revert: spec and snapshot go into the fetched object; then Update, for  *)
(* which a copied object differs from the stored one once more.  Whoever   *)
(* holds the live object sees the change.                                  *)
Revert(rev) ==
    LET changed == [cur EXCEPT !.spec = rev.spec]
        reverted == RefreshStatus(RecordBeforeUpdate(changed, cur, fresh + 1), rev.rid)
    IN /\ cur' = IF live THEN reverted ELSE RecordBeforeUpdate(reverted, cur, fresh + 2)
       /\ held' = IF SameObject(held) THEN cur' ELSE held
       /\ fresh' = fresh + 2

(* handleRollbackWorkload with a revision_id.                              *)
Rollback(i) ==
    /\ Write
    /\ Exists
    /\ i \in 1 .. Len(cur.revs)
    /\ Revert(cur.revs[i])
    /\ UNCHANGED live

(* ... and without one: the second newest revision, if there is one.       *)
RollbackDefault ==
    /\ Write
    /\ Exists
    /\ Len(cur.revs) >= 2
    /\ Revert(cur.revs[2])
    /\ UNCHANGED live

(* Delete of the memory store.  EtcdStore.Delete never returns (it takes   *)
(* its own lock twice).                                                    *)
Delete ==
    /\ live
    /\ Write
    /\ Exists
    /\ cur' = NoWorkload
    /\ UNCHANGED <<live, held, fresh>>

(***************************************************************************)
(* The reconcile loop and the autoscaler.                                  *)
(***************************************************************************)
Take ==
    /\ Exists
    /\ held' = cur
    /\ UNCHANGED <<live, cur, fresh, writes>>

(* An Update with the spec left alone, or with Replicas changed by         *)
(* scaleWorkload.                                                          *)
WriteBack(key) ==
    LET w == [held EXCEPT !.spec = [key |-> key, rest |-> @.rest]] IN
    /\ Write
    /\ held.obj # 0
    /\ Exists
    /\ cur' = StoreUpdate(w, fresh + 1)
    /\ held' = NoWorkload
    /\ fresh' = fresh + 1
    /\ UNCHANGED live

Next ==
    \/ \E s \in SpecType : Deploy(s)
    \/ \E i \in 1 .. MaxVersions : Rollback(i)
    \/ RollbackDefault
    \/ Delete
    \/ Take
    \/ \E key \in Keys : WriteBack(key)

Spec == Init /\ [][Next]_vars

(***************************************************************************)
(* Properties.                                                             *)
(***************************************************************************)
Specs(revs) == {revs[i].spec : i \in DOMAIN revs}
Rids(revs) == {revs[i].rid : i \in DOMAIN revs}

(* The history is bounded by max_versions, never empty, has one revision   *)
(* per ID (so findRevision finds the one meant), and Status.Rollback       *)
(* counts it.                                                              *)
Distinct(revs) == \A i, j \in DOMAIN revs : revs[i].rid = revs[j].rid => i = j

Kept(w) ==
    /\ Len(w.revs) \in 1 .. MaxVersions
    /\ w.count = Len(w.revs)
    /\ Distinct(w.revs)

Bookkeeping == Exists => Kept(cur)

(* With the memory store, the spec that a redeploy or a rollback replaces  *)
(* can be rolled back to, as long as specsEqual sees the change.           *)
UndoAvailable ==
    [][live /\ Exists /\ cur'.obj # 0 /\ cur'.spec.key # cur.spec.key
       /\ ((\E s \in SpecType : Deploy(s)) \/ RollbackDefault
           \/ \E i \in 1 .. MaxVersions : Rollback(i))
       => cur.spec \in Specs(cur'.revs)]_vars

(* A rollback loses a revision only to max_versions: the revisions move    *)
(* towards the end, and what falls off is the oldest.                      *)
RollbackKeepsHistory ==
    [][RollbackDefault \/ (\E i \in 1 .. MaxVersions : Rollback(i))
       => \E k \in 0 .. 2 :
             /\ Len(cur'.revs) = IF Len(cur.revs) + k > MaxVersions THEN MaxVersions
                                 ELSE Len(cur.revs) + k
             /\ \A i \in 1 .. Len(cur'.revs) : i > k => cur'.revs[i] = cur.revs[i - k]]_vars
==============================================================================
