---------------------------- MODULE History_proofs ----------------------------
(***************************************************************************)
(* Proofs about what is kept of a workload's past: its revision history    *)
(* (RollbackHistory), for every set of specs, every max_versions, any      *)
(* number of writes and both kinds of store; and its event log (EventLog), *)
(* for every set of specs, age, buffer, set of limits and any number of    *)
(* events and ticks.                                                       *)
(***************************************************************************)
EXTENDS RollbackHistory, EventLog, FiniteSetTheorems, TLAPS

(* A well-typed workload whose history is in order.                        *)
Good(w, n) == w \in Workload(n) /\ Kept(w)

(* The constants, as the provers need them.                                *)
LEMMA Constants == MaxVersions \in Nat /\ MaxVersions >= 1 /\ MaxWrites \in Nat
  BY HistoryAssumption

(* A revision stays one when more IDs are handed out.                      *)
LEMMA RevisionsGrow ==
    ASSUME NEW n \in Nat, NEW m \in Nat, n <= m
    PROVE  Seq(Revision(n)) \subseteq Seq(Revision(m))
  <1>1. ASSUME NEW x \in Revision(n)
        PROVE  x \in Revision(m)
    BY DEF Revision
  <1>2. ASSUME NEW q \in Seq(Revision(n))
        PROVE  q \in Seq(Revision(m))
    <2>1. Len(q) \in Nat /\ \A i \in 1 .. Len(q) : q[i] \in Revision(m)
      BY <1>1
    <2> QED BY <2>1
  <1> QED BY <1>2

(* prependRevision puts a revision with a new ID in front, and neither     *)
(* exceeds max_versions nor repeats an ID.                                 *)
LEMMA PrependResult ==
    ASSUME NEW n \in Nat, NEW m \in Nat, NEW k \in (n + 1) .. m, NEW s \in SpecType,
           NEW revs \in Seq(Revision(n)), Distinct(revs)
    PROVE  LET out == Prepend(revs, [rid |-> k, spec |-> s]) IN
           /\ out \in Seq(Revision(m))
           /\ Len(out) \in 1 .. MaxVersions
           /\ Distinct(out)
  <1> DEFINE rev == [rid |-> k, spec |-> s]
             all == <<rev>> \o revs
             out == Prepend(revs, rev)
  <1> USE Constants
  <1>1. rev \in Revision(m) /\ rev.rid = k
    BY DEF Revision
  <1>2. revs \in Seq(Revision(m))
    BY RevisionsGrow
  <1>3. /\ all \in Seq(Revision(m)) /\ Len(all) = Len(revs) + 1
        /\ all[1] = rev
        /\ \A i \in 2 .. Len(all) : all[i] = revs[i - 1]
    BY <1>1, <1>2
  <1>4. \A i \in 1 .. Len(revs) : revs[i].rid \in 1 .. n
    <2>1. \A i \in 1 .. Len(revs) : revs[i] \in Revision(n)
      OBVIOUS
    <2> QED BY <2>1 DEF Revision
  <1>5. Distinct(all)
    <2> SUFFICES ASSUME NEW i \in 1 .. Len(all), NEW j \in 1 .. Len(all),
                        all[i].rid = all[j].rid
                 PROVE  i = j
      BY <1>3 DEF Distinct
    <2> HIDE DEF all, rev
    <2>1. CASE i = 1 /\ j = 1
      BY <2>1
    <2>2. ASSUME NEW a \in 2 .. Len(all)
          PROVE  all[a].rid # k
      <3>1. a - 1 \in 1 .. Len(revs) /\ all[a] = revs[a - 1]
        BY <1>3
      <3>2. all[a].rid \in 1 .. n
        BY <1>4, <3>1
      <3> QED BY <3>2
    <2>3. CASE ~(i # 1 /\ j # 1)
      BY <1>1, <1>3, <2>1, <2>2, <2>3
    <2>4. CASE i # 1 /\ j # 1
      <3>1. i - 1 \in 1 .. Len(revs) /\ j - 1 \in 1 .. Len(revs)
        BY <1>3, <2>4
      <3>2. all[i] = revs[i - 1] /\ all[j] = revs[j - 1]
        BY <1>3, <2>4
      <3>3. i - 1 = j - 1
        BY <3>1, <3>2 DEF Distinct
      <3> QED BY <3>3
    <2> QED BY <2>3, <2>4
  <1>6. out = IF Len(all) > MaxVersions THEN SubSeq(all, 1, MaxVersions) ELSE all
    BY DEF Prepend
  <1> HIDE DEF all, out, rev
  <1>7. CASE Len(all) > MaxVersions
    <2>1. /\ out \in Seq(Revision(m)) /\ Len(out) = MaxVersions
          /\ \A i \in 1 .. MaxVersions : out[i] = all[i]
      BY <1>3, <1>6, <1>7
    <2>2. Distinct(out)
      BY <1>3, <1>5, <1>7, <2>1 DEF Distinct
    <2> QED BY <2>1, <2>2 DEF out, rev
  <1>8. CASE ~(Len(all) > MaxVersions)
    BY <1>3, <1>5, <1>6, <1>8 DEF out, rev
  <1> QED BY <1>7, <1>8

(* refreshStatus keeps a history in order, whatever the count was.         *)
LEMMA RefreshResult ==
    ASSUME NEW n \in Nat, NEW w \in Workload(n), NEW id \in 1 .. n,
           Len(w.revs) \in 1 .. MaxVersions, Distinct(w.revs)
    PROVE  Good(RefreshStatus(w, id), n) /\ RefreshStatus(w, id).obj = w.obj
  BY DEF RefreshStatus, Good, Kept, Workload

(* What was handed out stays handed out.                                   *)
LEMMA Monotone ==
    ASSUME NEW n \in Nat, NEW m \in Nat, n <= m, NEW w, Good(w, n)
    PROVE  Good(w, m)
  <1>1. Seq(Revision(n)) \subseteq Seq(Revision(m))
    BY RevisionsGrow
  <1> QED BY <1>1 DEF Good, Workload

(* A workload with another spec is as good as before.                      *)
LEMMA NewSpecGood ==
    ASSUME NEW n \in Nat, NEW w, Good(w, n), NEW s \in SpecType
    PROVE  /\ Good([w EXCEPT !.spec = s], n)
           /\ [w EXCEPT !.spec = s].obj = w.obj
  BY DEF Good, Workload, Kept

(* RecordBeforeUpdate keeps the history in order.                          *)
LEMMA RecordResult ==
    ASSUME NEW n \in Nat, NEW m \in Nat, NEW k \in (n + 1) .. m,
           NEW next, Good(next, n), NEW previous, previous.spec \in SpecType
    PROVE  /\ Good(RecordBeforeUpdate(next, previous, k), m)
           /\ RecordBeforeUpdate(next, previous, k).obj = next.obj
  <1> DEFINE revs == Prepend(next.revs, [rid |-> k, spec |-> previous.spec])
             longer == [next EXCEPT !.revs = revs]
  <1>1. Good(next, m)
    BY Monotone
  <1>2. /\ next.revs \in Seq(Revision(n)) /\ Distinct(next.revs)
    BY DEF Good, Kept, Workload
  <1>3. revs \in Seq(Revision(m)) /\ Len(revs) \in 1 .. MaxVersions /\ Distinct(revs)
    BY <1>2, PrependResult
  <1>4. RecordBeforeUpdate(next, previous, k) =
           IF SpecsEqual(previous.spec, next.spec) THEN next ELSE RefreshStatus(longer, k)
    BY DEF RecordBeforeUpdate
  <1> HIDE DEF revs
  <1>5. /\ longer \in Workload(m) /\ longer.revs = revs /\ longer.obj = next.obj
    BY <1>1, <1>3 DEF Good, Workload
  <1> HIDE DEF longer
  <1>6. Good(RefreshStatus(longer, k), m) /\ RefreshStatus(longer, k).obj = next.obj
    BY <1>3, <1>5, RefreshResult
  <1> QED BY <1>1, <1>4, <1>6

(***************************************************************************)
(* The inductive invariant.  Bookkeeping speaks of the stored workload     *)
(* only; a write-back makes the held one the stored one, so the history of *)
(* what is held, however stale, has to be in order too.                    *)
(***************************************************************************)
Fine(w, n) == w = NoWorkload \/ Good(w, n)

IInv ==
    /\ TypeOK
    /\ Fine(cur, fresh)
    /\ Fine(held, fresh)

(* An absent workload is told apart from every workload by its object.     *)
LEMMA ExistsGood ==
    ASSUME NEW n \in Nat, NEW w, Fine(w, n)
    PROVE  /\ w.obj # 0 <=> Good(w, n)
           /\ w.obj = 0 <=> w = NoWorkload
           /\ Good(w, n) => w.spec \in SpecType /\ w.obj \in 1 .. n
  BY DEF Fine, Good, Workload, NoWorkload

(* The shape of every step: the fresh IDs grow, what is stored and what is *)
(* held stays in order.                                                    *)
LEMMA StepResult ==
    ASSUME IInv, fresh' \in Nat, fresh <= fresh', live' = live,
           Fine(cur', fresh'), Fine(held', fresh'),
           writes' \in 0 .. MaxWrites
    PROVE  IInv'
  <1>1. TypeOK'
    BY DEF IInv, TypeOK, Fine, Good
  <1> QED BY <1>1 DEF IInv

(* The workload that deployOne hands to Create, with its first revision.   *)
LEMMA InitialGood ==
    ASSUME NEW n \in Nat, NEW s \in SpecType
    PROVE  Good(RecordInitial([obj |-> n + 1, spec |-> s, revs |-> <<>>, count |-> 0,
                               active |-> 0], n + 1), n + 1)
  <1> DEFINE bare == [obj |-> n + 1, spec |-> s, revs |-> <<>>, count |-> 0, active |-> 0]
             first == [rid |-> n + 1, spec |-> s]
             only == <<first>>
             new == RecordInitial(bare, n + 1)
  <1> USE Constants
  <1>1. new = [obj |-> n + 1, spec |-> s, revs |-> <<first>>, count |-> 1, active |-> n + 1]
    BY DEF RecordInitial, RefreshStatus
  <1>2. first \in Revision(n + 1)
    BY DEF Revision
  <1>3. <<first>> \in Seq(Revision(n + 1)) /\ Len(<<first>>) = 1
    BY <1>2
  <1>4. Distinct(only)
    BY DEF Distinct
  <1>5. new.revs = only /\ new.count = 1
    BY <1>1
  <1> HIDE DEF first, only, new
  <1>6. new \in Workload(n + 1)
    BY <1>1, <1>3 DEF Workload, only
  <1>7. Kept(new)
    BY <1>3, <1>4, <1>5 DEF Kept, only
  <1> QED BY <1>6, <1>7 DEF Good, new

(* deployOne, on a new and on an existing ID.                              *)
LEMMA DeployStep ==
    ASSUME IInv, NEW s \in SpecType, Deploy(s)
    PROVE  IInv'
  <1> DEFINE bare == [obj |-> fresh + 1, spec |-> s, revs |-> <<>>,
                      count |-> 0, active |-> 0]
             new == RecordInitial(bare, fresh + 1)
             w == IF live /\ Exists THEN StoreUpdate(new, fresh + 2) ELSE new
  <1> USE Constants
  <1>1. fresh \in Nat /\ fresh' = fresh + 2 /\ live' = live /\ held' = held
        /\ writes' \in 0 .. MaxWrites /\ cur' = w
    BY DEF IInv, TypeOK, Deploy, Write
  <1>2. Good(new, fresh + 1)
    BY <1>1, InitialGood
  <1> HIDE DEF new
  <1>3. Good(w, fresh + 2)
    <2>1. Good(new, fresh + 2)
      BY <1>1, <1>2, Monotone
    <2>2. CASE live /\ Exists
      <3>1. cur.spec \in SpecType
        BY <1>1, <2>2, ExistsGood DEF IInv, Exists
      <3>2. Good(RecordBeforeUpdate(new, cur, fresh + 2), fresh + 2)
        BY <1>1, <1>2, <3>1, RecordResult
      <3> QED BY <2>1, <2>2, <3>2 DEF StoreUpdate
    <2>3. CASE ~(live /\ Exists)
      BY <2>1, <2>3
    <2> QED BY <2>2, <2>3
  <1> HIDE DEF w
  <1>4. Fine(held', fresh')
    BY <1>1, Monotone DEF IInv, Fine
  <1> QED BY <1>1, <1>3, <1>4, StepResult DEF Fine

(* A rollback, whichever revision it goes to.                              *)
LEMMA RevertStep ==
    ASSUME IInv, Exists, NEW i \in 1 .. Len(cur.revs), Write, Revert(cur.revs[i]), live' = live
    PROVE  IInv'
  <1> DEFINE rev == cur.revs[i]
             changed == [cur EXCEPT !.spec = rev.spec]
             recorded == RecordBeforeUpdate(changed, cur, fresh + 1)
             reverted == RefreshStatus(recorded, rev.rid)
             w == IF live THEN reverted ELSE RecordBeforeUpdate(reverted, cur, fresh + 2)
  <1> USE Constants
  <1>1. /\ fresh \in Nat /\ fresh' = fresh + 2 /\ writes' \in 0 .. MaxWrites /\ cur' = w
        /\ held' = IF SameObject(held) THEN cur' ELSE held
    BY DEF IInv, TypeOK, Revert, Write
  <1>2. Good(cur, fresh) /\ cur.spec \in SpecType
    BY <1>1, ExistsGood DEF IInv, Exists
  <1>3. rev \in Revision(fresh)
    BY <1>2 DEF Good, Workload
  <1>4. rev.spec \in SpecType /\ rev.rid \in 1 .. (fresh + 1)
    BY <1>1, <1>3 DEF Revision
  <1> HIDE DEF rev
  <1>5. Good(changed, fresh)
    BY <1>1, <1>2, <1>4, NewSpecGood
  <1> HIDE DEF changed
  <1>6. Good(recorded, fresh + 1)
    <2>1. fresh + 1 \in Nat /\ fresh + 1 \in (fresh + 1) .. (fresh + 1)
      BY <1>1
    <2> QED BY <1>1, <1>2, <1>5, <2>1, RecordResult
  <1> HIDE DEF recorded
  <1>7. Good(reverted, fresh + 1)
    BY <1>1, <1>4, <1>6, RefreshResult DEF Good, Kept
  <1> HIDE DEF reverted
  <1>8. Good(w, fresh + 2)
    <2>1. /\ fresh + 1 \in Nat /\ fresh + 2 \in Nat /\ fresh + 1 <= fresh + 2
          /\ fresh + 2 \in (fresh + 1 + 1) .. (fresh + 2)
      BY <1>1
    <2>2. Good(reverted, fresh + 2)
      BY <1>7, <2>1, Monotone
    <2>3. Good(RecordBeforeUpdate(reverted, cur, fresh + 2), fresh + 2)
      BY <1>2, <1>7, <2>1, RecordResult
    <2> QED BY <2>2, <2>3
  <1> HIDE DEF w
  <1>9. Fine(held', fresh')
    <2>1. Fine(held, fresh')
      BY <1>1, Monotone DEF IInv, Fine
    <2> QED BY <1>1, <1>8, <2>1 DEF Fine
  <1> QED BY <1>1, <1>8, <1>9, StepResult DEF Fine

(* A write-back of what was taken from List.                               *)
LEMMA WriteBackStep ==
    ASSUME IInv, NEW key \in Keys, WriteBack(key)
    PROVE  IInv'
  <1> DEFINE s == [key |-> key, rest |-> held.spec.rest]
             w == [held EXCEPT !.spec = s]
             written == StoreUpdate(w, fresh + 1)
  <1> USE Constants
  <1>1. /\ fresh \in Nat /\ fresh' = fresh + 1 /\ writes' \in 0 .. MaxWrites /\ live' = live
        /\ held.obj # 0 /\ held' = NoWorkload /\ Exists /\ cur' = written
    BY DEF IInv, TypeOK, WriteBack, Write
  <1>2. Good(held, fresh) /\ held.spec \in SpecType /\ cur.spec \in SpecType
    BY <1>1, ExistsGood DEF IInv, Exists
  <1>3. s \in SpecType
    BY <1>2 DEF SpecType
  <1> HIDE DEF s
  <1>4. Good(w, fresh)
    BY <1>1, <1>2, <1>3, NewSpecGood
  <1> HIDE DEF w
  <1>5. Good(written, fresh + 1)
    <2>1. fresh + 1 \in Nat /\ fresh <= fresh + 1 /\ fresh + 1 \in (fresh + 1) .. (fresh + 1)
      BY <1>1
    <2>2. Good(w, fresh + 1)
      BY <1>1, <1>4, <2>1, Monotone
    <2>3. Good(RecordBeforeUpdate(w, cur, fresh + 1), fresh + 1)
      BY <1>1, <1>2, <1>4, <2>1, RecordResult
    <2> QED BY <2>2, <2>3 DEF StoreUpdate
  <1> HIDE DEF written
  <1> QED BY <1>1, <1>5, StepResult DEF Fine

(* RollbackDefault goes to a revision there is.                            *)
LEMMA DefaultExists ==
    ASSUME IInv, RollbackDefault
    PROVE  2 \in 1 .. Len(cur.revs)
  <1>1. fresh \in Nat
    BY DEF IInv, TypeOK
  <1>2. Good(cur, fresh)
    BY <1>1, ExistsGood DEF IInv, Exists, RollbackDefault
  <1> QED BY <1>2 DEF RollbackDefault, Good, Workload

(* Every step keeps the invariant.                                         *)
LEMMA NextIInv ==
    ASSUME IInv, [Next]_vars
    PROVE  IInv'
  <1>1. fresh \in Nat /\ writes \in 0 .. MaxWrites
    BY DEF IInv, TypeOK
  <1>2. ASSUME NEW s \in SpecType, Deploy(s)
        PROVE  IInv'
    BY <1>2, DeployStep
  <1>3. ASSUME NEW i \in 1 .. MaxVersions, Rollback(i)
        PROVE  IInv'
    BY <1>3, RevertStep DEF Rollback
  <1>4. CASE RollbackDefault
    BY <1>4, DefaultExists, RevertStep DEF RollbackDefault
  <1>5. CASE Delete
    <2>1. writes' \in 0 .. MaxWrites
      BY <1>1, <1>5, Constants DEF Delete, Write
    <2> QED BY <1>1, <1>5, <2>1, StepResult DEF Delete, IInv, Fine
  <1>6. CASE Take
    BY <1>1, <1>6, StepResult DEF Take, IInv
  <1>7. ASSUME NEW key \in Keys, WriteBack(key)
        PROVE  IInv'
    BY <1>7, WriteBackStep
  <1>8. CASE UNCHANGED vars
    BY <1>1, <1>8, StepResult DEF vars, IInv
  <1> QED BY <1>2, <1>3, <1>4, <1>5, <1>6, <1>7, <1>8 DEF Next

(* The first state has no workload.                                        *)
LEMMA InitIInv == Init => IInv
  BY Constants DEF Init, IInv, TypeOK, Fine

(* IInv holds in every reachable state.                                    *)
THEOREM Invariance == Spec => []IInv
  BY InitIInv, NextIInv, PTL DEF Spec

(* Every variable keeps its type: no revision or object is met before its  *)
(* ID was handed out.                                                      *)
THEOREM TypeCorrect == Spec => []TypeOK
  <1>1. IInv => TypeOK
    BY DEF IInv
  <1> QED BY Invariance, <1>1, PTL

(* The history of the stored workload is in order after any number of      *)
(* redeploys, rollbacks, deletes and write-backs of stale objects: bounded *)
(* by max_versions, never empty, counted right and without a repeated ID.  *)
THEOREM HistoryKept == Spec => []Bookkeeping
  <1>1. IInv => Bookkeeping
    BY ExistsGood DEF IInv, TypeOK, Bookkeeping, Exists, Good
  <1> QED BY Invariance, <1>1, PTL

(***************************************************************************)
(* What a write leaves of the history.                                     *)
(***************************************************************************)

(* The revisions moved k places towards the end; what fell off is oldest.  *)
Moved(old, new, k) ==
    /\ Len(new) = IF Len(old) + k > MaxVersions THEN MaxVersions ELSE Len(old) + k
    /\ \A i \in 1 .. Len(new) : i > k => new[i] = old[i - k]

LEMMA PrependMoves ==
    ASSUME NEW n \in Nat, NEW revs \in Seq(Revision(n)), NEW rev,
           Len(revs) \in 1 .. MaxVersions
    PROVE  LET out == Prepend(revs, rev) IN
           Moved(revs, out, 1) /\ 1 \in DOMAIN out /\ out[1] = rev
  <1> DEFINE all == <<rev>> \o revs
             out == Prepend(revs, rev)
  <1> USE Constants
  <1>1. /\ all \in Seq(Revision(n) \cup {rev}) /\ Len(all) = Len(revs) + 1
        /\ all[1] = rev
        /\ \A i \in 2 .. Len(all) : all[i] = revs[i - 1]
    OBVIOUS
  <1>2. out = IF Len(all) > MaxVersions THEN SubSeq(all, 1, MaxVersions) ELSE all
    BY DEF Prepend
  <1>3. Len(revs) \in Nat
    OBVIOUS
  <1> HIDE DEF all, out
  <1>4. CASE Len(all) > MaxVersions
    <2>1. /\ Len(out) = MaxVersions /\ \A i \in 1 .. MaxVersions : out[i] = all[i]
          /\ DOMAIN out = 1 .. MaxVersions
      BY <1>1, <1>2, <1>4
    <2> QED BY <1>1, <1>3, <1>4, <2>1 DEF Moved, out
  <1>5. CASE ~(Len(all) > MaxVersions)
    <2>1. DOMAIN out = 1 .. Len(out) /\ Len(out) = Len(revs) + 1
      BY <1>1, <1>2, <1>5
    <2> QED BY <1>1, <1>2, <1>3, <1>5, <2>1 DEF Moved, out
  <1> QED BY <1>4, <1>5

(* Two moves make one.                                                     *)
LEMMA MovesAdd ==
    ASSUME NEW S, NEW a \in Seq(S), NEW b \in Seq(S), NEW c \in Seq(S),
           NEW j \in 0 .. 1, NEW k \in 0 .. 1, Moved(a, b, j), Moved(b, c, k)
    PROVE  j + k \in 0 .. 2 /\ Moved(a, c, j + k)
  <1> USE Constants
  <1>1. Len(a) \in Nat /\ Len(b) \in Nat /\ Len(c) \in Nat
    OBVIOUS
  <1>2. Len(c) = IF Len(a) + (j + k) > MaxVersions THEN MaxVersions ELSE Len(a) + (j + k)
    BY <1>1 DEF Moved
  <1>3. ASSUME NEW i \in 1 .. Len(c), i > j + k
        PROVE  c[i] = a[i - (j + k)]
    <2>1. i - k \in 1 .. Len(b) /\ i > k /\ i - k > j
      BY <1>1, <1>3 DEF Moved
    <2>2. c[i] = b[i - k]
      BY <2>1 DEF Moved
    <2>3. b[i - k] = a[(i - k) - j]
      BY <2>1 DEF Moved
    <2>4. (i - k) - j = i - (j + k)
      BY <1>1
    <2> QED BY <2>2, <2>3, <2>4
  <1>4. j + k \in 0 .. 2
    OBVIOUS
  <1> QED BY <1>2, <1>3, <1>4 DEF Moved

(* RecordBeforeUpdate moves the history by at most one place, and when the *)
(* key changes it puts the spec that is replaced in front.                 *)
LEMMA RecordMoves ==
    ASSUME NEW n \in Nat, NEW next, Good(next, n), NEW previous, NEW id
    PROVE  LET w == RecordBeforeUpdate(next, previous, id) IN
           /\ w.spec = next.spec
           /\ \E k \in 0 .. 1 : Moved(next.revs, w.revs, k)
           /\ previous.spec.key # next.spec.key =>
                 1 \in DOMAIN w.revs /\ w.revs[1].spec = previous.spec
  <1> DEFINE rev == [rid |-> id, spec |-> previous.spec]
             revs == Prepend(next.revs, rev)
             longer == [next EXCEPT !.revs = revs]
             w == RecordBeforeUpdate(next, previous, id)
  <1> USE Constants
  <1>1. next \in Workload(n) /\ next.revs \in Seq(Revision(n)) /\ Len(next.revs) \in 1 .. MaxVersions
    BY DEF Good, Kept, Workload
  <1>2. w = IF previous.spec.key = next.spec.key THEN next ELSE RefreshStatus(longer, id)
    BY DEF RecordBeforeUpdate, SpecsEqual
  <1>3. Moved(next.revs, revs, 1) /\ 1 \in DOMAIN revs /\ revs[1] = rev /\ rev.spec = previous.spec
    BY <1>1, PrependMoves
  <1> HIDE DEF w, revs, rev
  <1>4. longer.revs = revs /\ longer.spec = next.spec
    BY <1>1 DEF Workload
  <1>5. RefreshStatus(longer, id).revs = revs /\ RefreshStatus(longer, id).spec = next.spec
    BY <1>4 DEF RefreshStatus
  <1> HIDE DEF longer
  <1>6. CASE previous.spec.key = next.spec.key
    <2>1. Moved(next.revs, next.revs, 0)
      BY <1>1 DEF Moved
    <2> QED BY <1>2, <1>6, <2>1 DEF w
  <1>7. CASE previous.spec.key # next.spec.key
    <2>1. w.revs = revs /\ w.spec = next.spec
      BY <1>2, <1>5, <1>7
    <2> QED BY <1>3, <1>7, <2>1 DEF w
  <1> QED BY <1>6, <1>7

(* A rollback: the history moves by at most two places, and with the       *)
(* memory store the spec that is replaced is among the revisions.          *)
LEMMA RevertMoves ==
    ASSUME IInv, Exists, NEW i \in 1 .. Len(cur.revs), Revert(cur.revs[i])
    PROVE  /\ \E k \in 0 .. 2 : Moved(cur.revs, cur'.revs, k)
           /\ live /\ cur'.spec.key # cur.spec.key => cur.spec \in Specs(cur'.revs)
  <1> DEFINE rev == cur.revs[i]
             changed == [cur EXCEPT !.spec = rev.spec]
             recorded == RecordBeforeUpdate(changed, cur, fresh + 1)
             reverted == RefreshStatus(recorded, rev.rid)
             again == RecordBeforeUpdate(reverted, cur, fresh + 2)
  <1> USE Constants
  <1>1. fresh \in Nat /\ cur' = IF live THEN reverted ELSE again
    BY DEF IInv, TypeOK, Revert
  <1>2. Good(cur, fresh) /\ cur.spec \in SpecType
    BY <1>1, ExistsGood DEF IInv, Exists
  <1>3. rev \in Revision(fresh)
    BY <1>2 DEF Good, Workload
  <1>4. rev.spec \in SpecType /\ rev.rid \in 1 .. (fresh + 1)
    BY <1>1, <1>3 DEF Revision
  <1> HIDE DEF rev
  <1>5. Good(changed, fresh) /\ changed.revs = cur.revs
    <2>1. Good(changed, fresh)
      BY <1>1, <1>2, <1>4, NewSpecGood
    <2>2. changed.revs = cur.revs
      BY <1>2 DEF Good, Workload
    <2> QED BY <2>1, <2>2
  <1> HIDE DEF changed
  <1>6. Good(recorded, fresh + 1)
    <2>1. fresh + 1 \in Nat /\ fresh + 1 \in (fresh + 1) .. (fresh + 1)
      BY <1>1
    <2> QED BY <1>1, <1>2, <1>5, <2>1, RecordResult
  <1>7. /\ recorded.spec = changed.spec
        /\ \E k \in 0 .. 1 : Moved(cur.revs, recorded.revs, k)
        /\ cur.spec.key # changed.spec.key =>
              1 \in DOMAIN recorded.revs /\ recorded.revs[1].spec = cur.spec
    BY <1>1, <1>5, RecordMoves
  <1> HIDE DEF recorded
  <1>8. Good(reverted, fresh + 1)
    BY <1>1, <1>4, <1>6, RefreshResult DEF Good, Kept
  <1>9. reverted.revs = recorded.revs /\ reverted.spec = recorded.spec
    BY DEF RefreshStatus
  <1> HIDE DEF reverted
  <1>10. CASE live
    <2>1. cur' = reverted
      BY <1>1, <1>10
    <2>2. \E k \in 0 .. 2 : Moved(cur.revs, cur'.revs, k)
      BY <1>7, <1>9, <2>1
    <2>3. cur'.spec.key # cur.spec.key => cur.spec \in Specs(cur'.revs)
      BY <1>7, <1>9, <2>1 DEF Specs
    <2> QED BY <2>2, <2>3
  <1>11. CASE ~live
    <2>1. cur' = again /\ fresh + 1 \in Nat
      BY <1>1, <1>11
    <2>2. \E k \in 0 .. 1 : Moved(reverted.revs, again.revs, k)
      BY <1>8, <2>1, RecordMoves
    <2>3. Good(again, fresh + 2)
      <3>1. fresh + 2 \in Nat /\ fresh + 2 \in (fresh + 1 + 1) .. (fresh + 2)
        BY <1>1
      <3> QED BY <1>2, <1>8, <2>1, <3>1, RecordResult
    <2> HIDE DEF again
    <2>4. /\ cur.revs \in Seq(Revision(fresh + 2)) /\ recorded.revs \in Seq(Revision(fresh + 2))
          /\ again.revs \in Seq(Revision(fresh + 2))
      <3>1. Good(cur, fresh + 2) /\ Good(recorded, fresh + 2)
        BY <1>1, <1>2, <1>6, Monotone
      <3> QED BY <2>3, <3>1 DEF Good, Workload
    <2>5. PICK j \in 0 .. 1 : Moved(cur.revs, recorded.revs, j)
      BY <1>7
    <2>6. PICK k \in 0 .. 1 : Moved(recorded.revs, again.revs, k)
      BY <1>9, <2>2
    <2>7. j + k \in 0 .. 2 /\ Moved(cur.revs, again.revs, j + k)
      BY <2>4, <2>5, <2>6, MovesAdd
    <2> QED BY <1>11, <2>1, <2>7
  <1> QED BY <1>10, <1>11

(* A redeploy: the new object starts with its own spec and remembers the   *)
(* one it replaces.                                                        *)
LEMMA DeployRemembers ==
    ASSUME IInv, live, Exists, NEW s \in SpecType, Deploy(s), cur'.spec.key # cur.spec.key
    PROVE  cur.spec \in Specs(cur'.revs)
  <1> DEFINE bare == [obj |-> fresh + 1, spec |-> s, revs |-> <<>>, count |-> 0, active |-> 0]
             first == [rid |-> fresh + 1, spec |-> s]
             new == RecordInitial(bare, fresh + 1)
             w == RecordBeforeUpdate(new, cur, fresh + 2)
  <1> USE Constants
  <1>1. fresh \in Nat /\ cur' = StoreUpdate(new, fresh + 2)
    BY DEF IInv, TypeOK, Deploy
  <1>2. cur.obj \in 1 .. fresh
    BY <1>1, ExistsGood DEF IInv, Exists
  <1>3. new = [obj |-> fresh + 1, spec |-> s, revs |-> <<first>>, count |-> 1,
               active |-> fresh + 1]
    BY DEF RecordInitial, RefreshStatus
  <1>4. new.obj # cur.obj
    BY <1>1, <1>2, <1>3
  <1>5. cur' = w
    BY <1>1, <1>4 DEF StoreUpdate, SameObject
  <1>6. Good(new, fresh + 1)
    BY <1>1, InitialGood
  <1> HIDE DEF new
  <1>7. w.spec = new.spec /\ (cur.spec.key # new.spec.key =>
              1 \in DOMAIN w.revs /\ w.revs[1].spec = cur.spec)
    <2>1. fresh + 1 \in Nat
      BY <1>1
    <2> QED BY <1>6, <2>1, RecordMoves
  <1> QED BY <1>5, <1>7 DEF Specs

(* With the memory store, whatever a redeploy or a rollback replaces can   *)
(* be rolled back to, after any sequence of writes before it.              *)
THEOREM UndoStaysAvailable == Spec => UndoAvailable
  <1> DEFINE A == live /\ Exists /\ cur'.obj # 0 /\ cur'.spec.key # cur.spec.key
                  /\ ((\E s \in SpecType : Deploy(s)) \/ RollbackDefault
                      \/ \E i \in 1 .. MaxVersions : Rollback(i))
                  => cur.spec \in Specs(cur'.revs)
  <1>1. IInv => A
    <2> SUFFICES ASSUME IInv, live, Exists, cur'.spec.key # cur.spec.key,
                        (\E s \in SpecType : Deploy(s)) \/ RollbackDefault
                           \/ \E i \in 1 .. MaxVersions : Rollback(i)
                 PROVE  cur.spec \in Specs(cur'.revs)
      OBVIOUS
    <2>1. CASE \E s \in SpecType : Deploy(s)
      BY <2>1, DeployRemembers
    <2>2. CASE RollbackDefault
      BY <2>2, DefaultExists, RevertMoves DEF RollbackDefault
    <2>3. CASE \E i \in 1 .. MaxVersions : Rollback(i)
      BY <2>3, RevertMoves DEF Rollback
    <2> QED BY <2>1, <2>2, <2>3
  <1>2. IInv => [A]_vars
    BY <1>1
  <1> QED BY <1>2, Invariance, PTL DEF UndoAvailable

(* A rollback loses revisions only to max_versions, the oldest first, in   *)
(* both stores: the memory store records the replaced spec once, etcd at   *)
(* most twice.                                                             *)
THEOREM RollbackLosesNothing == Spec => RollbackKeepsHistory
  <1> DEFINE A == RollbackDefault \/ (\E i \in 1 .. MaxVersions : Rollback(i))
                  => \E k \in 0 .. 2 :
                        /\ Len(cur'.revs) = IF Len(cur.revs) + k > MaxVersions THEN MaxVersions
                                            ELSE Len(cur.revs) + k
                        /\ \A i \in 1 .. Len(cur'.revs) : i > k => cur'.revs[i] = cur.revs[i - k]
  <1>1. IInv => A
    <2> SUFFICES ASSUME IInv, RollbackDefault \/ \E i \in 1 .. MaxVersions : Rollback(i)
                 PROVE  \E k \in 0 .. 2 : Moved(cur.revs, cur'.revs, k)
      BY DEF Moved
    <2>1. CASE RollbackDefault
      BY <2>1, DefaultExists, RevertMoves DEF RollbackDefault
    <2>2. CASE \E i \in 1 .. MaxVersions : Rollback(i)
      BY <2>2, RevertMoves DEF Rollback
    <2> QED BY <2>1, <2>2
  <1>2. IInv => [A]_vars
    BY <1>1
  <1> QED BY <1>2, Invariance, PTL DEF RollbackKeepsHistory

(***************************************************************************)
(* The event log.                                                          *)
(***************************************************************************)

(***************************************************************************)
(* What a filter of the log leaves.                                        *)
(***************************************************************************)

(* Every set of numbers that is not empty has a least one.                 *)
LEMMA Least ==
    ASSUME NEW T, T \subseteq Nat, T # {}
    PROVE  \E m \in T : \A n \in T : m <= n
<1>1. PICK m \in T : \A n \in T : ~(<<n, m>> \in OpToRel(<, Nat))
  BY NatLessThanWellFounded, WFMin, Zenon
<1>2. \A n \in T : ~(n < m)
  BY <1>1 DEF OpToRel
<1> QED  BY <1>2

(* Positions that are closed upwards are the last ones.                    *)
LEMMA LastPositions ==
    ASSUME NEW n \in Nat, NEW I, I \subseteq 1 .. n,
           \A i \in I, j \in 1 .. n : i <= j => j \in I
    PROVE  \E k \in 0 .. n : I = k + 1 .. n
<1>1. CASE I = {}
  <2>1. n \in 0 .. n /\ I = n + 1 .. n
    BY <1>1
  <2> QED  BY <2>1
<1>2. CASE I # {}
  <2>1. I \subseteq Nat
    OBVIOUS
  <2>2. PICK m \in I : \A i \in I : m <= i
    BY <1>2, <2>1, Least
  <2>3. m \in 1 .. n /\ m - 1 \in 0 .. n
    OBVIOUS
  <2>4. \A i \in m .. n : i \in I
    BY <2>2, <2>3
  <2>5. I = m .. n
    <3>1. \A i \in I : i \in 1 .. n
      OBVIOUS
    <3>2. ASSUME NEW i \in 1 .. n, m <= i PROVE i \in m .. n
      BY <2>3, <3>2
    <3>3. I \subseteq m .. n
      BY <2>2, <3>1, <3>2, Zenon
    <3> QED  BY <2>4, <3>3, Zenon
  <2>6. m = (m - 1) + 1
    BY <2>3
  <2> QED  BY <2>3, <2>5, <2>6
<1> QED  BY <1>1, <1>2

(* The last events of the log, selected.                                   *)
LEMMA SelectLast ==
    ASSUME log \in Seq(Event), NEW k \in 0 .. Len(log)
    PROVE  LET t == Select(k + 1 .. Len(log)) IN
           /\ t \in Seq(Event)
           /\ Len(t) = Len(log) - k
           /\ \A n \in 1 .. Len(log) - k : t[n] = log[k + n]
<1> DEFINE l == Len(log)
           I == k + 1 .. l
           t == Select(I)
<1>1. l \in Nat /\ k \in Nat /\ k <= l
  OBVIOUS
<1>2. Cardinality(I) = l - k
  <2>1. Cardinality(k + 1 .. l) = IF k + 1 > l THEN 0 ELSE l - (k + 1) + 1
    <3>1. k + 1 \in Int /\ l \in Int
      BY <1>1
    <3> HIDE DEF l
    <3> QED  BY <3>1, FS_Interval, Zenon
  <2> QED  BY <1>1, <2>1
<1>3. ASSUME NEW i \in I
      PROVE  Cardinality({j \in I : j <= i}) = i - k
  <2>1. {j \in I : j <= i} = k + 1 .. i
    BY <1>1
  <2>2. Cardinality(k + 1 .. i) = IF k + 1 > i THEN 0 ELSE i - (k + 1) + 1
    <3>1. k + 1 \in Int /\ i \in Int
      BY <1>1
    <3> QED  BY <3>1, FS_Interval, Zenon
  <2>3. i \in Int /\ k + 1 <= i
    BY <1>1
  <2>4. (IF k + 1 > i THEN 0 ELSE i - (k + 1) + 1) = i - k
    BY <1>1, <2>3
  <2> QED  BY <2>1, <2>2, <2>4
<1>4. ASSUME NEW n \in 1 .. l - k
      PROVE  (CHOOSE i \in I : Cardinality({j \in I : j <= i}) = n) = k + n
  <2>1. k + n \in I /\ (k + n) - k = n
    BY <1>1
  <2>2. \A i \in I : i - k = n => i = k + n
    BY <1>1
  <2> HIDE DEF I
  <2> QED  BY <1>3, <2>1, <2>2
<1>5. t = [n \in 1 .. l - k |-> log[CHOOSE i \in I : Cardinality({j \in I : j <= i}) = n]]
  BY <1>2 DEF Select
<1>6. t = [n \in 1 .. l - k |-> log[k + n]]
  BY <1>4, <1>5
<1>7. \A n \in 1 .. l - k : log[k + n] \in Event
  BY <1>1
<1> HIDE DEF t, I
<1>8. l - k \in Nat
  BY <1>1
<1>9. t \in Seq(Event) /\ Len(t) = l - k
  BY <1>6, <1>7, <1>8
<1> QED  BY <1>6, <1>9 DEF t, I

(***************************************************************************)
(* The inductive invariant.                                                *)
(***************************************************************************)

(* The log is the last of what was issued, in order: positions tell        *)
(* numbers, and versions up to a constant.                                 *)
Shape ==
    /\ Len(log) <= issued
    /\ \A i \in 1 .. Len(log) :
          /\ log[i].num = issued - Len(log) + i
          /\ log[i].version = log[Len(log)].version - Len(log) + i
          /\ log[i].version <= log[i].num
          /\ log[i].at <= now
          /\ ~restarted => log[i].version = log[i].num
    /\ \A i, j \in 1 .. Len(log) : i <= j => log[i].at <= log[j].at

(* What the events point to.                                               *)
PointersOK ==
    /\ Len(heap) <= issued
    /\ \A i \in 1 .. Len(log) : log[i].kind = "updated" => log[i].old # Nil

(* The pages so far: events before from, each once.                        *)
PagesOK ==
    ~restarted =>
       /\ ~client.twice
       /\ client.from <= issued + 1
       /\ \A m \in client.read : m < client.from
       /\ \A i \in 1 .. Len(log) : log[i].version < client.from => log[i].num \in client.read

CatchUpOK ==
    /\ client.caughtUp => client.sub
    /\ NoGapAfterCatchUp

LogInv ==
    /\ LogTypeOK
    /\ Shape
    /\ PointersOK
    /\ LogTellsState
    /\ PagesOK
    /\ CatchUpOK

(***************************************************************************)
(* Append.                                                                 *)
(***************************************************************************)

(* The log with one more event.                                            *)
LEMMA Appended ==
    ASSUME LogTypeOK, Shape, NEW kind \in Kinds, NEW new \in WorkloadSpecs \cup {Nil},
           NEW old \in 0 .. MaxEvents, Record(kind, new, old)
    PROVE  LET e == log'[Len(log) + 1] IN
           /\ log' \in Seq(Event)
           /\ Len(log') = Len(log) + 1
           /\ \A i \in 1 .. Len(log) : log'[i] = log[i]
           /\ e.num = issued + 1 /\ e.kind = kind /\ e.at = now /\ e.new = new /\ e.old = old
           /\ e.version = NextVersion
           /\ NextVersion \in 1 .. issued + 1
           /\ ~restarted' => NextVersion = issued + 1
<1> DEFINE l == Len(log)
           r == [num |-> issued + 1, version |-> NextVersion, kind |-> kind,
                 at |-> now, new |-> new, old |-> old]
<1>1. /\ log \in Seq(Event) /\ l \in Nat /\ issued \in Nat /\ issued < MaxEvents
      /\ MaxEvents \in Nat /\ now \in 0 .. MaxTime
  BY EventLogAssumption DEF LogTypeOK, Record
<1>2. NextVersion \in 1 .. issued + 1 /\ (~restarted' => NextVersion = issued + 1)
  <2>1. CASE log = <<>>
    <3>1. NextVersion = 1 /\ restarted' = (restarted \/ issued > 0)
      BY <2>1 DEF NextVersion, Record
    <3>2. issued > 0 \/ issued = 0
      BY <1>1
    <3>3. ~restarted' => issued = 0
      BY <3>1, <3>2, Zenon
    <3>4. 1 \in 1 .. issued + 1 /\ (issued = 0 => 1 = issued + 1)
      BY <1>1
    <3> QED  BY <3>1, <3>3, <3>4, Zenon
  <2>2. CASE log # <<>>
    <3>1. l \in 1 .. l /\ log[l] \in Event
      BY <1>1, <2>2
    <3>2. NextVersion = log[l].version + 1
      BY <1>1, <2>2 DEF NextVersion, Last
    <3>3. /\ log[l].num = issued - l + l /\ log[l].version <= log[l].num
          /\ ~restarted => log[l].version = log[l].num
      BY <3>1 DEF Shape
    <3>4. log[l].version \in 1 .. MaxEvents
      BY <3>1 DEF Event
    <3>5. restarted => restarted'
      BY DEF Record
    <3>6. log[l].num = issued
      BY <1>1, <3>3
    <3>7. ~restarted' => log[l].version = issued
      BY <3>3, <3>5, <3>6, Zenon
    <3>8. /\ log[l].version + 1 \in 1 .. issued + 1
          /\ log[l].version = issued => log[l].version + 1 = issued + 1
      <4>1. log[l].version <= issued /\ log[l].version \in Nat /\ 1 <= log[l].version
        BY <1>1, <3>3, <3>4, <3>6
      <4>2. ASSUME NEW v \in Nat, 1 <= v, v <= issued
            PROVE  v + 1 \in 1 .. issued + 1 /\ (v = issued => v + 1 = issued + 1)
        BY <1>1, <4>2
      <4> QED  BY <4>1, <4>2, Zenon
    <3> QED  BY <3>2, <3>7, <3>8, Zenon
  <2> QED  BY <2>1, <2>2
<1>3. NextVersion \in 1 .. MaxEvents /\ issued + 1 \in 1 .. MaxEvents
  BY <1>1, <1>2
<1>4. r \in Event
  BY <1>1, <1>3 DEF Event
<1>5. log' = Append(log, r)
  BY DEF Record
<1> HIDE DEF r
<1>6. /\ log' \in Seq(Event) /\ Len(log') = l + 1 /\ log'[l + 1] = r
      /\ \A i \in 1 .. l : log'[i] = log[i]
  BY <1>1, <1>4, <1>5
<1>7. /\ r.num = issued + 1 /\ r.kind = kind /\ r.at = now /\ r.new = new /\ r.old = old
      /\ r.version = NextVersion
  BY DEF r
<1> QED  BY <1>2, <1>6, <1>7, Zenon

(* The shape of the log is kept.                                           *)
LEMMA RecordShape ==
    ASSUME LogTypeOK, Shape, NEW kind \in Kinds, NEW new \in WorkloadSpecs \cup {Nil},
           NEW old \in 0 .. MaxEvents, Record(kind, new, old)
    PROVE  Shape'
<1> DEFINE l == Len(log)
           e == log'[l + 1]
           v == NextVersion
<1>1. /\ l \in Nat /\ issued \in Nat /\ now \in Nat /\ now' = now /\ issued' = issued + 1
      /\ l <= issued /\ (restarted => restarted') /\ log \in Seq(Event)
  BY EventLogAssumption DEF LogTypeOK, Record, Shape
<1>2. /\ Len(log') = l + 1
      /\ \A i \in 1 .. l : log'[i] = log[i]
      /\ e.num = issued + 1 /\ e.version = v /\ e.at = now
      /\ v \in 1 .. issued + 1 /\ (~restarted' => v = issued + 1)
  BY Appended
<1>3. \A i \in 1 .. l : /\ log[i].num = issued - l + i
                        /\ log[i].version = log[l].version - l + i
                        /\ log[i].version <= log[i].num
                        /\ log[i].at <= now
                        /\ ~restarted => log[i].version = log[i].num
  BY DEF Shape
<1>4. \A i, j \in 1 .. l : i <= j => log[i].at <= log[j].at
  BY DEF Shape
<1>5. l # 0 => v = log[l].version + 1
  BY <1>1 DEF NextVersion, Last
<1>6. \A i \in 1 .. l : log[i].version \in Nat /\ log[i].at \in Nat
  <2>1. \A i \in 1 .. l : log[i] \in Event
    BY <1>1
  <2> QED  BY <2>1, EventLogAssumption DEF Event
<1> HIDE DEF e, v
<1>7. ASSUME NEW i \in 1 .. l + 1
      PROVE  /\ log'[i].num = (issued + 1) - (l + 1) + i
             /\ log'[i].version = v - (l + 1) + i
             /\ log'[i].version <= log'[i].num
             /\ log'[i].at <= now
             /\ ~restarted' => log'[i].version = log'[i].num
  <2>1. CASE i = l + 1
    <3>1. log'[i] = e
      BY <2>1 DEF e
    <3>2. /\ e.num = (issued + 1) - (l + 1) + i /\ e.version = v - (l + 1) + i
          /\ e.version <= e.num /\ e.at <= now
      BY <1>1, <1>2, <2>1
    <3>3. ~restarted' => e.version = e.num
      BY <1>2, Zenon
    <3> QED  BY <3>1, <3>2, <3>3, Zenon
  <2>2. CASE i # l + 1
    <3>1. i \in 1 .. l /\ l # 0 /\ l \in 1 .. l
      BY <1>1, <2>2
    <3>2. log'[i] = log[i]
      BY <1>2, <3>1
    <3>3. /\ log[i].num = issued - l + i /\ log[i].version = log[l].version - l + i
          /\ log[i].version <= log[i].num /\ log[i].at <= now
      BY <1>3, <3>1
    <3>4. ~restarted' => log[i].version = log[i].num
      BY <1>1, <1>3, <3>1, Zenon
    <3>5. issued - l + i = (issued + 1) - (l + 1) + i
      BY <1>1, <3>1
    <3>6. log[l].version - l + i = v - (l + 1) + i
      <4>1. v = log[l].version + 1 /\ log[l].version \in Nat
        BY <1>5, <1>6, <3>1, Zenon
      <4>2. ASSUME NEW w \in Nat PROVE w - l + i = (w + 1) - (l + 1) + i
        BY <1>1, <3>1
      <4> QED  BY <4>1, <4>2, Zenon
    <3> QED  BY <3>2, <3>3, <3>4, <3>5, <3>6, Zenon
  <2> QED  BY <2>1, <2>2
<1>8. ASSUME NEW i \in 1 .. l + 1, NEW j \in 1 .. l + 1, i <= j
      PROVE  log'[i].at <= log'[j].at
  <2>1. CASE j = l + 1
    <3>1. log'[j].at = now
      BY <1>2, <2>1 DEF e
    <3> QED  BY <1>7, <3>1
  <2>2. CASE j # l + 1
    <3>1. i \in 1 .. l /\ j \in 1 .. l
      BY <1>1, <1>8, <2>2
    <3> QED  BY <1>2, <1>4, <1>8, <3>1
  <2> QED  BY <2>1, <2>2
<1>9. Len(log') <= issued'
  BY <1>1, <1>2
<1>10. log'[Len(log')].version = v
  BY <1>2 DEF e
<1> HIDE DEF l
<1>11. Len(log') = l + 1 /\ issued' = issued + 1 /\ now' = now
  BY <1>1, <1>2
<1>12. \A i \in 1 .. Len(log') :
          /\ log'[i].num = issued' - Len(log') + i
          /\ log'[i].version = log'[Len(log')].version - Len(log') + i
          /\ log'[i].version <= log'[i].num
          /\ log'[i].at <= now'
          /\ ~restarted' => log'[i].version = log'[i].num
  BY <1>7, <1>10, <1>11, Zenon
<1>13. \A i, j \in 1 .. Len(log') : i <= j => log'[i].at <= log'[j].at
  BY <1>8, <1>11, Zenon
<1> QED  BY <1>9, <1>12, <1>13, Zenon DEF Shape

(* What notifyWatchers does to the client.                                 *)
LEMMA Notified ==
    ASSUME LogTypeOK, NEW num \in 1 .. MaxEvents, Notify(num)
    PROVE  /\ client' \in Client
           /\ Len(client'.chan) <= Buffer
           /\ client'.from = client.from /\ client'.read = client.read
           /\ client'.twice = client.twice /\ client'.got = client.got
           /\ client'.sub = client.sub /\ client'.caughtUp = client.caughtUp
           /\ client.full => client'.full
           /\ ToSet(client.chan) \subseteq ToSet(client'.chan)
           /\ client.sub => client'.full \/ num \in ToSet(client'.chan)
<1> DEFINE c == client.chan
<1>1. /\ client \in Client /\ c \in Seq(1 .. MaxEvents) /\ Len(c) \in Nat
      /\ Len(c) <= Buffer /\ Buffer \in Nat
  BY EventLogAssumption DEF LogTypeOK, Client
<1>2. CASE ~client.sub
  <2>1. client' = client
    BY <1>2 DEF Notify
  <2> QED  BY <1>1, <1>2, <2>1
<1>3. CASE client.sub /\ Len(c) < Buffer
  <2>1. client' = [client EXCEPT !.chan = Append(c, num)]
    BY <1>3 DEF Notify
  <2>2. /\ Append(c, num) \in Seq(1 .. MaxEvents)
        /\ Len(Append(c, num)) = Len(c) + 1 /\ Append(c, num)[Len(c) + 1] = num
        /\ \A i \in 1 .. Len(c) : Append(c, num)[i] = c[i]
    BY <1>1
  <2>3. client' \in Client /\ client'.chan = Append(c, num)
    BY <1>1, <2>1, <2>2 DEF Client
  <2>4. /\ client'.from = client.from /\ client'.read = client.read
        /\ client'.twice = client.twice /\ client'.got = client.got
        /\ client'.sub = client.sub /\ client'.caughtUp = client.caughtUp
        /\ client'.full = client.full
    BY <1>1, <2>1 DEF Client
  <2>5. ToSet(c) \subseteq ToSet(Append(c, num)) /\ num \in ToSet(Append(c, num))
    <3>1. DOMAIN c = 1 .. Len(c) /\ DOMAIN Append(c, num) = 1 .. Len(c) + 1
      BY <1>1, <2>2
    <3>2. \A i \in DOMAIN c : i \in DOMAIN Append(c, num)
      BY <1>1, <3>1
    <3>3. Len(c) + 1 \in DOMAIN Append(c, num)
      BY <1>1, <3>1
    <3> HIDE DEF c
    <3> QED  BY <2>2, <3>1, <3>2, <3>3, Zenon DEF ToSet
  <2>6. Len(Append(c, num)) <= Buffer
    BY <1>1, <1>3, <2>2
  <2> HIDE DEF c
  <2>7. ToSet(client.chan) \subseteq ToSet(client'.chan) /\ num \in ToSet(client'.chan)
    BY <2>3, <2>5, Zenon DEF c
  <2>8. Len(client'.chan) <= Buffer
    BY <2>3, <2>6, Zenon
  <2> QED  BY <2>3, <2>4, <2>7, <2>8, Zenon
<1>4. CASE client.sub /\ ~(Len(c) < Buffer)
  <2>1. client' = [client EXCEPT !.full = TRUE]
    BY <1>4 DEF Notify
  <2>2. /\ client' \in Client /\ client'.chan = client.chan /\ client'.full
        /\ client'.from = client.from /\ client'.read = client.read
        /\ client'.twice = client.twice /\ client'.got = client.got
        /\ client'.sub = client.sub /\ client'.caughtUp = client.caughtUp
    BY <1>1, <2>1 DEF Client
  <2> QED  BY <1>1, <2>2, Zenon
<1> QED  BY <1>2, <1>3, <1>4

(* A new event is for the next page, and for the channel.                  *)
LEMMA RecordClient ==
    ASSUME LogTypeOK, Shape, PagesOK, CatchUpOK,
           NEW kind \in Kinds, NEW new \in WorkloadSpecs \cup {Nil},
           NEW old \in 0 .. MaxEvents, Record(kind, new, old)
    PROVE  client' \in Client /\ Len(client'.chan) <= Buffer /\ PagesOK' /\ CatchUpOK'
<1> DEFINE l == Len(log)
           e == log'[l + 1]
<1>1. /\ l \in Nat /\ issued \in Nat /\ issued' = issued + 1
      /\ (restarted => restarted') /\ log \in Seq(Event)
      /\ issued + 1 \in 1 .. MaxEvents /\ client \in Client
  BY EventLogAssumption DEF LogTypeOK, Record
<1>2. Notify(issued + 1)
  BY DEF Record
<1>3. /\ client' \in Client
      /\ Len(client'.chan) <= Buffer
      /\ client'.from = client.from /\ client'.read = client.read
      /\ client'.twice = client.twice /\ client'.got = client.got
      /\ client'.sub = client.sub /\ client'.caughtUp = client.caughtUp
      /\ client.full => client'.full
      /\ ToSet(client.chan) \subseteq ToSet(client'.chan)
      /\ client.sub => client'.full \/ issued + 1 \in ToSet(client'.chan)
  BY <1>1, <1>2, Notified, Zenon
<1>4. /\ log' \in Seq(Event) /\ Len(log') = l + 1
      /\ \A i \in 1 .. l : log'[i] = log[i]
      /\ e.num = issued + 1 /\ e.version = NextVersion
      /\ (~restarted' => NextVersion = issued + 1)
  BY Appended
<1>5. client.from \in Nat
  BY <1>1 DEF Client
<1> HIDE DEF e
<1>6. \A i \in 1 .. l + 1 : i \in 1 .. l \/ log'[i] = e
  BY <1>1 DEF e
<1>7. PagesOK'
  <2> SUFFICES ASSUME ~restarted'
               PROVE  /\ ~client'.twice
                      /\ client'.from <= issued' + 1
                      /\ \A m \in client'.read : m < client'.from
                      /\ \A i \in 1 .. Len(log') :
                            log'[i].version < client'.from => log'[i].num \in client'.read
    BY DEF PagesOK
  <2>1. /\ ~client.twice /\ client.from <= issued + 1
        /\ \A m \in client.read : m < client.from
        /\ \A i \in 1 .. l : log[i].version < client.from => log[i].num \in client.read
    BY <1>1 DEF PagesOK
  <2>2. client.from <= (issued + 1) + 1 /\ ~(issued + 1 < client.from)
    BY <1>1, <1>5, <2>1
  <2>3. e.version = issued + 1
    BY <1>4, Zenon
  <2>4. ~(e.version < client.from)
    BY <2>2, <2>3, Zenon
  <2>5. \A i \in 1 .. l + 1 : log'[i].version < client.from => log'[i].num \in client.read
    BY <1>4, <1>6, <2>1, <2>4, Zenon
  <2>6. client'.from <= issued' + 1
    BY <1>1, <1>3, <2>2, Zenon
  <2> HIDE DEF l
  <2> QED  BY <1>3, <1>4, <2>1, <2>5, <2>6, Zenon
<1>8. CatchUpOK'
  <2>1. client'.caughtUp => client'.sub
    BY <1>3, Zenon DEF CatchUpOK
  <2>2. ASSUME client'.caughtUp /\ ~client'.full, NEW i \in DOMAIN log'
        PROVE  log'[i].num \in client'.read \cup client'.got \cup ToSet(client'.chan)
    <3>1. client.caughtUp /\ ~client.full /\ client.sub
      BY <1>3, <2>1, <2>2, Zenon
    <3>2. i \in 1 .. l + 1 /\ DOMAIN log = 1 .. l
      BY <1>1, <1>4
    <3>3. \A j \in 1 .. l : log[j].num \in client.read \cup client.got \cup ToSet(client.chan)
      BY <3>1, <3>2, Zenon DEF CatchUpOK, NoGapAfterCatchUp
    <3>4. CASE i \in 1 .. l
      <4>1. log'[i].num \in client.read \cup client.got \cup ToSet(client.chan)
        BY <1>4, <3>3, <3>4, Zenon
      <4> QED  BY <1>3, <4>1, Zenon
    <3>5. CASE log'[i] = e
      <4>1. issued + 1 \in ToSet(client'.chan)
        BY <1>3, <2>2, <3>1, Zenon
      <4> QED  BY <1>4, <3>5, <4>1, Zenon
    <3> QED  BY <1>6, <3>2, <3>4, <3>5, Zenon
  <2> QED  BY <2>1, <2>2, Zenon DEF CatchUpOK, NoGapAfterCatchUp
<1> QED  BY <1>3, <1>7, <1>8

(* A store operation with its event: the event tells what it did.          *)
LEMMA RecordTells ==
    ASSUME LogTypeOK, Shape, PointersOK, LogTellsState,
           NEW kind \in StoreKinds, NEW new \in WorkloadSpecs \cup {Nil},
           NEW old \in 0 .. MaxEvents, Record(kind, new, old),
           Len(heap) <= Len(heap)', \A p \in Pointers : heap'[p] = heap[p],
           edited' = edited,
           kind = "deleted" <=> stored' = Nil,
           stored' # Nil => new = heap'[stored'],
           kind = "updated" => old = stored /\ stored # Nil
    PROVE  LogTellsState'
<1> DEFINE l == Len(log)
           e == log'[l + 1]
           T == {i \in DOMAIN log : log[i].kind \in StoreKinds}
           U == {i \in DOMAIN log' : log'[i].kind \in StoreKinds}
<1>1. /\ l \in Nat /\ log \in Seq(Event) /\ DOMAIN log = 1 .. l /\ kind \in Kinds
      /\ stored \in Pointers \cup {Nil}
  BY DEF LogTypeOK, StoreKinds
<1>2. /\ log' \in Seq(Event) /\ Len(log') = l + 1
      /\ \A i \in 1 .. l : log'[i] = log[i]
      /\ e.kind = kind /\ e.new = new /\ e.old = old
  BY <1>1, Appended
<1>3. DOMAIN log' = 1 .. l + 1
  BY <1>2
<1> HIDE DEF e
<1>4. \A i \in 1 .. l + 1 : i \in 1 .. l \/ (i = l + 1 /\ log'[i] = e)
  BY <1>1 DEF e
<1>5. l + 1 \in 1 .. l + 1 /\ log'[l + 1] = e
  BY <1>1 DEF e
<1>6. l + 1 \in U /\ \A i \in U : i \in T \/ i = l + 1
  <2>1. l + 1 \in U
    BY <1>2, <1>3, <1>5
  <2>2. ASSUME NEW i \in U, i \in 1 .. l PROVE i \in T
    BY <1>1, <1>2, <2>2
  <2>3. \A i \in U : i \in 1 .. l + 1
    BY <1>3
  <2> HIDE DEF T, U
  <2> QED  BY <1>4, <2>1, <2>2, <2>3, Zenon
<1>7. \A i \in T : i \in U /\ i \in 1 .. l /\ i \in Nat /\ i < l + 1 /\ log'[i] = log[i]
  BY <1>1, <1>2, <1>3
<1>8. /\ \A i \in T : (\A j \in T : j <= i) =>
             /\ log[i].kind = "deleted" <=> stored = Nil
             /\ stored # Nil /\ stored \notin unrecorded => log[i].new = heap[stored]
      /\ \A i, j \in T :
            /\ j < i /\ \A k \in T : ~(j < k /\ k < i)
            /\ log[i].kind = "updated" /\ log[i].old \notin edited
            => heap[log[i].old] = log[j].new
  BY Zenon DEF LogTellsState
<1>9. \A i \in T : log[i].kind = "updated" => log[i].old \in Pointers
  <2>1. \A i \in DOMAIN log : log[i].old \in Pointers \cup {Nil}
    BY DEF LogTypeOK
  <2>2. \A i \in 1 .. l : log[i].kind = "updated" => log[i].old # Nil
    BY DEF PointersOK
  <2> QED  BY <1>1, <2>1, <2>2, Zenon
<1> HIDE DEF T, U, l
<1>10. ASSUME NEW i \in U, \A j \in U : j <= i
       PROVE  /\ log'[i].kind = "deleted" <=> stored' = Nil
              /\ stored' # Nil /\ stored' \notin unrecorded' => log'[i].new = heap'[stored']
  <2>1. ASSUME i \in T PROVE FALSE
    <3>1. l + 1 <= i /\ i < l + 1 /\ i \in Nat
      BY <1>6, <1>7, <1>10, <2>1, Zenon
    <3> QED  BY <1>1, <3>1
  <2>2. log'[i] = e
    BY <1>5, <1>6, <2>1, Zenon
  <2> QED  BY <1>2, <2>2, Zenon
<1>11. ASSUME NEW i \in U, NEW j \in U, j < i, \A k \in U : ~(j < k /\ k < i),
              log'[i].kind = "updated", log'[i].old \notin edited
       PROVE  heap'[log'[i].old] = log'[j].new
  <2>1. j \in T
    <3>1. CASE j = l + 1 /\ i = l + 1
      BY <1>1, <1>11, <3>1
    <3>2. CASE j = l + 1 /\ i \in T
      <4>1. i \in Nat /\ i < l + 1
        BY <1>7, <3>2
      <4> QED  BY <1>1, <1>11, <3>2, <4>1
    <3> QED  BY <1>6, <3>1, <3>2, Zenon
  <2>2. log'[j] = log[j] /\ j \in U
    BY <1>7, <2>1
  <2>3. CASE i \in T
    <3>1. log'[i] = log[i] /\ log[i].old \in Pointers
      BY <1>7, <1>9, <1>11, <2>3
    <3>2. \A k \in T : ~(j < k /\ k < i)
      BY <1>7, <1>11, Zenon
    <3>3. heap[log[i].old] = log[j].new
      BY <1>8, <1>11, <2>1, <2>3, <3>1, <3>2, Zenon
    <3> QED  BY <2>2, <3>1, <3>3, Zenon
  <2>4. CASE i = l + 1
    <3>1. log'[i] = e /\ kind = "updated" /\ e.old = stored /\ stored # Nil /\ stored \in Pointers
      BY <1>1, <1>2, <1>5, <1>11, <2>4, Zenon
    <3>2. ASSUME NEW k \in T PROVE k <= j
      <4>1. ~(j < k /\ k < l + 1) /\ k < l + 1 /\ k \in Nat /\ j \in Nat
        BY <1>7, <1>11, <2>1, <2>4, Zenon
      <4> QED  BY <4>1
    <3>3. stored \notin unrecorded
      <4>1. stored \notin edited
        BY <1>11, <3>1, Zenon
      <4> QED  BY <4>1, Zenon DEF LogTypeOK
    <3>4. log[j].new = heap[stored]
      BY <1>8, <2>1, <3>1, <3>2, <3>3, Zenon
    <3> QED  BY <2>2, <3>1, <3>4, Zenon
  <2> QED  BY <1>6, <2>3, <2>4, Zenon
<1> QED  BY <1>10, <1>11, Zenon DEF LogTellsState, U

(* A recorded event keeps the invariant when the store keeps its part.     *)
LEMMA RecordInv ==
    ASSUME LogInv, NEW kind \in Kinds, NEW new \in WorkloadSpecs \cup {Nil},
           NEW old \in Pointers \cup {Nil}, Record(kind, new, old),
           heap' \in Seq(WorkloadSpecs), Len(heap) <= Len(heap)', Len(heap)' <= issued',
           stored' \in Pointers' \cup {Nil}, taken' \in Pointers' \cup {Nil},
           edited' \subseteq Pointers', unrecorded' \subseteq edited', dirty' \in BOOLEAN,
           kind = "updated" => old # Nil,
           LogTellsState'
    PROVE  LogInv'
<1> DEFINE l == Len(log)
           e == log'[l + 1]
<1>1. /\ l \in Nat /\ log \in Seq(Event) /\ DOMAIN log = 1 .. l /\ Len(heap) \in Nat
      /\ issued \in Nat /\ MaxEvents \in Nat /\ Len(heap) <= issued /\ issued \in 0 .. MaxEvents
      /\ Len(heap') \in Nat /\ restarted \in BOOLEAN /\ now \in 0 .. MaxTime
  BY EventLogAssumption DEF LogInv, LogTypeOK, PointersOK
<1>2. old \in 0 .. MaxEvents
  BY <1>1 DEF Pointers, Nil
<1>3. /\ log' \in Seq(Event) /\ Len(log') = l + 1
      /\ \A i \in 1 .. l : log'[i] = log[i]
      /\ e.kind = kind /\ e.old = old
  BY <1>2, Appended DEF LogInv
<1>4. Shape'
  BY <1>2, RecordShape DEF LogInv
<1>5. client' \in Client /\ Len(client'.chan) <= Buffer /\ PagesOK' /\ CatchUpOK'
  BY <1>2, RecordClient DEF LogInv
<1>6. DOMAIN log' = 1 .. l + 1
  BY <1>3
<1> HIDE DEF e
<1>7. \A i \in 1 .. l + 1 : i \in 1 .. l \/ log'[i] = e
  BY <1>1 DEF e
<1>8. \A p \in Pointers \cup {Nil} : p \in Pointers' \cup {Nil}
  BY <1>1 DEF Pointers
<1>9. \A i \in DOMAIN log' : log'[i].old \in Pointers' \cup {Nil}
  <2>1. \A i \in DOMAIN log : log[i].old \in Pointers \cup {Nil}
    BY DEF LogInv, LogTypeOK
  <2> HIDE DEF l
  <2> QED  BY <1>1, <1>3, <1>6, <1>7, <1>8, <2>1, Zenon
<1>10. \A i \in 1 .. Len(log') : log'[i].kind = "updated" => log'[i].old # Nil
  <2>1. \A i \in 1 .. l : log[i].kind = "updated" => log[i].old # Nil
    BY DEF LogInv, PointersOK
  <2> HIDE DEF l
  <2> QED  BY <1>3, <1>7, <2>1, Zenon
<1>11. issued' \in 0 .. MaxEvents /\ now' = now
  BY <1>1 DEF Record
<1>12. restarted' \in BOOLEAN
  BY DEF Record
<1>13. LogTypeOK'
  BY <1>1, <1>3, <1>5, <1>9, <1>11, <1>12 DEF LogTypeOK
<1>14. PointersOK'
  BY <1>10 DEF PointersOK
<1> QED  BY <1>4, <1>5, <1>13, <1>14 DEF LogInv

(***************************************************************************)
(* The store's operations.                                                 *)
(***************************************************************************)

(* A new object.                                                           *)
LEMMA Allocated ==
    ASSUME LogInv, NEW spec \in WorkloadSpecs, heap' = Append(heap, spec)
    PROVE  /\ heap' \in Seq(WorkloadSpecs) /\ Len(heap)' = Len(heap) + 1
           /\ Len(heap) <= Len(heap)'
           /\ \A p \in Pointers : heap'[p] = heap[p]
           /\ heap'[Len(heap) + 1] = spec
           /\ Len(heap) + 1 \in Pointers' /\ Len(heap) + 1 # Nil
           /\ Pointers \subseteq Pointers'
<1>1. heap \in Seq(WorkloadSpecs) /\ Len(heap) \in Nat
  BY DEF LogInv, LogTypeOK
<1>2. /\ heap' \in Seq(WorkloadSpecs) /\ Len(heap') = Len(heap) + 1
      /\ \A p \in 1 .. Len(heap) : heap'[p] = heap[p]
      /\ heap'[Len(heap) + 1] = spec
  BY <1>1
<1> QED  BY <1>1, <1>2 DEF Pointers, Nil

LEMMA CreateInv ==
    ASSUME LogInv, NEW spec \in WorkloadSpecs, Create(spec) \/ Replace(spec)
    PROVE  LogInv'
<1> DEFINE kind == IF stored = Nil THEN "created" ELSE "updated"
<1>1. /\ heap' = Append(heap, spec) /\ stored' = Len(heap) + 1
      /\ taken' = taken /\ edited' = edited /\ dirty' = dirty /\ unrecorded' = unrecorded
      /\ Record(kind, spec, stored)
  BY DEF Create, Replace, RecordWorkloadCreated, RecordWorkloadUpdated
<1>2. /\ heap' \in Seq(WorkloadSpecs) /\ Len(heap)' = Len(heap) + 1
      /\ Len(heap) <= Len(heap)'
      /\ \A p \in Pointers : heap'[p] = heap[p]
      /\ heap'[Len(heap) + 1] = spec
      /\ Len(heap) + 1 \in Pointers' /\ Len(heap) + 1 # Nil
      /\ Pointers \subseteq Pointers'
  BY <1>1, Allocated
<1>3. /\ stored \in Pointers \cup {Nil} /\ taken \in Pointers \cup {Nil}
      /\ edited \subseteq Pointers /\ dirty \in BOOLEAN /\ unrecorded \subseteq edited
      /\ LogTypeOK /\ Shape /\ PointersOK /\ LogTellsState
  BY DEF LogInv, LogTypeOK, PointersOK
<1>4. /\ kind \in StoreKinds /\ kind \in Kinds /\ kind # "deleted"
      /\ (kind = "updated" => stored # Nil)
  BY DEF StoreKinds, Kinds
<1> HIDE DEF kind
<1>5. stored \in 0 .. MaxEvents /\ Len(heap)' <= issued'
  <2>1. /\ Len(heap) \in Nat /\ issued \in 0 .. MaxEvents /\ Len(heap) <= issued
        /\ issued' = issued + 1 /\ MaxEvents \in Nat
    BY <1>1, EventLogAssumption DEF LogInv, LogTypeOK, PointersOK, Record
  <2> QED  BY <1>2, <1>3, <2>1 DEF Pointers, Nil
<1>6. stored' # Nil /\ spec = heap'[stored'] /\ stored' \in Pointers' \cup {Nil}
  BY <1>1, <1>2
<1>7. spec \in WorkloadSpecs \cup {Nil}
  OBVIOUS
<1>8. LogTellsState'
  BY <1>1, <1>2, <1>3, <1>4, <1>5, <1>6, <1>7, RecordTells
<1> QED  BY <1>1, <1>2, <1>3, <1>4, <1>5, <1>6, <1>7, <1>8, RecordInv

LEMMA UpdateInv ==
    ASSUME LogInv, Update
    PROVE  LogInv'
<1>1. /\ taken # Nil /\ stored # Nil /\ stored' = taken /\ taken' = Nil /\ dirty' = FALSE
      /\ heap' = heap /\ edited' = edited /\ Record("updated", heap[taken], stored)
      /\ unrecorded' = unrecorded \ {taken}
  BY DEF Update, RecordWorkloadUpdated
<1>2. /\ heap \in Seq(WorkloadSpecs) /\ Len(heap) \in Nat
      /\ stored \in Pointers \cup {Nil} /\ taken \in Pointers
      /\ edited \subseteq Pointers /\ Pointers' = Pointers /\ unrecorded \subseteq edited
      /\ LogTypeOK /\ Shape /\ PointersOK /\ LogTellsState
  BY <1>1 DEF LogInv, LogTypeOK, Pointers
<1>3. heap[taken] \in WorkloadSpecs \cup {Nil}
  BY <1>2 DEF Pointers
<1>4. "updated" \in StoreKinds /\ "updated" \in Kinds /\ "updated" # "deleted"
  BY DEF StoreKinds, Kinds
<1>5. stored \in 0 .. MaxEvents /\ Len(heap)' <= issued' /\ Len(heap) <= Len(heap)'
  <2>1. /\ Len(heap) \in Nat /\ issued \in 0 .. MaxEvents /\ Len(heap) <= issued
        /\ issued' = issued + 1 /\ MaxEvents \in Nat
    BY <1>1, EventLogAssumption DEF LogInv, LogTypeOK, PointersOK, Record
  <2> QED  BY <1>1, <1>2, <2>1 DEF Pointers, Nil
<1>6. stored' # Nil /\ heap[taken] = heap'[stored'] /\ \A p \in Pointers : heap'[p] = heap[p]
  BY <1>1
<1>7. LogTellsState'
  BY <1>1, <1>2, <1>3, <1>4, <1>5, <1>6, RecordTells
<1>8. /\ heap' \in Seq(WorkloadSpecs) /\ stored' \in Pointers' \cup {Nil}
      /\ taken' \in Pointers' \cup {Nil} /\ edited' \subseteq Pointers'
      /\ dirty' \in BOOLEAN /\ unrecorded' \subseteq edited'
  BY <1>1, <1>2
<1> QED  BY <1>1, <1>2, <1>3, <1>4, <1>5, <1>7, <1>8, RecordInv

LEMMA DeleteInv ==
    ASSUME LogInv, StoreDelete
    PROVE  LogInv'
<1>1. /\ stored # Nil /\ stored' = Nil /\ taken' = taken /\ dirty' = dirty
      /\ heap' = heap /\ edited' = edited /\ Record("deleted", Nil, Nil)
      /\ unrecorded' = unrecorded
  BY DEF StoreDelete
<1>2. /\ heap \in Seq(WorkloadSpecs) /\ Len(heap) \in Nat /\ taken \in Pointers \cup {Nil}
      /\ edited \subseteq Pointers /\ Pointers' = Pointers /\ dirty \in BOOLEAN
      /\ unrecorded \subseteq edited
      /\ LogTypeOK /\ Shape /\ PointersOK /\ LogTellsState
  BY <1>1 DEF LogInv, LogTypeOK, PointersOK, Pointers
<1>3. Nil \in WorkloadSpecs \cup {Nil} /\ Nil \in Pointers \cup {Nil}
  OBVIOUS
<1>4. "deleted" \in StoreKinds /\ "deleted" \in Kinds /\ "deleted" # "updated"
  BY DEF StoreKinds, Kinds
<1>5. Nil \in 0 .. MaxEvents /\ Len(heap)' <= issued' /\ Len(heap) <= Len(heap)'
  <2>1. /\ Len(heap) \in Nat /\ issued \in 0 .. MaxEvents /\ Len(heap) <= issued
        /\ issued' = issued + 1 /\ MaxEvents \in Nat
    BY <1>1, EventLogAssumption DEF LogInv, LogTypeOK, PointersOK, Record
  <2> QED  BY <1>1, <1>2, <2>1 DEF Nil
<1>6. \A p \in Pointers : heap'[p] = heap[p]
  BY <1>1
<1>7. LogTellsState'
  BY <1>1, <1>2, <1>3, <1>4, <1>5, <1>6, RecordTells
<1>8. /\ heap' \in Seq(WorkloadSpecs) /\ stored' \in Pointers' \cup {Nil}
      /\ taken' \in Pointers' \cup {Nil} /\ edited' \subseteq Pointers'
      /\ dirty' \in BOOLEAN /\ unrecorded' \subseteq edited'
  BY <1>1, <1>2
<1> QED  BY <1>1, <1>2, <1>3, <1>4, <1>5, <1>7, <1>8, RecordInv

LEMMA OtherInv ==
    ASSUME LogInv, RecordOther
    PROVE  LogInv'
<1>1. /\ stored' = stored /\ taken' = taken /\ dirty' = dirty
      /\ heap' = heap /\ edited' = edited /\ Record("other", Nil, Nil)
      /\ unrecorded' = unrecorded
  BY DEF RecordOther, storeVars
<1>2. /\ heap \in Seq(WorkloadSpecs) /\ Len(heap) \in Nat /\ taken \in Pointers \cup {Nil}
      /\ stored \in Pointers \cup {Nil}
      /\ edited \subseteq Pointers /\ Pointers' = Pointers /\ dirty \in BOOLEAN
      /\ unrecorded \subseteq edited
      /\ LogTypeOK /\ Shape /\ log \in Seq(Event)
  BY <1>1 DEF LogInv, LogTypeOK, PointersOK, Pointers
<1>3. Nil \in WorkloadSpecs \cup {Nil} /\ Nil \in Pointers \cup {Nil}
  OBVIOUS
<1>4. "other" \in Kinds /\ "other" # "updated" /\ "other" \notin StoreKinds
  BY DEF StoreKinds, Kinds
<1>5. Nil \in 0 .. MaxEvents /\ Len(heap)' <= issued' /\ Len(heap) <= Len(heap)'
  <2>1. /\ Len(heap) \in Nat /\ issued \in 0 .. MaxEvents /\ Len(heap) <= issued
        /\ issued' = issued + 1 /\ MaxEvents \in Nat
    BY <1>1, EventLogAssumption DEF LogInv, LogTypeOK, PointersOK, Record
  <2> QED  BY <1>1, <1>2, <2>1 DEF Nil
<1>6. LogTellsState'
  <2> DEFINE l == Len(log)
             T == {i \in DOMAIN log : log[i].kind \in StoreKinds}
             U == {i \in DOMAIN log' : log'[i].kind \in StoreKinds}
  <2>1. /\ log' \in Seq(Event) /\ Len(log') = l + 1
        /\ \A i \in 1 .. l : log'[i] = log[i]
        /\ log'[l + 1].kind = "other"
    BY <1>1, <1>2, <1>3, <1>4, <1>5, Appended
  <2>2. DOMAIN log' = 1 .. l + 1 /\ DOMAIN log = 1 .. l /\ l \in Nat
    BY <1>2, <2>1
  <2>3. \A i \in 1 .. l + 1 : i \in 1 .. l \/ i = l + 1
    BY <2>2
  <2>4. \A i \in 1 .. l : i \in 1 .. l + 1
    BY <2>2
  <2>5. U = T
    BY <1>4, <2>1, <2>2, <2>3, <2>4
  <2>6. \A i \in T : log'[i] = log[i]
    BY <2>1, <2>2
  <2> HIDE DEF l, U, T
  <2>7. /\ \A i \in T : (\A j \in T : j <= i) =>
               /\ log[i].kind = "deleted" <=> stored = Nil
               /\ stored # Nil /\ stored \notin unrecorded => log[i].new = heap[stored]
        /\ \A i, j \in T :
              /\ j < i /\ \A k \in T : ~(j < k /\ k < i)
              /\ log[i].kind = "updated" /\ log[i].old \notin edited
              => heap[log[i].old] = log[j].new
    BY Zenon DEF LogInv, LogTellsState, T
  <2>8. /\ \A i \in U : (\A j \in U : j <= i) =>
               /\ log'[i].kind = "deleted" <=> stored' = Nil
               /\ stored' # Nil /\ stored' \notin unrecorded'
                  => log'[i].new = heap'[stored']
        /\ \A i, j \in U :
              /\ j < i /\ \A k \in U : ~(j < k /\ k < i)
              /\ log'[i].kind = "updated" /\ log'[i].old \notin edited'
              => heap'[log'[i].old] = log'[j].new
    BY <1>1, <2>5, <2>6, <2>7
  <2> QED  BY <2>8, Zenon DEF LogTellsState, U
<1>7. /\ heap' \in Seq(WorkloadSpecs) /\ stored' \in Pointers' \cup {Nil}
      /\ taken' \in Pointers' \cup {Nil} /\ edited' \subseteq Pointers'
      /\ dirty' \in BOOLEAN /\ unrecorded' \subseteq edited'
  BY <1>1, <1>2
<1> QED  BY <1>1, <1>2, <1>3, <1>4, <1>5, <1>6, <1>7, RecordInv

(* The holder takes the stored object, changes it, finds it gone or leaves *)
(* it without an Update.                                                   *)
LEMMA HolderInv ==
    ASSUME LogInv,
           \/ Get
           \/ \E spec \in WorkloadSpecs : Change(spec) \/ Amend(spec)
           \/ EndWithoutUpdate
           \/ UpdateFails
    PROVE  LogInv'
<1> DEFINE T == {i \in DOMAIN log : log[i].kind \in StoreKinds}
<1>1. /\ log' = log /\ issued' = issued /\ restarted' = restarted /\ now' = now
      /\ client' = client /\ stored' = stored
  BY DEF Get, Change, Amend, EndWithoutUpdate, UpdateFails
<1>2. /\ heap \in Seq(WorkloadSpecs) /\ Len(heap) \in Nat /\ taken \in Pointers \cup {Nil}
      /\ stored \in Pointers \cup {Nil} /\ edited \subseteq Pointers /\ dirty \in BOOLEAN
      /\ unrecorded \subseteq edited
  BY DEF LogInv, LogTypeOK, PointersOK
<1>3. /\ heap' \in Seq(WorkloadSpecs) /\ Len(heap') = Len(heap)
      /\ taken' \in Pointers \cup {Nil} /\ edited' \subseteq Pointers
      /\ edited \subseteq edited' /\ dirty' \in BOOLEAN
      /\ unrecorded' \subseteq edited'
      /\ (stored # Nil /\ stored \notin unrecorded' =>
             heap'[stored] = heap[stored] /\ stored \notin unrecorded)
      /\ \A p \in Pointers : p \notin edited' => heap'[p] = heap[p]
  <2>1. CASE Get
    BY <1>2, <2>1 DEF Get
  <2>2. CASE UpdateFails \/ EndWithoutUpdate
    BY <1>2, <2>2 DEF UpdateFails, EndWithoutUpdate
  <2>3. CASE \E spec \in WorkloadSpecs : Change(spec) \/ Amend(spec)
    <3>1. PICK spec \in WorkloadSpecs : Change(spec) \/ Amend(spec)
      BY <2>3
    <3>2. /\ taken \in Pointers /\ heap' = [heap EXCEPT ![taken] = spec]
          /\ taken' = taken /\ edited' = edited \cup {taken} /\ dirty' \in BOOLEAN
          /\ unrecorded' = unrecorded \cup {taken}
      BY <1>2, <3>1 DEF Change, Amend
    <3>3. /\ heap' \in Seq(WorkloadSpecs) /\ Len(heap') = Len(heap)
          /\ \A p \in Pointers : p # taken => heap'[p] = heap[p]
      BY <1>2, <3>2 DEF Pointers
    <3> QED  BY <1>2, <3>2, <3>3
  <2> QED  BY <2>1, <2>2, <2>3
<1>4. Pointers' = Pointers
  BY <1>3 DEF Pointers
<1>5. LogTypeOK'
  BY <1>1, <1>2, <1>3, <1>4 DEF LogInv, LogTypeOK
<1>6. Shape' /\ PagesOK' /\ CatchUpOK'
  BY <1>1 DEF LogInv, Shape, PagesOK, CatchUpOK, NoGapAfterCatchUp
<1>7. PointersOK'
  BY <1>1, <1>3 DEF LogInv, PointersOK
<1>8. LogTellsState'
  <2>1. /\ \A i \in T : (\A j \in T : j <= i) =>
               /\ log[i].kind = "deleted" <=> stored = Nil
               /\ stored # Nil /\ stored \notin unrecorded => log[i].new = heap[stored]
        /\ \A i, j \in T :
              /\ j < i /\ \A k \in T : ~(j < k /\ k < i)
              /\ log[i].kind = "updated" /\ log[i].old \notin edited
              => heap[log[i].old] = log[j].new
    BY Zenon DEF LogInv, LogTellsState
  <2>2. \A i \in T : log[i].kind = "updated" => log[i].old \in Pointers
    <3>1. \A i \in DOMAIN log : log[i].old \in Pointers \cup {Nil}
      BY DEF LogInv, LogTypeOK
    <3>2. \A i \in 1 .. Len(log) : log[i].kind = "updated" => log[i].old # Nil
      BY DEF LogInv, PointersOK
    <3>3. DOMAIN log = 1 .. Len(log)
      BY DEF LogInv, LogTypeOK
    <3> QED  BY <3>1, <3>2, <3>3, Zenon
  <2>3. T' = T
    BY <1>1
  <2> HIDE DEF T
  <2>4. /\ \A i \in T : (\A j \in T : j <= i) =>
               /\ log[i].kind = "deleted" <=> stored = Nil
               /\ stored # Nil /\ stored \notin unrecorded' => log[i].new = heap'[stored]
        /\ \A i, j \in T :
              /\ j < i /\ \A k \in T : ~(j < k /\ k < i)
              /\ log[i].kind = "updated" /\ log[i].old \notin edited'
              => heap'[log[i].old] = log[j].new
    BY <1>3, <2>1, <2>2
  <2> QED  BY <1>1, <2>4, Zenon DEF LogTellsState, T
<1> QED  BY <1>5, <1>6, <1>7, <1>8 DEF LogInv

LEMMA TickInv ==
    ASSUME LogInv, Tick
    PROVE  LogInv'
<1>1. /\ heap' = heap /\ stored' = stored /\ taken' = taken /\ edited' = edited
      /\ dirty' = dirty /\ unrecorded' = unrecorded /\ log' = log
      /\ issued' = issued /\ restarted' = restarted
      /\ client' = client /\ now' = now + 1 /\ now < MaxTime
  BY DEF Tick, storeVars
<1>2. now \in 0 .. MaxTime /\ MaxTime \in Nat /\ log \in Seq(Event)
  BY EventLogAssumption DEF LogInv, LogTypeOK
<1>3. now' \in 0 .. MaxTime
  BY <1>1, <1>2
<1>4. LogTypeOK'
  BY <1>1, <1>3 DEF LogInv, LogTypeOK, Pointers
<1>5. PagesOK' /\ CatchUpOK' /\ PointersOK' /\ LogTellsState'
  BY <1>1 DEF LogInv, PagesOK, CatchUpOK, NoGapAfterCatchUp, PointersOK, LogTellsState
<1>6. \A i \in 1 .. Len(log) : log[i].at <= now + 1
  <2>1. ASSUME NEW i \in 1 .. Len(log) PROVE log[i].at <= now + 1
    <3>1. log[i].at <= now
      BY DEF LogInv, Shape
    <3>2. log[i] \in Event
      BY <1>2
    <3>3. log[i].at \in Int
      BY <1>2, <3>2 DEF Event
    <3> QED  BY <1>2, <3>1, <3>3
  <2> QED  BY <2>1
<1>7. Shape'
  BY <1>1, <1>6 DEF LogInv, Shape
<1> QED  BY <1>4, <1>5, <1>7 DEF LogInv

(***************************************************************************)
(* Cleanup: what it keeps are the last events.                             *)
(***************************************************************************)
LEMMA CleanupKeeps ==
    ASSUME LogTypeOK, Shape, Cleanup
    PROVE  \E k \in 0 .. Len(log) :
              /\ log' \in Seq(Event)
              /\ Len(log') = Len(log) - k
              /\ \A n \in 1 .. Len(log) - k : log'[n] = log[k + n]
<1> DEFINE l == Len(log)
           I == {i \in DOMAIN log : log[i].at + MaxEventAge > now}
<1>1. /\ log \in Seq(Event) /\ l \in Nat /\ DOMAIN log = 1 .. l
      /\ MaxEventAge \in Int /\ now \in Int
  BY EventLogAssumption DEF LogTypeOK
<1>2. \A i \in 1 .. l : log[i].at \in Int
  <2>1. \A i \in 1 .. l : log[i] \in Event
    BY <1>1
  <2> QED  BY <2>1, EventLogAssumption DEF Event
<1>3. ASSUME NEW i \in I, NEW j \in 1 .. l, i <= j PROVE j \in I
  <2>1. i \in 1 .. l /\ log[i].at + MaxEventAge > now
    BY <1>1
  <2>2. log[i].at <= log[j].at
    BY <1>3, <2>1 DEF Shape
  <2>3. log[j].at + MaxEventAge > now
    BY <1>1, <1>2, <2>1, <2>2
  <2> QED  BY <1>1, <2>3
<1>4. I \subseteq 1 .. l
  BY <1>1
<1>5. log' = Select(I)
  BY DEF Cleanup
<1> HIDE DEF I
<1>6. PICK k \in 0 .. l : I = k + 1 .. l
  BY <1>1, <1>3, <1>4, LastPositions
<1>7. LET t == Select(k + 1 .. l) IN
      /\ t \in Seq(Event)
      /\ Len(t) = l - k
      /\ \A n \in 1 .. l - k : t[n] = log[k + n]
  BY <1>1, SelectLast
<1> QED  BY <1>5, <1>6, <1>7

LEMMA CleanupInv ==
    ASSUME LogInv, Cleanup
    PROVE  LogInv'
<1> DEFINE l == Len(log)
           T == {i \in DOMAIN log : log[i].kind \in StoreKinds}
           U == {i \in DOMAIN log' : log'[i].kind \in StoreKinds}
<1>1. /\ heap' = heap /\ stored' = stored /\ taken' = taken /\ edited' = edited
      /\ dirty' = dirty /\ unrecorded' = unrecorded /\ now' = now
      /\ issued' = issued /\ restarted' = restarted
      /\ client' = client
  BY DEF Cleanup, storeVars
<1>2. PICK k \in 0 .. l :
         /\ log' \in Seq(Event)
         /\ Len(log') = l - k
         /\ \A n \in 1 .. l - k : log'[n] = log[k + n]
  BY CleanupKeeps DEF LogInv
<1>3. /\ log \in Seq(Event) /\ l \in Nat /\ DOMAIN log = 1 .. l /\ k \in Nat /\ k <= l
      /\ DOMAIN log' = 1 .. l - k /\ l <= issued /\ issued \in Nat
  BY <1>2, EventLogAssumption DEF LogInv, LogTypeOK, Shape
<1>4. \A n \in 1 .. l - k : k + n \in 1 .. l /\ n \in Nat
  BY <1>3
<1>5. LogTypeOK'
  <2>1. \A i \in DOMAIN log : log[i].old \in Pointers \cup {Nil}
    BY DEF LogInv, LogTypeOK
  <2>2. Pointers' = Pointers
    BY <1>1 DEF Pointers
  <2> HIDE DEF l
  <2>3. \A i \in DOMAIN log' : log'[i].old \in Pointers' \cup {Nil}
    BY <1>2, <1>3, <1>4, <2>1, <2>2, Zenon
  <2> QED  BY <1>1, <1>2, <2>2, <2>3 DEF LogInv, LogTypeOK
<1>6. Shape'
  <2>1. \A i \in 1 .. l : /\ log[i].num = issued - l + i
                          /\ log[i].version = log[l].version - l + i
                          /\ log[i].version <= log[i].num
                          /\ log[i].at <= now
                          /\ ~restarted => log[i].version = log[i].num
    BY DEF LogInv, Shape
  <2>2. \A i, j \in 1 .. l : i <= j => log[i].at <= log[j].at
    BY DEF LogInv, Shape
  <2>3. l - k <= issued
    BY <1>3
  <2>4. \A i \in 1 .. l : log[i].version \in Nat
    <3>1. \A i \in 1 .. l : log[i] \in Event
      BY <1>3
    <3> QED  BY <3>1, EventLogAssumption DEF Event
  <2>5. ASSUME NEW n \in 1 .. l - k
        PROVE  /\ log'[n].num = issued - (l - k) + n
               /\ log'[n].version = log'[l - k].version - (l - k) + n
               /\ log'[n].version <= log'[n].num
               /\ log'[n].at <= now
               /\ ~restarted => log'[n].version = log'[n].num
    <3>1. k + n \in 1 .. l /\ l - k \in 1 .. l - k /\ k + (l - k) = l /\ l \in 1 .. l
      BY <1>3
    <3>2. log'[n] = log[k + n] /\ log'[l - k] = log[l]
      BY <1>2, <3>1
    <3>3. issued - l + (k + n) = issued - (l - k) + n
      BY <1>3
    <3>4. log[l].version - l + (k + n) = log[l].version - (l - k) + n
      <4>1. log[l].version \in Nat
        BY <2>4, <3>1
      <4>2. ASSUME NEW v \in Nat PROVE v - l + (k + n) = v - (l - k) + n
        BY <1>3
      <4> QED  BY <4>1, <4>2, Zenon
    <3> HIDE DEF l
    <3> QED  BY <2>1, <3>1, <3>2, <3>3, <3>4, Zenon
  <2>6. ASSUME NEW i \in 1 .. l - k, NEW j \in 1 .. l - k, i <= j
        PROVE  log'[i].at <= log'[j].at
    <3>1. k + i \in 1 .. l /\ k + j \in 1 .. l /\ k + i <= k + j
      BY <1>3, <2>6
    <3> QED  BY <1>2, <2>2, <3>1
  <2>7. Len(log') = l - k
    BY <1>2
  <2> HIDE DEF l
  <2> QED  BY <1>1, <2>3, <2>5, <2>6, <2>7 DEF Shape
<1>7. PointersOK'
  <2>1. \A i \in 1 .. l : log[i].kind = "updated" => log[i].old # Nil
    BY DEF LogInv, PointersOK
  <2>2. \A i \in 1 .. Len(log') : log'[i].kind = "updated" => log'[i].old # Nil
    BY <1>2, <1>4, <2>1
  <2> QED  BY <1>1, <2>2 DEF LogInv, PointersOK
<1>8. PagesOK'
  <2>1. ~restarted => \A i \in 1 .. l : log[i].version < client.from => log[i].num \in client.read
    BY DEF LogInv, PagesOK
  <2> HIDE DEF l
  <2>2. ~restarted => \A i \in 1 .. Len(log') :
           log'[i].version < client.from => log'[i].num \in client.read
    BY <1>2, <1>4, <2>1, Zenon
  <2> QED  BY <1>1, <2>2 DEF LogInv, PagesOK
<1>9. CatchUpOK'
  <2>1. client.caughtUp /\ ~client.full =>
           \A i \in 1 .. l : log[i].num \in client.read \cup client.got \cup ToSet(client.chan)
    BY <1>3, Zenon DEF LogInv, CatchUpOK, NoGapAfterCatchUp
  <2> HIDE DEF l
  <2>2. client.caughtUp /\ ~client.full =>
           \A i \in DOMAIN log' : log'[i].num \in client.read \cup client.got \cup ToSet(client.chan)
    BY <1>2, <1>3, <1>4, <2>1, Zenon
  <2> QED  BY <1>1, <2>2 DEF LogInv, CatchUpOK, NoGapAfterCatchUp
<1>10. LogTellsState'
  <2>1. /\ \A i \in T : (\A j \in T : j <= i) =>
               /\ log[i].kind = "deleted" <=> stored = Nil
               /\ stored # Nil /\ stored \notin unrecorded => log[i].new = heap[stored]
        /\ \A i, j \in T :
              /\ j < i /\ \A m \in T : ~(j < m /\ m < i)
              /\ log[i].kind = "updated" /\ log[i].old \notin edited
              => heap[log[i].old] = log[j].new
    BY Zenon DEF LogInv, LogTellsState
  <2>2. \A i \in U : i \in Nat /\ k + i \in T /\ log'[i] = log[k + i]
    BY <1>2, <1>3, <1>4
  <2>3. \A i \in T : i \in Nat /\ (k < i => i - k \in U)
    <3>1. ASSUME NEW i \in T, k < i PROVE i - k \in U
      <4>1. i - k \in 1 .. l - k /\ k + (i - k) = i
        BY <1>3, <3>1
      <4>2. log'[i - k] = log[i]
        BY <1>2, <4>1
      <4> QED  BY <1>3, <4>1, <4>2
    <3> QED  BY <1>3, <3>1
  <2> HIDE DEF T, U, l
  <2>4. ASSUME NEW i \in U, \A j \in U : j <= i
        PROVE  /\ log'[i].kind = "deleted" <=> stored = Nil
               /\ stored # Nil /\ stored \notin unrecorded => log'[i].new = heap[stored]
    <3>1. ASSUME NEW j \in T PROVE j <= k + i
      <4>1. CASE k < j
        <5>1. j - k <= i
          BY <2>3, <2>4, <4>1
        <5> QED  BY <1>3, <2>2, <2>3, <5>1
      <4>2. CASE ~(k < j)
        BY <1>3, <2>2, <2>3, <4>2
      <4> QED  BY <4>1, <4>2
    <3>2. k + i \in T /\ log'[i] = log[k + i]
      BY <2>2
    <3>3. /\ log[k + i].kind = "deleted" <=> stored = Nil
          /\ stored # Nil /\ stored \notin unrecorded => log[k + i].new = heap[stored]
      BY <2>1, <3>1, <3>2, Zenon
    <3> QED  BY <3>2, <3>3, Zenon
  <2>5. ASSUME NEW i \in U, NEW j \in U, j < i, \A m \in U : ~(j < m /\ m < i),
               log'[i].kind = "updated", log'[i].old \notin edited
        PROVE  heap[log'[i].old] = log'[j].new
    <3>1. k + j < k + i
      BY <1>3, <2>2, <2>5
    <3>2. ASSUME NEW m \in T, k + j < m, m < k + i PROVE FALSE
      <4>1. m \in Nat /\ i \in Nat /\ j \in Nat
        BY <2>2, <2>3
      <4>2. k < m /\ j < m - k /\ m - k < i
        BY <1>3, <3>2, <4>1
      <4>3. m - k \in U
        BY <2>3, <4>2
      <4> QED  BY <2>5, <4>2, <4>3
    <3>3. /\ k + i \in T /\ k + j \in T /\ log'[i] = log[k + i] /\ log'[j] = log[k + j]
          /\ log[k + i].kind = "updated" /\ log[k + i].old \notin edited
      BY <2>2, <2>5
    <3>4. \A m \in T : ~(k + j < m /\ m < k + i)
      BY <3>2, Zenon
    <3>5. heap[log[k + i].old] = log[k + j].new
      BY <2>1, <3>1, <3>3, <3>4, Zenon
    <3> QED  BY <3>3, <3>5, Zenon
  <2> QED  BY <1>1, <2>4, <2>5, Zenon DEF LogTellsState, U
<1> QED  BY <1>5, <1>6, <1>7, <1>8, <1>9, <1>10 DEF LogInv

(***************************************************************************)
(* The client's steps.                                                     *)
(***************************************************************************)

(* A page holds consecutive events from the first one at from_version or   *)
(* after it, all of them without a limit.                                  *)
LEMMA Page ==
    ASSUME LogTypeOK, Shape, NEW limit \in Int
    PROVE  LET page == GetEvents(client.from, limit) IN
           \E k \in 0 .. Len(log), m \in 0 .. Len(log) :
              /\ k + m <= Len(log)
              /\ page \in Seq(Event)
              /\ Len(page) = m
              /\ \A n \in 1 .. m : page[n] = log[k + n]
              /\ \A i \in 1 .. k : log[i].version < client.from
              /\ \A i \in k + 1 .. Len(log) : log[i].version >= client.from
              /\ limit <= 0 => m = Len(log) - k
<1> DEFINE l == Len(log)
           f == client.from
           I == {i \in DOMAIN log : log[i].version >= f}
           t == Select(I)
           page == GetEvents(f, limit)
<1>1. /\ log \in Seq(Event) /\ l \in Nat /\ DOMAIN log = 1 .. l /\ f \in Nat
  BY EventLogAssumption DEF LogTypeOK, Client
<1>2. \A i \in 1 .. l : log[i].version \in Nat
  <2>1. \A i \in 1 .. l : log[i] \in Event
    BY <1>1
  <2> QED  BY <2>1, EventLogAssumption DEF Event
<1>3. ASSUME NEW i \in I, NEW j \in 1 .. l, i <= j PROVE j \in I
  <2>1. i \in 1 .. l /\ log[i].version >= f /\ l \in 1 .. l
    BY <1>1
  <2>2. /\ log[i].version = log[l].version - l + i
        /\ log[j].version = log[l].version - l + j
    BY <2>1 DEF Shape
  <2>3. log[l].version \in Nat /\ log[i].version \in Nat /\ log[j].version \in Nat
    BY <1>2, <2>1
  <2>4. log[j].version >= f
    BY <1>1, <1>3, <2>1, <2>2, <2>3
  <2> QED  BY <1>1, <2>4
<1>4. I \subseteq 1 .. l
  BY <1>1
<1>5. PICK k \in 0 .. l : I = k + 1 .. l
  <2> HIDE DEF I
  <2> QED  BY <1>1, <1>3, <1>4, LastPositions
<1>6. /\ Select(k + 1 .. l) \in Seq(Event)
      /\ Len(Select(k + 1 .. l)) = l - k
      /\ \A n \in 1 .. l - k : Select(k + 1 .. l)[n] = log[k + n]
  BY <1>1, SelectLast
<1>7. t \in Seq(Event) /\ Len(t) = l - k /\ \A n \in 1 .. l - k : t[n] = log[k + n]
  <2> HIDE DEF I
  <2> QED  BY <1>5, <1>6
<1>8. \A i \in 1 .. k : log[i].version < f
  <2>1. ASSUME NEW i \in 1 .. k PROVE log[i].version < f
    <3>1. i \in 1 .. l /\ i \notin k + 1 .. l
      BY <1>1
    <3>2. ~(log[i].version >= f)
      BY <1>1, <1>5, <3>1
    <3> QED  BY <1>1, <1>2, <3>1, <3>2
  <2> QED  BY <2>1
<1>9. \A i \in k + 1 .. l : log[i].version >= f
  BY <1>5
<1>10. page = IF limit > 0 /\ Len(t) > limit THEN SubSeq(t, 1, limit) ELSE t
  BY DEF GetEvents
<1> HIDE DEF I, t, page, l, f
<1>11. \E m \in 0 .. l :
          /\ k + m <= l /\ page \in Seq(Event) /\ Len(page) = m
          /\ \A n \in 1 .. m : page[n] = t[n]
          /\ m <= l - k
          /\ limit <= 0 => m = l - k
  <2>1. CASE limit > 0 /\ Len(t) > limit
    <3>1. /\ limit \in Nat /\ 1 <= limit /\ limit < l - k /\ limit \in 0 .. l /\ k + limit <= l
          /\ limit <= l - k /\ ~(limit <= 0)
      BY <1>1, <1>7, <2>1
    <3>2. page = SubSeq(t, 1, limit)
      BY <1>10, <2>1
    <3>3. \A i \in 1 .. limit : t[i] \in Event
      BY <1>1, <1>7, <3>1
    <3>4. page \in Seq(Event) /\ Len(page) = limit /\ \A n \in 1 .. limit : page[n] = t[n]
      BY <1>7, <3>1, <3>2, <3>3
    <3> QED  BY <3>1, <3>4
  <2>2. CASE ~(limit > 0 /\ Len(t) > limit)
    <3>1. page = t /\ l - k \in 0 .. l /\ k + (l - k) <= l /\ l - k <= l - k
      BY <1>1, <1>10, <2>2
    <3> QED  BY <1>7, <3>1
  <2> QED  BY <2>1, <2>2
<1>12. PICK m \in 0 .. l :
          /\ k + m <= l /\ page \in Seq(Event) /\ Len(page) = m
          /\ \A n \in 1 .. m : page[n] = t[n]
          /\ m <= l - k
          /\ limit <= 0 => m = l - k
  BY <1>11
<1>13. \A n \in 1 .. m : page[n] = log[k + n]
  <2>1. \A n \in 1 .. m : n \in 1 .. l - k
    BY <1>1, <1>12
  <2> QED  BY <1>7, <1>12, <2>1, Zenon
<1>14. /\ k \in 0 .. l /\ m \in 0 .. l
       /\ k + m <= l /\ page \in Seq(Event) /\ Len(page) = m
       /\ \A n \in 1 .. m : page[n] = log[k + n]
       /\ \A i \in 1 .. k : log[i].version < f
       /\ \A i \in k + 1 .. l : log[i].version >= f
       /\ limit <= 0 => m = l - k
  BY <1>8, <1>9, <1>12, <1>13
<1> QED  BY <1>14 DEF l, f, page

(* A step that changes the client only.                                    *)
LEMMA ClientInv ==
    ASSUME LogInv, UNCHANGED <<storeVars, log, issued, restarted, now>>,
           client' \in Client, Len(client'.chan) <= Buffer, PagesOK', CatchUpOK'
    PROVE  LogInv'
<1>1. /\ heap' = heap /\ stored' = stored /\ taken' = taken /\ edited' = edited
      /\ dirty' = dirty /\ unrecorded' = unrecorded /\ log' = log
      /\ issued' = issued /\ restarted' = restarted
      /\ now' = now
  BY DEF storeVars
<1>2. LogTypeOK'
  BY <1>1 DEF LogInv, LogTypeOK, Pointers
<1>3. Shape' /\ PointersOK' /\ LogTellsState'
  BY <1>1 DEF LogInv, Shape, PointersOK, LogTellsState
<1> QED  BY <1>2, <1>3 DEF LogInv

LEMMA SubscribeInv ==
    ASSUME LogInv, Subscribe
    PROVE  LogInv'
<1>1. /\ UNCHANGED <<storeVars, log, issued, restarted, now>>
      /\ log' = log /\ issued' = issued /\ restarted' = restarted
      /\ client' = [client EXCEPT !.sub = TRUE]
  BY DEF Subscribe
<1>2. client \in Client /\ Len(client.chan) <= Buffer
  BY DEF LogInv, LogTypeOK
<1>3. /\ client' \in Client /\ client'.chan = client.chan /\ client'.full = client.full
      /\ client'.from = client.from /\ client'.read = client.read
      /\ client'.twice = client.twice /\ client'.got = client.got
      /\ client'.sub /\ client'.caughtUp = client.caughtUp
  BY <1>1, <1>2 DEF Client
<1>4. PagesOK'
  BY <1>1, <1>3 DEF LogInv, PagesOK
<1>5. CatchUpOK'
  <2>1. client'.caughtUp => client'.sub
    BY <1>3, Zenon
  <2>2. NoGapAfterCatchUp'
    BY <1>1, <1>3 DEF LogInv, CatchUpOK, NoGapAfterCatchUp
  <2> QED  BY <2>1, <2>2, Zenon DEF CatchUpOK
<1>6. Len(client'.chan) <= Buffer
  BY <1>2, <1>3
<1> QED  BY <1>1, <1>3, <1>4, <1>5, <1>6, ClientInv

LEMMA ReceiveInv ==
    ASSUME LogInv, Receive
    PROVE  LogInv'
<1> DEFINE c == client.chan
<1>1. /\ UNCHANGED <<storeVars, log, issued, restarted, now>>
      /\ log' = log /\ issued' = issued /\ restarted' = restarted
      /\ client' = [client EXCEPT !.chan = Tail(c), !.got = @ \cup {Head(c)}]
      /\ c # <<>>
  BY DEF Receive
<1>2. client \in Client /\ Len(c) <= Buffer /\ Buffer \in Nat
  BY EventLogAssumption DEF LogInv, LogTypeOK
<1>3. c \in Seq(1 .. MaxEvents) /\ client.got \subseteq 1 .. MaxEvents
  BY <1>2 DEF Client
<1>4. /\ Head(c) = c[1] /\ Head(c) \in 1 .. MaxEvents /\ Tail(c) \in Seq(1 .. MaxEvents)
      /\ Len(Tail(c)) = Len(c) - 1 /\ Len(c) \in Nat /\ Len(c) # 0
      /\ \A i \in 1 .. Len(c) - 1 : Tail(c)[i] = c[i + 1]
  <2> HIDE DEF c
  <2>1. Len(c) \in Nat /\ Len(c) # 0
    BY <1>1, <1>3
  <2>2. Head(c) = c[1] /\ 1 \in 1 .. Len(c)
    BY <1>3, <2>1
  <2>3. Head(c) \in 1 .. MaxEvents
    <3> DEFINE M == 1 .. MaxEvents
    <3>1. c \in Seq(M)
      BY <1>3
    <3> HIDE DEF M
    <3>2. \A i \in 1 .. Len(c) : c[i] \in M
      BY <3>1
    <3> QED  BY <2>2, <3>2 DEF M
  <2>4. /\ Tail(c) \in Seq(1 .. MaxEvents) /\ Len(Tail(c)) = Len(c) - 1
        /\ \A i \in 1 .. Len(c) - 1 : Tail(c)[i] = c[i + 1]
    BY <1>1, <1>3, <2>1
  <2> QED  BY <2>1, <2>2, <2>3, <2>4
<1>5. /\ client' \in Client /\ client'.chan = Tail(c) /\ client'.full = client.full
      /\ client'.from = client.from /\ client'.read = client.read
      /\ client'.twice = client.twice /\ client'.got = client.got \cup {Head(c)}
      /\ client'.sub = client.sub /\ client'.caughtUp = client.caughtUp
  BY <1>1, <1>2, <1>3, <1>4 DEF Client
<1>6. \A x \in ToSet(c) : x = Head(c) \/ x \in ToSet(Tail(c))
  <2>1. ASSUME NEW i \in DOMAIN c PROVE c[i] = Head(c) \/ c[i] \in ToSet(Tail(c))
    <3>1. DOMAIN Tail(c) = 1 .. Len(c) - 1 /\ i \in 1 .. Len(c)
      BY <1>3, <1>4
    <3>2. CASE i = 1
      BY <1>4, <3>2
    <3>3. CASE i # 1
      <4>1. i - 1 \in 1 .. Len(c) - 1 /\ (i - 1) + 1 = i
        BY <1>4, <3>1, <3>3
      <4>2. Tail(c)[i - 1] = c[i]
        BY <1>4, <4>1
      <4> QED  BY <3>1, <4>1, <4>2 DEF ToSet
    <3> QED  BY <3>2, <3>3
  <2> QED  BY <2>1 DEF ToSet
<1>7. PagesOK'
  BY <1>1, <1>5 DEF LogInv, PagesOK
<1>8. CatchUpOK'
  <2>1. client'.caughtUp => client'.sub
    BY <1>5, Zenon DEF LogInv, CatchUpOK
  <2>2. client.caughtUp /\ ~client.full =>
           \A i \in DOMAIN log : log[i].num \in client.read \cup client.got \cup ToSet(c)
    BY DEF LogInv, CatchUpOK, NoGapAfterCatchUp
  <2> HIDE DEF c
  <2>3. client'.caughtUp /\ ~client'.full =>
           \A i \in DOMAIN log' : log'[i].num \in client'.read \cup client'.got \cup ToSet(client'.chan)
    BY <1>1, <1>5, <1>6, <2>2
  <2> QED  BY <2>1, <2>3 DEF CatchUpOK, NoGapAfterCatchUp
<1>9. Len(client'.chan) <= Buffer
  BY <1>2, <1>4, <1>5
<1> QED  BY <1>1, <1>5, <1>7, <1>8, <1>9, ClientInv

(* A page continues the ones before it; without a limit it closes the gap  *)
(* up to the subscription.                                                 *)
LEMMA ReadInv ==
    ASSUME LogInv, NEW limit \in Int, Read(limit)
    PROVE  LogInv'
<1> DEFINE l == Len(log)
           f == client.from
           page == GetEvents(f, limit)
           nums == {page[i].num : i \in DOMAIN page}
           g == IF page = <<>> THEN f ELSE Last(page).version + 1
<1>1. /\ UNCHANGED <<storeVars, log, issued, restarted, now>>
      /\ log' = log /\ issued' = issued /\ restarted' = restarted
      /\ client' = [client EXCEPT
                      !.from = g,
                      !.read = @ \cup nums,
                      !.twice = @ \/ nums \cap client.read # {},
                      !.caughtUp = @ \/ (client.sub /\ limit <= 0 /\ ~restarted)]
  BY DEF Read
<1>2. PICK k \in 0 .. l, m \in 0 .. l :
         /\ k + m <= l
         /\ page \in Seq(Event)
         /\ Len(page) = m
         /\ \A n \in 1 .. m : page[n] = log[k + n]
         /\ \A i \in 1 .. k : log[i].version < f
         /\ \A i \in k + 1 .. l : log[i].version >= f
         /\ limit <= 0 => m = l - k
  BY Page DEF LogInv
<1>3. /\ client \in Client /\ Len(client.chan) <= Buffer /\ log \in Seq(Event)
      /\ l \in Nat /\ issued \in Nat /\ l <= issued /\ MaxEvents \in Nat
      /\ k \in Nat /\ m \in Nat
  BY EventLogAssumption DEF LogInv, LogTypeOK, Shape
<1>4. f \in 0 .. MaxEvents + 1 /\ client.read \subseteq 1 .. MaxEvents /\ f \in Nat
      /\ client.twice \in BOOLEAN /\ client.caughtUp \in BOOLEAN
  BY <1>3 DEF Client
<1>5. DOMAIN page = 1 .. m
  BY <1>2
<1>6. \A i \in 1 .. l : log[i].version \in 1 .. MaxEvents /\ log[i].num \in 1 .. MaxEvents
  <2>1. \A i \in 1 .. l : log[i] \in Event
    BY <1>3
  <2> QED  BY <2>1 DEF Event
<1>7. \A n \in 1 .. m : k + n \in 1 .. l /\ k + n \in k + 1 .. l
  BY <1>2, <1>3
<1> HIDE DEF page
<1>8. /\ \A x \in nums : \E n \in 1 .. m : x = log[k + n].num
      /\ \A n \in 1 .. m : log[k + n].num \in nums
  BY <1>2, <1>5
<1>9. nums \subseteq 1 .. MaxEvents
  BY <1>6, <1>7, <1>8
<1>10. IF m = 0 THEN g = f ELSE g = log[k + m].version + 1
  <2>1. CASE m = 0
    BY <1>2, <1>3, <2>1
  <2>2. CASE m # 0
    <3>1. m \in 1 .. m /\ page # <<>>
      BY <1>2, <1>3, <2>2
    <3>2. Last(page) = page[m]
      BY <1>2 DEF Last
    <3> QED  BY <1>2, <2>2, <3>1, <3>2
  <2> QED  BY <2>1, <2>2
<1>11. g \in 0 .. MaxEvents + 1
  <2>1. CASE m = 0
    BY <1>4, <1>10, <2>1
  <2>2. CASE m # 0
    <3>1. k + m \in 1 .. l
      BY <1>2, <1>3, <2>2
    <3>2. g = log[k + m].version + 1 /\ log[k + m].version \in 1 .. MaxEvents
      BY <1>6, <1>10, <2>2, <3>1, Zenon
    <3>3. ASSUME NEW v \in 1 .. MaxEvents PROVE v + 1 \in 0 .. MaxEvents + 1
      BY <1>3
    <3> QED  BY <3>2, <3>3, Zenon
  <2> QED  BY <2>1, <2>2
<1> HIDE DEF g, nums, f
<1>12. /\ client' \in Client /\ client'.chan = client.chan /\ client'.full = client.full
       /\ client'.from = g /\ client'.read = client.read \cup nums
       /\ client'.twice = (client.twice \/ nums \cap client.read # {})
       /\ client'.got = client.got /\ client'.sub = client.sub
       /\ client'.caughtUp = (client.caughtUp \/ (client.sub /\ limit <= 0 /\ ~restarted))
  BY <1>1, <1>3, <1>4, <1>9, <1>11 DEF Client
<1>13. ASSUME ~restarted
       PROVE  /\ ~client.twice /\ f <= issued + 1
              /\ \A x \in client.read : x < f
              /\ \A i \in 1 .. l : log[i].version < f => log[i].num \in client.read
              /\ \A i \in 1 .. l : log[i].num = issued - l + i /\ log[i].version = log[i].num
  BY <1>13 DEF LogInv, PagesOK, Shape, f
<1>14. ASSUME ~restarted, NEW i \in 1 .. l, i <= k + m
       PROVE  log[i].num \in client.read \cup nums
  <2>1. CASE i <= k
    <3>1. i \in 1 .. k
      BY <1>3, <2>1
    <3> QED  BY <1>2, <1>13, <1>14, <3>1
  <2>2. CASE ~(i <= k)
    <3>1. i - k \in 1 .. m /\ k + (i - k) = i
      BY <1>3, <1>14, <2>2
    <3> QED  BY <1>8, <3>1
  <2> QED  BY <2>1, <2>2
<1>15. PagesOK'
  <2> SUFFICES ASSUME ~restarted
               PROVE  /\ ~client'.twice
                      /\ g <= issued + 1
                      /\ \A x \in client.read \cup nums : x < g
                      /\ \A i \in 1 .. l : log[i].version < g => log[i].num \in client.read \cup nums
    BY <1>1, <1>12 DEF PagesOK
  <2>1. \A n \in 1 .. m : log[k + n].num \in Nat /\ log[k + n].num >= f
                          /\ log[k + n].num = issued - l + (k + n)
    <3>1. ASSUME NEW n \in 1 .. m
          PROVE  log[k + n].num \in Nat /\ log[k + n].num >= f
                 /\ log[k + n].num = issued - l + (k + n)
      <4>1. k + n \in 1 .. l /\ k + n \in k + 1 .. l
        BY <1>7
      <4>2. log[k + n].version >= f /\ log[k + n].num \in 1 .. MaxEvents
        BY <1>2, <1>6, <4>1
      <4>3. log[k + n].num = issued - l + (k + n) /\ log[k + n].version = log[k + n].num
        BY <1>13, <4>1
      <4> QED  BY <1>3, <4>2, <4>3
    <3> QED  BY <3>1
  <2>2. nums \cap client.read = {}
    <3>1. ASSUME NEW x \in nums, x \in client.read PROVE FALSE
      <4>1. x \in Nat /\ x >= f
        BY <1>8, <2>1
      <4>2. x < f
        BY <1>13, <3>1
      <4> QED  BY <1>4, <4>1, <4>2
    <3> QED  BY <3>1
  <2>3. ~client'.twice
    BY <1>12, <1>13, <2>2, Zenon
  <2>4. CASE m = 0
    <3>1. g = f /\ nums = {}
      BY <1>8, <1>10, <2>4
    <3> QED  BY <1>13, <2>3, <3>1
  <2>5. CASE m # 0
    <3>1. m \in 1 .. m /\ k + m \in 1 .. l
      BY <1>2, <1>3, <2>5
    <3>2. g = issued - l + (k + m) + 1 /\ g \in Nat
      <4>1. g = log[k + m].version + 1
        BY <1>10, <2>5, Zenon
      <4>2. log[k + m].version = issued - l + (k + m)
        BY <1>13, <3>1, Zenon
      <4>3. g \in Nat
        BY <1>3, <1>11
      <4> QED  BY <4>1, <4>2, <4>3, Zenon
    <3>3. g <= issued + 1
      BY <1>2, <1>3, <3>2
    <3>4. f < g
      <4>1. log[k + m].num >= f /\ log[k + m].num \in Nat /\ log[k + m].num = issued - l + (k + m)
        BY <2>1, <3>1, Zenon
      <4>2. g = log[k + m].num + 1
        BY <3>2, <4>1, Zenon
      <4>3. ASSUME NEW v \in Nat, v >= f PROVE f < v + 1
        BY <1>4, <4>3
      <4> QED  BY <4>1, <4>2, <4>3, Zenon
    <3>5. ASSUME NEW x \in client.read \cup nums PROVE x < g
      <4>1. CASE x \in client.read
        <5>1. x < f /\ x \in Nat
          BY <1>4, <1>13, <4>1
        <5> QED  BY <1>4, <3>2, <3>4, <5>1
      <4>2. CASE x \in nums
        <5>1. PICK n \in 1 .. m : x = log[k + n].num
          BY <1>8, <4>2
        <5>2. x = issued - l + (k + n)
          BY <2>1, <5>1
        <5> QED  BY <1>3, <3>2, <5>2
      <4> QED  BY <4>1, <4>2
    <3>6. ASSUME NEW i \in 1 .. l, log[i].version < g
          PROVE  log[i].num \in client.read \cup nums
      <4>1. log[i].version = issued - l + i
        BY <1>13
      <4>2. i <= k + m
        BY <1>3, <3>2, <3>6, <4>1
      <4> QED  BY <1>14, <4>2
    <3> QED  BY <2>3, <3>3, <3>5, <3>6, Zenon
  <2> QED  BY <2>4, <2>5
<1>16. CatchUpOK'
  <2>1. client'.caughtUp => client'.sub
    BY <1>12, Zenon DEF LogInv, CatchUpOK
  <2>2. ASSUME client'.caughtUp, ~client'.full, NEW i \in DOMAIN log
        PROVE  log[i].num \in (client.read \cup nums) \cup client.got \cup ToSet(client.chan)
    <3>1. i \in 1 .. l
      BY <1>3
    <3>2. CASE client.caughtUp
      <4>1. client.caughtUp /\ ~client.full
        BY <1>12, <2>2, <3>2, Zenon
      <4>2. log[i].num \in client.read \cup client.got \cup ToSet(client.chan)
        BY <4>1, Zenon DEF LogInv, CatchUpOK, NoGapAfterCatchUp
      <4> QED  BY <4>2, Zenon
    <3>3. CASE limit <= 0 /\ ~restarted
      <4>1. i <= k + m
        BY <1>2, <1>3, <3>1, <3>3
      <4>2. log[i].num \in client.read \cup nums
        BY <1>14, <3>1, <3>3, <4>1, Zenon
      <4> QED  BY <4>2, Zenon
    <3> QED  BY <1>12, <2>2, <3>2, <3>3, Zenon
  <2>3. NoGapAfterCatchUp'
    BY <1>1, <1>12, <2>2, Zenon DEF NoGapAfterCatchUp
  <2> QED  BY <2>1, <2>3, Zenon DEF CatchUpOK
<1>17. Len(client'.chan) <= Buffer
  BY <1>3, <1>12
<1> QED  BY <1>1, <1>12, <1>15, <1>16, <1>17, ClientInv

(***************************************************************************)
(* The theorems.                                                           *)
(***************************************************************************)
LEMMA LogInvInit == LogInit => LogInv
<1> SUFFICES ASSUME LogInit PROVE LogInv
  OBVIOUS
<1>1. /\ heap = <<>> /\ stored = Nil /\ taken = Nil /\ edited = {} /\ dirty = FALSE
      /\ unrecorded = {}
      /\ log = <<>> /\ issued = 0 /\ restarted = FALSE /\ now = 0
      /\ client = [from |-> 0, read |-> {}, twice |-> FALSE, sub |-> FALSE, chan |-> <<>>,
                   got |-> {}, full |-> FALSE, caughtUp |-> FALSE]
  BY DEF LogInit
<1>2. client \in Client /\ Len(client.chan) <= Buffer
  BY <1>1, EventLogAssumption DEF Client
<1>3. Len(log) = 0 /\ DOMAIN log = {} /\ Len(heap) = 0 /\ 1 .. Len(log) = {}
  BY <1>1
<1>4. LogTypeOK
  <2>1. heap \in Seq(WorkloadSpecs) /\ log \in Seq(Event)
    BY <1>1
  <2>2. 0 \in 0 .. MaxEvents /\ 0 \in 0 .. MaxTime
    BY EventLogAssumption
  <2> QED  BY <1>1, <1>2, <1>3, <2>1, <2>2 DEF LogTypeOK, Pointers
<1>5. Shape /\ PointersOK
  BY <1>1, <1>3 DEF Shape, PointersOK
<1>6. LogTellsState
  BY <1>3 DEF LogTellsState
<1>7. PagesOK
  BY <1>1, <1>3 DEF PagesOK
<1>8. CatchUpOK
  BY <1>1, <1>3 DEF CatchUpOK, NoGapAfterCatchUp
<1> QED  BY <1>4, <1>5, <1>6, <1>7, <1>8 DEF LogInv

LEMMA LogInvNext == LogInv /\ [LogNext]_logVars => LogInv'
<1> SUFFICES ASSUME LogInv, [LogNext]_logVars PROVE LogInv'
  OBVIOUS
<1>1. CASE \E spec \in WorkloadSpecs : Create(spec) \/ Replace(spec)
  BY <1>1, CreateInv
<1>2. CASE \/ Get \/ EndWithoutUpdate \/ UpdateFails
           \/ \E spec \in WorkloadSpecs : Change(spec) \/ Amend(spec)
  BY <1>2, HolderInv
<1>3. CASE Update
  BY <1>3, UpdateInv
<1>4. CASE StoreDelete
  BY <1>4, DeleteInv
<1>5. CASE RecordOther
  BY <1>5, OtherInv
<1>6. CASE Cleanup
  BY <1>6, CleanupInv
<1>7. CASE Tick
  BY <1>7, TickInv
<1>8. CASE \E limit \in Limits : Read(limit)
  <2>1. PICK limit \in Limits : Read(limit)
    BY <1>8
  <2>2. limit \in Int
    BY EventLogAssumption
  <2> QED  BY <2>1, <2>2, ReadInv
<1>9. CASE Subscribe
  BY <1>9, SubscribeInv
<1>10. CASE Receive
  BY <1>10, ReceiveInv
<1>11. CASE UNCHANGED logVars
  <2>1. /\ UNCHANGED <<storeVars, log, issued, restarted, now>> /\ client' = client
        /\ log' = log /\ issued' = issued /\ restarted' = restarted
    BY <1>11 DEF logVars, storeVars
  <2>2. PagesOK' /\ CatchUpOK'
    BY <2>1 DEF LogInv, PagesOK, CatchUpOK, NoGapAfterCatchUp
  <2>3. client' \in Client /\ Len(client'.chan) <= Buffer
    BY <2>1 DEF LogInv, LogTypeOK
  <2> QED  BY <2>1, <2>2, <2>3, ClientInv
<1> QED
  BY <1>1, <1>2, <1>3, <1>4, <1>5, <1>6, <1>7, <1>8, <1>9, <1>10, <1>11 DEF LogNext

LEMMA LogInvHolds == LogSpec => []LogInv
  BY LogInvInit, LogInvNext, PTL DEF LogSpec

(* Every operation of the store, every clean-up and every step of a client *)
(* leaves the log, the objects and the client well-typed: versions never   *)
(* exceed the number of appends, an event's old spec points to an object   *)
(* that exists, and a subscription never holds more than its buffer.       *)
THEOREM LogTypeCorrect == LogSpec => []LogTypeOK
<1>1. LogInv => LogTypeOK
  BY DEF LogInv
<1> QED  BY <1>1, LogInvHolds, PTL

(* Append numbers from the last event kept and CleanupOldEvents keeps the  *)
(* last ones: what is kept is always one run of consecutive versions in    *)
(* the order of time.                                                      *)
THEOREM LogOrdered == LogSpec => []LogInOrder
<1>1. LogInv => LogInOrder
  <2> SUFFICES ASSUME LogInv, NEW i \in 1 .. Len(log) - 1
               PROVE  /\ log[i + 1].version = log[i].version + 1
                      /\ log[i].at <= log[i + 1].at
                      /\ log[i].num < log[i + 1].num
    BY DEF LogInOrder
  <2> DEFINE l == Len(log)
  <2>1. log \in Seq(Event) /\ l \in Nat /\ issued \in Nat
    BY EventLogAssumption DEF LogInv, LogTypeOK
  <2>2. i \in 1 .. l /\ i + 1 \in 1 .. l /\ i <= i + 1 /\ l \in 1 .. l
    BY <2>1
  <2>3. /\ log[i].num = issued - l + i /\ log[i + 1].num = issued - l + (i + 1)
        /\ log[i].version = log[l].version - l + i
        /\ log[i + 1].version = log[l].version - l + (i + 1)
        /\ log[i].at <= log[i + 1].at
    BY <2>2 DEF LogInv, Shape
  <2>4. log[l] \in Event
    BY <2>1, <2>2
  <2>5. log[l].version \in Int
    BY <2>4, EventLogAssumption DEF Event
  <2> QED  BY <2>1, <2>2, <2>3, <2>5
<1> QED  BY <1>1, LogInvHolds, PTL

(* MemoryStore records with every operation, under its lock: the log's     *)
(* last word about a workload is what the store holds, and the old spec of *)
(* an update is the one that the event before it left, unless an object    *)
(* was changed in place.                                                   *)
THEOREM LogTells == LogSpec => []LogTellsState
<1>1. LogInv => LogTellsState
  BY DEF LogInv
<1> QED  BY <1>1, LogInvHolds, PTL

(* GetEvents pages exactly, at every limit, whatever is appended and       *)
(* cleaned up between two pages, as long as the versions never restart.    *)
THEOREM PagesExactHolds == LogSpec => []PagesExact
<1>1. LogInv => PagesExact
  <2> SUFFICES ASSUME LogInv PROVE PagesExact
    OBVIOUS
  <2>1. DOMAIN log = 1 .. Len(log)
    BY DEF LogInv, LogTypeOK
  <2> QED  BY <2>1, Zenon DEF LogInv, PagesOK, PagesExact
<1> QED  BY <1>1, LogInvHolds, PTL

(* Subscribe before reading the log to its end and no event is missed that *)
(* the channel had room for: notifyWatchers is called under the lock of    *)
(* Append.                                                                 *)
THEOREM CatchUpComplete == LogSpec => []NoGapAfterCatchUp
<1>1. LogInv => NoGapAfterCatchUp
  BY DEF LogInv, CatchUpOK
<1> QED  BY <1>1, LogInvHolds, PTL
===============================================================================
