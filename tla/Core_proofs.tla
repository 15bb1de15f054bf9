------------------------------ MODULE Core_proofs ------------------------------
(***************************************************************************)
(* Proofs about Core, for every set of workloads, specs and handlers,      *)
(* every configuration and any number of requests and rounds.              *)
(*                                                                         *)
(* The inductive invariant has one part per piece of state.  Beyond the    *)
(* types it says what the goroutines rely on between two steps.  The quota *)
(* has an invariant of its own, on top of that one, and needs facts about  *)
(* sums.                                                                   *)
(***************************************************************************)
EXTENDS Core, FiniteSetTheorems, WellFoundedInduction, TLAPS

(* Only a request allocates an object.                                     *)
HeapOK ==
    /\ heap \in Seq(Object)
    /\ Len(heap) <= requests
    /\ requests \in 0 .. MaxRequests

StoreOK ==
    /\ store \in [Ids -> Pointers \cup {Nil}]
    /\ \A id \in Ids : store[id] # Nil => heap[store[id]].id = id

(* The pass under way holds an object, and policy admitted its spec unless *)
(* a rollback has replaced it since.                                       *)
RecOK ==
    /\ rec \in [pc : RecSteps, queue : SUBSET Pointers, obj : Pointers \cup {Nil}]
    /\ rec.pc # "next" =>
          rec.obj \in Pointers /\ (heap[rec.obj].restored \/ Validate(heap[rec.obj].spec))

(* A handler that is going to write an object back holds one.              *)
ReqOK ==
    /\ req \in [Handlers -> [pc : ReqSteps, obj : Pointers \cup {Nil}, todo : SUBSET Ids]]
    /\ \A h \in Handlers :
          req[h].pc \in {"update", "clear", "save", "revert"} => req[h].obj \in Pointers

ScalerOK ==
    /\ scaler \in [pc : ScalerSteps, queue : SUBSET Pointers, obj : Pointers \cup {Nil}, to : Int]
    /\ scaler.pc # "next" => scaler.obj \in Pointers

RestOK ==
    /\ registry \subseteq Ids
    /\ version \in 0 .. MaxVersion
    /\ runtime \in [Ids -> Specs \cup {Nothing}]
    /\ accepted \in [Ids -> Specs \cup {Nothing}]
    /\ limits \in Quota
    /\ rounds \in 0 .. MaxRounds
    /\ grant \in [limit : Nat, added : Nat, stale : BOOLEAN]

(* A restart that is owed is still pending, and nobody is about to reset   *)
(* the flag.                                                               *)
OwedIsPending ==
    \A p \in Pointers : heap[p].owed = "yes" => heap[p].pending /\ ~Restarting(p)

IInv ==
    /\ HeapOK
    /\ StoreOK
    /\ RecOK
    /\ ReqOK
    /\ ScalerOK
    /\ RestOK
    /\ RejectedNeverRuns
    /\ OwedIsPending

(* The revisions, on their own: no step but a rollback depends on them.    *)
KeptOK == kept \in [1 .. MaxObjects -> SUBSET Revision]

(* A step that keeps the objects, their IDs and their specs, as all do but *)
(* a deploy and a rollback.                                                *)
SameObjects ==
    /\ heap' \in Seq(Object)
    /\ Len(heap') = Len(heap)
    /\ \A p \in Pointers : /\ heap'[p].id = heap[p].id /\ heap'[p].spec = heap[p].spec
                            /\ heap'[p].restored = heap[p].restored

(* The constants, as the provers need them.                                *)
LEMMA Constants ==
    /\ MaxRequests \in Nat /\ MaxRounds \in Nat
    /\ MaxVersion \in Nat /\ MaxVersion >= 1
    /\ HardLimits \in Quota /\ Quotas \subseteq Quota
    /\ \A spec \in Specs : Text[spec] \in SpecText
  BY CoreAssumption, AdmissionAssumption

LEMMA Parts == IInv /\ KeptOK => TypeOK
  BY Constants DEF IInv, HeapOK, StoreOK, RecOK, ReqOK, ScalerOK, RestOK, KeptOK, TypeOK,
                   Pointers, MaxObjects

LEMMA ObjectTyped ==
    ASSUME HeapOK, NEW p \in Pointers
    PROVE  heap[p] \in Object
  BY DEF HeapOK, Pointers

(* One object is changed, and neither its ID nor its spec.                 *)
LEMMA SetObject ==
    ASSUME HeapOK, NEW p \in Pointers, NEW o \in Object,
           o.id = heap[p].id, o.spec = heap[p].spec, o.restored = heap[p].restored,
           heap' = [heap EXCEPT ![p] = o]
    PROVE  /\ SameObjects
           /\ heap'[p] = o
           /\ \A q \in Pointers \ {p} : heap'[q] = heap[q]
  BY DEF HeapOK, Pointers, SameObjects

LEMMA HeapUnchanged ==
    ASSUME HeapOK, heap' = heap
    PROVE  SameObjects
  BY DEF HeapOK, SameObjects

(* What a step that keeps the objects leaves true of the rest.             *)
LEMMA HeapKept ==
    ASSUME HeapOK, SameObjects, requests' = requests
    PROVE  HeapOK'
  BY DEF HeapOK, SameObjects

LEMMA HeapRequest ==
    ASSUME HeapOK, SameObjects, NEW h, Request(h)
    PROVE  HeapOK'
  <1>1. /\ requests \in 0 .. MaxRequests /\ Len(heap) <= requests /\ Len(heap) \in Nat
        /\ requests < MaxRequests /\ requests' = requests + 1
    BY DEF HeapOK, Request
  <1>2. requests' \in 0 .. MaxRequests /\ Len(heap) <= requests'
    BY <1>1, Constants
  <1> QED BY <1>2 DEF HeapOK, SameObjects

LEMMA PointersKept ==
    ASSUME SameObjects
    PROVE  Pointers' = Pointers
  BY DEF SameObjects, Pointers

LEMMA StoreKept ==
    ASSUME StoreOK, SameObjects, store' = store
    PROVE  StoreOK'
  <1>1. Pointers' = Pointers
    BY PointersKept
  <1> QED BY <1>1 DEF StoreOK, SameObjects, Nil

(* MemoryStore.Update keeps every pointer under the ID of its object.      *)
LEMMA StoreUpdated ==
    ASSUME HeapOK, StoreOK, SameObjects, NEW p \in Pointers, StoreUpdate(p)
    PROVE  StoreOK'
  <1>1. Pointers' = Pointers
    BY PointersKept
  <1>2. heap[p].id \in Ids
    BY ObjectTyped DEF Object
  <1>3. \A id \in Ids : store'[id] = IF id = heap[p].id /\ store[id] # Nil THEN p ELSE store[id]
    BY <1>2 DEF StoreUpdate, StoreOK
  <1>4. store' \in [Ids -> Pointers \cup {Nil}]
    BY <1>2 DEF StoreUpdate, StoreOK
  <1> QED BY <1>1, <1>3, <1>4 DEF StoreOK, SameObjects, Nil

LEMMA RecKept ==
    ASSUME RecOK, SameObjects, rec' = rec
    PROVE  RecOK'
  <1>1. Pointers' = Pointers
    BY PointersKept
  <1>2. rec.pc # "next" => /\ heap'[rec.obj].spec = heap[rec.obj].spec
                           /\ heap'[rec.obj].restored = heap[rec.obj].restored
    BY DEF RecOK, SameObjects
  <1> QED BY <1>1, <1>2 DEF RecOK

LEMMA ReqKept ==
    ASSUME ReqOK, SameObjects, req' = req
    PROVE  ReqOK'
  <1>1. Pointers' = Pointers
    BY PointersKept
  <1> QED BY <1>1 DEF ReqOK

(* One handler goes on.                                                    *)
LEMMA ReqSet ==
    ASSUME ReqOK, SameObjects, NEW h \in Handlers,
           NEW r \in [pc : ReqSteps, obj : Pointers \cup {Nil}, todo : SUBSET Ids],
           r.pc \in {"update", "clear", "save", "revert"} => r.obj \in Pointers,
           req' = [req EXCEPT ![h] = r]
    PROVE  ReqOK'
  <1>1. Pointers' = Pointers
    BY PointersKept
  <1> QED BY <1>1 DEF ReqOK

LEMMA ReqIdle ==
    ASSUME ReqOK, SameObjects, NEW h \in Handlers, req' = [req EXCEPT ![h] = Idle]
    PROVE  ReqOK'
  <1>1. /\ Idle \in [pc : ReqSteps, obj : Pointers \cup {Nil}, todo : SUBSET Ids]
        /\ Idle.pc = "idle"
    BY DEF Idle, ReqSteps
  <1> QED BY <1>1, ReqSet

(* The loop of HandleRotation holds no object at its head.                 *)
LEMMA ReqMark ==
    ASSUME ReqOK, SameObjects, NEW h \in Handlers, NEW todo \in SUBSET Ids, NextMark(h, todo)
    PROVE  ReqOK'
  <1> DEFINE r == [pc |-> "mark", obj |-> Nil, todo |-> todo]
  <1>1. /\ r \in [pc : ReqSteps, obj : Pointers \cup {Nil}, todo : SUBSET Ids]
        /\ r.pc = "mark"
    BY DEF ReqSteps
  <1>2. \/ req' = [req EXCEPT ![h] = Idle]
        \/ req' = [req EXCEPT ![h] = r]
    BY DEF NextMark
  <1> HIDE DEF r
  <1> QED BY <1>1, <1>2, ReqIdle, ReqSet

LEMMA ScalerKept ==
    ASSUME ScalerOK, SameObjects, scaler' = scaler
    PROVE  ScalerOK'
  <1>1. Pointers' = Pointers
    BY PointersKept
  <1> QED BY <1>1 DEF ScalerOK

(* One object is changed, and its ID is not: the parts that look no        *)
(* further.                                                                *)
LEMMA SpecSet ==
    ASSUME HeapOK, StoreOK, NEW p \in Pointers, NEW o \in Object, o.id = heap[p].id,
           heap' = [heap EXCEPT ![p] = o], store' = store
    PROVE  /\ heap' \in Seq(Object) /\ Len(heap') = Len(heap) /\ Pointers' = Pointers
           /\ heap'[p] = o /\ \A q \in Pointers \ {p} : heap'[q] = heap[q]
           /\ StoreOK'
  <1>1. /\ heap' \in Seq(Object) /\ Len(heap') = Len(heap) /\ Pointers' = Pointers
        /\ heap'[p] = o /\ \A q \in Pointers \ {p} : heap'[q] = heap[q]
    BY DEF HeapOK, Pointers
  <1> QED BY <1>1 DEF StoreOK, Nil

(* An object that does not start to run is no new danger.                  *)
LEMMA NobodyStarts ==
    ASSUME RejectedNeverRuns, SameObjects,
           \A p \in Pointers : heap'[p].phase = "Running" => heap[p].phase = "Running"
    PROVE  RejectedNeverRuns'
  <1>1. Pointers' = Pointers
    BY PointersKept
  <1> QED BY <1>1 DEF RejectedNeverRuns, SameObjects

(* No restart is issued and no object is marked.                           *)
LEMMA OwedKept ==
    ASSUME OwedIsPending, SameObjects,
           \A p \in Pointers : Restarting(p)' => Restarting(p),
           \A p \in Pointers : heap'[p].owed = "yes" => heap[p].owed = "yes",
           \A p \in Pointers : heap[p].owed = "yes" => heap'[p].pending = heap[p].pending
    PROVE  OwedIsPending'
  <1>1. Pointers' = Pointers
    BY PointersKept
  <1> QED BY <1>1 DEF OwedIsPending

LEMMA StaleTyped ==
    ASSUME RestOK, NEW p, NoteStale(p)
    PROVE  grant' \in [limit : Nat, added : Nat, stale : BOOLEAN]
  <1> DEFINE back == store[heap[p].id] \notin {Nil, p}
  <1>1. (grant.stale \/ back) \in BOOLEAN
    BY Zenon DEF RestOK
  <1>2. grant' = [grant EXCEPT !.stale = grant.stale \/ back]
    BY DEF NoteStale
  <1> HIDE DEF back
  <1> QED BY <1>1, <1>2 DEF RestOK

LEMMA AddedTyped ==
    ASSUME RestOK, NEW p, heap[p].replicas \in Int, NEW n \in Int, NoteAdded(p, n)
    PROVE  /\ grant' \in [limit : Nat, added : Nat, stale : BOOLEAN]
           /\ grant'.limit = grant.limit /\ grant'.stale = grant.stale
           /\ grant'.added = IF n > heap[p].replicas
                             THEN grant.added + (n - heap[p].replicas) ELSE grant.added
  <1> DEFINE a == IF n > heap[p].replicas
                  THEN grant.added + (n - heap[p].replicas) ELSE grant.added
  <1>1. a \in Nat
    BY DEF RestOK
  <1>2. grant' = [grant EXCEPT !.added = a]
    BY DEF NoteAdded
  <1> HIDE DEF a
  <1>3. /\ grant' \in [limit : Nat, added : Nat, stale : BOOLEAN]
        /\ grant'.limit = grant.limit /\ grant'.stale = grant.stale /\ grant'.added = a
    BY <1>1, <1>2 DEF RestOK
  <1> QED BY <1>3 DEF a

LEMMA IndexTyped ==
    ASSUME RestOK, NEW w \in Object, IndexWorkload(w)
    PROVE  registry' \subseteq Ids
  BY DEF RestOK, Object, IndexWorkload, RegisterWorkload

(***************************************************************************)
(* The API handlers.                                                       *)
(***************************************************************************)

(* deployOne up to Create.  It is the one step that adds an object: nobody *)
(* holds it yet, and it does not run.                                      *)
LEMMA DeployCreateIInv ==
    ASSUME IInv, NEW h \in Handlers, NEW id \in Ids, NEW spec \in Specs,
           DeployCreate(h, id, spec)
    PROVE  IInv'
  <1> DEFINE w == NewWorkload(id, spec)
             p == Len(heap) + 1
  <1> USE DEF IInv
  <1>1. w \in Object /\ w.id = id /\ w.phase = "Pending" /\ w.owed = "no"
    BY Constants DEF NewWorkload, Object, SpecText
  <1>2. /\ heap' = Append(heap, w) /\ Request(h)
        /\ UNCHANGED <<version, rec, runtime, limits, grant, scaler, rounds>>
    BY DEF DeployCreate, quotaVars, scalerVars
  <1>3. \/ /\ store[id] = Nil /\ store' = [store EXCEPT ![id] = p]
           /\ IndexWorkload(w) /\ accepted' = [accepted EXCEPT ![id] = spec]
           /\ req' = [req EXCEPT ![h] = Idle]
        \/ /\ req' = [req EXCEPT ![h] = [pc |-> "update", obj |-> p, todo |-> {}]]
           /\ UNCHANGED <<store, registry, accepted>>
    BY DEF DeployCreate, Done
  <1> HIDE DEF w
  <1>4. /\ heap' \in Seq(Object) /\ Len(heap') = p /\ Len(heap) \in Nat /\ heap'[p] = w
        /\ \A q \in Pointers : heap'[q] = heap[q]
    BY <1>1, <1>2 DEF HeapOK, Pointers
  <1>5. Pointers' = Pointers \cup {p} /\ p \notin Pointers
    BY <1>4 DEF Pointers
  <1>6. HeapOK'
    <2>1. requests \in Nat /\ requests < MaxRequests /\ requests' = requests + 1
      BY <1>2, Constants DEF Request, HeapOK
    <2>2. requests' \in 0 .. MaxRequests /\ p <= requests'
      BY <2>1, <1>4, Constants DEF HeapOK
    <2> QED BY <2>2, <1>4 DEF HeapOK
  <1> HIDE DEF p
  <1>7. StoreOK'
    BY <1>1, <1>3, <1>4, <1>5 DEF StoreOK, Nil
  <1>8. RecOK'
    BY <1>2, <1>4, <1>5 DEF RecOK
  <1>9. ReqOK'
    BY <1>3, <1>5 DEF ReqOK, ReqSteps, Idle, Nil
  <1>10. ScalerOK'
    BY <1>2, <1>5 DEF ScalerOK
  <1>11. RestOK'
    <2>1. registry' \subseteq Ids
      BY <1>1, <1>3, IndexTyped DEF RestOK
    <2>2. accepted' \in [Ids -> Specs \cup {Nothing}]
      BY <1>3 DEF RestOK
    <2> QED BY <2>1, <2>2, <1>2 DEF RestOK
  <1>12. RejectedNeverRuns'
    BY <1>1, <1>4, <1>5 DEF RejectedNeverRuns
  <1>13. OwedIsPending'
    <2>1. \A q \in Pointers : Restarting(q)' => Restarting(q)
      BY <1>2, <1>3, <1>5 DEF Restarting, ReqOK, Idle
    <2> QED BY <2>1, <1>1, <1>4, <1>5 DEF OwedIsPending
  <1> QED BY <1>6, <1>7, <1>8, <1>9, <1>10, <1>11, <1>12, <1>13

(* deployOne, the Update.                                                  *)
LEMMA DeployUpdateIInv ==
    ASSUME IInv, NEW h \in Handlers, DeployUpdate(h)
    PROVE  IInv'
  <1> USE DEF IInv
  <1> DEFINE p == req[h].obj
  <1>1. p \in Pointers
    BY DEF DeployUpdate, ReqOK
  <1>2. /\ StoreUpdate(p) /\ req' = [req EXCEPT ![h] = Idle]
        /\ accepted' = IF store[heap[p].id] = Nil THEN accepted
                       ELSE [accepted EXCEPT ![heap[p].id] = heap[p].spec]
        /\ UNCHANGED <<heap, registry, version, rec, requests, runtime, limits, grant,
                       scaler, rounds>>
    BY DEF DeployUpdate, Done, quotaVars, scalerVars
  <1>3. heap[p].id \in Ids /\ heap[p].spec \in Specs
    BY <1>1, ObjectTyped DEF Object
  <1> HIDE DEF p
  <1>4. SameObjects
    BY <1>2, HeapUnchanged
  <1>5. HeapOK' /\ StoreOK' /\ RecOK' /\ ScalerOK'
    <2>1. HeapOK'
      BY <1>2, <1>4, HeapKept
    <2>2. StoreOK'
      BY <1>1, <1>2, <1>4, StoreUpdated
    <2>3. RecOK' /\ ScalerOK'
      BY <1>2, <1>4, RecKept, ScalerKept
    <2> QED BY <2>1, <2>2, <2>3
  <1>6. ReqOK'
    BY <1>2, <1>4, ReqIdle
  <1>7. RestOK'
    BY <1>2, <1>3 DEF RestOK
  <1>8. RejectedNeverRuns'
    BY <1>2, <1>4, NobodyStarts
  <1>9. OwedIsPending'
    <2>1. \A q \in Pointers : Restarting(q)' => Restarting(q)
      BY <1>2 DEF Restarting, ReqOK, Idle
    <2> QED BY <2>1, <1>2, <1>4, OwedKept
  <1> QED BY <1>5, <1>6, <1>7, <1>8, <1>9

(* handleDeleteWorkload.                                                   *)
LEMMA DeleteIInv ==
    ASSUME IInv, NEW h \in Handlers, NEW id \in Ids, Delete(h, id)
    PROVE  IInv'
  <1> USE DEF IInv
  <1>1. /\ Request(h) /\ store' = [store EXCEPT ![id] = Nil]
        /\ accepted' = [accepted EXCEPT ![id] = Nothing]
        /\ UNCHANGED <<heap, registry, version, rec, req, runtime, limits, grant, scaler, rounds>>
    BY DEF Delete, quotaVars, scalerVars
  <1>2. SameObjects /\ Pointers' = Pointers
    BY <1>1, HeapUnchanged, PointersKept
  <1>3. HeapOK'
    BY <1>1, <1>2, HeapRequest
  <1>4. StoreOK'
    BY <1>1, <1>2 DEF StoreOK
  <1>5. RecOK' /\ ReqOK' /\ ScalerOK'
    BY <1>1, <1>2, RecKept, ReqKept, ScalerKept
  <1>6. RestOK'
    BY <1>1 DEF RestOK
  <1>7. RejectedNeverRuns'
    BY <1>1, <1>2, NobodyStarts
  <1>8. OwedIsPending'
    BY <1>1, <1>2 DEF OwedIsPending, Restarting
  <1> QED BY <1>3, <1>4, <1>5, <1>6, <1>7, <1>8

(* Revert up to its Update: the one step that puts another spec into an    *)
(* object, and the object is marked as restored.                           *)
LEMMA RollbackIInv ==
    ASSUME IInv, KeptOK, NEW h \in Handlers, NEW id \in Ids, NEW rev, Rollback(h, id, rev)
    PROVE  IInv'
  <1> USE DEF IInv
  <1> DEFINE p == store[id]
             a == [heap[p] EXCEPT !.spec = rev.spec]
             b == [a EXCEPT !.replicas = rev.replicas]
             o == [b EXCEPT !.restored = TRUE]
             r == [pc |-> "revert", obj |-> p, todo |-> {}]
  <1>1. p \in Pointers /\ rev \in kept[p]
    BY DEF Rollback, RollbackVersions, StoreOK
  <1>2. heap[p] \in Object
    BY <1>1, ObjectTyped
  <1>3. p \in 1 .. MaxObjects
    BY <1>1, Constants DEF HeapOK, Pointers, MaxObjects
  <1>4. rev \in Revision /\ rev.spec \in Specs /\ rev.replicas \in Int
    BY <1>1, <1>3 DEF KeptOK, Revision
  <1>5. /\ Request(h) /\ NoteAdded(p, rev.replicas) /\ req' = [req EXCEPT ![h] = r]
        /\ UNCHANGED <<store, registry, version, rec, runtime, accepted, limits, scaler, rounds>>
    BY DEF Rollback, scalerVars
  <1>6. heap' = [heap EXCEPT ![p] = o]
    BY <1>1, <1>2 DEF Rollback, HeapOK, Pointers, Object
  <1>7. /\ o \in Object /\ o.id = heap[p].id /\ o.restored = TRUE
        /\ o.owed = heap[p].owed /\ o.pending = heap[p].pending
    BY <1>2, <1>4 DEF Object
  <1>8. /\ r \in [pc : ReqSteps, obj : Pointers \cup {Nil}, todo : SUBSET Ids]
        /\ r.pc = "revert" /\ r.obj = p
    BY <1>1 DEF ReqSteps
  <1> HIDE DEF p, a, b, o, r
  <1>9. /\ heap' \in Seq(Object) /\ Len(heap') = Len(heap) /\ Pointers' = Pointers
        /\ heap'[p] = o /\ \A q \in Pointers \ {p} : heap'[q] = heap[q]
        /\ StoreOK'
    BY <1>1, <1>5, <1>6, <1>7, SpecSet
  <1>10. HeapOK'
    <2>1. /\ requests \in 0 .. MaxRequests /\ Len(heap) <= requests /\ Len(heap) \in Nat
          /\ requests < MaxRequests /\ requests' = requests + 1
      BY <1>5 DEF HeapOK, Request
    <2>2. requests' \in 0 .. MaxRequests /\ Len(heap) <= requests'
      BY <2>1, Constants
    <2> QED BY <2>2, <1>9 DEF HeapOK
  <1>11. RecOK'
    <2>1. rec.pc # "next" => rec.obj \in Pointers
      BY DEF RecOK
    <2>2. rec.pc # "next" => heap'[rec.obj].restored \/ Validate(heap'[rec.obj].spec)
      BY <1>7, <1>9, <2>1 DEF RecOK
    <2> QED BY <1>5, <1>9, <2>1, <2>2 DEF RecOK
  <1>12. ReqOK'
    BY <1>1, <1>5, <1>8, <1>9 DEF ReqOK
  <1>13. ScalerOK'
    BY <1>5, <1>9 DEF ScalerOK
  <1>14. RestOK'
    <2>1. heap[p].replicas \in Int
      BY <1>2 DEF Object
    <2>2. grant' \in [limit : Nat, added : Nat, stale : BOOLEAN]
      BY <1>4, <1>5, <2>1, AddedTyped
    <2> QED BY <1>5, <2>2 DEF RestOK
  <1>15. RejectedNeverRuns'
    BY <1>7, <1>9 DEF RejectedNeverRuns
  <1>16. OwedIsPending'
    <2>1. ASSUME NEW q \in Pointers, Restarting(q)' PROVE Restarting(q)
      BY <1>5, <1>8, <2>1 DEF Restarting, ReqOK
    <2> QED BY <2>1, <1>7, <1>9 DEF OwedIsPending
  <1> QED BY <1>9, <1>10, <1>11, <1>12, <1>13, <1>14, <1>15, <1>16

(* Revert's Update.                                                        *)
LEMMA RollbackSaveIInv ==
    ASSUME IInv, NEW h \in Handlers, RollbackSave(h)
    PROVE  IInv'
  <1> USE DEF IInv
  <1> DEFINE p == req[h].obj
  <1>1. p \in Pointers
    BY DEF RollbackSave, ReqOK
  <1>2. /\ StoreUpdate(p) /\ NoteStale(p) /\ req' = [req EXCEPT ![h] = Idle]
        /\ accepted' = IF store[heap[p].id] = Nil THEN accepted
                       ELSE [accepted EXCEPT ![heap[p].id] = heap[p].spec]
        /\ UNCHANGED <<heap, registry, version, rec, requests, runtime, limits, scaler, rounds>>
    BY DEF RollbackSave, Done, scalerVars
  <1>3. heap[p].id \in Ids /\ heap[p].spec \in Specs
    BY <1>1, ObjectTyped DEF Object
  <1> HIDE DEF p
  <1>4. SameObjects
    BY <1>2, HeapUnchanged
  <1>5. HeapOK' /\ RecOK' /\ ScalerOK'
    BY <1>2, <1>4, HeapKept, RecKept, ScalerKept
  <1>6. StoreOK'
    BY <1>1, <1>2, <1>4, StoreUpdated
  <1>7. ReqOK'
    BY <1>2, <1>4, ReqIdle
  <1>8. RestOK'
    <2>1. accepted' \in [Ids -> Specs \cup {Nothing}]
      BY <1>2, <1>3 DEF RestOK
    <2> QED BY <1>2, <2>1, StaleTyped DEF RestOK
  <1>9. RejectedNeverRuns'
    BY <1>2, <1>4, NobodyStarts
  <1>10. OwedIsPending'
    <2>1. \A q \in Pointers : Restarting(q)' => Restarting(q)
      BY <1>2 DEF Restarting, ReqOK, Idle
    <2> QED BY <2>1, <1>2, <1>4, OwedKept
  <1> QED BY <1>5, <1>6, <1>7, <1>8, <1>9, <1>10

(* RequestRollingRestart: the object owes no restart any more.             *)
LEMMA RestartResult ==
    ASSUME HeapOK, RestOK, NEW p \in Pointers, NEW redeploys, RollingRestart(p, redeploys)
    PROVE  /\ SameObjects
           /\ heap'[p].owed = "no" /\ heap'[p].phase = heap[p].phase
           /\ \A q \in Pointers \ {p} : heap'[q] = heap[q]
           /\ runtime' \in [Ids -> Specs \cup {Nothing}]
  <1> DEFINE o == [heap[p] EXCEPT !.owed = "no"]
  <1>1. heap[p] \in Object
    BY ObjectTyped
  <1>2. /\ o \in Object /\ o.id = heap[p].id /\ o.spec = heap[p].spec
        /\ o.restored = heap[p].restored
        /\ o.owed = "no" /\ o.phase = heap[p].phase
    BY <1>1 DEF Object
  <1>3. heap' = [heap EXCEPT ![p] = o]
    BY DEF RollingRestart
  <1> HIDE DEF o
  <1>4. SameObjects /\ heap'[p] = o /\ \A q \in Pointers \ {p} : heap'[q] = heap[q]
    BY <1>2, <1>3, SetObject
  <1>5. runtime' \in [Ids -> Specs \cup {Nothing}]
    BY <1>1 DEF RollingRestart, RestOK, Object
  <1> QED BY <1>2, <1>4, <1>5

(* A reset of pending_restart.                                             *)
LEMMA ClearResult ==
    ASSUME HeapOK, NEW p \in Pointers, heap' = [heap EXCEPT ![p].pending = FALSE]
    PROVE  /\ SameObjects
           /\ heap'[p].owed = heap[p].owed /\ heap'[p].phase = heap[p].phase
           /\ \A q \in Pointers \ {p} : heap'[q] = heap[q]
  <1> DEFINE o == [heap[p] EXCEPT !.pending = FALSE]
  <1>1. heap[p] \in Object
    BY ObjectTyped
  <1>2. /\ o \in Object /\ o.id = heap[p].id /\ o.spec = heap[p].spec
        /\ o.restored = heap[p].restored
        /\ o.owed = heap[p].owed /\ o.phase = heap[p].phase
    BY <1>1 DEF Object
  <1>3. heap' = [heap EXCEPT ![p] = o]
    OBVIOUS
  <1> HIDE DEF o
  <1>4. SameObjects /\ heap'[p] = o /\ \A q \in Pointers \ {p} : heap'[q] = heap[q]
    BY <1>2, <1>3, SetObject
  <1> QED BY <1>2, <1>4

(* restartOne up to the driver call.                                       *)
LEMMA RestartIssueIInv ==
    ASSUME IInv, NEW h \in Handlers, NEW id \in Ids, NEW redeploys,
           RestartIssue(h, id, redeploys)
    PROVE  IInv'
  <1> USE DEF IInv
  <1> DEFINE p == store[id]
             r == [pc |-> "clear", obj |-> p, todo |-> {}]
  <1>1. p \in Pointers
    BY DEF RestartIssue, StoreOK
  <1>2. /\ Request(h) /\ RollingRestart(p, redeploys)
        /\ req' = [req EXCEPT ![h] = r]
        /\ UNCHANGED <<store, registry, version, rec, accepted, limits, grant, scaler, rounds>>
    BY DEF RestartIssue, aside, quotaVars, scalerVars
  <1>3. /\ r \in [pc : ReqSteps, obj : Pointers \cup {Nil}, todo : SUBSET Ids]
        /\ r.pc = "clear" /\ r.obj = p
    BY <1>1 DEF ReqSteps
  <1> HIDE DEF p, r
  <1>4. /\ SameObjects
        /\ heap'[p].owed = "no" /\ heap'[p].phase = heap[p].phase
        /\ \A q \in Pointers \ {p} : heap'[q] = heap[q]
        /\ runtime' \in [Ids -> Specs \cup {Nothing}]
    BY <1>1, <1>2, RestartResult
  <1>5. HeapOK'
    BY <1>2, <1>4, HeapRequest
  <1>6. StoreOK' /\ RecOK' /\ ScalerOK'
    BY <1>2, <1>4, StoreKept, RecKept, ScalerKept
  <1>7. ReqOK'
    BY <1>1, <1>2, <1>3, <1>4, ReqSet
  <1>8. RestOK'
    BY <1>2, <1>4 DEF RestOK
  <1>9. RejectedNeverRuns'
    BY <1>4, NobodyStarts
  <1>10. OwedIsPending'
    <2>1. ASSUME NEW q \in Pointers \ {p}, Restarting(q)' PROVE Restarting(q)
      BY <1>2, <1>3, <2>1 DEF Restarting, ReqOK
    <2>2. Pointers' = Pointers
      BY <1>4, PointersKept
    <2> QED BY <2>1, <2>2, <1>4 DEF OwedIsPending
  <1> QED BY <1>5, <1>6, <1>7, <1>8, <1>9, <1>10

(* clearPendingRestart and Update.  The flag is reset while the object is  *)
(* being restarted, so the restart was not owed.                           *)
LEMMA RestartClearIInv ==
    ASSUME IInv, NEW h \in Handlers, RestartClear(h)
    PROVE  IInv'
  <1> USE DEF IInv
  <1> DEFINE p == req[h].obj
  <1>1. p \in Pointers /\ Restarting(p)
    BY DEF RestartClear, ReqOK, Restarting
  <1>2. /\ heap' = [heap EXCEPT ![p].pending = FALSE] /\ StoreUpdate(p) /\ NoteStale(p)
        /\ req' = [req EXCEPT ![h] = Idle]
        /\ UNCHANGED <<registry, version, rec, requests, runtime, accepted, limits, scaler, rounds>>
    BY DEF RestartClear, Done, scalerVars
  <1> HIDE DEF p
  <1>3. /\ SameObjects
        /\ heap'[p].owed = heap[p].owed /\ heap'[p].phase = heap[p].phase
        /\ \A q \in Pointers \ {p} : heap'[q] = heap[q]
    BY <1>1, <1>2, ClearResult
  <1>4. HeapOK'
    BY <1>2, <1>3, HeapKept
  <1>5. StoreOK'
    BY <1>1, <1>2, <1>3, StoreUpdated
  <1>6. RecOK' /\ ScalerOK'
    BY <1>2, <1>3, RecKept, ScalerKept
  <1>7. ReqOK'
    BY <1>2, <1>3, ReqIdle
  <1>8. RestOK'
    BY <1>2, StaleTyped DEF RestOK
  <1>9. RejectedNeverRuns'
    BY <1>3, NobodyStarts
  <1>10. OwedIsPending'
    <2>1. \A q \in Pointers : Restarting(q)' => Restarting(q)
      BY <1>2 DEF Restarting, ReqOK, Idle
    <2>2. heap[p].owed # "yes"
      BY <1>1 DEF OwedIsPending
    <2> QED BY <2>1, <2>2, <1>3, OwedKept
  <1> QED BY <1>4, <1>5, <1>6, <1>7, <1>8, <1>9, <1>10

(* HandleRotation up to its loop.                                          *)
LEMMA RotateObserveIInv ==
    ASSUME IInv, NEW h \in Handlers, NEW v \in 1 .. MaxVersion, RotateObserve(h, v)
    PROVE  IInv'
  <1> USE DEF IInv
  <1> DEFINE r == [pc |-> "mark", obj |-> Nil, todo |-> registry]
  <1>1. /\ Request(h) /\ version' = v
        /\ req' = [req EXCEPT ![h] = r] \/ req' = [req EXCEPT ![h] = Idle]
        /\ UNCHANGED <<heap, store, registry, rec, runtime, accepted, limits, grant, scaler, rounds>>
    BY DEF RotateObserve, WorkloadsForSecret, aside, quotaVars, scalerVars
  <1>2. /\ r \in [pc : ReqSteps, obj : Pointers \cup {Nil}, todo : SUBSET Ids]
        /\ r.pc = "mark"
    BY DEF ReqSteps, RestOK
  <1> HIDE DEF r
  <1>3. SameObjects
    BY <1>1, HeapUnchanged
  <1>4. HeapOK'
    BY <1>1, <1>3, HeapRequest
  <1>5. StoreOK' /\ RecOK' /\ ScalerOK'
    BY <1>1, <1>3, StoreKept, RecKept, ScalerKept
  <1>6. ReqOK'
    BY <1>1, <1>2, <1>3, ReqSet, ReqIdle
  <1>7. RestOK'
    <2>1. version' \in 0 .. MaxVersion
      BY <1>1, Constants
    <2> QED BY <2>1, <1>1 DEF RestOK
  <1>8. RejectedNeverRuns'
    BY <1>1, <1>3, NobodyStarts
  <1>9. OwedIsPending'
    <2>1. \A q \in Pointers : Restarting(q)' => Restarting(q)
      BY <1>1, <1>2 DEF Restarting, ReqOK, Idle
    <2> QED BY <2>1, <1>1, <1>3, OwedKept
  <1> QED BY <1>4, <1>5, <1>6, <1>7, <1>8, <1>9

(* One iteration of HandleRotation: skipped, or the object is marked.  The *)
(* mark is owed unless a restart is about to reset it.                     *)
LEMMA RotateMarkIInv ==
    ASSUME IInv, NEW h \in Handlers, NEW id \in Ids, RotateMark(h, id)
    PROVE  IInv'
  <1> USE DEF IInv
  <1> DEFINE p == store[id]
             left == req[h].todo \ {id}
             owed == IF Restarting(p) THEN "raced" ELSE "yes"
             r == [pc |-> "save", obj |-> p, todo |-> left]
             o == [[heap[p] EXCEPT !.pending = TRUE] EXCEPT !.owed = owed]
  <1>1. left \in SUBSET Ids
    BY DEF ReqOK
  <1>2. UNCHANGED <<store, registry, version, rec, requests, runtime, accepted, limits, grant,
                    scaler, rounds>>
    BY DEF RotateMark, aside, quotaVars, scalerVars
  <1>3. CASE heap' = heap /\ NextMark(h, left)
    <2>1. SameObjects
      BY <1>3, HeapUnchanged
    <2>2. ReqOK'
      BY <1>1, <1>3, <2>1, ReqMark
    <2>3. HeapOK' /\ StoreOK' /\ RecOK' /\ ScalerOK'
      BY <1>2, <2>1, HeapKept, StoreKept, RecKept, ScalerKept
    <2>4. RestOK'
      BY <1>2 DEF RestOK
    <2>5. RejectedNeverRuns'
      BY <1>3, <2>1, NobodyStarts
    <2>6. OwedIsPending'
      <3>1. \A q \in Pointers : Restarting(q)' => Restarting(q)
        BY <1>2, <1>3 DEF Restarting, ReqOK, Idle, NextMark
      <3> QED BY <3>1, <1>3, <2>1, OwedKept
    <2> QED BY <2>2, <2>3, <2>4, <2>5, <2>6
  <1>4. CASE /\ p # Nil
             /\ heap' = [heap EXCEPT ![p].pending = TRUE, ![p].owed = owed]
             /\ req' = [req EXCEPT ![h] = [pc |-> "save", obj |-> p, todo |-> @.todo \ {id}]]
    <2>1. p \in Pointers
      BY <1>4 DEF StoreOK
    <2>2. /\ r \in [pc : ReqSteps, obj : Pointers \cup {Nil}, todo : SUBSET Ids]
          /\ r.pc = "save" /\ r.obj = p
      BY <1>1, <2>1 DEF ReqSteps
    <2>3. req' = [req EXCEPT ![h] = r]
      BY <1>4 DEF ReqOK
    <2>4. owed \in {"yes", "raced"} /\ (owed = "yes" => ~Restarting(p))
      OBVIOUS
    <2> HIDE DEF owed
    <2>5. /\ o \in Object /\ o.id = heap[p].id /\ o.spec = heap[p].spec
          /\ o.restored = heap[p].restored
          /\ o.phase = heap[p].phase /\ o.pending = TRUE /\ o.owed = owed
      <3>1. heap[p] \in Object
        BY <2>1, ObjectTyped
      <3> QED BY <3>1, <2>4 DEF Object
    <2>6. heap' = [heap EXCEPT ![p] = o]
      BY <1>4, <2>1 DEF HeapOK, Pointers
    <2> HIDE DEF p, r, o, left
    <2>7. SameObjects /\ heap'[p] = o /\ \A q \in Pointers \ {p} : heap'[q] = heap[q]
      BY <2>1, <2>5, <2>6, SetObject
    <2>8. ReqOK'
      BY <2>1, <2>2, <2>3, <2>7, ReqSet
    <2>9. HeapOK' /\ StoreOK' /\ RecOK' /\ ScalerOK'
      BY <1>2, <2>7, HeapKept, StoreKept, RecKept, ScalerKept
    <2>10. RestOK'
      BY <1>2 DEF RestOK
    <2>11. RejectedNeverRuns'
      BY <2>5, <2>7, NobodyStarts
    <2>12. OwedIsPending'
      <3>1. \A q \in Pointers : Restarting(q)' => Restarting(q)
        BY <1>2, <2>2, <2>3 DEF Restarting, ReqOK
      <3>2. Pointers' = Pointers
        BY <2>7, PointersKept
      <3> QED BY <3>1, <3>2, <2>4, <2>5, <2>7 DEF OwedIsPending
    <2> QED BY <2>8, <2>9, <2>10, <2>11, <2>12
  <1> QED BY <1>3, <1>4 DEF RotateMark

(* Its Update.                                                             *)
LEMMA RotateSaveIInv ==
    ASSUME IInv, NEW h \in Handlers, RotateSave(h)
    PROVE  IInv'
  <1> USE DEF IInv
  <1> DEFINE p == req[h].obj
             left == req[h].todo
  <1>1. p \in Pointers /\ left \in SUBSET Ids
    BY DEF RotateSave, ReqOK
  <1>2. /\ StoreUpdate(p) /\ NoteStale(p) /\ NextMark(h, left)
        /\ UNCHANGED <<heap, registry, version, rec, requests, runtime, accepted, limits,
                       scaler, rounds>>
    BY DEF RotateSave, scalerVars
  <1> HIDE DEF p, left
  <1>3. SameObjects
    BY <1>2, HeapUnchanged
  <1>4. HeapOK' /\ RecOK' /\ ScalerOK'
    BY <1>2, <1>3, HeapKept, RecKept, ScalerKept
  <1>5. StoreOK'
    BY <1>1, <1>2, <1>3, StoreUpdated
  <1>6. ReqOK'
    BY <1>1, <1>2, <1>3, ReqMark
  <1>7. RestOK'
    BY <1>2, StaleTyped DEF RestOK
  <1>8. RejectedNeverRuns'
    BY <1>2, <1>3, NobodyStarts
  <1>9. OwedIsPending'
    <2>1. \A q \in Pointers : Restarting(q)' => Restarting(q)
      BY <1>2 DEF Restarting, ReqOK, Idle, NextMark
    <2> QED BY <2>1, <1>2, <1>3, OwedKept
  <1> QED BY <1>4, <1>5, <1>6, <1>7, <1>8, <1>9

(* handlePutQuota and handleDeleteQuota.                                   *)
LEMMA QuotaIInv ==
    ASSUME IInv, NEW h \in Handlers, HandleQuota(h)
    PROVE  IInv'
  <1> USE DEF IInv
  <1>1. /\ Request(h) /\ limits' \in Quota
        /\ UNCHANGED <<heap, store, registry, version, rec, req, runtime, accepted, grant,
                       scaler, rounds>>
    BY Constants DEF HandleQuota, PutQuota, DeleteQuota, NoQuota, Quota, scalerVars
  <1>2. SameObjects
    BY <1>1, HeapUnchanged
  <1>3. HeapOK'
    BY <1>1, <1>2, HeapRequest
  <1>4. StoreOK' /\ RecOK' /\ ReqOK' /\ ScalerOK'
    BY <1>1, <1>2, StoreKept, RecKept, ReqKept, ScalerKept
  <1>5. RestOK'
    BY <1>1 DEF RestOK
  <1>6. RejectedNeverRuns'
    BY <1>1, <1>2, NobodyStarts
  <1>7. OwedIsPending'
    BY <1>1 DEF OwedIsPending, Restarting, Pointers
  <1> QED BY <1>3, <1>4, <1>5, <1>6, <1>7

(***************************************************************************)
(* The autoscaler.                                                         *)
(***************************************************************************)

(* A workload is scaled by at most one replica.                            *)
LEMMA ScalingResult ==
    ASSUME NEW t \in [enabled : BOOLEAN, min : Int, max : Int,
                      cpu : BOOLEAN, memory : BOOLEAN, custom : BOOLEAN],
           NEW n \in Int, NEW m \in Metrics
    PROVE  evaluateScaling(t, n, m) \in {n - 1, n, n + 1}
  <1> DEFINE custom == IF t.custom /\ m.custom = "high" /\ n < t.max THEN n + 1 ELSE n
             memory == Decide(t.memory, m.memory, t, n, custom)
  <1>1. custom \in {n - 1, n, n + 1}
    OBVIOUS
  <1> HIDE DEF custom
  <1>2. memory \in {n - 1, n, n + 1}
    BY <1>1 DEF Decide
  <1> HIDE DEF memory
  <1>3. Decide(t.cpu, m.cpu, t, n, memory) \in {n - 1, n, n + 1}
    BY <1>2 DEF Decide
  <1> QED BY <1>3 DEF evaluateScaling, custom, memory

LEMMA ScaledTo ==
    ASSUME NEW w \in Object, NEW n \in Replicas(w)
    PROVE  n \in Int
  <1>1. w.replicas \in Int /\ w.spec \in Specs
    BY DEF Object
  <1>2. Text[w.spec].scaling \in [enabled : BOOLEAN, min : Int, max : Int,
                                  cpu : BOOLEAN, memory : BOOLEAN, custom : BOOLEAN]
    BY <1>1, Constants DEF SpecText
  <1>3. CASE n = w.replicas
    BY <1>1, <1>3
  <1>4. CASE n # w.replicas
    <2>1. PICK m \in Metrics : n = evaluateScaling(Text[w.spec].scaling, w.replicas, m)
      BY <1>4 DEF Replicas
    <2>2. n \in {w.replicas - 1, w.replicas, w.replicas + 1}
      BY <1>1, <1>2, <2>1, ScalingResult
    <2> QED BY <1>1, <2>2
  <1> QED BY <1>3, <1>4

(* checkAllWorkloads up to the call of scaleWorkload: List, and one        *)
(* iteration after the other.                                              *)
LEMMA ScalingIInv ==
    ASSUME IInv,
           \/ ScaleRound
           \/ \E p \in scaler.queue : \E n \in Replicas(heap[p]) : Evaluate(p, n)
    PROVE  IInv'
  <1> USE DEF IInv
  <1>1. UNCHANGED <<heap, store, registry, version, rec, req, requests, runtime, accepted,
                    limits, grant>>
    BY DEF ScaleRound, Evaluate, quotaVars
  <1>2. SameObjects /\ Pointers' = Pointers
    BY <1>1, HeapUnchanged, PointersKept
  <1>3. HeapOK' /\ StoreOK' /\ RecOK' /\ ReqOK'
    BY <1>1, <1>2, HeapKept, StoreKept, RecKept, ReqKept
  <1>4. ScalerOK'
    <2>1. CASE ScaleRound
      <3>1. {store[id] : id \in Ids} \ {Nil} \in SUBSET Pointers
        BY DEF StoreOK
      <3>2. scaler.pc = "next"
        BY <2>1 DEF ScaleRound, NotScaling
      <3> QED BY <1>2, <2>1, <3>1, <3>2 DEF ScaleRound, ScalerOK
    <2>2. ASSUME NEW p \in scaler.queue, NEW n \in Replicas(heap[p]), Evaluate(p, n)
          PROVE  ScalerOK'
      <3>1. p \in Pointers
        BY DEF ScalerOK
      <3>2. n \in Int
        BY <3>1, ObjectTyped, ScaledTo
      <3> QED BY <1>2, <2>2, <3>1, <3>2 DEF Evaluate, ScalerOK, ScalerSteps
    <2> QED BY <2>1, <2>2
  <1>5. RestOK'
    <2>1. rounds' \in 0 .. MaxRounds
      BY Constants DEF RestOK, ScaleRound, Evaluate
    <2> QED BY <1>1, <2>1 DEF RestOK
  <1>6. RejectedNeverRuns'
    BY <1>1, <1>2, NobodyStarts
  <1>7. OwedIsPending'
    BY <1>1, <1>2 DEF OwedIsPending, Restarting
  <1> QED BY <1>3, <1>4, <1>5, <1>6, <1>7

(* scaleWorkload up to its Update.                                         *)
LEMMA ScaleIInv ==
    ASSUME IInv, Scale
    PROVE  IInv'
  <1> USE DEF IInv
  <1> DEFINE p == scaler.obj
             n == scaler.to
             o == [heap[p] EXCEPT !.replicas = n]
  <1>1. p \in Pointers /\ heap[p] \in Object /\ n \in Int
    BY ObjectTyped DEF Scale, ScalerOK
  <1>2. /\ heap' = [heap EXCEPT ![p] = o] /\ NoteAdded(p, n)
        /\ scaler' = [scaler EXCEPT !.pc = "save", !.to = 0]
        /\ UNCHANGED <<store, registry, version, rec, req, requests, runtime, accepted, limits,
                       rounds>>
    BY DEF Scale
  <1>3. /\ o \in Object /\ o.id = heap[p].id /\ o.spec = heap[p].spec
        /\ o.restored = heap[p].restored
        /\ o.phase = heap[p].phase /\ o.owed = heap[p].owed /\ o.pending = heap[p].pending
    BY <1>1 DEF Object
  <1>4. scaler'.queue = scaler.queue /\ scaler'.obj = p /\ scaler'.pc = "save"
    BY <1>2 DEF ScalerOK
  <1>5. scaler' \in [pc : ScalerSteps, queue : SUBSET Pointers, obj : Pointers \cup {Nil}, to : Int]
    <2>1. scaler \in [pc : ScalerSteps, queue : SUBSET Pointers, obj : Pointers \cup {Nil}, to : Int]
      BY DEF ScalerOK
    <2>2. scaler' = [pc |-> "save", queue |-> scaler.queue, obj |-> scaler.obj, to |-> 0]
      BY <1>2, <2>1
    <2> QED BY <2>1, <2>2 DEF ScalerSteps
  <1> HIDE DEF o, p, n
  <1>6. SameObjects /\ heap'[p] = o /\ \A q \in Pointers \ {p} : heap'[q] = heap[q]
    BY <1>1, <1>2, <1>3, SetObject
  <1>7. Pointers' = Pointers
    BY <1>6, PointersKept
  <1>8. HeapOK' /\ StoreOK' /\ RecOK' /\ ReqOK'
    BY <1>2, <1>6, HeapKept, StoreKept, RecKept, ReqKept
  <1>9. ScalerOK'
    BY <1>1, <1>4, <1>5, <1>7 DEF ScalerOK
  <1>10. RestOK'
    <2>1. heap[p].replicas \in Int
      BY <1>1 DEF Object
    <2>2. grant' \in [limit : Nat, added : Nat, stale : BOOLEAN]
      BY <1>1, <1>2, <2>1, AddedTyped
    <2> QED BY <1>2, <2>2 DEF RestOK
  <1>11. RejectedNeverRuns'
    BY <1>3, <1>6, NobodyStarts
  <1>12. OwedIsPending'
    <2>1. \A q \in Pointers : Restarting(q)' => Restarting(q)
      BY <1>2 DEF Restarting
    <2> QED BY <2>1, <1>3, <1>6, OwedKept
  <1> QED BY <1>8, <1>9, <1>10, <1>11, <1>12

(* scaleWorkload, the Update.                                              *)
LEMMA ScaleWorkloadIInv ==
    ASSUME IInv, ScaleWorkload
    PROVE  IInv'
  <1> USE DEF IInv
  <1> DEFINE p == scaler.obj
  <1>1. p \in Pointers
    BY DEF ScaleWorkload, ScalerOK
  <1>2. /\ StoreUpdate(p) /\ NoteStale(p)
        /\ scaler' = [scaler EXCEPT !.pc = "next", !.obj = Nil]
        /\ UNCHANGED <<heap, registry, version, rec, req, requests, runtime, accepted, limits,
                       rounds>>
    BY DEF ScaleWorkload
  <1> HIDE DEF p
  <1>3. SameObjects /\ Pointers' = Pointers
    BY <1>2, HeapUnchanged, PointersKept
  <1>4. HeapOK' /\ RecOK' /\ ReqOK'
    BY <1>2, <1>3, HeapKept, RecKept, ReqKept
  <1>5. StoreOK'
    BY <1>1, <1>2, <1>3, StoreUpdated
  <1>6. ScalerOK'
    BY <1>2, <1>3 DEF ScalerOK, ScalerSteps
  <1>7. RestOK'
    BY <1>2, StaleTyped DEF RestOK
  <1>8. RejectedNeverRuns'
    BY <1>2, <1>3, NobodyStarts
  <1>9. OwedIsPending'
    BY <1>2, <1>3 DEF OwedIsPending, Restarting
  <1> QED BY <1>4, <1>5, <1>6, <1>7, <1>8, <1>9

(***************************************************************************)
(* The reconcile loop.                                                     *)
(***************************************************************************)
LEMMA ListIInv ==
    ASSUME IInv, List
    PROVE  IInv'
  <1> USE DEF IInv
  <1>1. /\ rec = Between /\ rec' = [rec EXCEPT !.queue = {store[id] : id \in Ids} \ {Nil}]
        /\ grant' = NoGrant \/ grant' = grant
        /\ UNCHANGED <<heap, store, registry, version, req, requests, runtime, accepted, limits,
                       scaler, rounds>>
    BY DEF List, scalerVars
  <1>2. {store[id] : id \in Ids} \ {Nil} \in SUBSET Pointers
    BY DEF StoreOK
  <1>3. SameObjects /\ Pointers' = Pointers
    BY <1>1, HeapUnchanged, PointersKept
  <1>4. HeapOK' /\ StoreOK' /\ ReqOK' /\ ScalerOK'
    BY <1>1, <1>3, HeapKept, StoreKept, ReqKept, ScalerKept
  <1>5. RecOK'
    BY <1>1, <1>2, <1>3 DEF RecOK, Between
  <1>6. RestOK'
    <2>1. NoGrant \in [limit : Nat, added : Nat, stale : BOOLEAN]
      BY DEF NoGrant
    <2>2. grant' \in [limit : Nat, added : Nat, stale : BOOLEAN]
      BY <1>1, <2>1 DEF RestOK
    <2> QED BY <1>1, <2>2 DEF RestOK
  <1>7. RejectedNeverRuns'
    BY <1>1, <1>3, NobodyStarts
  <1>8. OwedIsPending'
    BY <1>1, <1>3 DEF OwedIsPending, Restarting, Between
  <1> QED BY <1>4, <1>5, <1>6, <1>7, <1>8

(* reconcileOne up to the circuit status: policy is asked here.            *)
LEMMA AdmitIInv ==
    ASSUME IInv, NEW p \in rec.queue, Admit(p)
    PROVE  IInv'
  <1> USE DEF IInv
  <1> DEFINE o == [heap[p] EXCEPT !.restored = FALSE]
  <1>1. p \in Pointers /\ heap[p] \in Object
    BY ObjectTyped DEF RecOK
  <1>2. /\ rec.pc = "next"
        /\ UNCHANGED <<store, registry, version, req, requests, runtime, accepted, limits,
                       scaler, rounds>>
    BY DEF Admit, scalerVars
  <1>3. CASE Admitted(heap[p])
    <2>1. /\ Validate(heap[p].spec) /\ heap' = [heap EXCEPT ![p] = o] /\ grant' = Granted
          /\ rec' = [pc |-> "persist", queue |-> rec.queue \ {p}, obj |-> p]
      BY <1>3 DEF Admit, Admitted
    <2>2. /\ o \in Object /\ o.id = heap[p].id /\ o.spec = heap[p].spec
          /\ o.phase = heap[p].phase /\ o.owed = heap[p].owed /\ o.pending = heap[p].pending
      BY <1>1 DEF Object
    <2> HIDE DEF o
    <2>3. /\ heap' \in Seq(Object) /\ Len(heap') = Len(heap) /\ Pointers' = Pointers
          /\ heap'[p] = o /\ \A q \in Pointers \ {p} : heap'[q] = heap[q]
          /\ StoreOK'
      BY <1>1, <1>2, <2>1, <2>2, SpecSet
    <2>4. HeapOK'
      BY <1>2, <2>3 DEF HeapOK
    <2>5. ReqOK' /\ ScalerOK'
      BY <1>2, <2>3 DEF ReqOK, ScalerOK
    <2>6. RecOK'
      <3>1. rec'.obj = p /\ Validate(heap'[p].spec)
        BY <2>1, <2>2, <2>3
      <3>2. rec' \in [pc : RecSteps, queue : SUBSET Pointers, obj : Pointers \cup {Nil}]
        BY <1>1, <2>1 DEF RecOK, RecSteps
      <3> QED BY <1>1, <2>3, <3>1, <3>2 DEF RecOK
    <2>7. RestOK'
      <3>1. Granted \in [limit : Nat, added : Nat, stale : BOOLEAN]
        BY DEF Granted, RestOK, Quota
      <3> QED BY <1>2, <2>1, <3>1 DEF RestOK
    <2>8. RejectedNeverRuns'
      BY <2>1, <2>2, <2>3 DEF RejectedNeverRuns
    <2>9. OwedIsPending'
      <3>1. rec'.pc = "persist"
        BY <2>1
      <3>2. ASSUME NEW q \in Pointers, Restarting(q)' PROVE Restarting(q)
        BY <1>2, <3>1, <3>2 DEF Restarting
      <3> QED BY <2>2, <2>3, <3>2 DEF OwedIsPending
    <2> QED BY <2>3, <2>4, <2>5, <2>6, <2>7, <2>8, <2>9
  <1>4. CASE ~Admitted(heap[p])
    <2>1. rec' = [rec EXCEPT !.queue = @ \ {p}] /\ UNCHANGED <<heap, grant>>
      BY <1>4 DEF Admit
    <2>2. SameObjects /\ Pointers' = Pointers
      BY <2>1, HeapUnchanged, PointersKept
    <2>3. HeapOK' /\ StoreOK' /\ ReqOK' /\ ScalerOK'
      BY <1>2, <2>2, HeapKept, StoreKept, ReqKept, ScalerKept
    <2>4. RecOK' /\ rec'.pc = "next"
      BY <1>2, <2>1, <2>2 DEF RecOK
    <2>5. RestOK'
      BY <1>2, <2>1 DEF RestOK
    <2>6. RejectedNeverRuns'
      BY <2>1, <2>2, NobodyStarts
    <2>7. OwedIsPending'
      <3>1. \A q \in Pointers : Restarting(q)' => Restarting(q)
        BY <1>2, <2>4 DEF Restarting
      <3> QED BY <3>1, <2>1, <2>2, OwedKept
    <2> QED BY <2>3, <2>4, <2>5, <2>6, <2>7
  <1> QED BY <1>3, <1>4

(* The loop goes on with the object it holds.                              *)
LEMMA RecStep ==
    ASSUME RecOK, SameObjects, rec.pc # "next", NEW pc \in RecSteps, Step(pc)
    PROVE  RecOK' /\ rec'.pc = pc /\ rec'.obj = rec.obj
  <1>1. Pointers' = Pointers
    BY PointersKept
  <1>2. rec' = [rec EXCEPT !.pc = pc]
    BY DEF Step
  <1>3. /\ heap'[rec.obj].spec = heap[rec.obj].spec
        /\ heap'[rec.obj].restored = heap[rec.obj].restored
    BY DEF RecOK, SameObjects
  <1> QED BY <1>1, <1>2, <1>3 DEF RecOK

(* store.Update after SyncFromWorkload.                                    *)
LEMMA PersistIInv ==
    ASSUME IInv, Persist
    PROVE  IInv'
  <1> USE DEF IInv
  <1>1. /\ rec.pc = "persist" /\ StoreUpdate(rec.obj) /\ Step("secrets")
        /\ UNCHANGED <<heap, registry, version, req, requests, runtime, accepted, limits, grant,
                       scaler, rounds>>
    BY DEF Persist, aside, quotaVars, scalerVars
  <1>2. rec.obj \in Pointers
    BY <1>1 DEF RecOK
  <1>3. SameObjects
    BY <1>1, HeapUnchanged
  <1>4. HeapOK' /\ ReqOK' /\ ScalerOK'
    BY <1>1, <1>3, HeapKept, ReqKept, ScalerKept
  <1>5. StoreOK'
    BY <1>1, <1>2, <1>3, StoreUpdated
  <1>6. RecOK' /\ rec'.pc = "secrets"
    <2>1. "secrets" \in RecSteps
      BY DEF RecSteps
    <2> QED BY <2>1, <1>1, <1>3, RecStep
  <1>7. RestOK'
    BY <1>1 DEF RestOK
  <1>8. RejectedNeverRuns'
    BY <1>1, <1>3, NobodyStarts
  <1>9. OwedIsPending'
    <2>1. \A q \in Pointers : Restarting(q)' => Restarting(q)
      BY <1>1, <1>6 DEF Restarting
    <2> QED BY <2>1, <1>1, <1>3, OwedKept
  <1> QED BY <1>4, <1>5, <1>6, <1>7, <1>8, <1>9

(* The rolling restart of a pass: skipped, carried out or failed.          *)
LEMMA SecretsIInv ==
    ASSUME IInv, (\E redeploys \in BOOLEAN : Secrets(redeploys)) \/ RestartFails
    PROVE  IInv'
  <1> USE DEF IInv
  <1> DEFINE p == rec.obj
  <1>1. /\ rec.pc = "secrets" /\ IndexWorkload(heap[p])
        /\ UNCHANGED <<store, version, req, requests, accepted, limits, grant, scaler, rounds>>
    BY DEF Secrets, RestartFails, aside, quotaVars, scalerVars
  <1>2. p \in Pointers
    BY <1>1 DEF RecOK
  <1>3. registry' \subseteq Ids
    BY <1>1, <1>2, ObjectTyped, IndexTyped
  <1>4. {"route", "clear"} \subseteq RecSteps
    BY DEF RecSteps
  <1>5. CASE Step("route") /\ UNCHANGED <<heap, runtime>>
    <2>1. SameObjects
      BY <1>5, HeapUnchanged
    <2>2. HeapOK' /\ StoreOK' /\ ReqOK' /\ ScalerOK'
      BY <1>1, <2>1, HeapKept, StoreKept, ReqKept, ScalerKept
    <2>3. RecOK' /\ rec'.pc = "route"
      BY <1>1, <1>4, <1>5, <2>1, RecStep
    <2>4. RestOK'
      BY <1>1, <1>3, <1>5 DEF RestOK
    <2>5. RejectedNeverRuns'
      BY <1>5, <2>1, NobodyStarts
    <2>6. OwedIsPending'
      <3>1. \A q \in Pointers : Restarting(q)' => Restarting(q)
        BY <1>1, <2>3 DEF Restarting
      <3> QED BY <3>1, <1>5, <2>1, OwedKept
    <2> QED BY <2>2, <2>3, <2>4, <2>5, <2>6
  <1>6. ASSUME NEW redeploys \in BOOLEAN, RollingRestart(p, redeploys), Step("clear")
        PROVE  IInv'
    <2>1. /\ SameObjects
          /\ heap'[p].owed = "no" /\ heap'[p].phase = heap[p].phase
          /\ \A q \in Pointers \ {p} : heap'[q] = heap[q]
          /\ runtime' \in [Ids -> Specs \cup {Nothing}]
      BY <1>2, <1>6, RestartResult
    <2>2. HeapOK' /\ StoreOK' /\ ReqOK' /\ ScalerOK'
      BY <1>1, <2>1, HeapKept, StoreKept, ReqKept, ScalerKept
    <2>3. RecOK' /\ rec'.pc = "clear" /\ rec'.obj = p
      BY <1>1, <1>4, <1>6, <2>1, RecStep
    <2>4. RestOK'
      BY <1>1, <1>3, <2>1 DEF RestOK
    <2>5. RejectedNeverRuns'
      BY <2>1, NobodyStarts
    <2>6. OwedIsPending'
      <3>1. ASSUME NEW q \in Pointers \ {p}, Restarting(q)'
            PROVE  Restarting(q)
        BY <1>1, <2>3, <3>1 DEF Restarting
      <3>2. Pointers' = Pointers
        BY <2>1, PointersKept
      <3> QED BY <3>1, <3>2, <2>1 DEF OwedIsPending
    <2> QED BY <2>2, <2>3, <2>4, <2>5, <2>6
  <1> QED BY <1>5, <1>6 DEF Secrets, RestartFails

(* PendingRestart is reset while the loop restarts the object.             *)
LEMMA ClearPendingIInv ==
    ASSUME IInv, ClearPending
    PROVE  IInv'
  <1> USE DEF IInv
  <1> DEFINE p == rec.obj
  <1>1. /\ rec.pc = "clear" /\ heap' = [heap EXCEPT ![p].pending = FALSE]
        /\ StoreUpdate(p) /\ Step("route")
        /\ UNCHANGED <<registry, version, req, requests, runtime, accepted, limits, grant,
                       scaler, rounds>>
    BY DEF ClearPending, aside, quotaVars, scalerVars
  <1>2. p \in Pointers /\ Restarting(p)
    BY <1>1 DEF RecOK, Restarting
  <1>3. /\ SameObjects
        /\ heap'[p].owed = heap[p].owed /\ heap'[p].phase = heap[p].phase
        /\ \A q \in Pointers \ {p} : heap'[q] = heap[q]
    BY <1>1, <1>2, ClearResult
  <1>4. HeapOK' /\ ReqOK' /\ ScalerOK'
    BY <1>1, <1>3, HeapKept, ReqKept, ScalerKept
  <1>5. StoreOK'
    BY <1>1, <1>2, <1>3, StoreUpdated
  <1>6. RecOK' /\ rec'.pc = "route"
    <2>1. "route" \in RecSteps
      BY DEF RecSteps
    <2> QED BY <2>1, <1>1, <1>3, RecStep
  <1>7. RestOK'
    BY <1>1 DEF RestOK
  <1>8. RejectedNeverRuns'
    BY <1>3, NobodyStarts
  <1>9. OwedIsPending'
    <2>1. \A q \in Pointers : Restarting(q)' => Restarting(q)
      BY <1>1, <1>6 DEF Restarting
    <2>2. heap[p].owed # "yes"
      BY <1>2 DEF OwedIsPending
    <2> QED BY <2>1, <2>2, <1>3, OwedKept
  <1> QED BY <1>4, <1>5, <1>6, <1>7, <1>8, <1>9

(* The rollout of a Pending workload starts its containers.                *)
LEMMA RolloutIInv ==
    ASSUME IInv, Rollout
    PROVE  IInv'
  <1> USE DEF IInv
  <1> DEFINE p == rec.obj
             o == [heap[p] EXCEPT !.owed = "no"]
  <1>1. /\ rec.pc = "route" /\ heap' = [heap EXCEPT ![p] = o] /\ Step("finish")
        /\ runtime' = [runtime EXCEPT ![heap[p].id] = heap[p].spec]
        /\ UNCHANGED <<store, registry, version, req, requests, accepted, limits, grant,
                       scaler, rounds>>
    BY DEF Rollout, aside, quotaVars, scalerVars
  <1>2. p \in Pointers
    BY <1>1 DEF RecOK
  <1>3. heap[p] \in Object
    BY <1>2, ObjectTyped
  <1>4. /\ o \in Object /\ o.id = heap[p].id /\ o.spec = heap[p].spec
        /\ o.restored = heap[p].restored
        /\ o.owed = "no" /\ o.phase = heap[p].phase /\ o.pending = heap[p].pending
    BY <1>3 DEF Object
  <1> HIDE DEF o
  <1>5. SameObjects /\ heap'[p] = o /\ \A q \in Pointers \ {p} : heap'[q] = heap[q]
    BY <1>1, <1>2, <1>4, SetObject
  <1>6. HeapOK' /\ StoreOK' /\ ReqOK' /\ ScalerOK'
    BY <1>1, <1>5, HeapKept, StoreKept, ReqKept, ScalerKept
  <1>7. RecOK' /\ rec'.pc = "finish"
    <2>1. "finish" \in RecSteps
      BY DEF RecSteps
    <2> QED BY <2>1, <1>1, <1>5, RecStep
  <1>8. RestOK'
    BY <1>1, <1>3 DEF RestOK, Object
  <1>9. RejectedNeverRuns'
    BY <1>4, <1>5, NobodyStarts
  <1>10. OwedIsPending'
    <2>1. \A q \in Pointers : Restarting(q)' => Restarting(q)
      BY <1>1, <1>7 DEF Restarting
    <2> QED BY <2>1, <1>4, <1>5, OwedKept
  <1> QED BY <1>6, <1>7, <1>8, <1>9, <1>10

(* The end of a pass.                                                      *)
LEMMA PassEndsResult ==
    ASSUME RecOK, SameObjects, PassEnds
    PROVE  RecOK' /\ rec'.pc = "next"
  <1>1. Pointers' = Pointers
    BY PointersKept
  <1>2. rec' = [pc |-> "next", queue |-> rec.queue, obj |-> Nil]
    BY DEF PassEnds
  <1> QED BY <1>1, <1>2 DEF RecOK, RecSteps

(* A pass that rolls nothing out, or whose rollout fails.                  *)
LEMMA NoRolloutIInv ==
    ASSUME IInv, NoRollout
    PROVE  IInv'
  <1> USE DEF IInv
  <1>1. /\ rec.pc = "route" /\ PassEnds
        /\ UNCHANGED <<heap, store, registry, version, req, requests, runtime, accepted, limits,
                       grant, scaler, rounds>>
    BY DEF NoRollout, aside, quotaVars, scalerVars
  <1>2. SameObjects
    BY <1>1, HeapUnchanged
  <1>3. HeapOK' /\ StoreOK' /\ ReqOK' /\ ScalerOK'
    BY <1>1, <1>2, HeapKept, StoreKept, ReqKept, ScalerKept
  <1>4. RecOK' /\ rec'.pc = "next"
    BY <1>1, <1>2, PassEndsResult
  <1>5. RestOK'
    BY <1>1 DEF RestOK
  <1>6. RejectedNeverRuns'
    BY <1>1, <1>2, NobodyStarts
  <1>7. OwedIsPending'
    <2>1. \A q \in Pointers : Restarting(q)' => Restarting(q)
      BY <1>1, <1>4 DEF Restarting
    <2> QED BY <2>1, <1>1, <1>2, OwedKept
  <1> QED BY <1>3, <1>4, <1>5, <1>6, <1>7

(* postSchedule.  The object it lets run is the one of the pass, and       *)
(* policy admitted its spec at the start of the pass, or a rollback has    *)
(* put another one there since.                                            *)
LEMMA PostScheduleIInv ==
    ASSUME IInv, PostSchedule
    PROVE  IInv'
  <1> USE DEF IInv
  <1> DEFINE p == rec.obj
             o == [heap[p] EXCEPT !.phase = "Running"]
  <1>1. /\ rec.pc = "finish" /\ heap' = [heap EXCEPT ![p] = o] /\ StoreUpdate(p) /\ PassEnds
        /\ UNCHANGED <<registry, version, req, requests, runtime, accepted, limits, grant,
                       scaler, rounds>>
    BY DEF PostSchedule, aside, quotaVars, scalerVars
  <1>2. p \in Pointers /\ (heap[p].restored \/ Validate(heap[p].spec))
    BY <1>1 DEF RecOK
  <1>3. heap[p] \in Object
    BY <1>2, ObjectTyped
  <1>4. /\ o \in Object /\ o.id = heap[p].id /\ o.spec = heap[p].spec
        /\ o.restored = heap[p].restored
        /\ o.owed = heap[p].owed /\ o.pending = heap[p].pending
    BY <1>3 DEF Object
  <1> HIDE DEF o
  <1>5. SameObjects /\ heap'[p] = o /\ \A q \in Pointers \ {p} : heap'[q] = heap[q]
    BY <1>1, <1>2, <1>4, SetObject
  <1>6. HeapOK' /\ ReqOK' /\ ScalerOK'
    BY <1>1, <1>5, HeapKept, ReqKept, ScalerKept
  <1>7. StoreOK'
    BY <1>1, <1>2, <1>5, StoreUpdated
  <1>8. RecOK' /\ rec'.pc = "next"
    BY <1>1, <1>5, PassEndsResult
  <1>9. RestOK'
    BY <1>1 DEF RestOK
  <1>10. RejectedNeverRuns'
    <2>1. Pointers' = Pointers
      BY <1>5, PointersKept
    <2> QED BY <2>1, <1>2, <1>4, <1>5 DEF RejectedNeverRuns
  <1>11. OwedIsPending'
    <2>1. \A q \in Pointers : Restarting(q)' => Restarting(q)
      BY <1>1, <1>8 DEF Restarting
    <2> QED BY <2>1, <1>4, <1>5, OwedKept
  <1> QED BY <1>6, <1>7, <1>8, <1>9, <1>10, <1>11

(***************************************************************************)
(* The invariant is inductive.                                             *)
(***************************************************************************)
LEMMA InitIInv == Init => IInv
  <1> SUFFICES ASSUME Init PROVE IInv
    OBVIOUS
  <1> USE DEF Init
  <1>1. heap = <<>> /\ Len(heap) = 0 /\ Pointers = {}
    BY DEF Pointers
  <1>2. HeapOK
    BY <1>1, Constants DEF HeapOK
  <1>3. StoreOK /\ RecOK /\ ReqOK /\ ScalerOK
    BY DEF StoreOK, RecOK, RecSteps, Between, ReqOK, ReqSteps, Idle, ScalerOK, ScalerSteps,
           NotScaling
  <1>4. RestOK
    BY Constants DEF RestOK, NoGrant
  <1>5. RejectedNeverRuns /\ OwedIsPending
    BY <1>1 DEF RejectedNeverRuns, OwedIsPending
  <1> QED BY <1>2, <1>3, <1>4, <1>5 DEF IInv

LEMMA StutterIInv ==
    ASSUME IInv, UNCHANGED vars
    PROVE  IInv'
  <1> USE DEF IInv
  <1>1. UNCHANGED <<heap, store, registry, version, rec, req, requests, runtime, accepted,
                    limits, grant, scaler, rounds>>
    BY DEF vars, aside, quotaVars, scalerVars
  <1>2. SameObjects
    BY <1>1, HeapUnchanged
  <1>3. HeapOK' /\ StoreOK' /\ RecOK' /\ ReqOK' /\ ScalerOK'
    BY <1>1, <1>2, HeapKept, StoreKept, RecKept, ReqKept, ScalerKept
  <1>4. RestOK'
    BY <1>1 DEF RestOK
  <1>5. RejectedNeverRuns' /\ OwedIsPending'
    BY <1>1 DEF RejectedNeverRuns, OwedIsPending, Restarting, Pointers
  <1> QED BY <1>3, <1>4, <1>5

LEMMA NextIInv == IInv /\ KeptOK /\ [Next]_vars => IInv'
  <1> SUFFICES ASSUME IInv, KeptOK, [Next]_vars PROVE IInv'
    OBVIOUS
  <1>1. ASSUME NEW h \in Handlers, HandleCreateWorkload(h) PROVE IInv'
    BY <1>1, DeployCreateIInv DEF HandleCreateWorkload
  <1>2. ASSUME NEW h \in Handlers, HandleDeleteWorkload(h) PROVE IInv'
    BY <1>2, DeleteIInv DEF HandleDeleteWorkload
  <1>3. ASSUME NEW h \in Handlers, HandleRestartWorkload(h) PROVE IInv'
    BY <1>3, RestartIssueIInv DEF HandleRestartWorkload
  <1>4. ASSUME NEW h \in Handlers, HandleSecretRotated(h) PROVE IInv'
    BY <1>4, RotateObserveIInv DEF HandleSecretRotated
  <1>5. ASSUME NEW h \in Handlers, HandleQuota(h) PROVE IInv'
    BY <1>5, QuotaIInv
  <1>6. CASE Autoscaler
    BY <1>6, ScalingIInv, ScaleIInv, ScaleWorkloadIInv DEF Autoscaler
  <1>7. ASSUME NEW h \in Handlers, Handle(h) PROVE IInv'
    BY <1>7, DeployUpdateIInv, RestartClearIInv, RotateMarkIInv, RotateSaveIInv,
       RollbackSaveIInv DEF Handle
  <1>8. CASE Loop
    BY <1>8, ListIInv, AdmitIInv, PersistIInv, SecretsIInv, ClearPendingIInv, RolloutIInv,
       NoRolloutIInv, PostScheduleIInv DEF Loop
  <1>9. CASE UNCHANGED vars
    BY <1>9, StutterIInv
  <1>10. ASSUME NEW h \in Handlers, HandleRollbackWorkload(h) PROVE IInv'
    BY <1>10, RollbackIInv DEF HandleRollbackWorkload
  <1> QED BY <1>1, <1>2, <1>3, <1>4, <1>5, <1>6, <1>7, <1>8, <1>9, <1>10 DEF Next

(* What a step may add to the revisions of an object: a snapshot of an     *)
(* object there is, or of a new one.                                       *)
Taking(rev) ==
    \/ \E q \in Pointers : rev = snapshotRevision(heap[q])
    \/ \E spec \in Specs : rev = [spec |-> spec, replicas |-> Text[spec].replicas]

Gains ==
    \/ kept' = kept
    \/ \E p, R : /\ kept' = [kept EXCEPT ![p] = R]
                 /\ \A rev \in R : rev \in kept[p] \/ Taking(rev)

LEMMA UpdateGains ==
    ASSUME IInv, NEW p \in Pointers, RecordBeforeUpdate(p)
    PROVE  Gains
  <1> DEFINE q == store[heap[p].id]
  <1>1. heap[p].id \in Ids
    BY ObjectTyped DEF IInv, Object
  <1>2. q \in Pointers \cup {Nil}
    BY <1>1 DEF IInv, StoreOK
  <1>3. CASE q \in {Nil, p}
    BY <1>3 DEF RecordBeforeUpdate, Gains
  <1>4. CASE q \notin {Nil, p}
    <2> DEFINE R == kept[p] \cup {snapshotRevision(heap[q])}
    <2>1. kept' = [kept EXCEPT ![p] = R]
      BY <1>4 DEF RecordBeforeUpdate
    <2>2. \A rev \in R : rev \in kept[p] \/ Taking(rev)
      BY <1>2, <1>4 DEF Taking
    <2> HIDE DEF R
    <2> QED BY <2>1, <2>2 DEF Gains
  <1> QED BY <1>3, <1>4

LEMMA NextGains == IInv /\ [Next]_vars => Gains
  <1> SUFFICES ASSUME IInv, [Next]_vars PROVE Gains
    OBVIOUS
  <1>1. ASSUME NEW h \in Handlers, HandleCreateWorkload(h) PROVE Gains
    <2>1. PICK id \in Ids, spec \in Specs : DeployCreate(h, id, spec)
      BY <1>1 DEF HandleCreateWorkload
    <2> DEFINE rev == [spec |-> spec, replicas |-> Text[spec].replicas]
    <2>2. kept' = [kept EXCEPT ![Len(heap) + 1] = {rev}]
      BY <2>1 DEF DeployCreate, RecordInitial, snapshotRevision, NewWorkload
    <2>3. Taking(rev)
      BY DEF Taking
    <2> HIDE DEF rev
    <2> QED BY <2>2, <2>3 DEF Gains
  <1>2. ASSUME NEW h \in Handlers, HandleRollbackWorkload(h) PROVE Gains
    <2>1. PICK id \in Ids : \E rev : Rollback(h, id, rev)
      BY <1>2 DEF HandleRollbackWorkload
    <2> DEFINE p == store[id]
               R == kept[p] \cup {snapshotRevision(heap[p])}
    <2>2. p \in Pointers /\ kept' = [kept EXCEPT ![p] = R]
      BY <2>1 DEF Rollback, RollbackVersions, IInv, StoreOK
    <2>3. \A r \in R : r \in kept[p] \/ Taking(r)
      BY <2>2 DEF Taking
    <2> HIDE DEF R, p
    <2> QED BY <2>2, <2>3 DEF Gains
  <1>3. ASSUME NEW h \in Handlers, Handle(h) PROVE Gains
    <2>1. kept' = kept \/ (req[h].obj \in Pointers /\ RecordBeforeUpdate(req[h].obj))
      BY <1>3 DEF Handle, DeployUpdate, RestartClear, RotateMark, RotateSave, RollbackSave,
                  StoreUpdate, IInv, ReqOK
    <2> QED BY <2>1, UpdateGains DEF Gains
  <1>4. CASE Autoscaler
    <2>1. kept' = kept \/ (scaler.obj \in Pointers /\ RecordBeforeUpdate(scaler.obj))
      BY <1>4 DEF Autoscaler, ScaleRound, Evaluate, Scale, ScaleWorkload, StoreUpdate, IInv,
                  ScalerOK
    <2> QED BY <2>1, UpdateGains DEF Gains
  <1>5. CASE Loop
    <2>1. kept' = kept \/ (rec.obj \in Pointers /\ RecordBeforeUpdate(rec.obj))
      BY <1>5 DEF Loop, List, Admit, Persist, Secrets, RestartFails, ClearPending, Rollout,
                  NoRollout, PostSchedule, StoreUpdate, IInv, RecOK
    <2> QED BY <2>1, UpdateGains DEF Gains
  <1>6. ASSUME NEW h \in Handlers,
               \/ HandleDeleteWorkload(h) \/ HandleRestartWorkload(h)
               \/ HandleSecretRotated(h) \/ HandleQuota(h)
        PROVE  Gains
    <2>1. kept' = kept
      BY <1>6 DEF HandleDeleteWorkload, Delete, HandleRestartWorkload, RestartIssue,
                  HandleSecretRotated, RotateObserve, HandleQuota, PutQuota, DeleteQuota
    <2> QED BY <2>1 DEF Gains
  <1>7. CASE UNCHANGED vars
    BY <1>7 DEF vars, Gains
  <1> QED BY <1>1, <1>2, <1>3, <1>4, <1>5, <1>6, <1>7 DEF Next

LEMMA NextKept == IInv /\ KeptOK /\ [Next]_vars => KeptOK'
  <1> SUFFICES ASSUME IInv, KeptOK, [Next]_vars PROVE KeptOK'
    OBVIOUS
  <1>1. Gains
    BY NextGains
  <1>2. ASSUME NEW rev, Taking(rev) PROVE rev \in Revision
    <2>1. ASSUME NEW q \in Pointers PROVE snapshotRevision(heap[q]) \in Revision
      BY ObjectTyped DEF snapshotRevision, IInv, Object, Revision
    <2>2. ASSUME NEW spec \in Specs
          PROVE  [spec |-> spec, replicas |-> Text[spec].replicas] \in Revision
      BY Constants DEF SpecText, Revision
    <2> QED BY <1>2, <2>1, <2>2 DEF Taking
  <1>3. CASE kept' = kept
    BY <1>3 DEF KeptOK
  <1>4. ASSUME NEW p, NEW R, kept' = [kept EXCEPT ![p] = R],
               \A rev \in R : rev \in kept[p] \/ Taking(rev)
        PROVE  KeptOK'
    <2>1. CASE p \in 1 .. MaxObjects
      <3>1. R \in SUBSET Revision
        BY <1>2, <1>4, <2>1 DEF KeptOK
      <3> QED BY <1>4, <2>1, <3>1 DEF KeptOK
    <2>2. CASE p \notin 1 .. MaxObjects
      BY <1>4, <2>2 DEF KeptOK
    <2> QED BY <2>1, <2>2
  <1> QED BY <1>1, <1>3, <1>4 DEF Gains

LEMMA Invariant == Spec => [](IInv /\ KeptOK)
  <1>1. Init => KeptOK
    BY DEF Init, KeptOK
  <1> QED BY <1>1, InitIInv, NextIInv, NextKept, PTL DEF Spec

(***************************************************************************)
(* The theorems.                                                           *)
(***************************************************************************)

(* Pointers held across the store's lock stay valid: whatever the          *)
(* handlers, the autoscaler and the reconcile loop write back, the map     *)
(* holds an object under its own ID.                                       *)
THEOREM TypeCorrect == Spec => []TypeOK
  BY Invariant, Parts, PTL

(* policy.Validate comes before every rollout of reconcileOne: a rejected  *)
(* spec never gets the phase Running, although the verdict is taken at the *)
(* start of a pass and the object is shared with every handler; but for    *)
(* what Revert writes into the object, until a pass has admitted it.       *)
THEOREM NeverRuns == Spec => []RejectedNeverRuns
  <1>1. IInv /\ KeptOK => RejectedNeverRuns
    BY DEF IInv
  <1> QED BY <1>1, Invariant, PTL

(* HandleRotation and the two restarts: when everything is at rest, no     *)
(* marked workload is left without a restart since its mark.               *)
THEOREM RotationCarriedOut == Spec => []RotationRestarts
  <1>1. IInv /\ KeptOK => RotationRestarts
    <2> SUFFICES ASSUME IInv, Quiet, NEW id \in Ids, Admissible(id)
                 PROVE  heap[store[id]].owed # "yes"
      BY DEF RotationRestarts
    <2>1. store[id] \in Pointers
      BY DEF IInv, StoreOK, Admissible
    <2>2. ~heap[store[id]].pending
      BY DEF Quiet
    <2> QED BY <2>1, <2>2 DEF IInv, OwedIsPending
  <1> QED BY <1>1, Invariant, PTL

(* MemoryStore.Update refuses an ID that is gone.                          *)
LEMMA UpdateFillsNothing ==
    ASSUME StoreOK, NEW p, StoreUpdate(p), NEW id \in Ids, store[id] = Nil
    PROVE  store'[id] = Nil
  BY DEF StoreOK, StoreUpdate

(* A deleted workload comes back by a deploy of its ID only: every other   *)
(* goroutine writes through MemoryStore.Update, however stale its pointer. *)
THEOREM DeletedStaysDeleted == Spec => NoResurrection
  <1> DEFINE Filled(id) == store[id] = Nil /\ store'[id] # Nil
             Deploys(id) == \E h \in Handlers, spec \in Specs : DeployCreate(h, id, spec)
  <1>1. ASSUME IInv, Next, NEW id \in Ids, Filled(id)
        PROVE  Deploys(id)
    <2> USE <1>1
    <2>1. StoreOK
      BY DEF IInv
    <2>2. \A p : ~StoreUpdate(p)
      BY <2>1, UpdateFillsNothing
    <2>3. store' # store
      OBVIOUS
    <2>4. ~Autoscaler
      BY <2>2, <2>3 DEF Autoscaler, ScaleRound, Evaluate, Scale, ScaleWorkload
    <2>5. ~Loop
      BY <2>2, <2>3 DEF Loop, List, Admit, Persist, Secrets, RestartFails, ClearPending, Rollout,
                        NoRollout, PostSchedule
    <2>6. ASSUME NEW h \in Handlers PROVE ~Handle(h)
      BY <2>2, <2>3 DEF Handle, DeployUpdate, RestartClear, RotateMark, RotateSave, RollbackSave
    <2>7. ASSUME NEW h \in Handlers
          PROVE  ~HandleDeleteWorkload(h)
      BY <2>1, <2>3 DEF HandleDeleteWorkload, Delete, StoreOK
    <2>8. ASSUME NEW h \in Handlers
          PROVE  ~HandleRestartWorkload(h) /\ ~HandleSecretRotated(h) /\ ~HandleQuota(h)
                 /\ ~HandleRollbackWorkload(h)
      BY <2>3 DEF HandleRollbackWorkload, Rollback, HandleRestartWorkload, RestartIssue, HandleSecretRotated, RotateObserve,
                  HandleQuota, PutQuota, DeleteQuota
    <2>9. PICK h \in Handlers : HandleCreateWorkload(h)
      BY <2>4, <2>5, <2>6, <2>7, <2>8 DEF Next
    <2>10. PICK other \in Ids, spec \in Specs : DeployCreate(h, other, spec)
      BY <2>9 DEF HandleCreateWorkload
    <2>11. other = id
      BY <2>1, <2>3, <2>10 DEF DeployCreate, StoreOK
    <2> QED BY <2>10, <2>11
  <1>2. (IInv /\ KeptOK) /\ [Next]_vars => [\A id \in Ids : Filled(id) => Deploys(id)]_vars
    BY <1>1
  <1>3. Spec => [][\A id \in Ids : Filled(id) => Deploys(id)]_vars
    BY <1>2, Invariant, PTL DEF Spec
  <1> QED BY <1>3 DEF NoResurrection

(***************************************************************************)
(* Sums.  SumRequests takes the workloads in the order in which CHOOSE     *)
(* happens to name them; that the order does not matter, and that a sum is *)
(* monotone, is proved from a smallest counterexample.                     *)
(***************************************************************************)

(* A set of natural numbers that is not empty has a least element.         *)
LEMMA Least ==
    ASSUME NEW S \in SUBSET Nat, S # {}
    PROVE  \E x \in S : \A y \in S : x <= y
  <1> DEFINE R == OpToRel(<, Nat)
  <1>1. IsWellFoundedOn(R, Nat)
    BY NatLessThanWellFounded, Zenon
  <1>2. \A x, y \in Nat : <<x, y>> \in R <=> x < y
    BY DEF OpToRel
  <1> HIDE DEF R
  <1>3. PICK x \in S : \A y \in S : ~(<<y, x>> \in R)
    BY <1>1, WFMin
  <1>4. \A y \in S : x <= y
    <2> SUFFICES ASSUME NEW y \in S PROVE x <= y
      OBVIOUS
    <2>1. x \in Nat /\ y \in Nat /\ ~(<<y, x>> \in R)
      BY <1>3
    <2>2. ~(y < x)
      BY <1>2, <2>1
    <2> QED BY <2>1, <2>2
  <1> QED BY <1>3, <1>4

(* A property of finite sets that fails, fails for a set all of whose      *)
(* smaller ones by an element have it.                                     *)
LEMMA Smallest ==
    ASSUME NEW S, IsFiniteSet(S), NEW Bad \in SUBSET (SUBSET S), Bad # {}
    PROVE  \E T \in Bad : \A x \in T : T \ {x} \notin Bad
  <1> DEFINE sizes == {Cardinality(T) : T \in Bad}
  <1>1. \A T \in SUBSET S : IsFiniteSet(T) /\ Cardinality(T) \in Nat
    BY FS_Subset, FS_CardinalityType
  <1>2. sizes \in SUBSET Nat /\ sizes # {}
    BY <1>1
  <1>3. \A T \in Bad : Cardinality(T) \in sizes
    OBVIOUS
  <1>4. \A n \in sizes : \E T \in Bad : Cardinality(T) = n
    OBVIOUS
  <1> HIDE DEF sizes
  <1>5. PICK n \in sizes : \A m \in sizes : n <= m
    BY <1>2, Least
  <1>6. PICK T \in Bad : Cardinality(T) = n
    BY <1>4
  <1>7. ASSUME NEW x \in T, T \ {x} \in Bad PROVE FALSE
    <2>1. T \in SUBSET S
      OBVIOUS
    <2>2. IsFiniteSet(T) /\ Cardinality(T) \in Nat
      BY <1>1, <2>1, Zenon
    <2>3. Cardinality(T \ {x}) = Cardinality(T) - 1
      BY <2>2, FS_RemoveElement
    <2>4. Cardinality(T \ {x}) \in sizes
      BY <1>3, <1>7
    <2>5. Cardinality(T) <= Cardinality(T) - 1
      BY <1>5, <1>6, <2>3, <2>4
    <2> QED BY <2>2, <2>5
  <1> QED BY <1>6, <1>7

Pick(s) == CHOOSE x \in s : TRUE
Adds(f, g, D) == \A s \in D : g[s] = IF s = {} THEN 0 ELSE f[Pick(s)] + g[s \ {Pick(s)}]

LEMMA PickIn == ASSUME NEW s, s # {} PROVE Pick(s) \in s
  BY DEF Pick

(* The recursive function behind SumRequests. *)
LEMMA SumIsChoice ==
    ASSUME NEW f
    PROVE  SumRequests(f) =
             (CHOOSE g : g = [s \in SUBSET (DOMAIN f) |->
                                IF s = {} THEN 0 ELSE f[Pick(s)] + g[s \ {Pick(s)}]])[DOMAIN f]
  BY DEF SumRequests, MapThenSumSet, MapThenFoldSet, Pick

(* There is one: it is built up by the sizes of the sets.                  *)
LEMMA SumExists ==
    ASSUME NEW f, NEW S, IsFiniteSet(S)
    PROVE  \E g : Adds(f, g, SUBSET S)
  <1> DEFINE D(n) == {s \in SUBSET S : Cardinality(s) <= n}
             Bad == {n \in Nat : ~\E g : Adds(f, g, D(n))}
  <1>1. \A s \in SUBSET S : IsFiniteSet(s) /\ Cardinality(s) \in Nat
    BY FS_Subset, FS_CardinalityType
  <1>2. Cardinality(S) \in Nat /\ \A s \in SUBSET S : Cardinality(s) <= Cardinality(S)
    BY FS_Subset, FS_CardinalityType
  <1>3. Bad = {}
    <2> SUFFICES ASSUME Bad # {} PROVE FALSE
      OBVIOUS
    <2>1. Bad \in SUBSET Nat
      OBVIOUS
    <2> HIDE DEF Bad
    <2>2. PICK n \in Bad : \A m \in Bad : n <= m
      BY <2>1, Least
    <2>3. n \in Nat /\ ~\E g : Adds(f, g, D(n))
      BY DEF Bad
    <2>4. CASE n = 0
      <3> DEFINE g == [s \in D(0) |-> 0]
      <3>1. ASSUME NEW s \in D(0) PROVE s = {}
        <4>1. s \in SUBSET S /\ Cardinality(s) <= 0
          OBVIOUS
        <4>2. IsFiniteSet(s) /\ Cardinality(s) = 0
          BY <1>1, <4>1
        <4> QED BY <4>2, FS_EmptySet
      <3>2. Adds(f, g, D(0))
        BY <3>1 DEF Adds
      <3> QED BY <2>3, <2>4, <3>2
    <2>5. CASE n # 0
      <3>1. n - 1 \in Nat /\ ~(n <= n - 1)
        BY <2>3, <2>5
      <3>2. PICK g : Adds(f, g, D(n - 1))
        BY <2>2, <3>1 DEF Bad
      <3> DEFINE k == [s \in D(n) |-> IF s = {} THEN 0 ELSE f[Pick(s)] + g[s \ {Pick(s)}]]
      <3>3. ASSUME NEW s \in D(n), s # {}
            PROVE  s \ {Pick(s)} \in D(n - 1) /\ s \ {Pick(s)} \in D(n)
        <4>1. s \in SUBSET S /\ Cardinality(s) <= n
          OBVIOUS
        <4>2. IsFiniteSet(s) /\ Cardinality(s) \in Nat
          BY <1>1, <4>1
        <4>3. Pick(s) \in s
          BY <3>3, PickIn
        <4>4. Cardinality(s \ {Pick(s)}) = Cardinality(s) - 1
          BY <4>2, <4>3, FS_RemoveElement
        <4>5. Cardinality(s \ {Pick(s)}) <= n - 1 /\ Cardinality(s \ {Pick(s)}) <= n
          BY <2>3, <4>1, <4>2, <4>4
        <4> QED BY <4>1, <4>5
      <3>4. ASSUME NEW s \in D(n - 1) PROVE s \in D(n)
        <4>1. s \in SUBSET S /\ Cardinality(s) \in Nat /\ Cardinality(s) <= n - 1
          BY <1>1
        <4> QED BY <4>1, <2>3
      <3> HIDE DEF D
      <3>5. \A s \in D(n) : k[s] = IF s = {} THEN 0 ELSE f[Pick(s)] + g[s \ {Pick(s)}]
        OBVIOUS
      <3> HIDE DEF k
      <3>6. \A s \in D(n - 1) : k[s] = g[s]
        BY <3>2, <3>4, <3>5 DEF Adds
      <3>7. Adds(f, k, D(n))
        BY <3>3, <3>5, <3>6 DEF Adds
      <3> QED BY <2>3, <3>7
    <2> QED BY <2>4, <2>5
  <1>4. D(Cardinality(S)) = SUBSET S
    BY <1>2
  <1>5. \E g : Adds(f, g, D(Cardinality(S)))
    BY <1>2, <1>3
  <1> HIDE DEF D
  <1> QED BY <1>4, <1>5

(* Only one: the values at the smaller sets decide.                        *)
LEMMA SumUnique ==
    ASSUME NEW f, NEW S, IsFiniteSet(S), NEW g, NEW k,
           Adds(f, g, SUBSET S), Adds(f, k, SUBSET S)
    PROVE  \A T \in SUBSET S : g[T] = k[T]
  <1> DEFINE Bad == {T \in SUBSET S : g[T] # k[T]}
  <1>1. CASE Bad # {}
    <2>1. Bad \in SUBSET (SUBSET S)
      OBVIOUS
    <2> HIDE DEF Bad
    <2>2. PICK T \in Bad : \A x \in T : T \ {x} \notin Bad
      BY <1>1, <2>1, Smallest
    <2>3. T \in SUBSET S /\ g[T] # k[T]
      BY DEF Bad
    <2>4. CASE T = {}
      BY <2>3, <2>4 DEF Adds
    <2>5. CASE T # {}
      <3>1. Pick(T) \in T /\ T \ {Pick(T)} \in SUBSET S
        BY <2>3, <2>5, PickIn
      <3>2. g[T \ {Pick(T)}] = k[T \ {Pick(T)}]
        BY <2>2, <3>1 DEF Bad
      <3> QED BY <2>3, <2>5, <3>1, <3>2 DEF Adds
    <2> QED BY <2>4, <2>5
  <1> QED BY <1>1

(* What SumRequests computes.                                              *)
LEMMA SumValue ==
    ASSUME NEW f, IsFiniteSet(DOMAIN f), NEW g, Adds(f, g, SUBSET (DOMAIN f))
    PROVE  SumRequests(f) = g[DOMAIN f]
  <1> DEFINE S == DOMAIN f
             Sums(k) == [s \in SUBSET S |-> IF s = {} THEN 0 ELSE f[Pick(s)] + k[s \ {Pick(s)}]]
             iter == CHOOSE k : k = Sums(k)
             gg == [s \in SUBSET S |-> g[s]]
  <1>1. gg = Sums(gg)
    <2>1. ASSUME NEW s \in SUBSET S PROVE gg[s] = Sums(gg)[s]
      <3>1. s # {} => s \ {Pick(s)} \in SUBSET S
        OBVIOUS
      <3>2. g[s] = IF s = {} THEN 0 ELSE f[Pick(s)] + g[s \ {Pick(s)}]
        BY DEF Adds
      <3> QED BY <3>1, <3>2
    <2> QED BY <2>1
  <1>2. iter = Sums(iter)
    BY <1>1
  <1>3. Adds(f, iter, SUBSET S)
    <2> HIDE DEF iter
    <2> QED BY <1>2 DEF Adds
  <1>4. SumRequests(f) = iter[S]
    BY SumIsChoice
  <1> HIDE DEF iter
  <1>5. iter[S] = g[S]
    BY <1>3, SumUnique
  <1> QED BY <1>4, <1>5

(* Whichever workload is taken first, the sum is the same.                 *)
AnyOrder(f, g, S) ==
    \A T \in SUBSET S : g[T] \in Int /\ \A x \in T : g[T] = f[x] + g[T \ {x}]

LEMMA AnyFirst ==
    ASSUME NEW f, NEW S, IsFiniteSet(S), \A x \in S : f[x] \in Int,
           NEW g, Adds(f, g, SUBSET S)
    PROVE  AnyOrder(f, g, S)
  <1>1. ASSUME NEW T \in SUBSET S, T # {}
        PROVE  /\ Pick(T) \in T /\ g[T] = f[Pick(T)] + g[T \ {Pick(T)}]
               /\ T \ {Pick(T)} \in SUBSET S
    BY <1>1, PickIn DEF Adds
  <1>2. \A T \in SUBSET S : g[T] \in Int
    <2> DEFINE Bad == {T \in SUBSET S : g[T] \notin Int}
    <2>1. CASE Bad # {}
      <3>1. Bad \in SUBSET (SUBSET S)
        OBVIOUS
      <3> HIDE DEF Bad
      <3>2. PICK T \in Bad : \A x \in T : T \ {x} \notin Bad
        BY <2>1, <3>1, Smallest
      <3>3. T \in SUBSET S /\ g[T] \notin Int
        BY DEF Bad
      <3>4. T # {}
        <4>1. {} \in SUBSET S
          OBVIOUS
        <4>2. g[{}] = 0
          BY <4>1 DEF Adds
        <4>3. ASSUME T = {} PROVE FALSE
          <5>1. g[T] = 0
            BY <4>2, <4>3
          <5> QED BY <3>3, <5>1
        <4> QED BY <4>3
      <3>5. Pick(T) \in T /\ g[T] = f[Pick(T)] + g[T \ {Pick(T)}] /\ T \ {Pick(T)} \in SUBSET S
        BY <1>1, <3>3, <3>4
      <3>6. g[T \ {Pick(T)}] \in Int
        BY <3>2, <3>5 DEF Bad
      <3> QED BY <3>3, <3>5, <3>6
    <2> QED BY <2>1
  <1>3. \A T \in SUBSET S : \A x \in T : g[T] = f[x] + g[T \ {x}]
    <2> DEFINE Fine(T) == \A x \in T : g[T] = f[x] + g[T \ {x}]
               Bad == {T \in SUBSET S : ~Fine(T)}
    <2>1. ASSUME Bad # {} PROVE FALSE
      <3>1. Bad \in SUBSET (SUBSET S)
        OBVIOUS
      <3> HIDE DEF Bad
      <3>2. PICK T \in Bad : \A x \in T : T \ {x} \notin Bad
        BY <2>1, <3>1, Smallest
      <3>3. T \in SUBSET S /\ ~Fine(T)
        BY DEF Bad
      <3>4. PICK x \in T : g[T] # f[x] + g[T \ {x}]
        BY <3>3
      <3> DEFINE c == Pick(T)
      <3>5. c \in T /\ g[T] = f[c] + g[T \ {c}] /\ T \ {c} \in SUBSET S
        BY <1>1, <3>3, <3>4
      <3> HIDE DEF c
      <3>6. x # c /\ T \ {x} \in SUBSET S
        BY <3>3, <3>4, <3>5
      <3>7. Fine(T \ {c}) /\ Fine(T \ {x})
        BY <3>2, <3>5, <3>6 DEF Bad
      <3>8. g[T \ {c}] = f[x] + g[(T \ {c}) \ {x}]
        BY <3>6, <3>7
      <3>9. g[T \ {x}] = f[c] + g[(T \ {x}) \ {c}]
        BY <3>5, <3>6, <3>7
      <3>10. (T \ {x}) \ {c} = (T \ {c}) \ {x} /\ (T \ {x}) \ {c} \in SUBSET S
        BY <3>3
      <3>11. g[(T \ {x}) \ {c}] \in Int /\ f[x] \in Int /\ f[c] \in Int
        BY <1>2, <3>3, <3>5, <3>10
      <3> DEFINE rest == g[(T \ {x}) \ {c}]
      <3>12. /\ g[T \ {c}] = f[x] + rest /\ g[T \ {x}] = f[c] + rest
             /\ rest \in Int /\ f[x] \in Int /\ f[c] \in Int
        BY <3>8, <3>9, <3>10, <3>11
      <3> HIDE DEF rest
      <3>13. g[T] = f[x] + g[T \ {x}]
        BY <3>5, <3>12
      <3> QED BY <3>4, <3>13
    <2> QED BY <2>1
  <1> QED BY <1>2, <1>3 DEF AnyOrder

LEMMA SumEmpty ==
    ASSUME NEW f, DOMAIN f = {}
    PROVE  SumRequests(f) = 0
  <1>1. IsFiniteSet(DOMAIN f)
    BY FS_EmptySet
  <1>2. PICK g : Adds(f, g, SUBSET (DOMAIN f))
    BY <1>1, SumExists
  <1> QED BY <1>1, <1>2, SumValue DEF Adds

LEMMA SumType ==
    ASSUME NEW f, IsFiniteSet(DOMAIN f), \A x \in DOMAIN f : f[x] \in Int
    PROVE  SumRequests(f) \in Int
  <1>1. PICK g : Adds(f, g, SUBSET (DOMAIN f))
    BY SumExists
  <1>2. AnyOrder(f, g, DOMAIN f)
    BY <1>1, AnyFirst
  <1>3. g[DOMAIN f] \in Int
    BY <1>2 DEF AnyOrder
  <1> QED BY <1>1, <1>3, SumValue

(* One workload is counted apart.                                          *)
LEMMA SumApart ==
    ASSUME NEW f, IsFiniteSet(DOMAIN f), \A x \in DOMAIN f : f[x] \in Int,
           NEW c \in DOMAIN f
    PROVE  SumRequests(f) = f[c] + SumRequests([x \in DOMAIN f \ {c} |-> f[x]])
  <1> DEFINE S == DOMAIN f
             R == S \ {c}
             h == [x \in R |-> f[x]]
  <1>1. PICK g : Adds(f, g, SUBSET S)
    BY SumExists
  <1>2. S \in SUBSET S /\ R \in SUBSET S /\ DOMAIN h = R
    OBVIOUS
  <1>3. g[S] = f[c] + g[R]
    <2>1. AnyOrder(f, g, S)
      BY <1>1, AnyFirst
    <2> QED BY <1>2, <2>1 DEF AnyOrder
  <1>4. SumRequests(f) = g[S]
    BY <1>1, SumValue
  <1>5. Adds(h, g, SUBSET R)
    <2> SUFFICES ASSUME NEW s \in SUBSET R
                 PROVE  g[s] = IF s = {} THEN 0 ELSE h[Pick(s)] + g[s \ {Pick(s)}]
      BY DEF Adds
    <2>1. s \in SUBSET S
      OBVIOUS
    <2>2. s # {} => h[Pick(s)] = f[Pick(s)]
      BY PickIn
    <2> QED BY <1>1, <2>1, <2>2 DEF Adds
  <1>6. IsFiniteSet(R)
    BY FS_RemoveElement
  <1> HIDE DEF h
  <1>7. SumRequests(h) = g[R]
    BY <1>2, <1>5, <1>6, SumValue
  <1> QED BY <1>3, <1>4, <1>7 DEF h

(* Fewer workloads of no more replicas each add up to no more.             *)
LEMMA SumMonotone ==
    ASSUME NEW f, IsFiniteSet(DOMAIN f), \A x \in DOMAIN f : f[x] \in Nat,
           NEW h, DOMAIN h \subseteq DOMAIN f,
           \A x \in DOMAIN h : h[x] \in Int /\ h[x] <= f[x]
    PROVE  SumRequests(h) <= SumRequests(f)
  <1> DEFINE S == DOMAIN f
             T == DOMAIN h
  <1>1. IsFiniteSet(T)
    BY FS_Subset
  <1>2. PICK g : Adds(f, g, SUBSET S)
    BY SumExists
  <1>3. PICK k : Adds(h, k, SUBSET T)
    BY <1>1, SumExists
  <1>4. AnyOrder(f, g, S)
    <2>1. \A x \in S : f[x] \in Int
      OBVIOUS
    <2> HIDE DEF S
    <2>2. IsFiniteSet(S)
      BY DEF S
    <2> QED BY <1>2, <2>1, <2>2, AnyFirst
  <1>5. AnyOrder(h, k, T)
    <2>1. \A x \in T : h[x] \in Int
      OBVIOUS
    <2> HIDE DEF T
    <2> QED BY <1>1, <1>3, <2>1, AnyFirst
  <1> DEFINE Bad == {U \in SUBSET S : ~(k[U \cap T] <= g[U])}
  <1>6. Bad = {}
    <2> SUFFICES ASSUME Bad # {} PROVE FALSE
      OBVIOUS
    <2>1. Bad \in SUBSET (SUBSET S)
      OBVIOUS
    <2> HIDE DEF Bad
    <2>2. PICK U \in Bad : \A x \in U : U \ {x} \notin Bad
      BY <2>1, Smallest
    <2>3. U \in SUBSET S /\ ~(k[U \cap T] <= g[U])
      BY DEF Bad
    <2>4. U # {}
      <3>1. CASE U = {}
        <4>1. U \cap T = {} /\ g[{}] = 0 /\ k[{}] = 0
          BY <3>1, <1>2, <1>3 DEF Adds
        <4> QED BY <2>3, <3>1, <4>1
      <3> QED BY <3>1
    <2>5. PICK x \in U : TRUE
      BY <2>4
    <2> DEFINE V == U \ {x}
    <2>6. V \in SUBSET S /\ V \notin Bad /\ x \in S
      BY <2>2, <2>3, <2>5
    <2>7. k[V \cap T] <= g[V]
      BY <2>6 DEF Bad
    <2>8. g[U] = f[x] + g[V] /\ g[V] \in Int /\ f[x] \in Nat
      BY <1>4, <2>3, <2>5, <2>6 DEF AnyOrder
    <2>9. k[V \cap T] \in Int
      BY <1>5 DEF AnyOrder
    <2>10. CASE x \in T
      <3>1. U \cap T \in SUBSET T /\ x \in U \cap T /\ (U \cap T) \ {x} = V \cap T
        BY <2>5, <2>10
      <3>2. k[U \cap T] = h[x] + k[V \cap T]
        BY <1>5, <3>1 DEF AnyOrder
      <3>3. h[x] \in Int /\ h[x] <= f[x]
        BY <2>10
      <3> HIDE DEF V
      <3> QED BY <2>3, <2>7, <2>8, <2>9, <3>2, <3>3
    <2>11. CASE x \notin T
      <3>1. U \cap T = V \cap T
        BY <2>11
      <3> HIDE DEF V
      <3> QED BY <2>3, <2>7, <2>8, <2>9, <3>1
    <2> QED BY <2>10, <2>11
  <1>7. S \in SUBSET S /\ S \cap T = T
    OBVIOUS
  <1>8. k[T] <= g[S]
    BY <1>6, <1>7
  <1>9. SumRequests(h) = k[T] /\ SumRequests(f) = g[S]
    BY <1>1, <1>2, <1>3, SumValue
  <1> QED BY <1>8, <1>9

(* d more replicas of one workload add at most d.                          *)
LEMMA SumMore ==
    ASSUME NEW f, IsFiniteSet(DOMAIN f), \A x \in DOMAIN f : f[x] \in Nat,
           NEW h, DOMAIN h = DOMAIN f, \A x \in DOMAIN f : h[x] \in Nat,
           NEW c, \A x \in DOMAIN f \ {c} : h[x] = f[x],
           NEW d \in Nat, c \in DOMAIN f => h[c] <= f[c] + d
    PROVE  SumRequests(h) <= SumRequests(f) + d
  <1>1. SumRequests(f) \in Int /\ SumRequests(h) \in Int
    BY SumType
  <1>2. CASE c \notin DOMAIN f
    <2>1. \A x \in DOMAIN h : h[x] \in Int /\ h[x] <= f[x]
      BY <1>2
    <2>2. SumRequests(h) <= SumRequests(f)
      BY <2>1, SumMonotone
    <2> QED BY <1>1, <2>2
  <1>3. CASE c \in DOMAIN f
    <2> DEFINE fr == [x \in DOMAIN f \ {c} |-> f[x]]
               hr == [x \in DOMAIN h \ {c} |-> h[x]]
    <2>1. hr = fr
      OBVIOUS
    <2>2. DOMAIN fr = DOMAIN f \ {c} /\ IsFiniteSet(DOMAIN fr)
      BY FS_RemoveElement
    <2>3. SumRequests(f) = f[c] + SumRequests(fr)
      BY <1>3, SumApart
    <2>4. SumRequests(h) = h[c] + SumRequests(hr)
      BY <1>3, SumApart
    <2>5. \A x \in DOMAIN fr : fr[x] \in Int
      OBVIOUS
    <2> HIDE DEF fr, hr
    <2>6. SumRequests(fr) \in Int
      BY <2>2, <2>5, SumType
    <2>7. f[c] \in Nat /\ h[c] \in Nat /\ h[c] <= f[c] + d
      BY <1>3
    <2> QED BY <2>1, <2>3, <2>4, <2>6, <2>7
  <1> QED BY <1>2, <1>3


(***************************************************************************)
(* The quota.  Admit has compared the limit with the replicas of every     *)
(* stored workload; what is kept of that until the next one is a bound on  *)
(* the running ones beside the workload of a pass, plus its own replicas.  *)
(***************************************************************************)
Runs(id) == store[id] # Nil /\ heap[store[id]].phase = "Running"
Others == {id \in Ids : Runs(id) /\ (rec.obj # Nil => id # heap[rec.obj].id)}
Own == IF rec.obj = Nil THEN 0 ELSE heap[rec.obj].replicas
Load == SumRequests([id \in Others |-> heap[store[id]].replicas])

CountOK == \A p \in Pointers : heap[p].replicas >= 0

(* The pass under way and those to come are about workloads of their own.  *)
PassOK ==
    /\ rec.pc = "next" => rec.obj = Nil
    /\ \A p, q \in rec.queue : heap[p].id = heap[q].id => p = q
    /\ rec.obj # Nil => \A p \in rec.queue : heap[p].id # heap[rec.obj].id

(* What anybody but a deployOne between Create and Update can reach.       *)
Taken ==
    UNION {{store[id] : id \in Ids}, rec.queue, {rec.obj}, scaler.queue, {scaler.obj},
           {req[h].obj : h \in {g \in Handlers : req[g].pc # "update"}}}

(* That deployOne holds an object that nobody else knows of.               *)
FreshOK ==
    \A h \in Handlers : req[h].pc = "update" =>
       /\ heap[req[h].obj].phase = "Pending"
       /\ req[h].obj \notin Taken
       /\ \A g \in Handlers \ {h} : req[g].pc = "update" => req[g].obj # req[h].obj

(* Unless a replaced object was written back since List, what runs under   *)
(* an ID that List has seen is the object it has seen.                     *)
Latest(p) == store[heap[p].id] = p \/ ~Runs(heap[p].id)
SeenOK ==
    ~grant.stale =>
       /\ \A p \in rec.queue : Latest(p)
       /\ rec.obj # Nil => Latest(rec.obj)

LoadOK == ~grant.stale /\ grant.limit > 0 => Load + Own <= grant.limit + grant.added

QuotaInv == IInv /\ CountOK /\ PassOK /\ FreshOK /\ SeenOK /\ LoadOK

(* The summands of a load, of any map and any objects it points to.        *)
CountsOf(H, M, I) == [id \in I |-> H[M[id]].replicas]

(* A map holds as many workloads as there are objects at most, so its      *)
(* loads are sums.                                                         *)
LEMMA CountsTyped ==
    ASSUME NEW H \in Seq(Object), NEW M \in [Ids -> (1 .. Len(H)) \cup {Nil}],
           \A id \in Ids : M[id] # Nil => H[M[id]].id = id,
           \A p \in 1 .. Len(H) : H[p].replicas >= 0,
           NEW I \in SUBSET {id \in Ids : M[id] # Nil}
    PROVE  /\ DOMAIN CountsOf(H, M, I) = I /\ IsFiniteSet(I)
           /\ \A id \in I : /\ CountsOf(H, M, I)[id] = H[M[id]].replicas
                            /\ CountsOf(H, M, I)[id] \in Nat
           /\ SumRequests(CountsOf(H, M, I)) \in Int
  <1> DEFINE P == 1 .. Len(H)
             f == [p \in P |-> H[p].id]
             R == {H[p].id : p \in P}
             g == CountsOf(H, M, I)
  <1>1. Len(H) \in Int
    OBVIOUS
  <1>2. IsFiniteSet(P)
    BY <1>1, FS_Interval
  <1>3. f \in Surjection(P, R)
    BY DEF Surjection
  <1>4. I \in SUBSET R
    OBVIOUS
  <1>5. DOMAIN g = I /\ \A id \in I : g[id] = H[M[id]].replicas
    BY DEF CountsOf
  <1>6. ASSUME NEW id \in I PROVE g[id] \in Nat
    <2>1. M[id] \in 1 .. Len(H)
      OBVIOUS
    <2>2. H[M[id]] \in Object /\ H[M[id]].replicas >= 0
      BY <2>1
    <2>3. H[M[id]].replicas \in Int
      BY <2>2 DEF Object
    <2> QED BY <1>5, <2>2, <2>3
  <1> HIDE DEF P, f, R, g
  <1>7. IsFiniteSet(R)
    BY <1>2, <1>3, FS_Surjection
  <1>8. IsFiniteSet(I)
    BY <1>4, <1>7, FS_Subset
  <1>9. \A id \in DOMAIN g : g[id] \in Int
    BY <1>5, <1>6
  <1>10. SumRequests(g) \in Int
    BY <1>5, <1>8, <1>9, SumType
  <1> QED BY <1>5, <1>6, <1>8, <1>10 DEF g

Counts(I) == CountsOf(heap, store, I)

LEMMA CountsNow ==
    ASSUME HeapOK, StoreOK, CountOK, NEW I \in SUBSET {id \in Ids : store[id] # Nil}
    PROVE  /\ DOMAIN Counts(I) = I /\ IsFiniteSet(I)
           /\ \A id \in I : Counts(I)[id] = heap[store[id]].replicas /\ Counts(I)[id] \in Nat
           /\ SumRequests(Counts(I)) \in Int
  BY CountsTyped DEF Counts, HeapOK, StoreOK, CountOK, Pointers

LEMMA CountsNext ==
    ASSUME HeapOK', StoreOK', CountOK', NEW I \in SUBSET {id \in Ids : store'[id] # Nil}
    PROVE  /\ DOMAIN CountsOf(heap', store', I) = I /\ IsFiniteSet(I)
           /\ \A id \in I : /\ CountsOf(heap', store', I)[id] = heap'[store'[id]].replicas
                            /\ CountsOf(heap', store', I)[id] \in Nat
           /\ SumRequests(CountsOf(heap', store', I)) \in Int
  BY CountsTyped DEF HeapOK, StoreOK, CountOK, Pointers

LEMMA OthersStored ==
    /\ Others \in SUBSET {id \in Ids : store[id] # Nil}
    /\ Load = SumRequests(Counts(Others))
    /\ Others' \in SUBSET {id \in Ids : store'[id] # Nil}
    /\ Load' = SumRequests(CountsOf(heap', store', Others'))
  BY DEF Others, Runs, Load, Counts, CountsOf

LEMMA OwnTyped ==
    ASSUME HeapOK, RecOK, CountOK
    PROVE  Own \in Nat
  <1>1. rec.obj # Nil => rec.obj \in Pointers
    BY DEF RecOK
  <1>2. rec.obj # Nil => heap[rec.obj].replicas \in Int /\ heap[rec.obj].replicas >= 0
    BY <1>1, ObjectTyped DEF Object, CountOK
  <1> QED BY <1>2 DEF Own

(* The workload of the pass stays, and beside it nothing starts to run.    *)
LEMMA LoadShrinks ==
    ASSUME HeapOK, StoreOK, CountOK, HeapOK', StoreOK', CountOK', RestOK, RecOK, LoadOK,
           Own' = Own,
           grant'.limit = grant.limit, grant'.added = grant.added,
           ~grant'.stale => ~grant.stale,
           ~grant'.stale => \A id \in Others' :
              id \in Others /\ heap'[store'[id]].replicas = heap[store[id]].replicas
    PROVE  LoadOK'
  <1> SUFFICES ASSUME ~grant'.stale, grant.limit > 0
               PROVE  Load' + Own' <= grant.limit + grant.added
    BY DEF LoadOK
  <1>1. /\ Others \in SUBSET {id \in Ids : store[id] # Nil}
        /\ Load = SumRequests(Counts(Others))
        /\ Others' \in SUBSET {id \in Ids : store'[id] # Nil}
        /\ Load' = SumRequests(CountsOf(heap', store', Others'))
    BY OthersStored
  <1>2. \A id \in Others' : id \in Others /\ heap'[store'[id]].replicas = heap[store[id]].replicas
    OBVIOUS
  <1> DEFINE f == Counts(Others)
             h == CountsOf(heap', store', Others')
  <1>3. /\ DOMAIN f = Others /\ IsFiniteSet(DOMAIN f)
        /\ \A id \in Others : f[id] = heap[store[id]].replicas /\ f[id] \in Nat
        /\ SumRequests(f) \in Int
    BY <1>1, CountsNow
  <1>4. /\ DOMAIN h = Others'
        /\ \A id \in Others' : h[id] = heap'[store'[id]].replicas /\ h[id] \in Nat
        /\ SumRequests(h) \in Int
    BY <1>1, CountsNext
  <1>5. Load = SumRequests(f) /\ Load' = SumRequests(h)
    BY <1>1
  <1> HIDE DEF f, h
  <1>6. /\ DOMAIN h \subseteq DOMAIN f /\ \A x \in DOMAIN f : f[x] \in Nat
        /\ \A x \in DOMAIN h : h[x] \in Int /\ h[x] <= f[x]
    BY <1>2, <1>3, <1>4
  <1>7. SumRequests(h) <= SumRequests(f)
    BY <1>3, <1>6, SumMonotone
  <1>8. Load + Own <= grant.limit + grant.added
    BY DEF LoadOK
  <1>9. Own \in Nat /\ grant.limit \in Nat /\ grant.added \in Nat
    BY OwnTyped DEF RestOK
  <1> QED BY <1>3, <1>4, <1>5, <1>7, <1>8, <1>9

(* A set of workloads, of a later state too, that apart from one of n      *)
(* replicas were counted before.                                           *)
LEMMA LoadWith ==
    ASSUME HeapOK, StoreOK, CountOK, HeapOK', StoreOK', CountOK',
           NEW I \in SUBSET {id \in Ids : store'[id] # Nil}, NEW c, NEW n \in Nat,
           \A id \in I \ {c} :
              id \in Others /\ heap'[store'[id]].replicas = heap[store[id]].replicas,
           c \in I => heap'[store'[c]].replicas = n
    PROVE  SumRequests(CountsOf(heap', store', I)) <= Load + n
  <1> DEFINE f == Counts(Others)
             h == CountsOf(heap', store', I)
             r == [x \in I \ {c} |-> h[x]]
  <1>1. Others \in SUBSET {id \in Ids : store[id] # Nil} /\ Load = SumRequests(f)
    BY OthersStored
  <1>2. /\ DOMAIN f = Others /\ IsFiniteSet(DOMAIN f)
        /\ \A id \in Others : f[id] = heap[store[id]].replicas /\ f[id] \in Nat
        /\ SumRequests(f) \in Int
    BY <1>1, CountsNow
  <1>3. /\ DOMAIN h = I /\ IsFiniteSet(I)
        /\ \A id \in I : h[id] = heap'[store'[id]].replicas /\ h[id] \in Nat
        /\ SumRequests(h) \in Int
    BY CountsNext
  <1> HIDE DEF f, h
  <1>4. /\ DOMAIN r = I \ {c} /\ DOMAIN r \subseteq DOMAIN f
        /\ \A x \in DOMAIN f : f[x] \in Nat
        /\ \A x \in DOMAIN r : r[x] \in Int /\ r[x] <= f[x]
    BY <1>2, <1>3
  <1>5. SumRequests(r) <= SumRequests(f)
    <2> HIDE DEF r
    <2> QED BY <1>2, <1>4, SumMonotone
  <1>6. SumRequests(r) \in Int
    <2>1. IsFiniteSet(DOMAIN r)
      BY <1>2, <1>4, FS_Subset
    <2> HIDE DEF r
    <2> QED BY <1>4, <2>1, SumType
  <1>7. CASE c \in I
    <2>1. SumRequests(h) = h[c] + SumRequests([x \in DOMAIN h \ {c} |-> h[x]])
      BY <1>3, <1>7, SumApart
    <2>2. SumRequests(h) = n + SumRequests(r)
      BY <1>3, <1>7, <2>1
    <2> HIDE DEF r
    <2> QED BY <1>1, <1>2, <1>5, <1>6, <2>2 DEF h
  <1>8. CASE c \notin I
    <2>1. r = h
      <3>1. h = [x \in I |-> h[x]]
        BY DEF h, CountsOf
      <3> QED BY <1>3, <1>8, <3>1
    <2> HIDE DEF r
    <2> QED BY <1>1, <1>2, <1>5, <1>6, <2>1 DEF h
  <1> QED BY <1>7, <1>8

(* The invariant says what the property does.                              *)
LEMMA QuotaParts == QuotaInv => RunningWithinQuota
  <1> SUFFICES ASSUME QuotaInv, ~grant.stale, grant.limit > 0
               PROVE  SumRequests(Counts({id \in Ids : Runs(id)})) <= grant.limit + grant.added
    BY DEF RunningWithinQuota, Runs, Counts, CountsOf
  <1> USE DEF QuotaInv, IInv
  <1> DEFINE All == {id \in Ids : Runs(id)}
             f == Counts(All)
             p == rec.obj
             c == heap[p].id
  <1>1. Own \in Nat /\ grant.limit \in Nat /\ grant.added \in Nat
    BY OwnTyped DEF RestOK
  <1>2. All \in SUBSET {id \in Ids : store[id] # Nil} /\ Others = IF p = Nil THEN All ELSE All \ {c}
    BY DEF Runs, Others
  <1> HIDE DEF All
  <1>3. /\ DOMAIN f = All /\ IsFiniteSet(DOMAIN f)
        /\ \A id \in All : f[id] = heap[store[id]].replicas /\ f[id] \in Nat
        /\ SumRequests(f) \in Int
    BY <1>2, CountsNow
  <1>4. Load + Own <= grant.limit + grant.added
    BY DEF LoadOK
  <1>5. Load \in Int
    BY OthersStored, CountsNow
  <1>6. CASE p # Nil /\ c \in All
    <2>1. store[c] = p
      BY <1>6 DEF SeenOK, Latest, All
    <2>2. [x \in DOMAIN f \ {c} |-> f[x]] = Counts(Others)
      BY <1>2, <1>3, <1>6 DEF Counts, CountsOf
    <2>3. f[c] = Own
      BY <1>3, <1>6, <2>1 DEF Own
    <2> HIDE DEF f
    <2>4. \A x \in DOMAIN f : f[x] \in Int
      BY <1>3
    <2>5. SumRequests(f) = f[c] + SumRequests(Counts(Others))
      <3>1. c \in DOMAIN f /\ IsFiniteSet(DOMAIN f)
        BY <1>3, <1>6
      <3> HIDE DEF c
      <3>2. SumRequests(f) = f[c] + SumRequests([x \in DOMAIN f \ {c} |-> f[x]])
        BY <2>4, <3>1, SumApart
      <3> QED BY <2>2, <3>2
    <2>6. SumRequests(f) = Own + Load
      BY <2>3, <2>5, OthersStored
    <2> QED BY <1>1, <1>3, <1>4, <1>5, <2>6 DEF f, All
  <1>7. CASE p = Nil \/ c \notin All
    <2>1. Others = All
      BY <1>2, <1>7
    <2>2. Load = SumRequests(f)
      BY <2>1, OthersStored
    <2> QED BY <1>1, <1>4, <1>5, <2>2 DEF All
  <1> QED BY <1>6, <1>7

(***************************************************************************)
(* What a step leaves of it.                                               *)
(***************************************************************************)

SameIds == \A p \in Pointers : heap'[p].id = heap[p].id

(* No object changes its replicas or its phase.                            *)
SameCounts ==
    \A p \in Pointers : heap'[p].replicas = heap[p].replicas /\ heap'[p].phase = heap[p].phase

LEMMA SetFlags ==
    ASSUME HeapOK, NEW p \in Pointers, NEW o \in Object,
           o.id = heap[p].id, o.spec = heap[p].spec, o.restored = heap[p].restored,
           o.replicas = heap[p].replicas, o.phase = heap[p].phase,
           heap' = [heap EXCEPT ![p] = o]
    PROVE  SameObjects /\ SameCounts
  <1>1. SameObjects /\ heap'[p] = o /\ \A q \in Pointers \ {p} : heap'[q] = heap[q]
    BY SetObject
  <1> QED BY <1>1 DEF SameCounts

LEMMA CountsKept ==
    ASSUME CountOK, SameObjects, SameCounts
    PROVE  CountOK'
  <1>1. Pointers' = Pointers
    BY PointersKept
  <1> QED BY <1>1 DEF CountOK, SameCounts

(* Where the pointers that are known come from.                            *)
LEMMA TakenHas ==
    /\ \A id \in Ids : store[id] \in Taken
    /\ rec.queue \subseteq Taken /\ rec.obj \in Taken
    /\ scaler.queue \subseteq Taken /\ scaler.obj \in Taken
    /\ \A h \in Handlers : req[h].pc # "update" => req[h].obj \in Taken
  BY DEF Taken

LEMMA TakenGoes ==
    ASSUME NEW T,
           \A id \in Ids : store'[id] \in T,
           rec'.queue \subseteq T, rec'.obj \in T,
           scaler'.queue \subseteq T, scaler'.obj \in T,
           \A h \in Handlers : req'[h].pc # "update" => req'[h].obj \in T
    PROVE  Taken' \subseteq T
  BY DEF Taken

(* A handler holds objects, and Nil is none.                               *)
LEMMA FreshKept ==
    ASSUME FreshOK, ReqOK, HeapOK,
           Taken' \subseteq Taken \cup {Nil},
           \A h \in Handlers : req'[h].pc = "update" =>
              req[h].pc = "update" /\ req'[h].obj = req[h].obj,
           \A p \in Pointers \ Taken : heap'[p].phase = heap[p].phase
    PROVE  FreshOK'
  <1> SUFFICES ASSUME NEW h \in Handlers, req'[h].pc = "update"
               PROVE  /\ heap'[req'[h].obj].phase = "Pending"
                      /\ req'[h].obj \notin Taken'
                      /\ \A g \in Handlers \ {h} :
                            req'[g].pc = "update" => req'[g].obj # req'[h].obj
    BY DEF FreshOK
  <1>1. req[h].pc = "update" /\ req'[h].obj = req[h].obj /\ req[h].obj \in Pointers
    BY DEF ReqOK
  <1>2. req[h].obj # Nil
    BY <1>1 DEF Pointers, HeapOK, Nil
  <1>3. /\ heap[req[h].obj].phase = "Pending" /\ req[h].obj \notin Taken
        /\ \A g \in Handlers \ {h} : req[g].pc = "update" => req[g].obj # req[h].obj
    BY <1>1 DEF FreshOK
  <1> QED BY <1>1, <1>2, <1>3

LEMMA PassKept ==
    ASSUME PassOK, RecOK, rec' = rec, \A p \in Pointers : heap'[p].id = heap[p].id
    PROVE  PassOK'
  <1>1. rec.queue \subseteq Pointers /\ rec.obj \in Pointers \cup {Nil}
    BY DEF RecOK
  <1> QED BY <1>1 DEF PassOK

(* The objects of the pass and of those to come stay the latest.           *)
LEMMA SeenKept ==
    ASSUME SeenOK, RecOK, ~grant'.stale => ~grant.stale,
           rec'.queue \subseteq rec.queue, rec'.obj \in {rec.obj, Nil},
           ~grant'.stale => \A p \in Pointers :
              (p \in rec.queue \/ p = rec.obj) /\ Latest(p) => Latest(p)'
    PROVE  SeenOK'
  <1>1. rec.queue \subseteq Pointers /\ rec.obj \in Pointers \cup {Nil}
    BY DEF RecOK
  <1> QED BY <1>1 DEF SeenOK

(* A step of somebody else than the loop that changes no count: under each *)
(* ID the map keeps its pointer or what it gets does not run.              *)
LEMMA AsideQuota ==
    ASSUME QuotaInv, IInv', SameObjects, SameCounts, FreshOK', rec' = rec,
           grant'.limit = grant.limit, grant'.added = grant.added,
           ~grant'.stale => ~grant.stale,
           ~grant'.stale => \A id \in Ids : store'[id] = store[id] \/ ~Runs(id)'
    PROVE  QuotaInv'
  <1> USE DEF QuotaInv, IInv
  <1>1. CountOK'
    BY CountsKept
  <1>2. \A p \in Pointers : heap'[p].id = heap[p].id
    BY DEF SameObjects
  <1>3. PassOK'
    BY <1>2, PassKept
  <1>4. rec.queue \subseteq Pointers /\ rec.obj \in Pointers \cup {Nil}
    BY DEF RecOK
  <1>5. ASSUME ~grant'.stale, NEW id \in Ids, Runs(id)'
        PROVE  /\ store'[id] = store[id] /\ Runs(id)
               /\ heap'[store'[id]].replicas = heap[store[id]].replicas
    <2>1. store'[id] = store[id] /\ store'[id] # Nil
      BY <1>5 DEF Runs
    <2>2. store[id] \in Pointers
      BY <2>1 DEF StoreOK
    <2> QED BY <1>5, <2>1, <2>2 DEF Runs, SameCounts
  <1>6. SeenOK'
    <2>1. ASSUME ~grant'.stale, NEW p \in Pointers, Latest(p) PROVE Latest(p)'
      <3>1. heap'[p].id = heap[p].id /\ heap[p].id \in Ids
        BY <1>2, ObjectTyped DEF Object
      <3>2. CASE Runs(heap[p].id)'
        BY <1>5, <2>1, <3>1, <3>2 DEF Latest
      <3>3. CASE ~Runs(heap[p].id)'
        BY <3>1, <3>3 DEF Latest, Runs
      <3> QED BY <3>2, <3>3
    <2> QED BY <2>1, SeenKept
  <1>7. LoadOK'
    <2>1. Own' = Own
      BY <1>4 DEF Own, SameCounts
    <2>2. ~grant'.stale => \A id \in Others' :
             id \in Others /\ heap'[store'[id]].replicas = heap[store[id]].replicas
      BY <1>2, <1>4, <1>5 DEF Others
    <2> QED BY <1>1, <2>1, <2>2, LoadShrinks
  <1> QED BY <1>1, <1>3, <1>6, <1>7

(* An Update that was noted as harmless left the map as it was.            *)
LEMMA NotedUpdate ==
    ASSUME IInv, NEW p \in Pointers, StoreUpdate(p), NoteStale(p)
    PROVE  /\ grant'.limit = grant.limit /\ grant'.added = grant.added
           /\ ~grant'.stale => ~grant.stale
           /\ ~grant'.stale => store' = store
           /\ \A id \in Ids : store'[id] \in {store[id], p}
  <1> USE DEF IInv
  <1>1. heap[p].id \in Ids
    BY ObjectTyped DEF Object
  <1>2. /\ grant'.limit = grant.limit /\ grant'.added = grant.added
        /\ grant'.stale = (grant.stale \/ store[heap[p].id] \notin {Nil, p})
    BY DEF NoteStale, RestOK
  <1>3. \A id \in Ids : store'[id] = IF id = heap[p].id /\ store[id] # Nil THEN p ELSE store[id]
    BY <1>1 DEF StoreUpdate, StoreOK
  <1>4. store[heap[p].id] \in {Nil, p} => store' = store
    BY <1>1 DEF StoreUpdate, StoreOK
  <1> QED BY <1>2, <1>3, <1>4

(***************************************************************************)
(* The handlers and the quota.                                             *)
(***************************************************************************)

(* deployOne up to Create: the new object does not run.                    *)
LEMMA DeployCreateQuota ==
    ASSUME NonNegative, QuotaInv, IInv', NEW h \in Handlers, NEW id \in Ids, NEW spec \in Specs,
           DeployCreate(h, id, spec)
    PROVE  QuotaInv'
  <1> DEFINE w == NewWorkload(id, spec)
             p == Len(heap) + 1
  <1> USE DEF QuotaInv, IInv
  <1>1. w.id = id /\ w.phase = "Pending" /\ w.replicas >= 0
    BY DEF NewWorkload, NonNegative
  <1>2. heap' = Append(heap, w) /\ UNCHANGED <<rec, limits, grant, scaler>>
    BY DEF DeployCreate, quotaVars, scalerVars
  <1>3. \/ /\ store[id] = Nil /\ store' = [store EXCEPT ![id] = p]
           /\ req' = [req EXCEPT ![h] = Idle]
        \/ /\ req' = [req EXCEPT ![h] = [pc |-> "update", obj |-> p, todo |-> {}]]
           /\ store' = store
    BY DEF DeployCreate, Done
  <1>4. /\ Len(heap) \in Nat /\ heap'[p] = w
        /\ \A q \in Pointers : heap'[q] = heap[q]
    BY <1>2 DEF HeapOK, Pointers
  <1>5. Pointers' = Pointers \cup {p} /\ p \notin Pointers /\ p # Nil
    BY <1>2, <1>4 DEF Pointers, HeapOK, Nil
  <1> HIDE DEF w, p
  <1>6. CountOK'
    BY <1>1, <1>4, <1>5 DEF CountOK
  <1>7. PassOK'
    BY <1>2, <1>4, PassKept
  <1>8. \A i \in Ids : store'[i] = store[i] \/ (store'[i] = p /\ ~Runs(i)')
    BY <1>1, <1>3, <1>4 DEF StoreOK, Runs
  <1>9. ASSUME NEW i \in Ids, Runs(i)'
        PROVE  /\ store'[i] = store[i] /\ Runs(i)
               /\ heap'[store'[i]].replicas = heap[store[i]].replicas
    <2>1. store'[i] = store[i] /\ store[i] \in Pointers
      BY <1>8, <1>9 DEF Runs, StoreOK
    <2> QED BY <1>4, <1>9, <2>1 DEF Runs
  <1>10. FreshOK'
    <2>1. Taken \subseteq Pointers \cup {Nil}
      BY DEF Taken, StoreOK, RecOK, ScalerOK, ReqOK
    <2>2. CASE req' = [req EXCEPT ![h] = Idle]
      <3>1. \A g \in Handlers : req'[g].pc = "update" =>
               g # h /\ req'[g] = req[g] /\ req[g].pc = "update"
        BY <2>2 DEF ReqOK, Idle
      <3>2. \A g \in Handlers : req'[g].pc # "update" => req'[g].obj \in Taken \cup {p, Nil}
        BY <2>2, TakenHas DEF ReqOK, Idle
      <3>3. \A i \in Ids : store'[i] \in Taken \cup {p, Nil}
        BY <1>8, TakenHas
      <3>4. Taken' \subseteq Taken \cup {p, Nil}
        BY <1>2, <3>2, <3>3, TakenHas, TakenGoes
      <3> SUFFICES ASSUME NEW g \in Handlers, req'[g].pc = "update"
                   PROVE  /\ heap'[req'[g].obj].phase = "Pending"
                          /\ req'[g].obj \notin Taken'
                          /\ \A k \in Handlers \ {g} :
                                req'[k].pc = "update" => req'[k].obj # req'[g].obj
        BY DEF FreshOK
      <3>5. req[g].obj \in Pointers /\ req'[g].obj = req[g].obj /\ req[g].pc = "update"
        BY <3>1 DEF ReqOK
      <3>6. req[g].obj # Nil
        BY <3>5 DEF Pointers, HeapOK, Nil
      <3> QED BY <1>4, <1>5, <3>1, <3>4, <3>5, <3>6 DEF FreshOK
    <2>3. CASE /\ req' = [req EXCEPT ![h] = [pc |-> "update", obj |-> p, todo |-> {}]]
               /\ store' = store
      <3>1. /\ req'[h].pc = "update" /\ req'[h].obj = p
            /\ \A g \in Handlers \ {h} : req'[g] = req[g]
        BY <2>3 DEF ReqOK
      <3>2. Taken' \subseteq Taken
        <4>1. \A g \in Handlers : req'[g].pc # "update" => req'[g].obj \in Taken
          BY <3>1, TakenHas
        <4> QED BY <1>2, <2>3, <4>1, TakenHas, TakenGoes
      <3> SUFFICES ASSUME NEW g \in Handlers, req'[g].pc = "update"
                   PROVE  /\ heap'[req'[g].obj].phase = "Pending"
                          /\ req'[g].obj \notin Taken'
                          /\ \A k \in Handlers \ {g} :
                                req'[k].pc = "update" => req'[k].obj # req'[g].obj
        BY DEF FreshOK
      <3>3. \A k \in Handlers : req[k].pc = "update" => req[k].obj \in Pointers
        BY DEF ReqOK
      <3>4. CASE g = h
        BY <1>1, <1>4, <1>5, <2>1, <3>1, <3>2, <3>3, <3>4
      <3>5. CASE g # h
        BY <1>4, <1>5, <3>1, <3>2, <3>3, <3>5 DEF FreshOK
      <3> QED BY <3>4, <3>5
    <2> QED BY <1>3, <2>2, <2>3
  <1>11. rec.obj \in Pointers \cup {Nil} /\ rec'.obj = rec.obj /\ grant' = grant
    BY <1>2 DEF RecOK
  <1>12. SeenOK'
    <2>1. ASSUME NEW q \in Pointers, Latest(q) PROVE Latest(q)'
      <3>1. heap'[q].id = heap[q].id /\ heap[q].id \in Ids
        BY <1>4, ObjectTyped DEF Object
      <3>2. CASE Runs(heap[q].id)'
        BY <1>9, <2>1, <3>1, <3>2 DEF Latest
      <3>3. CASE ~Runs(heap[q].id)'
        BY <3>1, <3>3 DEF Latest, Runs
      <3> QED BY <3>2, <3>3
    <2> QED BY <1>2, <2>1, SeenKept
  <1>13. LoadOK'
    <2>1. Own' = Own /\ \A i \in Others' : i \in Others
      BY <1>4, <1>9, <1>11 DEF Own, Others
    <2>2. \A i \in Others' : heap'[store'[i]].replicas = heap[store[i]].replicas
      BY <1>9 DEF Others
    <2> QED BY <1>6, <1>11, <2>1, <2>2, LoadShrinks
  <1> QED BY <1>6, <1>7, <1>10, <1>12, <1>13

(* deployOne, the Update: the object nobody knew of replaces one.          *)
LEMMA DeployUpdateQuota ==
    ASSUME QuotaInv, IInv', NEW h \in Handlers, DeployUpdate(h)
    PROVE  QuotaInv'
  <1> USE DEF QuotaInv, IInv
  <1> DEFINE p == req[h].obj
  <1>1. /\ p \in Pointers /\ heap[p].id \in Ids /\ heap[p].phase = "Pending"
        /\ \A g \in Handlers \ {h} : req[g].pc = "update" => req[g].obj # p
    <2>1. req[h].pc = "update" /\ p \in Pointers
      BY DEF DeployUpdate, ReqOK
    <2> QED BY <2>1, ObjectTyped DEF FreshOK, Object
  <1>2. /\ StoreUpdate(p) /\ req' = [req EXCEPT ![h] = Idle]
        /\ UNCHANGED <<heap, rec, grant, scaler>>
    BY DEF DeployUpdate, Done, quotaVars, scalerVars
  <1> HIDE DEF p
  <1>3. SameObjects /\ SameCounts
    BY <1>2, HeapUnchanged DEF SameCounts
  <1>4. \A id \in Ids : store'[id] = store[id] \/ (store'[id] = p /\ ~Runs(id)')
    BY <1>1, <1>2 DEF StoreUpdate, StoreOK, Runs
  <1>5. FreshOK'
    <2>1. \A g \in Handlers : req'[g].pc = "update" =>
             g # h /\ req'[g] = req[g] /\ req[g].pc = "update"
      BY <1>2 DEF ReqOK, Idle
    <2>2. \A g \in Handlers : req'[g].pc # "update" => req'[g].obj \in Taken \cup {p, Nil}
      BY <1>2, TakenHas DEF ReqOK, Idle
    <2>3. \A i \in Ids : store'[i] \in Taken \cup {p, Nil}
      BY <1>4, TakenHas
    <2>4. Taken' \subseteq Taken \cup {p, Nil}
      BY <1>2, <2>2, <2>3, TakenHas, TakenGoes
    <2> SUFFICES ASSUME NEW g \in Handlers, req'[g].pc = "update"
                 PROVE  /\ heap'[req'[g].obj].phase = "Pending"
                        /\ req'[g].obj \notin Taken'
                        /\ \A k \in Handlers \ {g} :
                              req'[k].pc = "update" => req'[k].obj # req'[g].obj
      BY DEF FreshOK
    <2>5. /\ g # h /\ req[g].obj \in Pointers /\ req'[g].obj = req[g].obj
          /\ req[g].pc = "update"
      BY <2>1 DEF ReqOK
    <2>6. req[g].obj # Nil
      BY <2>5 DEF Pointers, HeapOK, Nil
    <2> QED BY <1>1, <1>2, <2>1, <2>4, <2>5, <2>6 DEF FreshOK
  <1> QED BY <1>2, <1>3, <1>4, <1>5, AsideQuota

(* handleDeleteWorkload.                                                   *)
LEMMA DeleteKeepsQuota ==
    ASSUME QuotaInv, IInv', NEW h \in Handlers, NEW id \in Ids, Delete(h, id)
    PROVE  QuotaInv'
  <1> USE DEF QuotaInv, IInv
  <1>1. /\ store' = [store EXCEPT ![id] = Nil]
        /\ UNCHANGED <<heap, rec, req, grant, scaler>>
    BY DEF Delete, quotaVars, scalerVars
  <1>2. SameObjects /\ SameCounts
    BY <1>1, HeapUnchanged DEF SameCounts
  <1>3. \A i \in Ids : store'[i] = store[i] \/ (store'[i] = Nil /\ ~Runs(i)')
    BY <1>1 DEF StoreOK, Runs
  <1>4. FreshOK'
    <2>1. Taken' \subseteq Taken \cup {Nil}
      <3>1. \A i \in Ids : store'[i] \in Taken \cup {Nil}
        BY <1>3, TakenHas
      <3> QED BY <1>1, <3>1, TakenHas, TakenGoes
    <2> QED BY <1>1, <2>1, FreshKept
  <1> QED BY <1>1, <1>2, <1>3, <1>4, AsideQuota

(* RequestRollingRestart, and a reset of pending_restart.                  *)
LEMMA RestartCounts ==
    ASSUME HeapOK, NEW p \in Pointers,
           \/ heap' = [heap EXCEPT ![p].owed = "no"]
           \/ heap' = [heap EXCEPT ![p].pending = FALSE]
    PROVE  SameObjects /\ SameCounts
  <1> DEFINE o == [heap[p] EXCEPT !.owed = "no"]
             c == [heap[p] EXCEPT !.pending = FALSE]
  <1>1. heap[p] \in Object
    BY ObjectTyped
  <1>2. /\ o \in Object /\ o.id = heap[p].id /\ o.spec = heap[p].spec
        /\ o.restored = heap[p].restored
        /\ o.replicas = heap[p].replicas /\ o.phase = heap[p].phase
    BY <1>1 DEF Object
  <1>3. /\ c \in Object /\ c.id = heap[p].id /\ c.spec = heap[p].spec
        /\ c.restored = heap[p].restored
        /\ c.replicas = heap[p].replicas /\ c.phase = heap[p].phase
    BY <1>1 DEF Object
  <1>4. heap' = [heap EXCEPT ![p] = o] \/ heap' = [heap EXCEPT ![p] = c]
    OBVIOUS
  <1> HIDE DEF o, c
  <1> QED BY <1>2, <1>3, <1>4, SetFlags

(* restartOne up to the driver call.                                       *)
LEMMA RestartIssueQuota ==
    ASSUME QuotaInv, IInv', NEW h \in Handlers, NEW id \in Ids, NEW redeploys,
           RestartIssue(h, id, redeploys)
    PROVE  QuotaInv'
  <1> USE DEF QuotaInv, IInv
  <1> DEFINE p == store[id]
  <1>1. p \in Pointers
    BY DEF RestartIssue, StoreOK
  <1>2. /\ heap' = [heap EXCEPT ![p].owed = "no"]
        /\ req' = [req EXCEPT ![h] = [pc |-> "clear", obj |-> p, todo |-> {}]]
        /\ UNCHANGED <<store, rec, grant, scaler>>
    BY DEF RestartIssue, RollingRestart, aside, quotaVars, scalerVars
  <1>3. p \in Taken
    BY TakenHas
  <1> HIDE DEF p
  <1>4. SameObjects /\ SameCounts
    BY <1>1, <1>2, RestartCounts
  <1>5. FreshOK'
    <2>1. Taken' \subseteq Taken \cup {Nil}
      <3>1. \A g \in Handlers : req'[g].pc # "update" => req'[g].obj \in Taken \cup {Nil}
        BY <1>2, <1>3, TakenHas DEF ReqOK
      <3> QED BY <1>2, <3>1, TakenHas, TakenGoes
    <2>2. \A g \in Handlers : req'[g].pc = "update" =>
             req[g].pc = "update" /\ req'[g].obj = req[g].obj
      BY <1>2 DEF ReqOK
    <2> QED BY <1>4, <2>1, <2>2, FreshKept DEF SameCounts
  <1> QED BY <1>2, <1>4, <1>5, AsideQuota

(* A handler that is none of deployOne goes on with what it knows.         *)
LEMMA FreshGoesOn ==
    ASSUME QuotaInv, \A p \in Pointers : heap'[p].phase = heap[p].phase, rec' = rec,
           NEW h \in Handlers, req[h].pc # "update",
           NEW r, r.pc # "update", r.obj \in Taken \cup {Nil}, req' = [req EXCEPT ![h] = r],
           \A id \in Ids : store'[id] \in Taken, scaler' = scaler
    PROVE  FreshOK'
  <1> USE DEF QuotaInv, IInv
  <1>1. \A g \in Handlers : req'[g] = IF g = h THEN r ELSE req[g]
    BY DEF ReqOK
  <1>2. \A g \in Handlers : req'[g].pc # "update" => req'[g].obj \in Taken \cup {Nil}
    BY <1>1, TakenHas
  <1>3. Taken' \subseteq Taken \cup {Nil}
    BY <1>2, TakenHas, TakenGoes
  <1>4. \A g \in Handlers : req'[g].pc = "update" =>
           req[g].pc = "update" /\ req'[g].obj = req[g].obj
    BY <1>1
  <1> QED BY <1>3, <1>4, FreshKept

LEMMA IdleHandler == Idle.pc # "update" /\ Idle.obj = Nil
  BY DEF Idle

LEMMA MarkingHandler ==
    ASSUME NEW h, NEW todo, NextMark(h, todo)
    PROVE  \E r : r.pc # "update" /\ r.obj = Nil /\ req' = [req EXCEPT ![h] = r]
  <1> DEFINE m == [pc |-> "mark", obj |-> Nil, todo |-> todo]
  <1>1. m.pc # "update" /\ m.obj = Nil
    OBVIOUS
  <1>2. req' = [req EXCEPT ![h] = m] \/ req' = [req EXCEPT ![h] = Idle]
    BY DEF NextMark
  <1> HIDE DEF m
  <1> QED BY <1>1, <1>2, IdleHandler

(* clearPendingRestart and Update.                                         *)
LEMMA RestartClearQuota ==
    ASSUME QuotaInv, IInv', NEW h \in Handlers, RestartClear(h)
    PROVE  QuotaInv'
  <1> USE DEF QuotaInv, IInv
  <1> DEFINE p == req[h].obj
  <1>1. p \in Pointers /\ req[h].pc # "update" /\ p \in Taken
    BY TakenHas DEF RestartClear, ReqOK
  <1>2. /\ heap' = [heap EXCEPT ![p].pending = FALSE] /\ StoreUpdate(p) /\ NoteStale(p)
        /\ req' = [req EXCEPT ![h] = Idle] /\ UNCHANGED <<rec, scaler>>
    BY DEF RestartClear, Done, scalerVars
  <1> HIDE DEF p
  <1>3. SameObjects /\ SameCounts
    BY <1>1, <1>2, RestartCounts
  <1>4. /\ grant'.limit = grant.limit /\ grant'.added = grant.added
        /\ ~grant'.stale => ~grant.stale
        /\ ~grant'.stale => store' = store
        /\ \A id \in Ids : store'[id] \in {store[id], p}
    BY <1>1, <1>2, NotedUpdate
  <1>5. FreshOK'
    <2>1. \A id \in Ids : store'[id] \in Taken
      BY <1>1, <1>4, TakenHas
    <2>2. Idle.obj \in Taken \cup {Nil}
      BY IdleHandler
    <2> QED BY <1>1, <1>2, <1>3, <2>1, <2>2, IdleHandler, FreshGoesOn DEF SameCounts
  <1> QED BY <1>2, <1>3, <1>4, <1>5, AsideQuota

(* HandleRotation up to its loop.                                          *)
LEMMA RotateObserveQuota ==
    ASSUME QuotaInv, IInv', NEW h \in Handlers, NEW v, RotateObserve(h, v)
    PROVE  QuotaInv'
  <1> USE DEF QuotaInv, IInv
  <1> DEFINE m == [pc |-> "mark", obj |-> Nil, todo |-> registry]
  <1>1. /\ req[h].pc # "update" /\ UNCHANGED <<heap, store, rec, grant, scaler>>
        /\ req' = [req EXCEPT ![h] = m] \/ req' = [req EXCEPT ![h] = Idle]
    BY DEF RotateObserve, WorkloadsForSecret, Request, aside, quotaVars, scalerVars
  <1>2. SameObjects /\ SameCounts
    BY <1>1, HeapUnchanged DEF SameCounts
  <1>3. FreshOK'
    <2>1. \A id \in Ids : store'[id] \in Taken
      BY <1>1, TakenHas
    <2>2. m.pc # "update" /\ m.obj = Nil
      OBVIOUS
    <2> HIDE DEF m
    <2> QED BY <1>1, <1>2, <2>1, <2>2, IdleHandler, FreshGoesOn DEF SameCounts
  <1> QED BY <1>1, <1>2, <1>3, AsideQuota

(* One iteration of HandleRotation.                                        *)
LEMMA RotateMarkQuota ==
    ASSUME QuotaInv, IInv', NEW h \in Handlers, NEW id \in Ids, RotateMark(h, id)
    PROVE  QuotaInv'
  <1> USE DEF QuotaInv, IInv
  <1> DEFINE p == store[id]
             left == req[h].todo \ {id}
             owed == IF Restarting(p) THEN "raced" ELSE "yes"
             r == [pc |-> "save", obj |-> p, todo |-> left]
             o == [[heap[p] EXCEPT !.pending = TRUE] EXCEPT !.owed = owed]
  <1>1. req[h].pc # "update" /\ UNCHANGED <<store, rec, grant, scaler>>
    BY DEF RotateMark, aside, quotaVars, scalerVars
  <1>2. \A i \in Ids : store'[i] \in Taken
    BY <1>1, TakenHas
  <1>3. CASE heap' = heap /\ NextMark(h, left)
    <2>1. SameObjects /\ SameCounts
      BY <1>3, HeapUnchanged DEF SameCounts
    <2>2. PICK s : s.pc # "update" /\ s.obj = Nil /\ req' = [req EXCEPT ![h] = s]
      BY <1>3, MarkingHandler
    <2>3. FreshOK'
      BY <1>1, <1>2, <2>1, <2>2, FreshGoesOn DEF SameCounts
    <2> QED BY <1>1, <2>1, <2>3, AsideQuota
  <1>4. CASE /\ p # Nil
             /\ heap' = [heap EXCEPT ![p].pending = TRUE, ![p].owed = owed]
             /\ req' = [req EXCEPT ![h] = [pc |-> "save", obj |-> p, todo |-> @.todo \ {id}]]
    <2>1. p \in Pointers /\ p \in Taken
      BY <1>4, TakenHas DEF StoreOK
    <2>2. req' = [req EXCEPT ![h] = r] /\ r.pc # "update" /\ r.obj = p
      BY <1>4 DEF ReqOK
    <2>3. owed \in {"yes", "raced"}
      OBVIOUS
    <2> HIDE DEF owed
    <2>4. /\ o \in Object /\ o.id = heap[p].id /\ o.spec = heap[p].spec
          /\ o.restored = heap[p].restored
          /\ o.replicas = heap[p].replicas /\ o.phase = heap[p].phase
      <3>1. heap[p] \in Object
        BY <2>1, ObjectTyped
      <3> QED BY <3>1, <2>3 DEF Object
    <2>5. heap' = [heap EXCEPT ![p] = o]
      BY <1>4, <2>1 DEF HeapOK, Pointers
    <2> HIDE DEF p, r, o, left
    <2>6. SameObjects /\ SameCounts
      BY <2>1, <2>4, <2>5, SetFlags
    <2>7. FreshOK'
      BY <1>1, <1>2, <2>1, <2>2, <2>6, FreshGoesOn DEF SameCounts
    <2> QED BY <1>1, <2>6, <2>7, AsideQuota
  <1> QED BY <1>3, <1>4 DEF RotateMark

(* Its Update.                                                             *)
LEMMA RotateSaveQuota ==
    ASSUME QuotaInv, IInv', NEW h \in Handlers, RotateSave(h)
    PROVE  QuotaInv'
  <1> USE DEF QuotaInv, IInv
  <1> DEFINE p == req[h].obj
  <1>1. p \in Pointers /\ req[h].pc # "update" /\ p \in Taken
    BY TakenHas DEF RotateSave, ReqOK
  <1>2. /\ StoreUpdate(p) /\ NoteStale(p) /\ NextMark(h, req[h].todo)
        /\ UNCHANGED <<heap, rec, scaler>>
    BY DEF RotateSave, scalerVars
  <1> HIDE DEF p
  <1>3. SameObjects /\ SameCounts
    BY <1>2, HeapUnchanged DEF SameCounts
  <1>4. /\ grant'.limit = grant.limit /\ grant'.added = grant.added
        /\ ~grant'.stale => ~grant.stale
        /\ ~grant'.stale => store' = store
        /\ \A id \in Ids : store'[id] \in {store[id], p}
    BY <1>1, <1>2, NotedUpdate
  <1>5. FreshOK'
    <2>1. \A id \in Ids : store'[id] \in Taken
      BY <1>1, <1>4, TakenHas
    <2>2. PICK r : r.pc # "update" /\ r.obj = Nil /\ req' = [req EXCEPT ![h] = r]
      BY <1>2, MarkingHandler
    <2> QED BY <1>1, <1>2, <1>3, <2>1, <2>2, FreshGoesOn DEF SameCounts
  <1> QED BY <1>2, <1>3, <1>4, <1>5, AsideQuota

(* handlePutQuota and handleDeleteQuota: the pass under way goes on under  *)
(* the limit that admitted it.  And nothing happens.                       *)
LEMMA LimitsQuota ==
    ASSUME QuotaInv, IInv', UNCHANGED <<heap, store, rec, req, grant, scaler>>
    PROVE  QuotaInv'
  <1> USE DEF QuotaInv, IInv
  <1>1. SameObjects /\ SameCounts
    BY HeapUnchanged DEF SameCounts
  <1>2. FreshOK'
    <2>1. Taken' \subseteq Taken \cup {Nil}
      BY DEF Taken
    <2> QED BY <2>1, FreshKept
  <1> QED BY <1>1, <1>2, AsideQuota

(***************************************************************************)
(* The autoscaler and the quota.                                           *)
(***************************************************************************)
LEMMA ScalingQuota ==
    ASSUME QuotaInv, IInv',
           \/ ScaleRound
           \/ \E p \in scaler.queue : \E n \in Replicas(heap[p]) : Evaluate(p, n)
    PROVE  QuotaInv'
  <1> USE DEF QuotaInv, IInv
  <1>1. UNCHANGED <<heap, store, rec, req, grant>>
    BY DEF ScaleRound, Evaluate, quotaVars
  <1>2. SameObjects /\ SameCounts
    BY <1>1, HeapUnchanged DEF SameCounts
  <1>3. FreshOK'
    <2>1. scaler'.queue \subseteq Taken \cup {Nil} /\ scaler'.obj \in Taken \cup {Nil}
      <3>1. CASE ScaleRound
        BY <3>1, TakenHas DEF ScaleRound, ScalerOK
      <3>2. ASSUME NEW p \in scaler.queue, NEW n, Evaluate(p, n)
            PROVE  scaler'.queue \subseteq Taken \cup {Nil} /\ scaler'.obj \in Taken \cup {Nil}
        BY <3>2, TakenHas DEF Evaluate, ScalerOK
      <3> QED BY <3>1, <3>2
    <2>2. Taken' \subseteq Taken \cup {Nil}
      BY <1>1, <2>1, TakenHas, TakenGoes
    <2> QED BY <1>1, <2>2, FreshKept
  <1> QED BY <1>1, <1>2, <1>3, AsideQuota

(* scaleWorkload, the Update.                                              *)
LEMMA ScaleWorkloadQuota ==
    ASSUME QuotaInv, IInv', ScaleWorkload
    PROVE  QuotaInv'
  <1> USE DEF QuotaInv, IInv
  <1> DEFINE p == scaler.obj
  <1>1. p \in Pointers /\ p \in Taken
    BY TakenHas DEF ScaleWorkload, ScalerOK
  <1>2. /\ StoreUpdate(p) /\ NoteStale(p)
        /\ scaler' = [scaler EXCEPT !.pc = "next", !.obj = Nil]
        /\ UNCHANGED <<heap, rec, req>>
    BY DEF ScaleWorkload
  <1> HIDE DEF p
  <1>3. SameObjects /\ SameCounts
    BY <1>2, HeapUnchanged DEF SameCounts
  <1>4. /\ grant'.limit = grant.limit /\ grant'.added = grant.added
        /\ ~grant'.stale => ~grant.stale
        /\ ~grant'.stale => store' = store
        /\ \A id \in Ids : store'[id] \in {store[id], p}
    BY <1>1, <1>2, NotedUpdate
  <1>5. FreshOK'
    <2>1. \A id \in Ids : store'[id] \in Taken \cup {Nil}
      BY <1>1, <1>4, TakenHas
    <2>2. scaler'.queue = scaler.queue /\ scaler'.obj = Nil
      BY <1>2 DEF ScalerOK
    <2>3. Taken' \subseteq Taken \cup {Nil}
      BY <1>2, <2>1, <2>2, TakenHas, TakenGoes
    <2> QED BY <1>2, <2>3, FreshKept
  <1> QED BY <1>2, <1>3, <1>4, <1>5, AsideQuota

(* A count that is not negative stays so.                                  *)
LEMMA ScalingBounded ==
    ASSUME NEW t \in [enabled : BOOLEAN, min : Int, max : Int,
                      cpu : BOOLEAN, memory : BOOLEAN, custom : BOOLEAN],
           NEW n \in Nat, NEW m \in Metrics, t.min >= 0
    PROVE  evaluateScaling(t, n, m) >= 0
  <1> DEFINE custom == IF t.custom /\ m.custom = "high" /\ n < t.max THEN n + 1 ELSE n
             memory == Decide(t.memory, m.memory, t, n, custom)
  <1>1. custom >= 0
    OBVIOUS
  <1> HIDE DEF custom
  <1>2. memory >= 0
    BY <1>1 DEF Decide
  <1> HIDE DEF memory
  <1>3. Decide(t.cpu, m.cpu, t, n, memory) >= 0
    BY <1>2 DEF Decide
  <1> QED BY <1>3 DEF evaluateScaling, custom, memory

(* One object gets another count: what it gains is noted as added.         *)
LEMMA CountSet ==
    ASSUME QuotaInv, IInv', FreshOK', NEW p \in Pointers, NEW n \in Nat, NoteAdded(p, n),
           Pointers' = Pointers, UNCHANGED <<store, rec>>,
           heap'[p].id = heap[p].id, heap'[p].phase = heap[p].phase, heap'[p].replicas = n,
           \A q \in Pointers \ {p} : heap'[q] = heap[q]
    PROVE  QuotaInv'
  <1> USE DEF QuotaInv, IInv
  <1> DEFINE old == heap[p].replicas
             d == IF n > old THEN n - old ELSE 0
  <1>1. old \in Nat
    BY ObjectTyped DEF Object, CountOK
  <1>2. d \in Nat /\ n <= old + d
    BY <1>1
  <1>3. /\ grant'.limit = grant.limit /\ grant'.stale = grant.stale
        /\ grant'.added = grant.added + d
        /\ grant.limit \in Nat /\ grant.added \in Nat
    BY <1>1, AddedTyped DEF RestOK
  <1> HIDE DEF d
  <1>4. \A q \in Pointers : heap'[q].id = heap[q].id /\ heap'[q].phase = heap[q].phase
    OBVIOUS
  <1>5. CountOK'
    BY DEF CountOK
  <1>6. PassOK'
    BY <1>4, PassKept
  <1>7. \A id \in Ids : Runs(id)' <=> Runs(id)
    BY <1>4 DEF Runs, StoreOK
  <1>8. SeenOK'
    <2>1. ASSUME NEW q \in Pointers, Latest(q) PROVE Latest(q)'
      <3>1. heap'[q].id = heap[q].id /\ heap[q].id \in Ids /\ store' = store
        BY <1>4, ObjectTyped DEF Object
      <3>2. Runs(heap[q].id)' <=> Runs(heap[q].id)
        BY <1>7, <3>1
      <3> QED BY <2>1, <3>1, <3>2 DEF Latest, Runs
    <2> QED BY <1>3, <2>1, SeenKept
  <1>9. LoadOK'
    <2> SUFFICES ASSUME ~grant.stale, grant.limit > 0
                 PROVE  Load' + Own' <= grant'.limit + grant'.added
      BY <1>3 DEF LoadOK
    <2>1. rec.obj # Nil => rec.obj \in Pointers
      BY DEF RecOK
    <2>2. Own \in Nat
      BY OwnTyped
    <2>3. Others' = Others
      BY <1>4, <1>7, <2>1 DEF Others
    <2> DEFINE f == Counts(Others)
               h == CountsOf(heap', store', Others)
               c == heap[p].id
    <2>4. /\ Others \in SUBSET {id \in Ids : store[id] # Nil}
          /\ Load = SumRequests(f) /\ Load' = SumRequests(h)
      BY <2>3, OthersStored
    <2>5. /\ DOMAIN f = Others /\ IsFiniteSet(Others)
          /\ \A id \in Others : f[id] = heap[store[id]].replicas /\ f[id] \in Nat
          /\ SumRequests(f) \in Int
      BY <2>4, CountsNow
    <2>6. /\ DOMAIN h = Others
          /\ \A id \in Others : h[id] = heap'[store[id]].replicas /\ h[id] \in Nat
          /\ SumRequests(h) \in Int
      <3>1. Others \in SUBSET {id \in Ids : store'[id] # Nil}
        BY <2>4
      <3>2. /\ DOMAIN h = Others
            /\ \A id \in Others : h[id] = heap'[store'[id]].replicas /\ h[id] \in Nat
            /\ SumRequests(h) \in Int
        BY <1>5, <3>1, CountsNext
      <3> QED BY <3>2
    <2> HIDE DEF f, h
    <2>7. \A id \in Others : store[id] \in Pointers /\ heap[store[id]].id = id
      BY <2>4 DEF StoreOK
    <2>8. \A id \in Others \ {c} : h[id] = f[id]
      BY <2>5, <2>6, <2>7
    <2>9. Load + Own <= grant.limit + grant.added
      BY DEF LoadOK
    <2>10. \A x \in DOMAIN f : f[x] \in Nat /\ h[x] \in Nat
      BY <2>5, <2>6
    <2>11. CASE rec.obj = p
      <3>1. p # Nil
        BY DEF Pointers, HeapOK, Nil
      <3>2. c \notin Others
        BY <2>11, <3>1 DEF Others
      <3>3. \A x \in DOMAIN h : h[x] \in Int /\ h[x] <= f[x]
        BY <2>5, <2>6, <2>8, <3>2
      <3>4. SumRequests(h) <= SumRequests(f)
        BY <2>5, <2>6, <2>10, <3>3, SumMonotone
      <3>5. Own' = n /\ Own = old
        BY <2>11, <3>1 DEF Own
      <3> HIDE DEF old
      <3> QED BY <1>1, <1>2, <1>3, <2>4, <2>5, <2>6, <2>9, <3>4, <3>5
    <2>12. CASE rec.obj # p
      <3>1. c \in DOMAIN f => h[c] <= f[c] + d
        <4> SUFFICES ASSUME c \in Others PROVE h[c] <= f[c] + d
          BY <2>5
        <4>1. /\ h[c] = heap'[store[c]].replicas /\ f[c] = heap[store[c]].replicas
              /\ store[c] \in Pointers /\ h[c] \in Nat /\ f[c] \in Nat
          BY <2>5, <2>6, <2>7
        <4> HIDE DEF c
        <4>2. CASE store[c] = p
          BY <1>2, <4>1, <4>2
        <4>3. CASE store[c] # p
          BY <1>2, <4>1, <4>3
        <4> QED BY <4>2, <4>3
      <3> HIDE DEF c
      <3>2. SumRequests(h) <= SumRequests(f) + d
        BY <1>2, <2>5, <2>6, <2>8, <2>10, <3>1, SumMore
      <3>3. Own' = Own
        BY <2>1, <2>12 DEF Own
      <3> QED BY <1>2, <1>3, <2>2, <2>4, <2>5, <2>6, <2>9, <3>2, <3>3
    <2> QED BY <2>11, <2>12
  <1> QED BY <1>5, <1>6, <1>8, <1>9

(* The counts that are kept elsewhere: those of revisions, and the one the *)
(* autoscaler is about to set.                                             *)
KeptCount == \A p \in 1 .. MaxObjects : \A rev \in kept[p] : rev.replicas >= 0
ToCount == scaler.pc = "scale" => scaler.to >= 0

(* scaleWorkload up to its Update.                                         *)
LEMMA ScaleQuota ==
    ASSUME QuotaInv, IInv', ToCount, Scale
    PROVE  QuotaInv'
  <1> USE DEF QuotaInv, IInv
  <1> DEFINE p == scaler.obj
             n == scaler.to
             o == [heap[p] EXCEPT !.replicas = n]
  <1>1. p \in Pointers /\ heap[p] \in Object /\ p \in Taken /\ n \in Nat
    BY ObjectTyped, TakenHas DEF Scale, ScalerOK, ToCount
  <1>2. /\ heap' = [heap EXCEPT ![p] = o] /\ NoteAdded(p, n)
        /\ scaler' = [scaler EXCEPT !.pc = "save", !.to = 0]
        /\ UNCHANGED <<store, rec, req>>
    BY DEF Scale
  <1>3. /\ o \in Object /\ o.id = heap[p].id /\ o.phase = heap[p].phase /\ o.replicas = n
    BY <1>1 DEF Object
  <1>4. scaler'.queue = scaler.queue /\ scaler'.obj = p
    BY <1>2 DEF ScalerOK
  <1> HIDE DEF o, p, n
  <1>5. /\ Pointers' = Pointers /\ heap'[p] = o
        /\ \A q \in Pointers \ {p} : heap'[q] = heap[q]
    BY <1>1, <1>2, <1>3, SpecSet
  <1>6. FreshOK'
    <2>1. Taken' \subseteq Taken \cup {Nil}
      BY <1>1, <1>2, <1>4, TakenHas, TakenGoes
    <2>2. \A q \in Pointers : heap'[q].phase = heap[q].phase
      BY <1>3, <1>5
    <2> QED BY <1>2, <2>1, <2>2, FreshKept
  <1> QED BY <1>1, <1>2, <1>3, <1>5, <1>6, CountSet

(* Revert up to its Update: the count is the one of a revision.            *)
LEMMA RollbackQuota ==
    ASSUME QuotaInv, IInv', KeptOK, KeptCount, NEW h \in Handlers, NEW id \in Ids, NEW rev,
           Rollback(h, id, rev)
    PROVE  QuotaInv'
  <1> USE DEF QuotaInv, IInv
  <1> DEFINE p == store[id]
             n == rev.replicas
             r == [pc |-> "revert", obj |-> p, todo |-> {}]
  <1>1. p \in Pointers /\ rev \in kept[p] /\ p \in Taken
    BY TakenHas DEF Rollback, RollbackVersions, StoreOK
  <1>2. heap[p] \in Object /\ p \in 1 .. MaxObjects
    BY <1>1, ObjectTyped, Constants DEF HeapOK, Pointers, MaxObjects
  <1>3. n \in Nat
    <2>1. rev \in Revision /\ n >= 0
      BY <1>1, <1>2 DEF KeptOK, KeptCount
    <2> QED BY <2>1 DEF Revision
  <1>4. /\ req[h].pc # "update" /\ NoteAdded(p, n) /\ req' = [req EXCEPT ![h] = r]
        /\ UNCHANGED <<store, rec, scaler>>
    BY DEF Rollback, Request, scalerVars
  <1>5. /\ Pointers' = Pointers
        /\ heap'[p].id = heap[p].id /\ heap'[p].phase = heap[p].phase /\ heap'[p].replicas = n
        /\ \A q \in Pointers \ {p} : heap'[q] = heap[q]
    BY <1>1, <1>2 DEF Rollback, HeapOK, Pointers, Object
  <1>6. r.pc # "update" /\ r.obj = p
    OBVIOUS
  <1> HIDE DEF p, r, n
  <1>7. FreshOK'
    <2>1. \A i \in Ids : store'[i] \in Taken
      BY <1>4, TakenHas
    <2>2. \A q \in Pointers : heap'[q].phase = heap[q].phase
      BY <1>5
    <2> QED BY <1>1, <1>4, <1>6, <2>1, <2>2, FreshGoesOn
  <1> QED BY <1>1, <1>3, <1>4, <1>5, <1>7, CountSet

(* Revert's Update.                                                        *)
LEMMA RollbackSaveQuota ==
    ASSUME QuotaInv, IInv', NEW h \in Handlers, RollbackSave(h)
    PROVE  QuotaInv'
  <1> USE DEF QuotaInv, IInv
  <1> DEFINE p == req[h].obj
  <1>1. p \in Pointers /\ req[h].pc # "update" /\ p \in Taken
    BY TakenHas DEF RollbackSave, ReqOK
  <1>2. /\ StoreUpdate(p) /\ NoteStale(p) /\ req' = [req EXCEPT ![h] = Idle]
        /\ UNCHANGED <<heap, rec, scaler>>
    BY DEF RollbackSave, Done, scalerVars
  <1> HIDE DEF p
  <1>3. SameObjects /\ SameCounts
    BY <1>2, HeapUnchanged DEF SameCounts
  <1>4. /\ grant'.limit = grant.limit /\ grant'.added = grant.added
        /\ ~grant'.stale => ~grant.stale
        /\ ~grant'.stale => store' = store
        /\ \A id \in Ids : store'[id] \in {store[id], p}
    BY <1>1, <1>2, NotedUpdate
  <1>5. FreshOK'
    <2>1. \A id \in Ids : store'[id] \in Taken
      BY <1>1, <1>4, TakenHas
    <2>2. Idle.obj \in Taken \cup {Nil}
      BY IdleHandler
    <2> QED BY <1>1, <1>2, <1>3, <2>1, <2>2, IdleHandler, FreshGoesOn DEF SameCounts
  <1> QED BY <1>2, <1>3, <1>4, <1>5, AsideQuota

(***************************************************************************)
(* The loop and the quota.                                                 *)
(***************************************************************************)

(* List: what is seen is what the map holds.                               *)
LEMMA ListQuota ==
    ASSUME QuotaInv, IInv', List
    PROVE  QuotaInv'
  <1> USE DEF QuotaInv, IInv
  <1>1. /\ rec.pc = "next" /\ rec'.pc = "next" /\ rec'.obj = Nil
        /\ rec'.queue = {store[id] : id \in Ids} \ {Nil}
        /\ rec.obj = Nil /\ grant' = IF grant.stale THEN NoGrant ELSE grant
        /\ UNCHANGED <<heap, store, req, scaler>>
    BY DEF List, Between, scalerVars
  <1>2. CountOK'
    BY <1>1 DEF CountOK, Pointers
  <1>3. \A p \in rec'.queue : p \in Taken /\ store[heap[p].id] = p
    BY <1>1, TakenHas DEF StoreOK
  <1>4. PassOK'
    BY <1>1, <1>3 DEF PassOK
  <1>5. FreshOK'
    <2>1. Taken' \subseteq Taken \cup {Nil}
      <3>1. rec'.queue \subseteq Taken \cup {Nil} /\ rec'.obj \in Taken \cup {Nil}
        BY <1>1, <1>3
      <3>2. \A id \in Ids : store'[id] \in Taken \cup {Nil}
        BY <1>1, TakenHas
      <3> QED BY <1>1, <3>1, <3>2, TakenHas, TakenGoes
    <2> QED BY <1>1, <2>1, FreshKept
  <1>6. SeenOK'
    BY <1>1, <1>3 DEF SeenOK, Latest
  <1>7. LoadOK'
    <2>1. CASE grant.stale
      BY <1>1, <2>1 DEF LoadOK, NoGrant
    <2>2. CASE ~grant.stale
      <3>1. Load' = Load /\ Own' = Own
        BY <1>1 DEF Load, Others, Runs, Own
      <3> QED BY <1>1, <2>2, <3>1 DEF LoadOK
    <2> QED BY <2>1, <2>2
  <1> QED BY <1>2, <1>4, <1>5, <1>6, <1>7

(* The verdict of the quota is the bound at the start of the pass.         *)
LEMMA AdmittedLoad ==
    ASSUME QuotaInv, IInv', NEW p \in Pointers, Admitted(heap[p]),
           SameIds, SameCounts, store' = store, rec'.obj = p, grant' = Granted
    PROVE  LoadOK'
  <1> USE DEF QuotaInv, IInv
  <1>0. p # Nil /\ Own' = heap[p].replicas
    BY DEF Own, SameCounts, Pointers, HeapOK, Nil
  <1> SUFFICES ASSUME limits.replicas > 0
               PROVE  Load' + heap[p].replicas <= limits.replicas
    BY <1>0 DEF LoadOK, Granted, RestOK, Quota
  <1> DEFINE All == {j \in Ids \ {heap[p].id} : store[j] # Nil}
             f == Counts(All)
             h == Counts(Others')
  <1>1. f = Peers(heap[p].id)
    BY DEF Peers, Counts, CountsOf
  <1>2. SumRequests(f) + heap[p].replicas <= limits.replicas
    BY <1>1 DEF Admitted, Enforce
  <1>3. All \in SUBSET {id \in Ids : store[id] # Nil} /\ Others' \subseteq All
    BY <1>0 DEF Others, Runs, SameIds
  <1>4. Others' \in SUBSET {id \in Ids : store[id] # Nil}
    BY <1>3
  <1> HIDE DEF All
  <1>5. /\ DOMAIN f = All /\ IsFiniteSet(All)
        /\ \A id \in All : f[id] = heap[store[id]].replicas /\ f[id] \in Nat
        /\ SumRequests(f) \in Int
    BY <1>3, CountsNow
  <1>6. /\ DOMAIN h = Others'
        /\ \A id \in Others' : h[id] = heap[store[id]].replicas /\ h[id] \in Nat
        /\ SumRequests(h) \in Int
    BY <1>4, CountsNow
  <1>7. Load' = SumRequests(h)
    <2>1. \A id \in Others' : heap'[store'[id]].replicas = heap[store[id]].replicas
      BY <1>4 DEF SameCounts, StoreOK
    <2>2. CountsOf(heap', store', Others') = h
      BY <2>1 DEF Counts, CountsOf
    <2> QED BY <2>2, OthersStored
  <1> HIDE DEF f, h
  <1>8. /\ DOMAIN h \subseteq DOMAIN f /\ \A x \in DOMAIN f : f[x] \in Nat
        /\ \A x \in DOMAIN h : h[x] \in Int /\ h[x] <= f[x]
    BY <1>3, <1>5, <1>6
  <1>9. SumRequests(h) <= SumRequests(f)
    BY <1>5, <1>8, SumMonotone
  <1>10. heap[p].replicas \in Int /\ limits.replicas \in Nat
    BY ObjectTyped DEF Object, RestOK, Quota
  <1> QED BY <1>2, <1>5, <1>6, <1>7, <1>9, <1>10

LEMMA AdmitQuota ==
    ASSUME QuotaInv, IInv', NEW p \in rec.queue, Admit(p)
    PROVE  QuotaInv'
  <1> USE DEF QuotaInv, IInv
  <1>1. /\ rec.pc = "next" /\ rec.obj = Nil /\ p \in Pointers /\ p \in Taken
        /\ UNCHANGED <<store, req, scaler>>
    BY TakenHas DEF Admit, PassOK, RecOK, scalerVars
  <1>2. SameIds /\ SameCounts /\ Pointers' = Pointers
    <2>1. heap[p] \in Object
      BY <1>1, ObjectTyped
    <2>2. heap' = heap \/ heap' = [heap EXCEPT ![p] = [heap[p] EXCEPT !.restored = FALSE]]
      BY DEF Admit
    <2>3. heap \in Seq(Object)
      BY DEF HeapOK
    <2>4. CASE heap' = heap
      BY <2>4 DEF SameIds, SameCounts, Pointers
    <2>5. CASE heap' = [heap EXCEPT ![p] = [heap[p] EXCEPT !.restored = FALSE]]
      <3>1. /\ Len(heap') = Len(heap)
            /\ \A q \in Pointers : heap'[q] = IF q = p THEN [heap[p] EXCEPT !.restored = FALSE]
                                              ELSE heap[q]
        BY <1>1, <2>3, <2>5 DEF Pointers
      <3> QED BY <2>1, <3>1 DEF SameIds, SameCounts, Pointers, Object
    <2> QED BY <2>2, <2>4, <2>5
  <1>3. CountOK'
    BY <1>2 DEF CountOK, SameCounts
  <1>4. rec'.queue = rec.queue \ {p} /\ rec'.obj \in {p, Nil}
    BY <1>1 DEF Admit, RecOK
  <1>5. FreshOK'
    <2>1. rec'.queue \subseteq Taken \cup {Nil} /\ rec'.obj \in Taken \cup {Nil}
      BY <1>1, <1>4, TakenHas
    <2>2. Taken' \subseteq Taken \cup {Nil}
      BY <1>1, <2>1, TakenHas, TakenGoes
    <2> QED BY <1>1, <1>2, <2>2, FreshKept DEF SameCounts
  <1>6. \A q \in Pointers : Latest(q)' <=> Latest(q)
    <2> SUFFICES ASSUME NEW q \in Pointers PROVE Latest(q)' <=> Latest(q)
      OBVIOUS
    <2>1. heap'[q].id = heap[q].id /\ heap[q].id \in Ids
      BY <1>2, ObjectTyped DEF SameIds, Object
    <2>2. Runs(heap[q].id)' <=> Runs(heap[q].id)
      BY <1>1, <1>2, <2>1 DEF Runs, SameCounts, StoreOK
    <2> QED BY <1>1, <2>1, <2>2 DEF Latest, Runs
  <1>7. rec.queue \subseteq Pointers
    BY DEF RecOK
  <1>8. CASE Admitted(heap[p])
    <2>1. rec'.pc = "persist" /\ rec'.obj = p /\ grant' = Granted
      BY <1>8 DEF Admit
    <2>2. PassOK'
      BY <1>1, <1>2, <1>4, <1>7, <2>1 DEF PassOK, SameIds
    <2>3. SeenOK'
      <3>1. grant'.stale = grant.stale
        BY <2>1 DEF Granted
      <3> QED BY <1>1, <1>4, <1>6, <1>7, <2>1, <3>1 DEF SeenOK
    <2>4. LoadOK'
      BY <1>1, <1>2, <1>8, <2>1, AdmittedLoad
    <2> QED BY <1>3, <1>5, <2>2, <2>3, <2>4
  <1>9. CASE ~Admitted(heap[p])
    <2>1. rec'.pc = "next" /\ rec'.obj = Nil /\ UNCHANGED <<heap, grant>>
      BY <1>1, <1>9 DEF Admit, RecOK
    <2>2. PassOK'
      BY <1>1, <1>4, <2>1 DEF PassOK
    <2>3. SeenOK'
      BY <1>4, <1>6, <1>7, <2>1 DEF SeenOK
    <2>4. LoadOK'
      <3>1. Load' = Load /\ Own' = Own
        BY <1>1, <2>1 DEF Load, Others, Runs, Own
      <3> QED BY <2>1, <3>1 DEF LoadOK
    <2> QED BY <1>3, <1>5, <2>2, <2>3, <2>4
  <1> QED BY <1>8, <1>9

(* The loop goes on with its object, which it may write back: the IDs of   *)
(* the other objects it has seen, and the load beside it, stay.            *)
LEMMA StepQuota ==
    ASSUME QuotaInv, IInv', rec.pc # "next", NEW pc, pc # "next", Step(pc),
           SameObjects, SameCounts, StoreUpdate(rec.obj) \/ store' = store,
           UNCHANGED <<req, grant, scaler>>
    PROVE  QuotaInv'
  <1> USE DEF QuotaInv, IInv
  <1>0. PICK p, c : p = rec.obj /\ c = heap[p].id
    OBVIOUS
  <1>1. p \in Pointers /\ c \in Ids /\ p \in Taken
    BY <1>0, ObjectTyped, TakenHas DEF RecOK, Object
  <1>2. rec'.pc # "next" /\ rec'.obj = p /\ rec'.queue = rec.queue
    BY <1>0 DEF Step, RecOK
  <1>3. \A id \in Ids : store'[id] = store[id] \/ (id = c /\ store'[id] = p)
    BY <1>0, <1>1 DEF StoreUpdate, StoreOK
  <1>4. \A q \in Pointers : heap'[q].id = heap[q].id
    BY DEF SameObjects
  <1>5. rec.queue \subseteq Pointers /\ p # Nil
    BY <1>1 DEF RecOK, Pointers, HeapOK, Nil
  <1>6. CountOK'
    BY CountsKept
  <1>7. PassOK'
    BY <1>0, <1>1, <1>2, <1>4, <1>5 DEF PassOK
  <1>8. FreshOK'
    <2>1. \A id \in Ids : store'[id] \in Taken \cup {Nil}
      BY <1>1, <1>3, TakenHas
    <2>2. Taken' \subseteq Taken \cup {Nil}
      <3>1. /\ rec'.queue \subseteq Taken \cup {Nil} /\ rec'.obj \in Taken \cup {Nil}
            /\ scaler'.queue \subseteq Taken \cup {Nil} /\ scaler'.obj \in Taken \cup {Nil}
        BY <1>1, <1>2, TakenHas
      <3>2. \A h \in Handlers : req'[h].pc # "update" => req'[h].obj \in Taken \cup {Nil}
        BY TakenHas
      <3> QED BY <2>1, <3>1, <3>2, TakenGoes
    <2> QED BY <2>2, FreshKept DEF SameCounts
  <1>9. ASSUME NEW id \in Ids, id # c, Runs(id)'
        PROVE  /\ store'[id] = store[id] /\ Runs(id)
               /\ heap'[store'[id]].replicas = heap[store[id]].replicas
    <2>1. store'[id] = store[id] /\ store[id] \in Pointers
      BY <1>3, <1>9 DEF Runs, StoreOK
    <2> QED BY <1>9, <2>1 DEF Runs, SameCounts
  <1>10. SeenOK'
    <2>1. ASSUME NEW q \in rec.queue, Latest(q) PROVE Latest(q)'
      <3>1. q \in Pointers /\ heap'[q].id = heap[q].id /\ heap[q].id \in Ids /\ heap[q].id # c
        BY <1>0, <1>4, <1>5, ObjectTyped DEF Object, PassOK
      <3>2. CASE Runs(heap[q].id)'
        BY <1>9, <2>1, <3>1, <3>2 DEF Latest
      <3>3. CASE ~Runs(heap[q].id)'
        BY <3>1, <3>3 DEF Latest, Runs
      <3> QED BY <3>2, <3>3
    <2>2. ASSUME Latest(p) PROVE Latest(p)'
      <3>1. heap'[p].id = c /\ heap[p].id = c
        BY <1>0, <1>1, <1>4
      <3>2. CASE store'[c] = p
        BY <3>1, <3>2 DEF Latest
      <3>3. CASE store'[c] = store[c]
        <4>1. store[c] \in Pointers \cup {Nil}
          BY <1>1 DEF StoreOK
        <4> QED BY <2>2, <3>1, <3>3, <4>1 DEF Latest, Runs, SameCounts
      <3> QED BY <1>1, <1>3, <3>2, <3>3
    <2> QED BY <1>0, <1>2, <1>5, <2>1, <2>2 DEF SeenOK
  <1>11. LoadOK'
    <2>1. /\ heap'[p].id = heap[p].id /\ heap'[p].replicas = heap[p].replicas
          /\ grant'.limit = grant.limit /\ grant'.added = grant.added
          /\ grant'.stale = grant.stale
      BY <1>1, <1>4 DEF SameCounts
    <2>2. Own' = Own
      BY <1>0, <1>2, <1>5, <2>1 DEF Own
    <2>3. \A id \in Others' :
             id \in Others /\ heap'[store'[id]].replicas = heap[store[id]].replicas
      BY <1>0, <1>2, <1>5, <1>9, <2>1 DEF Others
    <2> QED BY <1>6, <2>1, <2>2, <2>3, LoadShrinks
  <1> QED BY <1>6, <1>7, <1>8, <1>10, <1>11

(* The end of a pass, with or without the phase Running: the workload of   *)
(* the pass is counted among those that run from now on.                   *)
LEMMA PassEndsQuota ==
    ASSUME QuotaInv, IInv', rec.pc # "next", PassEnds, SameObjects,
           \A q \in Pointers : heap'[q].replicas = heap[q].replicas,
           \A q \in Pointers \ {rec.obj} : heap'[q].phase = heap[q].phase,
           StoreUpdate(rec.obj) \/ store' = store,
           heap' = heap \/ StoreUpdate(rec.obj),
           UNCHANGED <<req, grant, scaler>>
    PROVE  QuotaInv'
  <1> USE DEF QuotaInv, IInv
  <1>0. PICK p, c : p = rec.obj /\ c = heap[p].id
    OBVIOUS
  <1>1. p \in Pointers /\ c \in Ids /\ p \in Taken
    BY <1>0, ObjectTyped, TakenHas DEF RecOK, Object
  <1>2. rec'.pc = "next" /\ rec'.obj = Nil /\ rec'.queue = rec.queue
    BY DEF PassEnds
  <1>3. \A id \in Ids : store'[id] = store[id] \/ (id = c /\ store'[id] = p)
    BY <1>0, <1>1 DEF StoreUpdate, StoreOK
  <1>4. Pointers' = Pointers /\ \A q \in Pointers : heap'[q].id = heap[q].id
    BY PointersKept DEF SameObjects
  <1>5. rec.queue \subseteq Pointers /\ p # Nil
    BY <1>1 DEF RecOK, Pointers, HeapOK, Nil
  <1>6. CountOK'
    BY <1>4 DEF CountOK
  <1>7. PassOK'
    BY <1>2, <1>4, <1>5 DEF PassOK
  <1>8. FreshOK'
    <2>1. \A id \in Ids : store'[id] \in Taken \cup {Nil}
      BY <1>1, <1>3, TakenHas
    <2>2. Taken' \subseteq Taken \cup {Nil}
      <3>1. /\ rec'.queue \subseteq Taken \cup {Nil} /\ rec'.obj \in Taken \cup {Nil}
            /\ scaler'.queue \subseteq Taken \cup {Nil} /\ scaler'.obj \in Taken \cup {Nil}
        BY <1>2, TakenHas
      <3>2. \A h \in Handlers : req'[h].pc # "update" => req'[h].obj \in Taken \cup {Nil}
        BY TakenHas
      <3> QED BY <2>1, <3>1, <3>2, TakenGoes
    <2>3. \A q \in Pointers \ Taken : heap'[q].phase = heap[q].phase
      BY <1>0, <1>1
    <2> QED BY <2>2, <2>3, FreshKept
  <1>9. SeenOK'
    <2> SUFFICES ASSUME ~grant'.stale, NEW q \in rec.queue PROVE Latest(q)'
      BY <1>2 DEF SeenOK
    <2>1. q \in Pointers /\ heap'[q].id = heap[q].id /\ heap[q].id \in Ids /\ heap[q].id # c
      BY <1>0, <1>4, <1>5, ObjectTyped DEF Object, PassOK
    <2>2. Latest(q)
      BY <1>2 DEF SeenOK
    <2>3. store'[heap[q].id] = store[heap[q].id]
      BY <1>3, <2>1
    <2>4. Runs(heap[q].id)' => Runs(heap[q].id)
      <3>1. store[heap[q].id] # Nil =>
               store[heap[q].id] \in Pointers /\ heap[store[heap[q].id]].id = heap[q].id
        BY <2>1 DEF StoreOK
      <3>2. store[heap[q].id] # Nil =>
               heap'[store[heap[q].id]].phase = heap[store[heap[q].id]].phase
        BY <1>0, <2>1, <3>1
      <3> QED BY <2>1, <2>3, <3>2 DEF Runs
    <2> QED BY <2>1, <2>2, <2>3, <2>4 DEF Latest, Runs
  <1>10. LoadOK'
    <2> SUFFICES ASSUME ~grant.stale, grant.limit > 0
                 PROVE  Load' + Own' <= grant.limit + grant.added
      BY DEF LoadOK
    <2>1. Own = heap[p].replicas /\ Own' = 0 /\ Own \in Nat
      BY <1>0, <1>2, <1>5, OwnTyped DEF Own
    <2>2. c \in Others' => heap'[store'[c]].replicas = Own
      <3> SUFFICES ASSUME c \in Others' PROVE store'[c] = p
        BY <1>1, <2>1
      <3>1. Runs(c)' /\ store'[c] # Nil
        BY DEF Others, Runs
      <3>2. CASE StoreUpdate(p)
        BY <1>0, <1>1, <3>1, <3>2 DEF StoreUpdate, StoreOK
      <3>3. CASE heap' = heap /\ store' = store
        <4>1. Runs(c)
          BY <3>1, <3>3 DEF Runs
        <4> QED BY <1>0, <1>5, <3>3, <4>1 DEF SeenOK, Latest
      <3> QED BY <1>0, <3>2, <3>3
    <2>3. ASSUME NEW id \in Others' \ {c}
          PROVE  id \in Others /\ heap'[store'[id]].replicas = heap[store[id]].replicas
      <3>1. id \in Ids /\ Runs(id)' /\ store'[id] = store[id]
        BY <1>3, <2>3 DEF Others
      <3>2. store[id] \in Pointers /\ heap[store[id]].id = id
        BY <3>1 DEF Runs, StoreOK
      <3>3. store[id] # p
        BY <1>0, <3>2
      <3>4. Runs(id)
        BY <1>0, <3>1, <3>2, <3>3 DEF Runs
      <3> QED BY <1>0, <3>1, <3>2, <3>4 DEF Others
    <2>4. /\ Others' \in SUBSET {id \in Ids : store'[id] # Nil}
          /\ Load' = SumRequests(CountsOf(heap', store', Others'))
      BY OthersStored
    <2>5. SumRequests(CountsOf(heap', store', Others')) <= Load + Own
      BY <1>6, <2>1, <2>2, <2>3, <2>4, LoadWith
    <2>6. Load \in Int /\ Load' \in Int
      BY <1>6, OthersStored, CountsNow, CountsNext
    <2>7. Load + Own <= grant.limit + grant.added
      BY DEF LoadOK
    <2>8. grant.limit \in Nat /\ grant.added \in Nat
      BY DEF RestOK
    <2> QED BY <2>1, <2>4, <2>5, <2>6, <2>7, <2>8
  <1> QED BY <1>6, <1>7, <1>8, <1>9, <1>10

LEMMA PostScheduleQuota ==
    ASSUME QuotaInv, IInv', PostSchedule
    PROVE  QuotaInv'
  <1> USE DEF QuotaInv, IInv
  <1> DEFINE p == rec.obj
             o == [heap[p] EXCEPT !.phase = "Running"]
  <1>1. /\ rec.pc = "finish" /\ heap' = [heap EXCEPT ![p] = o] /\ StoreUpdate(p) /\ PassEnds
        /\ UNCHANGED <<req, grant, scaler>>
    BY DEF PostSchedule, aside, quotaVars, scalerVars
  <1>2. p \in Pointers
    BY <1>1 DEF RecOK
  <1>3. heap[p] \in Object
    BY <1>2, ObjectTyped
  <1>4. /\ o \in Object /\ o.id = heap[p].id /\ o.spec = heap[p].spec
        /\ o.restored = heap[p].restored
        /\ o.replicas = heap[p].replicas
    BY <1>3 DEF Object
  <1> HIDE DEF o
  <1>5. SameObjects /\ heap'[p] = o /\ \A q \in Pointers \ {p} : heap'[q] = heap[q]
    BY <1>1, <1>2, <1>4, SetObject
  <1> QED BY <1>1, <1>4, <1>5, PassEndsQuota

LEMMA NoRolloutQuota ==
    ASSUME QuotaInv, IInv', NoRollout
    PROVE  QuotaInv'
  <1> USE DEF QuotaInv, IInv
  <1>1. rec.pc = "route" /\ PassEnds /\ UNCHANGED <<heap, store, req, grant, scaler>>
    BY DEF NoRollout, aside, quotaVars, scalerVars
  <1>2. SameObjects
    BY <1>1, HeapUnchanged
  <1> QED BY <1>1, <1>2, PassEndsQuota

(* The steps between the two.                                              *)
LEMMA WithinQuota ==
    ASSUME QuotaInv, IInv',
           \/ Persist \/ ClearPending \/ Rollout \/ RestartFails
           \/ \E redeploys \in BOOLEAN : Secrets(redeploys)
    PROVE  QuotaInv'
  <1> USE DEF QuotaInv, IInv
  <1>1. /\ rec.pc # "next" /\ UNCHANGED <<req, grant, scaler>>
        /\ StoreUpdate(rec.obj) \/ store' = store
    BY DEF Persist, ClearPending, Rollout, RestartFails, Secrets, aside, quotaVars, scalerVars
  <1>2. rec.obj \in Pointers
    BY <1>1 DEF RecOK
  <1>3. \/ heap' = heap
        \/ heap' = [heap EXCEPT ![rec.obj].owed = "no"]
        \/ heap' = [heap EXCEPT ![rec.obj].pending = FALSE]
    BY DEF Persist, ClearPending, Rollout, RestartFails, Secrets, RollingRestart
  <1>4. Step("secrets") \/ Step("clear") \/ Step("route") \/ Step("finish")
    BY DEF Persist, ClearPending, Rollout, RestartFails, Secrets
  <1>5. SameObjects /\ SameCounts
    <2>1. CASE heap' = heap
      BY <2>1, HeapUnchanged DEF SameCounts
    <2> QED BY <1>2, <1>3, <2>1, RestartCounts
  <1>6. PICK pc : pc # "next" /\ Step(pc)
    BY <1>4
  <1> QED BY <1>1, <1>5, <1>6, StepQuota

(***************************************************************************)
(* The invariant is inductive.                                             *)
(***************************************************************************)
LEMMA InitQuota == Init => QuotaInv
  <1> SUFFICES ASSUME Init PROVE QuotaInv
    OBVIOUS
  <1>1. IInv
    BY InitIInv
  <1>2. heap = <<>> /\ Pointers = {} /\ rec.pc = "next" /\ rec.queue = {} /\ rec.obj = Nil
    BY DEF Init, Between, Pointers
  <1>3. \A h \in Handlers : req[h].pc = "idle"
    BY DEF Init, Idle
  <1>4. grant.limit = 0
    BY DEF Init, NoGrant
  <1> QED BY <1>1, <1>2, <1>3, <1>4 DEF QuotaInv, CountOK, PassOK, FreshOK, SeenOK, LoadOK

(* The autoscaler chooses no negative count.                               *)
LEMMA ToNext ==
    ASSUME NonNegative, IInv, CountOK, ToCount, Autoscaler
    PROVE  ToCount'
  <1>1. ASSUME NEW p \in scaler.queue, NEW n \in Replicas(heap[p]), Evaluate(p, n)
        PROVE  ToCount'
    <2> DEFINE old == heap[p].replicas
               t == Text[heap[p].spec].scaling
    <2>1. p \in Pointers /\ heap[p] \in Object
      BY ObjectTyped DEF IInv, ScalerOK
    <2>2. old \in Nat /\ heap[p].spec \in Specs
      BY <2>1 DEF Object, CountOK
    <2>3. /\ t \in [enabled : BOOLEAN, min : Int, max : Int,
                    cpu : BOOLEAN, memory : BOOLEAN, custom : BOOLEAN]
          /\ t.min >= 0
      BY <2>2, Constants DEF SpecText, NonNegative
    <2>4. n >= 0
      <3>1. CASE n = old
        BY <2>2, <3>1
      <3>2. CASE n # old
        <4>1. PICK m \in Metrics : n = evaluateScaling(t, old, m)
          BY <3>2 DEF Replicas
        <4> QED BY <2>2, <2>3, <4>1, ScalingBounded
      <3> QED BY <3>1, <3>2
    <2> QED BY <1>1, <2>4 DEF Evaluate, ToCount, IInv, ScalerOK
  <1>2. CASE ScaleRound \/ Scale \/ ScaleWorkload
    <2>1. CASE ScaleRound
      BY <2>1 DEF ScaleRound, NotScaling, ToCount
    <2>2. scaler \in [pc : ScalerSteps, queue : SUBSET Pointers, obj : Pointers \cup {Nil}, to : Int]
      BY DEF IInv, ScalerOK
    <2>3. CASE Scale
      BY <2>2, <2>3 DEF Scale, ToCount
    <2>4. CASE ScaleWorkload
      BY <2>2, <2>4 DEF ScaleWorkload, ToCount
    <2> QED BY <1>2, <2>1, <2>3, <2>4
  <1> QED BY <1>1, <1>2 DEF Autoscaler

LEMMA NextCounts ==
    NonNegative /\ IInv /\ KeptOK /\ CountOK /\ KeptCount /\ ToCount /\ [Next]_vars
       => KeptCount' /\ ToCount'
  <1> SUFFICES ASSUME NonNegative, IInv, KeptOK, CountOK, KeptCount, ToCount, [Next]_vars
               PROVE  KeptCount' /\ ToCount'
    OBVIOUS
  <1>1. KeptCount'
    <2>1. Gains
      BY NextGains
    <2>2. ASSUME NEW rev, Taking(rev) PROVE rev.replicas >= 0
      BY <2>2 DEF Taking, snapshotRevision, CountOK, NonNegative
    <2>3. CASE kept' = kept
      BY <2>3 DEF KeptCount
    <2>4. ASSUME NEW p, NEW R, kept' = [kept EXCEPT ![p] = R],
                 \A rev \in R : rev \in kept[p] \/ Taking(rev)
          PROVE  KeptCount'
      <3> SUFFICES ASSUME NEW q \in 1 .. MaxObjects, NEW rev \in kept'[q]
                   PROVE  rev.replicas >= 0
        BY DEF KeptCount
      <3>1. CASE q = p
        <4>1. rev \in R
          BY <2>4, <3>1 DEF KeptOK
        <4> QED BY <2>2, <2>4, <3>1, <4>1 DEF KeptCount
      <3>2. CASE q # p
        BY <2>4, <3>2 DEF KeptOK, KeptCount
      <3> QED BY <3>1, <3>2
    <2> QED BY <2>1, <2>3, <2>4 DEF Gains
  <1>2. ToCount'
    <2>1. CASE Autoscaler
      BY <2>1, ToNext
    <2>2. CASE scaler' = scaler
      BY <2>2 DEF ToCount
    <2>3. Autoscaler \/ scaler' = scaler
      <3>1. ASSUME NEW h \in Handlers, Handle(h) PROVE scaler' = scaler
        BY <3>1 DEF Handle, DeployUpdate, RestartClear, RotateMark, RotateSave, RollbackSave,
                    aside, scalerVars
      <3>2. CASE Loop
        BY <3>2 DEF Loop, List, Admit, Persist, Secrets, RestartFails, ClearPending, Rollout,
                    NoRollout, PostSchedule, aside, scalerVars
      <3>3. ASSUME NEW h \in Handlers,
                   \/ HandleCreateWorkload(h) \/ HandleDeleteWorkload(h)
                   \/ HandleRollbackWorkload(h) \/ HandleRestartWorkload(h)
                   \/ HandleSecretRotated(h) \/ HandleQuota(h)
            PROVE  scaler' = scaler
        BY <3>3 DEF HandleCreateWorkload, DeployCreate, HandleDeleteWorkload, Delete,
                    HandleRollbackWorkload, Rollback, HandleRestartWorkload, RestartIssue,
                    HandleSecretRotated, RotateObserve, HandleQuota, PutQuota, DeleteQuota,
                    aside, scalerVars
      <3>4. CASE UNCHANGED vars
        BY <3>4 DEF vars, aside, scalerVars
      <3> QED BY <3>1, <3>2, <3>3, <3>4 DEF Next
    <2> QED BY <2>1, <2>2, <2>3
  <1> QED BY <1>1, <1>2

LEMMA NextQuota ==
    NonNegative /\ QuotaInv /\ KeptOK /\ KeptCount /\ ToCount /\ [Next]_vars => QuotaInv'
  <1> SUFFICES ASSUME NonNegative, QuotaInv, KeptOK, KeptCount, ToCount, [Next]_vars
               PROVE  QuotaInv'
    OBVIOUS
  <1> USE DEF QuotaInv
  <1>0. IInv'
    BY NextIInv
  <1> HIDE DEF QuotaInv
  <1>1. ASSUME NEW h \in Handlers, HandleCreateWorkload(h) PROVE QuotaInv'
    BY <1>0, <1>1, DeployCreateQuota DEF HandleCreateWorkload
  <1>2. ASSUME NEW h \in Handlers, HandleDeleteWorkload(h) PROVE QuotaInv'
    BY <1>0, <1>2, DeleteKeepsQuota DEF HandleDeleteWorkload
  <1>3. ASSUME NEW h \in Handlers, HandleRestartWorkload(h) PROVE QuotaInv'
    BY <1>0, <1>3, RestartIssueQuota DEF HandleRestartWorkload
  <1>4. ASSUME NEW h \in Handlers, HandleSecretRotated(h) PROVE QuotaInv'
    BY <1>0, <1>4, RotateObserveQuota DEF HandleSecretRotated
  <1>5. ASSUME NEW h \in Handlers, HandleQuota(h) PROVE QuotaInv'
    <2>1. UNCHANGED <<heap, store, rec, req, grant, scaler>>
      BY <1>5 DEF HandleQuota, PutQuota, DeleteQuota, scalerVars
    <2> QED BY <1>0, <2>1, LimitsQuota
  <1>6. CASE Autoscaler
    BY <1>0, <1>6, ScalingQuota, ScaleQuota, ScaleWorkloadQuota DEF Autoscaler
  <1>7. ASSUME NEW h \in Handlers, Handle(h) PROVE QuotaInv'
    BY <1>0, <1>7, DeployUpdateQuota, RestartClearQuota, RotateMarkQuota, RotateSaveQuota,
       RollbackSaveQuota DEF Handle
  <1>8. CASE Loop
    BY <1>0, <1>8, ListQuota, AdmitQuota, WithinQuota, NoRolloutQuota, PostScheduleQuota DEF Loop
  <1>9. CASE UNCHANGED vars
    <2>1. UNCHANGED <<heap, store, rec, req, grant, scaler>>
      BY <1>9 DEF vars, aside, quotaVars, scalerVars
    <2> QED BY <1>0, <2>1, LimitsQuota
  <1>10. ASSUME NEW h \in Handlers, HandleRollbackWorkload(h) PROVE QuotaInv'
    BY <1>0, <1>10, RollbackQuota DEF HandleRollbackWorkload
  <1> QED BY <1>1, <1>2, <1>3, <1>4, <1>5, <1>6, <1>7, <1>8, <1>9, <1>10 DEF Next

(* resourcequota.Enforce is asked at the start of reconcileOne only, and   *)
(* of all stored workloads.  From then on, through postSchedule and until  *)
(* the next admission, clients may deploy, replace and delete any number   *)
(* of workloads: what runs stays within the limit, but for the replicas    *)
(* that the autoscaler and rollbacks add and the objects that a restart, a *)
(* rotation, a rollback or the autoscaler brings back.                     *)
THEOREM QuotaHolds == NonNegative => (Spec => []RunningWithinQuota)
  <1> SUFFICES ASSUME NonNegative PROVE Spec => []RunningWithinQuota
    OBVIOUS
  <1> DEFINE Inv == QuotaInv /\ KeptOK /\ KeptCount /\ ToCount
  <1>1. Inv /\ [Next]_vars => Inv'
    <2> SUFFICES ASSUME Inv, [Next]_vars PROVE Inv'
      OBVIOUS
    <2>1. IInv /\ CountOK
      BY DEF QuotaInv
    <2> QED BY <2>1, NextQuota, NextCounts, NextKept
  <1>2. Init => Inv
    <2> SUFFICES ASSUME Init PROVE Inv
      OBVIOUS
    <2>1. KeptOK /\ KeptCount /\ ToCount
      BY DEF Init, KeptOK, KeptCount, ToCount, NotScaling
    <2> QED BY <2>1, InitQuota
  <1>3. Inv => RunningWithinQuota
    BY QuotaParts
  <1> HIDE DEF Inv
  <1> QED BY <1>1, <1>2, <1>3, PTL DEF Spec
================================================================================
