------------------------------- MODULE EventLog -------------------------------
(***************************************************************************)
(* The event sourcing store (internal/eventsourcing/store.go) as the       *)
(* memory store (internal/state/store.go) feeds it, for one aggregate,     *)
(* that is, one workload ID.                                               *)
(*                                                                         *)
(* MemoryStore appends to the log under its own lock, so one action is one *)
(* store operation with its event.  Workloads are objects: heap holds the  *)
(* spec each one has NOW, a pointer is an index of it.  A holder (reconcile*)
(* loop, rollback, autoscaler) takes the stored pointer and changes the    *)
(* spec through it; a rollback and the autoscaler then call Update, a      *)
(* reconcile pass calls it or not.                                         *)
(*                                                                         *)
(* A client reads the log page by page (GET .../events?from_version=) and  *)
(* may subscribe to it.                                                    *)
(***************************************************************************)
EXTENDS Integers, SequencesExt

CONSTANTS
    WorkloadSpecs, \* specs of the workload
    MaxEventAge,   \* in ticks; 0 or less switches the cleanup off
    Buffer,        \* capacity of a subscription channel (100 in the code)
    Limits,        \* the limits that a client asks with; 0 or less: no limit
    MaxEvents,     \* bound: events appended in a behaviour
    MaxTime        \* bound: clock ticks in a behaviour

ASSUME EventLogAssumption ==
    /\ MaxEventAge \in Int
    /\ Buffer \in Nat \ {0}
    /\ Limits \subseteq Int
    /\ MaxEvents \in Nat
    /\ MaxTime \in Nat

VARIABLES
    heap,      \* the specs of the objects allocated so far
    stored,    \* MemoryStore.workloads[id], Nil when absent
    taken,     \* the pointer the holder has
    edited,    \* the objects changed in place since they were allocated (history)
    unrecorded, \* those changed since an event last recorded their spec (history)
    dirty,     \* the holder changed the spec and has not called Update yet
    log,       \* Store.events[id]
    issued,    \* events appended so far (history)
    restarted, \* did the versions start again at 1? (history)
    now,       \* the clock
    client     \* the reader of the log

logVars == <<heap, stored, taken, edited, unrecorded, dirty, log, issued, restarted, now, client>>
storeVars == <<heap, stored, taken, edited, unrecorded, dirty>>

Nil == 0
Pointers == 1 .. Len(heap)
Kinds == {"created", "updated", "deleted", "other"}
StoreKinds == Kinds \ {"other"}

(* A types.DomainEvent.  new is the spec that its data holds by value, old *)
(* the pointer &oldWorkload.Spec of WorkloadUpdated; num counts the        *)
(* appends (history).                                                      *)
Event == [num : 1 .. MaxEvents, version : 1 .. MaxEvents, kind : Kinds, at : 0 .. MaxTime,
          new : WorkloadSpecs \cup {Nil}, old : 0 .. MaxEvents]

(* The client: the from_version of its next page, the events its pages had *)
(* and whether one came twice, its channel (off until Subscribe), what it  *)
(* received from it, whether an event found it full, and whether a read    *)
(* after Subscribe reached the end of a log that never restarted.          *)
Client == [from : 0 .. MaxEvents + 1, read : SUBSET (1 .. MaxEvents), twice : BOOLEAN,
           sub : BOOLEAN, chan : Seq(1 .. MaxEvents), got : SUBSET (1 .. MaxEvents),
           full : BOOLEAN, caughtUp : BOOLEAN]

LogTypeOK ==
    /\ heap \in Seq(WorkloadSpecs)
    /\ stored \in Pointers \cup {Nil}
    /\ taken \in Pointers \cup {Nil}
    /\ edited \subseteq Pointers
    /\ unrecorded \subseteq edited
    /\ dirty \in BOOLEAN
    /\ log \in Seq(Event)
    /\ \A i \in DOMAIN log : log[i].old \in Pointers \cup {Nil}
    /\ issued \in 0 .. MaxEvents
    /\ restarted \in BOOLEAN
    /\ now \in 0 .. MaxTime
    /\ client \in Client
    /\ Len(client.chan) <= Buffer

LogInit ==
    /\ heap = <<>>
    /\ stored = Nil
    /\ taken = Nil
    /\ edited = {}
    /\ unrecorded = {}
    /\ dirty = FALSE
    /\ log = <<>>
    /\ issued = 0
    /\ restarted = FALSE
    /\ now = 0
    /\ client = [from |-> 0, read |-> {}, twice |-> FALSE, sub |-> FALSE, chan |-> <<>>,
                 got |-> {}, full |-> FALSE, caughtUp |-> FALSE]

(***************************************************************************)
(* Append.  The version follows the last one in the log.                   *)
(***************************************************************************)

(* Mutant of NextVersion: one more than the number of events kept.         *)
NextVersionByLength == Len(log) + 1

NextVersion == IF log # <<>> THEN Last(log).version + 1 ELSE 1

(* Mutants of Notify: an unbounded queue takes the event in place of the   *)
(* channel; the first event of an aggregate is not announced.              *)
NotifyUnbounded(num) ==
    client' = IF client.sub THEN [client EXCEPT !.chan = Append(@, num)] ELSE client
NotifyKnown(num) ==
    client' = IF ~client.sub \/ log = <<>> THEN client
              ELSE IF Len(client.chan) < Buffer
              THEN [client EXCEPT !.chan = Append(@, num)]
              ELSE [client EXCEPT !.full = TRUE]

(* notifyWatchers: a full channel misses the event.                        *)
Notify(num) ==
    client' = IF ~client.sub THEN client
              ELSE IF Len(client.chan) < Buffer
              THEN [client EXCEPT !.chan = Append(@, num)]
              ELSE [client EXCEPT !.full = TRUE]

Record(kind, new, old) ==
    /\ issued < MaxEvents
    /\ issued' = issued + 1
    /\ log' = Append(log, [num |-> issued + 1, version |-> NextVersion, kind |-> kind,
                           at |-> now, new |-> new, old |-> old])
    /\ restarted' = (restarted \/ (log = <<>> /\ issued > 0))
    /\ Notify(issued + 1)
    /\ UNCHANGED now

(* The data of an event: a spec by value, and the address of the old one.  *)
RecordWorkloadCreated(spec) == Record("created", spec, Nil)
RecordWorkloadUpdated(spec, old) == Record("updated", spec, old)

(***************************************************************************)
(* MemoryStore.                                                            *)
(***************************************************************************)
Create(spec) ==
    /\ stored = Nil
    /\ heap' = Append(heap, spec)
    /\ stored' = Len(heap) + 1
    /\ RecordWorkloadCreated(spec)
    /\ UNCHANGED <<taken, edited, unrecorded, dirty>>

(* deployOne on an existing ID: Update with a new object.                  *)
Replace(spec) ==
    /\ stored # Nil
    /\ heap' = Append(heap, spec)
    /\ stored' = Len(heap) + 1
    /\ RecordWorkloadUpdated(spec, stored)
    /\ UNCHANGED <<taken, edited, unrecorded, dirty>>

Get ==
    /\ taken = Nil
    /\ stored # Nil
    /\ taken' = stored
    /\ UNCHANGED <<heap, stored, edited, unrecorded, dirty, log, issued, restarted, now, client>>

(* Revert or scaleWorkload, up to the call of Update.                      *)
Change(spec) ==
    /\ taken # Nil
    /\ heap' = [heap EXCEPT ![taken] = spec]
    /\ edited' = edited \cup {taken}
    /\ unrecorded' = unrecorded \cup {taken}
    /\ dirty' = TRUE
    /\ UNCHANGED <<stored, taken, log, issued, restarted, now, client>>

(* A reconcile pass: Validate fills in the default limits, an A/B rollout  *)
(* takes the winner's image over.                                          *)
Amend(spec) ==
    /\ taken # Nil
    /\ ~dirty
    /\ heap' = [heap EXCEPT ![taken] = spec]
    /\ edited' = edited \cup {taken}
    /\ unrecorded' = unrecorded \cup {taken}
    /\ UNCHANGED <<stored, taken, dirty, log, issued, restarted, now, client>>

(* reconcileOne returns without an Update: policy or quota rejects the     *)
(* workload, or its rollout fails.                                         *)
EndWithoutUpdate ==
    /\ taken # Nil
    /\ ~dirty
    /\ taken' = Nil
    /\ UNCHANGED <<heap, stored, edited, unrecorded, dirty, log, issued, restarted, now, client>>

(* Update with the taken pointer, changed or not.                          *)
Update ==
    /\ taken # Nil
    /\ stored # Nil
    /\ stored' = taken
    /\ taken' = Nil
    /\ dirty' = FALSE
    /\ unrecorded' = unrecorded \ {taken}
    /\ RecordWorkloadUpdated(heap[taken], stored)
    /\ UNCHANGED <<heap, edited>>

(* ErrWorkloadNotFound.                                                    *)
UpdateFails ==
    /\ taken # Nil
    /\ stored = Nil
    /\ taken' = Nil
    /\ dirty' = FALSE
    /\ UNCHANGED <<heap, stored, edited, unrecorded, log, issued, restarted, now, client>>

(* Mutant of StoreDelete: the event is not recorded.                       *)
StoreDeleteUnrecorded ==
    /\ stored # Nil
    /\ stored' = Nil
    /\ UNCHANGED <<heap, taken, edited, unrecorded, dirty, log, issued, restarted, now, client>>

StoreDelete ==
    /\ stored # Nil
    /\ stored' = Nil
    /\ Record("deleted", Nil, Nil)
    /\ UNCHANGED <<heap, taken, edited, unrecorded, dirty>>

(* RecordWorkloadRestarted, RecordSecretRotated and the other Record calls *)
(* that are not the store's.                                               *)
RecordOther ==
    /\ Record("other", Nil, Nil)
    /\ UNCHANGED storeVars

(* What a loop over the log collects: the events at the positions I, in    *)
(* their order.  The n-th is at the position that n of I do not exceed.    *)
Select(I) ==
    [n \in 1 .. Cardinality(I) |-> log[CHOOSE i \in I : Cardinality({j \in I : j <= i}) = n]]

(* CleanupOldEvents: only events younger than MaxEventAge stay.            *)
Cleanup ==
    /\ MaxEventAge > 0
    /\ log' = Select({i \in DOMAIN log : log[i].at + MaxEventAge > now})
    /\ UNCHANGED <<storeVars, issued, restarted, now, client>>

Tick ==
    /\ now < MaxTime
    /\ now' = now + 1
    /\ UNCHANGED <<storeVars, log, issued, restarted, client>>

(***************************************************************************)
(* The client.                                                             *)
(***************************************************************************)

(* Mutant of GetEvents: fromVersion is taken as exclusive.                 *)
GetEventsAfter(fromVersion, limit) ==
    LET from == Select({i \in DOMAIN log : log[i].version > fromVersion})
    IN IF limit > 0 /\ Len(from) > limit THEN SubSeq(from, 1, limit) ELSE from

GetEvents(fromVersion, limit) ==
    LET from == Select({i \in DOMAIN log : log[i].version >= fromVersion})
    IN IF limit > 0 /\ Len(from) > limit THEN SubSeq(from, 1, limit) ELSE from

(* The next page; without a limit, all the rest.                           *)
Read(limit) ==
    LET page == GetEvents(client.from, limit)
        nums == {page[i].num : i \in DOMAIN page}
    IN /\ client' = [client EXCEPT
                       !.from = IF page = <<>> THEN @ ELSE Last(page).version + 1,
                       !.read = @ \cup nums,
                       !.twice = @ \/ nums \cap client.read # {},
                       !.caughtUp = @ \/ (client.sub /\ limit <= 0 /\ ~restarted)]
       /\ UNCHANGED <<storeVars, log, issued, restarted, now>>

Subscribe ==
    /\ ~client.sub
    /\ client' = [client EXCEPT !.sub = TRUE]
    /\ UNCHANGED <<storeVars, log, issued, restarted, now>>

Receive ==
    /\ client.chan # <<>>
    /\ client' = [client EXCEPT !.chan = Tail(@), !.got = @ \cup {Head(client.chan)}]
    /\ UNCHANGED <<storeVars, log, issued, restarted, now>>

LogNext ==
    \/ \E spec \in WorkloadSpecs : Create(spec) \/ Replace(spec) \/ Change(spec) \/ Amend(spec)
    \/ Get
    \/ EndWithoutUpdate
    \/ Update
    \/ UpdateFails
    \/ StoreDelete
    \/ RecordOther
    \/ Cleanup
    \/ Tick
    \/ \E limit \in Limits : Read(limit)
    \/ Subscribe
    \/ Receive

LogSpec == LogInit /\ [][LogNext]_logVars

(***************************************************************************)
(* Properties.                                                             *)
(***************************************************************************)

(* What is kept of the log is one run of consecutive versions in the order *)
(* of time: clean-ups leave no hole and no version is given out twice      *)
(* among the events kept.                                                  *)
LogInOrder ==
    \A i \in 1 .. Len(log) - 1 :
        /\ log[i + 1].version = log[i].version + 1
        /\ log[i].at <= log[i + 1].at
        /\ log[i].num < log[i + 1].num

(* The log tells what the store holds: the last of the store's events in   *)
(* it is a deletion exactly when the workload is gone, and otherwise has   *)
(* its spec, unless the stored object was changed in place and no Update   *)
(* wrote it back since; an Update makes up for it, whoever's pointer it    *)
(* has.  And it tells how that came about: the old spec of an update is    *)
(* the one that the store's event before it left.  That needs an object    *)
(* nobody changed in place: old_spec is a pointer to it, so a change       *)
(* through a taken pointer rewrites events already recorded.               *)
LogTellsState ==
    LET told == {i \in DOMAIN log : log[i].kind \in StoreKinds} IN
    \A i \in told :
       /\ (\A j \in told : j <= i) =>
             /\ log[i].kind = "deleted" <=> stored = Nil
             /\ stored # Nil /\ stored \notin unrecorded => log[i].new = heap[stored]
       /\ \A j \in told :
             /\ j < i /\ \A k \in told : ~(j < k /\ k < i)
             /\ log[i].kind = "updated" /\ log[i].old \notin edited
             => heap[log[i].old] = log[j].new

(* A client that asks page after page, each from the version after the     *)
(* last it got, gets no event twice and skips none that is still kept,     *)
(* whatever is appended and cleaned up between two pages.  This needs      *)
(* versions that never restart: once a clean-up empties the log, Append    *)
(* numbers from 1 again and the client's from_version is stale.            *)
PagesExact ==
    ~restarted =>
       /\ ~client.twice
       /\ \A i \in DOMAIN log : log[i].version < client.from => log[i].num \in client.read

(* A client that first subscribes and then reads to the end of the log     *)
(* knows of every event kept, as long as its channel was never full:       *)
(* nothing falls between the read and the subscription.                    *)
NoGapAfterCatchUp ==
    client.caughtUp /\ ~client.full =>
       \A i \in DOMAIN log :
          log[i].num \in client.read \cup client.got \cup ToSet(client.chan)
==============================================================================
