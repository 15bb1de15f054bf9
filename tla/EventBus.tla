------------------------------- MODULE EventBus -------------------------------
(***************************************************************************)
(* internal/eventbus/eventbus.go for one event type.                       *)
(*                                                                         *)
(* The subscribers of a type are a slice: a pointer to an array and a      *)
(* length.  Publish and PublishAsync copy that header under the read lock  *)
(* and then go through the array with no lock, while Subscribe appends to  *)
(* the same array as long as its capacity lasts, and Unsubscribe moves its *)
(* elements down one by one and closes the channel.  A send on a closed    *)
(* channel panics and ends the process.                                    *)
(*                                                                         *)
(* What an event says is left out: a buffer is the number of its events.   *)
(***************************************************************************)
EXTENDS Integers, SequencesExt

CONSTANTS
    Publishers,  \* goroutines that call Publish
    Posters,     \* goroutines that call PublishAsync
    Writers,     \* goroutines that call Subscribe and Unsubscribe
    BufferSize,  \* event_bus.buffer_size
    MaxSubs,     \* bound: calls of Subscribe
    MaxUnsubs,   \* bound: calls of Unsubscribe
    MaxCalls     \* bound: calls of Publish and PublishAsync

ASSUME EventBusAssumption ==
    /\ BufferSize \in Nat \ {0}
    /\ {MaxSubs, MaxUnsubs, MaxCalls} \subseteq Nat
    /\ Publishers \cap Posters = {}
    /\ IsFiniteSet(Writers)

VARIABLES
    mem,     \* every backing array allocated
    list,    \* the slice header in the map: which array, how many elements
    made,    \* channels made so far, numbered in this order
    closed,  \* the closed ones
    buf,     \* events in the buffer of each channel
    writer,  \* the goroutines of Writers
    call,    \* the goroutines of Publishers and Posters
    crashed, \* the process has panicked
    unsubs, calls \* bounded by MaxUnsubs and MaxCalls

bus == <<mem, list, made, closed>>
vars == <<bus, buf, writer, call, crashed, unsubs, calls>>

Procs == Publishers \cup Posters
Channels == 1 .. MaxSubs
None == 0

NoCall == [pc |-> "idle", arr |-> 0, len |-> 0, pos |-> 0, ch |-> None,
           cancelled |-> FALSE, snap |-> <<>>, sent |-> <<>>, safe |-> 0]
NoWrite == [pc |-> "idle", ch |-> None, at |-> 0]

IsCall(c) ==
    /\ c.pc \in {"idle", "rlock", "copied", "loop", "select"}
    /\ c.arr \in 0 .. Len(mem)
    /\ c.len \in 0 .. MaxSubs
    /\ c.pos \in 0 .. c.len + 1
    /\ c.ch \in Channels \cup {None}
    /\ c.cancelled \in BOOLEAN
    /\ c.snap \in Seq(Channels) /\ c.sent \in Seq(Channels)
    /\ c.safe \in 0 .. MaxSubs

TypeOK ==
    /\ \A a \in DOMAIN mem : mem[a] \in Seq(Channels \cup {None})
    /\ list.arr \in 0 .. Len(mem) /\ list.len \in 0 .. MaxSubs
    /\ made \in 0 .. MaxSubs
    /\ closed \subseteq 1 .. made
    /\ buf \in [Channels -> 0 .. BufferSize]
    /\ writer \in [Writers -> [pc : {"idle", "subscribe", "unsubscribe", "shift"},
                               ch : Channels \cup {None}, at : 0 .. MaxSubs]]
    /\ \A p \in Procs : IsCall(call[p])
    /\ crashed \in BOOLEAN
    /\ unsubs \in 0 .. MaxUnsubs
    /\ calls \in 0 .. MaxCalls

(* New: no subscriber, a nil slice.                                        *)
Init ==
    /\ mem = <<>>
    /\ list = [arr |-> 0, len |-> 0]
    /\ made = 0
    /\ closed = {}
    /\ buf = [ch \in Channels |-> 0]
    /\ writer = [w \in Writers |-> NoWrite]
    /\ call = [p \in Procs |-> NoCall]
    /\ crashed = FALSE
    /\ unsubs = 0
    /\ calls = 0

Cap == IF list.arr = 0 THEN 0 ELSE Len(mem[list.arr])

(* The channels in the map's slice.                                        *)
Listed == [i \in 1 .. list.len |-> mem[list.arr][i]]

(***************************************************************************)
(* The lock: a writer keeps readers and writers out, and one that waits    *)
(* keeps new readers out.                                                  *)
(***************************************************************************)
Writing == \E w \in Writers : writer[w].pc = "shift"
WriterWaits == \E w \in Writers : writer[w].pc \in {"subscribe", "unsubscribe"}

(* Mutant of Readers: the read lock is kept until the call returns.        *)
ReadersDuringSend == {p \in Procs : call[p].pc \notin {"idle", "rlock"}}

Readers == {p \in Procs : call[p].pc = "copied"}

MayWrite == ~Writing /\ Readers = {}
MayRead == ~Writing /\ ~WriterWaits

(***************************************************************************)
(* Subscribe and Unsubscribe.                                              *)
(***************************************************************************)
CallSubscribe(w) ==
    /\ writer[w].pc = "idle"
    /\ made + Cardinality({v \in Writers : writer[v].pc = "subscribe"}) < MaxSubs
    /\ writer' = [writer EXCEPT ![w].pc = "subscribe"]
    /\ UNCHANGED <<bus, buf, call, crashed, unsubs, calls>>

CallUnsubscribe(w, ch) ==
    /\ writer[w].pc = "idle"
    /\ ch \in 1 .. made
    /\ unsubs < MaxUnsubs
    /\ unsubs' = unsubs + 1
    /\ writer' = [writer EXCEPT ![w] = [pc |-> "unsubscribe", ch |-> ch, at |-> 0]]
    /\ UNCHANGED <<bus, buf, call, crashed, calls>>

(* Go's append: the array doubles when it is full.                         *)
NewCap == IF list.len = 0 THEN 1 ELSE 2 * list.len
Grown(ch) ==
    [i \in 1 .. NewCap |->
       IF i <= list.len THEN mem[list.arr][i] ELSE IF i = list.len + 1 THEN ch ELSE None]

(* Mutant of AppendChannel: the element after the last is the last.        *)
AppendOverLast(ch) ==
    IF list.len > 0
    THEN /\ mem' = [mem EXCEPT ![list.arr][list.len] = ch]
         /\ UNCHANGED list
    ELSE /\ mem' = Append(mem, Grown(ch))
         /\ list' = [arr |-> Len(mem) + 1, len |-> 1]

AppendChannel(ch) ==
    IF list.len < Cap
    THEN /\ mem' = [mem EXCEPT ![list.arr][list.len + 1] = ch]
         /\ list' = [list EXCEPT !.len = @ + 1]
    ELSE /\ mem' = Append(mem, Grown(ch))
         /\ list' = [arr |-> Len(mem) + 1, len |-> list.len + 1]

Subscribe(w) ==
    /\ writer[w].pc = "subscribe"
    /\ MayWrite
    /\ made' = made + 1
    /\ AppendChannel(made + 1)
    /\ writer' = [writer EXCEPT ![w] = NoWrite]
    /\ UNCHANGED <<closed, buf, call, crashed, unsubs, calls>>

(* Unsubscribe looks the channel up; one that is not listed is no error.   *)
(* (safe: of the calls under way, the positions before i stay as they      *)
(* were.)                                                                  *)
Lookup(w) ==
    LET ch == writer[w].ch
        found == ch \in ToSet(Listed)
        i == CHOOSE j \in 1 .. list.len : Listed[j] = ch
    IN /\ writer[w].pc = "unsubscribe"
       /\ MayWrite
       /\ writer' = [writer EXCEPT ![w] =
                       IF found THEN [pc |-> "shift", ch |-> ch, at |-> i] ELSE NoWrite]
       /\ call' = [p \in Procs |->
                     IF found /\ call[p].arr = list.arr /\ call[p].safe >= i
                     THEN [call[p] EXCEPT !.safe = i - 1] ELSE call[p]]
       /\ UNCHANGED <<bus, buf, crashed, unsubs, calls>>

(* append(channels[:i], channels[i+1:]...) moves an element.               *)
Shift(w) ==
    LET at == writer[w].at IN
    /\ writer[w].pc = "shift"
    /\ at < list.len
    /\ mem' = [mem EXCEPT ![list.arr][at] = mem[list.arr][at + 1]]
    /\ writer' = [writer EXCEPT ![w].at = at + 1]
    /\ UNCHANGED <<list, made, closed, buf, call, crashed, unsubs, calls>>

(* Mutant of Unsubscribe: the shorter slice is not stored.                 *)
UnsubscribeUnstored(w) ==
    /\ writer[w].pc = "shift"
    /\ writer[w].at = list.len
    /\ closed' = closed \cup {writer[w].ch}
    /\ writer' = [writer EXCEPT ![w] = NoWrite]
    /\ UNCHANGED <<mem, list, made, buf, call, crashed, unsubs, calls>>

(* It stores the shorter slice, closes the channel and unlocks.            *)
Unsubscribe(w) ==
    /\ writer[w].pc = "shift"
    /\ writer[w].at = list.len
    /\ list' = [list EXCEPT !.len = @ - 1]
    /\ closed' = closed \cup {writer[w].ch}
    /\ writer' = [writer EXCEPT ![w] = NoWrite]
    /\ UNCHANGED <<mem, made, buf, call, crashed, unsubs, calls>>

(***************************************************************************)
(* Publish and PublishAsync.                                               *)
(***************************************************************************)
Become(p, c) == call' = [call EXCEPT ![p] = c]

Call(p) ==
    /\ call[p].pc = "idle"
    /\ calls < MaxCalls
    /\ calls' = calls + 1
    /\ Become(p, [call[p] EXCEPT !.pc = "rlock"])
    /\ UNCHANGED <<bus, buf, writer, crashed, unsubs>>

RLock(p) ==
    /\ call[p].pc = "rlock"
    /\ MayRead
    /\ Become(p, [call[p] EXCEPT !.pc = "copied", !.arr = list.arr, !.len = list.len,
                                 !.snap = Listed, !.safe = list.len])
    /\ UNCHANGED <<bus, buf, writer, crashed, unsubs, calls>>

RUnlock(p) ==
    /\ call[p].pc = "copied"
    /\ Become(p, [call[p] EXCEPT !.pc = "loop", !.pos = 1])
    /\ UNCHANGED <<bus, buf, writer, crashed, unsubs, calls>>

(* The range loop reads the element that is in the array by then, ...      *)
NextElement(p) ==
    LET c == call[p] IN
    /\ c.pc = "loop"
    /\ c.pos <= c.len
    /\ Become(p, [c EXCEPT !.pc = "select", !.ch = mem[c.arr][c.pos]])
    /\ UNCHANGED <<bus, buf, writer, crashed, unsubs, calls>>

Passed(c) == [c EXCEPT !.pc = "loop", !.pos = @ + 1, !.ch = None, !.sent = Append(@, c.ch)]

(* Mutant of Room: one too many.                                           *)
RoomForOneMore(ch) == buf[ch] <= BufferSize

Room(ch) == buf[ch] < BufferSize

(* ... and the select sends to it, ...                                     *)
Send(p) ==
    LET c == call[p] IN
    /\ c.pc = "select"
    /\ c.ch \notin closed
    /\ Room(c.ch)
    /\ buf' = [buf EXCEPT ![c.ch] = @ + 1]
    /\ Become(p, Passed(c))
    /\ UNCHANGED <<bus, writer, crashed, unsubs, calls>>

(* ... panics when it is closed, also while it blocks, ...                 *)
SendPanics(p) ==
    /\ call[p].pc = "select"
    /\ call[p].ch \in closed
    /\ crashed' = TRUE
    /\ UNCHANGED <<bus, buf, writer, call, unsubs, calls>>

(* ... and goes on without, in PublishAsync, when the buffer is full.      *)
Drop(p) ==
    LET c == call[p] IN
    /\ p \in Posters
    /\ c.pc = "select"
    /\ c.ch \notin closed
    /\ ~Room(c.ch)
    /\ Become(p, Passed(c))
    /\ UNCHANGED <<bus, buf, writer, crashed, unsubs, calls>>

(* Publish waits for room or for the end of its context.                   *)
Cancel(p) ==
    /\ p \in Publishers
    /\ call[p].pc # "idle"
    /\ ~call[p].cancelled
    /\ Become(p, [call[p] EXCEPT !.cancelled = TRUE])
    /\ UNCHANGED <<bus, buf, writer, crashed, unsubs, calls>>

GiveUp(p) ==
    /\ call[p].pc = "select"
    /\ call[p].cancelled
    /\ Become(p, NoCall)
    /\ UNCHANGED <<bus, buf, writer, crashed, unsubs, calls>>

Return(p) ==
    /\ call[p].pc = "loop"
    /\ call[p].pos > call[p].len
    /\ Become(p, NoCall)
    /\ UNCHANGED <<bus, buf, writer, crashed, unsubs, calls>>

(* A subscriber takes an event, or never does.                             *)
Receive(ch) ==
    /\ buf[ch] > 0
    /\ buf' = [buf EXCEPT ![ch] = @ - 1]
    /\ UNCHANGED <<bus, writer, call, crashed, unsubs, calls>>

Write(w) == Subscribe(w) \/ Lookup(w) \/ Shift(w) \/ Unsubscribe(w)

PublishStep(p) ==
    RLock(p) \/ RUnlock(p) \/ NextElement(p) \/ Send(p) \/ SendPanics(p) \/ Drop(p) \/ GiveUp(p) \/ Return(p)

Next ==
    /\ ~crashed
    /\ \/ \E w \in Writers : CallSubscribe(w) \/ Write(w)
       \/ \E w \in Writers, ch \in Channels : CallUnsubscribe(w, ch)
       \/ \E p \in Procs : Call(p) \/ PublishStep(p) \/ Cancel(p)
       \/ \E ch \in Channels : Receive(ch)

(* Every goroutine that can go on does; nobody has to receive or cancel.   *)
Fairness ==
    /\ \A w \in Writers : WF_vars(~crashed /\ Write(w))
    /\ \A p \in Procs : WF_vars(~crashed /\ PublishStep(p))

Spec == Init /\ [][Next]_vars
FairSpec == Spec /\ Fairness

(***************************************************************************)
(* Properties.                                                             *)
(***************************************************************************)

(* Whenever a call of Publish may copy it, the slice holds the channels    *)
(* that are open, in the order in which they were subscribed: a call that  *)
(* starts after an Unsubscribe cannot panic because of it.                 *)
ListExact ==
    ~Writing =>
       /\ ToSet(Listed) = (1 .. made) \ closed
       /\ \A i, j \in 1 .. list.len : i < j => Listed[i] < Listed[j]

(* Subscribers that stand before every channel that is removed during a    *)
(* call of Publish or PublishAsync are served exactly once by it, although *)
(* the call goes through the live array, which Subscribe writes to and     *)
(* Unsubscribe shifts.  (The others may be missed or served twice.)        *)
PrefixServed ==
    \A p \in Procs : \A i \in DOMAIN call[p].sent :
        i <= call[p].safe =>
          /\ call[p].sent[i] = call[p].snap[i]
          /\ \A j \in DOMAIN call[p].sent : j # i => call[p].sent[j] # call[p].snap[i]

(* A Publish that nobody receives from blocks itself and nobody else:      *)
(* PublishAsync, Subscribe and Unsubscribe always return, and so does a    *)
(* Publish whose context ends.                                             *)
CallsReturn ==
    /\ \A w \in Writers : writer[w].pc # "idle" ~> writer[w].pc = "idle" \/ crashed
    /\ \A p \in Posters : call[p].pc # "idle" ~> call[p].pc = "idle" \/ crashed
    /\ \A p \in Publishers : call[p].cancelled ~> call[p].pc = "idle" \/ crashed
==============================================================================
