---------------------------- MODULE EventBus_proofs ----------------------------
(***************************************************************************)
(* Proofs about EventBus, for any number of goroutines, subscriptions and  *)
(* calls and every size of buffer.                                         *)
(***************************************************************************)
EXTENDS EventBus, FiniteSetTheorems, TLAPS

(***************************************************************************)
(* The inductive invariant.                                                *)
(***************************************************************************)
Subscribing == {v \in Writers : writer[v].pc = "subscribe"}
Open == (1 .. made) \ closed

CountersOK ==
    /\ made \in Nat
    /\ made + Cardinality(Subscribing) <= MaxSubs
    /\ closed \subseteq 1 .. made
    /\ buf \in [Channels -> 0 .. BufferSize]
    /\ unsubs \in 0 .. MaxUnsubs
    /\ calls \in 0 .. MaxCalls

WritersOK ==
    /\ writer \in [Writers -> [pc : {"idle", "subscribe", "unsubscribe", "shift"},
                               ch : Channels \cup {None}, at : 0 .. MaxSubs]]
    /\ \A v, w \in Writers : writer[v].pc = "shift" /\ writer[w].pc = "shift" => v = w

(* The slice in the map lies within its array, and all of it is channels.  *)
ListOK ==
    /\ mem \in Seq(Seq(Channels \cup {None}))
    /\ list \in [arr : 0 .. Len(mem), len : 0 .. made]
    /\ list.arr = 0 => list.len = 0
    /\ list.arr # 0 => list.len <= Len(mem[list.arr])
    /\ \A i \in 1 .. list.len : mem[list.arr][i] \in 1 .. made

(* While Unsubscribe moves the elements down, one position is to be        *)
(* skipped: the others hold the open channels but the one that goes.       *)
ShiftOK ==
    \A w \in Writers : writer[w].pc = "shift" =>
        LET at == writer[w].at
            rest == (1 .. list.len) \ {at}
        IN /\ at \in 1 .. list.len
           /\ writer[w].ch \in Open
           /\ {mem[list.arr][i] : i \in rest} = Open \ {writer[w].ch}
           /\ \A i, j \in rest : i < j => mem[list.arr][i] < mem[list.arr][j]

(* A call: what it copied are different channels, and it has sent to as    *)
(* many as it has passed.                                                  *)
CallType ==
    [pc : {"idle", "rlock", "copied", "loop", "select"}, arr : Nat, len : 0 .. MaxSubs,
     pos : Nat, ch : Channels \cup {None}, cancelled : BOOLEAN, snap : Seq(Channels),
     sent : Seq(Channels), safe : 0 .. MaxSubs]

CallLocal(c) ==
    /\ c \in CallType
    /\ c.pos <= c.len + 1
    /\ Len(c.snap) = c.len
    /\ c.safe <= c.len
    /\ \A i \in 1 .. c.len : c.snap[i] \in 1 .. made
    /\ \A i, j \in 1 .. c.len : c.snap[i] = c.snap[j] => i = j
    /\ c.pc \in {"idle", "rlock", "copied"} => c.pos = 0 /\ c.sent = <<>>
    /\ c.pc \in {"loop", "select"} => c.pos \in 1 .. c.len + 1 /\ Len(c.sent) = c.pos - 1
    /\ c.pc = "select" => c.pos <= c.len /\ c.ch \in 1 .. made

(* Of the elements before safe, nothing but the element at its own place   *)
(* has been sent or is about to be.                                        *)
CallServes(c) ==
    /\ \A i \in 1 .. c.safe, j \in 1 .. Len(c.sent) : c.sent[j] = c.snap[i] <=> i = j
    /\ c.pc = "select" => \A i \in 1 .. c.safe : c.ch = c.snap[i] <=> i = c.pos

(* The array that it goes through is as it was up to safe, and has none of *)
(* these elements again after it.  For the array in the map this goes as   *)
(* far as the slice in the map does: from there elements move down.        *)
CallArray(c) ==
    /\ c.arr <= Len(mem)
    /\ c.arr = 0 => c.len = 0
    /\ c.arr # 0 => c.len <= Len(mem[c.arr])
    /\ \A j \in 1 .. c.len : mem[c.arr][j] \in 1 .. made
    /\ \A i \in 1 .. c.safe : mem[c.arr][i] = c.snap[i]
    /\ \A i \in 1 .. c.safe : \A j \in c.safe + 1 .. c.len : mem[c.arr][j] # c.snap[i]
    /\ c.arr = list.arr =>
          /\ c.safe <= list.len
          /\ \A i \in 1 .. c.safe : \A j \in c.safe + 1 .. list.len : mem[c.arr][j] # c.snap[i]
          /\ \A w \in Writers : writer[w].pc = "shift" => c.safe < writer[w].at

CallsOK ==
    /\ call = [p \in Procs |-> call[p]]
    /\ \A p \in Procs : CallLocal(call[p]) /\ CallServes(call[p]) /\ CallArray(call[p])

IInv ==
    /\ CountersOK
    /\ crashed \in BOOLEAN
    /\ WritersOK
    /\ ListOK
    /\ ShiftOK
    /\ ListExact
    /\ CallsOK

LEMMA Bounds ==
    /\ MaxSubs \in Nat /\ MaxUnsubs \in Nat /\ MaxCalls \in Nat
    /\ BufferSize \in Nat \ {0}
    /\ IsFiniteSet(Writers)
BY EventBusAssumption

(* ListExact, said of the array: the slice holds what is open, in order.   *)
HoldsOpen ==
    /\ {mem[list.arr][i] : i \in 1 .. list.len} = Open
    /\ \A i, j \in 1 .. list.len : i < j => mem[list.arr][i] < mem[list.arr][j]

LEMMA ExactIs == ListExact <=> (~Writing => HoldsOpen)
<1>1. /\ ToSet(Listed) = {mem[list.arr][i] : i \in 1 .. list.len}
      /\ \A i \in 1 .. list.len : Listed[i] = mem[list.arr][i]
  BY DEF ToSet, Listed
<1> QED  BY <1>1 DEF ListExact, HoldsOpen, Open

LEMMA ExactIsPrimed == ListExact' <=> (~Writing' => HoldsOpen')
<1>1. /\ ToSet(Listed)' = {mem'[list'.arr][i] : i \in 1 .. list'.len}
      /\ \A i \in 1 .. list'.len : Listed'[i] = mem'[list'.arr][i]
  BY DEF ToSet, Listed
<1> QED  BY <1>1 DEF ListExact, HoldsOpen, Open

LEMMA InitInv == Init => IInv
<1> SUFFICES ASSUME Init PROVE IInv
  OBVIOUS
<1> USE Bounds
<1>1. CountersOK
  <2>1. Subscribing = {}
    BY DEF Init, Subscribing, NoWrite
  <2>2. Cardinality(Subscribing) = 0
    BY <2>1, FS_EmptySet
  <2> QED  BY <2>2 DEF Init, CountersOK, Channels
<1>2. WritersOK /\ ShiftOK
  <2>1. NoWrite \in [pc : {"idle", "subscribe", "unsubscribe", "shift"},
                     ch : Channels \cup {None}, at : 0 .. MaxSubs]
    BY DEF NoWrite
  <2>2. \A w \in Writers : writer[w].pc # "shift"
    BY DEF Init, NoWrite
  <2> QED  BY <2>1, <2>2 DEF Init, WritersOK, ShiftOK
<1>3. ListOK
  BY DEF Init, ListOK
<1>4. ListExact
  <2>1. /\ Open = {}
        /\ 1 .. list.len = {}
    BY DEF Init, Open
  <2>2. HoldsOpen
    BY <2>1 DEF HoldsOpen
  <2> QED  BY <2>2, ExactIs
<1>5. CallLocal(NoCall) /\ CallServes(NoCall) /\ CallArray(NoCall)
  BY DEF Init, NoCall, CallLocal, CallType, CallServes, CallArray, None, NoWrite
<1>6. CallsOK
  BY <1>5 DEF Init, CallsOK
<1>7. crashed \in BOOLEAN
  BY DEF Init
<1> QED  BY <1>1, <1>2, <1>3, <1>4, <1>6, <1>7 DEF IInv

(***************************************************************************)
(* The steps of one call of Publish or PublishAsync.                       *)
(***************************************************************************)
LEMMA CallFrame ==
    ASSUME NEW q \in Procs, NEW c, call'[q] = c,
           mem' = mem, list' = list, made' = made, writer' = writer,
           CallLocal(c), CallServes(c), CallArray(c)
    PROVE  CallLocal(call[q])' /\ CallServes(call[q])' /\ CallArray(call[q])'
<1>1. CallLocal(call[q])'
  BY Zenon DEF CallLocal
<1>2. CallServes(call[q])'
  BY Zenon DEF CallServes
<1>3. CallArray(call[q])'
  BY Zenon DEF CallArray
<1> QED  BY <1>1, <1>2, <1>3

LEMMA OneCall ==
    ASSUME IInv, NEW p \in Procs, NEW c,
           CallLocal(c), CallServes(c), CallArray(c),
           call' = [call EXCEPT ![p] = c],
           UNCHANGED <<bus, writer, crashed, unsubs>>,
           buf' \in [Channels -> 0 .. BufferSize], calls' \in 0 .. MaxCalls
    PROVE  IInv'
<1>0. /\ mem' = mem /\ list' = list /\ made' = made /\ closed' = closed
      /\ writer' = writer /\ unsubs' = unsubs /\ crashed' = crashed
  BY DEF bus
<1>1. CountersOK' /\ crashed' \in BOOLEAN /\ WritersOK' /\ ListOK' /\ ShiftOK'
  <2>1. Subscribing' = Subscribing /\ Open' = Open
    BY <1>0 DEF Subscribing, Open
  <2>2. CountersOK'
    BY <1>0, <2>1 DEF IInv, CountersOK
  <2>3. WritersOK'
    BY <1>0 DEF IInv, WritersOK
  <2>4. ListOK'
    BY <1>0 DEF IInv, ListOK
  <2>5. ShiftOK'
    BY <1>0, <2>1 DEF IInv, ShiftOK
  <2> QED  BY <1>0, <2>2, <2>3, <2>4, <2>5 DEF IInv
<1>2. ListExact'
  BY DEF IInv, ListExact, Writing, Listed, bus
<1>3. CallsOK'
  <2>1. /\ call' = [q \in Procs |-> call'[q]]
        /\ call'[p] = c /\ \A q \in Procs \ {p} : call'[q] = call[q]
    BY DEF IInv, CallsOK
  <2>2. ASSUME NEW q \in Procs
        PROVE  CallLocal(call[q])' /\ CallServes(call[q])' /\ CallArray(call[q])'
    <3>1. CASE q = p
      <4>1. call'[q] = c
        BY <2>1, <3>1
      <4> QED  BY <1>0, <4>1, CallFrame
    <3>2. CASE q # p
      <4>1. call'[q] = call[q] /\ CallLocal(call[q]) /\ CallServes(call[q]) /\ CallArray(call[q])
        BY <2>1, <3>2 DEF IInv, CallsOK
      <4> QED  BY <1>0, <4>1, CallFrame
    <3> QED  BY <3>1, <3>2
  <2> QED  BY <2>1, <2>2 DEF CallsOK
<1> QED  BY <1>1, <1>2, <1>3 DEF IInv

LEMMA CallFacts ==
    ASSUME IInv, NEW p \in Procs
    PROVE  /\ CallLocal(call[p]) /\ CallServes(call[p]) /\ CallArray(call[p])
           /\ call[p] \in CallType
           /\ buf \in [Channels -> 0 .. BufferSize] /\ calls \in 0 .. MaxCalls
BY DEF IInv, CallsOK, CallLocal, CountersOK

LEMMA EmptyCall ==
    ASSUME IInv, NEW p \in Procs, call' = [call EXCEPT ![p] = NoCall],
           UNCHANGED <<bus, buf, writer, crashed, unsubs, calls>>
    PROVE  IInv'
<1>1. CallLocal(NoCall) /\ CallServes(NoCall)
  BY Bounds DEF NoCall, CallLocal, CallType, CallServes, None
<1>2. ListOK /\ WritersOK /\ ShiftOK
  BY DEF IInv
<1>3. Len(mem) \in Nat /\ list.len \in Nat
  BY <1>2 DEF ListOK
<1>4. CallArray(NoCall)
  BY <1>2, <1>3 DEF CallArray, NoCall, WritersOK, ShiftOK
<1> QED  BY <1>1, <1>4, CallFacts, OneCall

LEMMA CallInv == ASSUME IInv, NEW p \in Procs, Call(p) PROVE IInv'
<1> DEFINE c == [call[p] EXCEPT !.pc = "rlock"]
<1>0. CallLocal(call[p]) /\ CallServes(call[p]) /\ CallArray(call[p]) /\ call[p] \in CallType
  BY CallFacts
<1>1. c \in CallType
  BY <1>0 DEF CallType
<1>2. /\ c.pc = "rlock" /\ c.arr = call[p].arr /\ c.len = call[p].len
      /\ c.pos = call[p].pos /\ c.ch = call[p].ch /\ c.cancelled = call[p].cancelled
      /\ c.snap = call[p].snap /\ c.sent = call[p].sent /\ c.safe = call[p].safe
  BY <1>0 DEF CallType
<1> HIDE DEF c
<1>3. CallLocal(c)
  BY <1>0, <1>1, <1>2 DEF Call, CallLocal, CallType
<1>4. CallServes(c)
  BY <1>0, <1>2 DEF Call, CallServes, CallLocal
<1>5. CallArray(c)
  BY <1>0, <1>2 DEF CallArray
<1>6. calls' \in 0 .. MaxCalls
  BY CallFacts, Bounds DEF Call
<1>7. call' = [call EXCEPT ![p] = c] /\ UNCHANGED <<bus, buf, writer, crashed, unsubs>>
  BY DEF Call, Become, c
<1> QED  BY <1>3, <1>4, <1>5, <1>6, <1>7, CallFacts, OneCall

LEMMA CancelInv == ASSUME IInv, NEW p \in Procs, Cancel(p) PROVE IInv'
<1> DEFINE c == [call[p] EXCEPT !.cancelled = TRUE]
<1>0. CallLocal(call[p]) /\ CallServes(call[p]) /\ CallArray(call[p]) /\ call[p] \in CallType
  BY CallFacts
<1>1. c \in CallType
  BY <1>0 DEF CallType
<1>2. /\ c.cancelled = TRUE /\ c.pc = call[p].pc /\ c.arr = call[p].arr
      /\ c.len = call[p].len /\ c.pos = call[p].pos /\ c.ch = call[p].ch
      /\ c.snap = call[p].snap /\ c.sent = call[p].sent /\ c.safe = call[p].safe
  BY <1>0 DEF CallType
<1> HIDE DEF c
<1>3. CallLocal(c)
  BY <1>0, <1>1, <1>2 DEF Cancel, CallLocal, CallType
<1>4. CallServes(c)
  BY <1>0, <1>2 DEF Cancel, CallServes, CallLocal
<1>5. CallArray(c)
  BY <1>0, <1>2 DEF CallArray
<1>7. call' = [call EXCEPT ![p] = c] /\ UNCHANGED <<bus, buf, writer, crashed, unsubs, calls>>
  BY DEF Cancel, Become, c
<1> QED  BY <1>3, <1>4, <1>5, <1>7, CallFacts, OneCall

LEMMA RUnlockInv == ASSUME IInv, NEW p \in Procs, RUnlock(p) PROVE IInv'
<1> DEFINE c == [call[p] EXCEPT !.pc = "loop", !.pos = 1]
<1>0. CallLocal(call[p]) /\ CallServes(call[p]) /\ CallArray(call[p]) /\ call[p] \in CallType
  BY CallFacts
<1>1. c \in CallType
  BY <1>0, Bounds DEF CallType
<1>2. /\ c.pc = "loop" /\ c.pos = 1 /\ c.arr = call[p].arr
      /\ c.len = call[p].len /\ c.ch = call[p].ch /\ c.cancelled = call[p].cancelled
      /\ c.snap = call[p].snap /\ c.sent = call[p].sent /\ c.safe = call[p].safe
  BY <1>0 DEF CallType
<1> HIDE DEF c
<1>3. CallLocal(c)
  BY <1>0, <1>1, <1>2, Bounds DEF RUnlock, CallLocal, CallType
<1>4. CallServes(c)
  BY <1>0, <1>2 DEF RUnlock, CallServes, CallLocal
<1>5. CallArray(c)
  BY <1>0, <1>2 DEF CallArray
<1>7. call' = [call EXCEPT ![p] = c] /\ UNCHANGED <<bus, buf, writer, crashed, unsubs, calls>>
  BY DEF RUnlock, Become, c
<1> QED  BY <1>3, <1>4, <1>5, <1>7, CallFacts, OneCall

LEMMA MadeBound == ASSUME IInv PROVE made \in 0 .. MaxSubs /\ 1 .. made \subseteq Channels
<1>1. made \in Nat /\ made + Cardinality(Subscribing) <= MaxSubs
  BY DEF IInv, CountersOK
<1>2. IsFiniteSet(Subscribing)
  BY Bounds, FS_Subset DEF Subscribing
<1>3. Cardinality(Subscribing) \in Nat
  BY <1>2, FS_CardinalityType
<1> QED  BY <1>1, <1>3, Bounds DEF Channels

LEMMA RLockInv == ASSUME IInv, NEW p \in Procs, RLock(p) PROVE IInv'
<1> DEFINE c == [call[p] EXCEPT !.pc = "copied", !.arr = list.arr, !.len = list.len,
                                !.snap = Listed, !.safe = list.len]
<1>0. CallLocal(call[p]) /\ call[p] \in CallType
  BY CallFacts
<1>1. ListOK /\ HoldsOpen /\ ~Writing
  BY ExactIs DEF IInv, RLock, MayRead
<1>2. list.len \in 0 .. made /\ list.arr \in 0 .. Len(mem) /\ Len(mem) \in Nat
  BY <1>1 DEF ListOK
<1>3. list.len \in 0 .. MaxSubs /\ list.arr \in Nat
  BY <1>2, MadeBound, Bounds
<1>4. \A i \in 1 .. list.len : mem[list.arr][i] \in 1 .. made
  BY <1>1 DEF ListOK
<1>5. Listed \in Seq(Channels) /\ Len(Listed) = list.len
  BY <1>3, <1>4, MadeBound DEF Listed
<1>6. \A i \in 1 .. list.len : Listed[i] = mem[list.arr][i]
  BY DEF Listed
<1>7. c \in CallType
  BY <1>0, <1>3, <1>5 DEF CallType
<1>8. /\ c.pc = "copied" /\ c.arr = list.arr /\ c.len = list.len
      /\ c.snap = Listed /\ c.safe = list.len
      /\ c.pos = call[p].pos /\ c.sent = call[p].sent
  BY <1>0 DEF CallType
<1> HIDE DEF c
<1>9. c.pos = 0 /\ c.sent = <<>>
  BY <1>0, <1>8 DEF RLock, CallLocal
<1>10. \A i, j \in 1 .. list.len : Listed[i] = Listed[j] => i = j
  BY <1>1, <1>2, <1>4, <1>6, MadeBound DEF HoldsOpen
<1>11. CallLocal(c)
  BY <1>3, <1>4, <1>5, <1>6, <1>7, <1>8, <1>9, <1>10 DEF CallLocal
<1>12. CallServes(c)
  BY <1>8, <1>9 DEF CallServes
<1>13. CallArray(c)
  <2>1. list.len + 1 .. list.len = {}
    BY <1>3
  <2> QED  BY <1>1, <1>2, <1>4, <1>6, <1>8, <2>1 DEF CallArray, ListOK, Writing
<1>14. call' = [call EXCEPT ![p] = c] /\ UNCHANGED <<bus, buf, writer, crashed, unsubs, calls>>
  BY DEF RLock, Become, c
<1> QED  BY <1>11, <1>12, <1>13, <1>14, CallFacts, OneCall

LEMMA NextElementInv == ASSUME IInv, NEW p \in Procs, NextElement(p) PROVE IInv'
<1> DEFINE e == mem[call[p].arr][call[p].pos]
           c == [call[p] EXCEPT !.pc = "select", !.ch = e]
<1>0. CallLocal(call[p]) /\ CallServes(call[p]) /\ CallArray(call[p]) /\ call[p] \in CallType
  BY CallFacts
<1>1. call[p].pos \in 1 .. call[p].len /\ Len(call[p].sent) = call[p].pos - 1
  BY <1>0 DEF NextElement, CallLocal, CallType
<1>2. e \in 1 .. made
  BY <1>0, <1>1 DEF CallArray
<1>3. e \in Channels
  BY <1>2, MadeBound
<1>4. c \in CallType
  BY <1>0, <1>3 DEF CallType
<1>5. /\ c.pc = "select" /\ c.ch = e /\ c.arr = call[p].arr /\ c.len = call[p].len
      /\ c.pos = call[p].pos /\ c.snap = call[p].snap /\ c.sent = call[p].sent
      /\ c.safe = call[p].safe
  BY <1>0 DEF CallType
<1>6. \A i \in 1 .. call[p].safe : e = call[p].snap[i] <=> i = call[p].pos
  <2>1. call[p].safe \in Nat /\ call[p].len \in Nat /\ call[p].safe <= call[p].len
    BY <1>0, Bounds DEF CallLocal, CallType
  <2>2. \A i, j \in 1 .. call[p].len : call[p].snap[i] = call[p].snap[j] => i = j
    BY <1>0 DEF CallLocal
  <2>3. CASE call[p].pos <= call[p].safe
    <3>1. \A i \in 1 .. call[p].safe : mem[call[p].arr][i] = call[p].snap[i]
      BY <1>0 DEF CallArray
    <3> QED  BY <1>1, <2>1, <2>2, <2>3, <3>1
  <2>4. CASE call[p].pos \in call[p].safe + 1 .. call[p].len
    <3>1. \A i \in 1 .. call[p].safe : \A j \in call[p].safe + 1 .. call[p].len :
              mem[call[p].arr][j] # call[p].snap[i]
      BY <1>0 DEF CallArray
    <3> QED  BY <1>1, <2>1, <2>4, <3>1
  <2> QED  BY <1>1, <2>1, <2>3, <2>4
<1> HIDE DEF c, e
<1>7. CallLocal(c)
  BY <1>0, <1>1, <1>2, <1>4, <1>5 DEF NextElement, CallLocal
<1>8. CallServes(c)
  BY <1>0, <1>5, <1>6 DEF CallServes
<1>9. CallArray(c)
  BY <1>0, <1>5 DEF CallArray
<1>10. call' = [call EXCEPT ![p] = c] /\ UNCHANGED <<bus, buf, writer, crashed, unsubs, calls>>
  BY DEF NextElement, Become, c, e
<1> QED  BY <1>7, <1>8, <1>9, <1>10, CallFacts, OneCall

(* Send and Drop: the element is done with.                                *)
LEMMA PassedInv ==
    ASSUME IInv, NEW p \in Procs, call[p].pc = "select",
           call' = [call EXCEPT ![p] = Passed(call[p])],
           buf' \in [Channels -> 0 .. BufferSize],
           UNCHANGED <<bus, writer, crashed, unsubs, calls>>
    PROVE  IInv'
<1> DEFINE d == call[p]
           c == Passed(call[p])
<1>0. CallLocal(d) /\ CallServes(d) /\ CallArray(d) /\ d \in CallType
  BY CallFacts
<1>1. /\ d.pos \in 1 .. d.len /\ d.pos \in Nat /\ d.len \in Nat /\ Len(d.sent) = d.pos - 1
      /\ d.ch \in 1 .. made /\ d.sent \in Seq(Channels) /\ d.safe \in Nat
  BY <1>0, Bounds DEF CallLocal, CallType
<1>2. Append(d.sent, d.ch) \in Seq(Channels)
  BY <1>1, MadeBound
<1>3. c \in CallType
  <2>1. d.pos + 1 \in Nat /\ None \in Channels \cup {None}
    BY <1>1
  <2> QED  BY <1>0, <1>2, <2>1 DEF CallType, Passed
<1>4. /\ c.pc = "loop" /\ c.arr = d.arr /\ c.len = d.len
      /\ c.pos = d.pos + 1 /\ c.snap = d.snap /\ c.sent = Append(d.sent, d.ch)
      /\ c.safe = d.safe
  BY <1>0 DEF CallType, Passed
<1> HIDE DEF c
<1>5. /\ Len(c.sent) = d.pos
      /\ \A j \in 1 .. d.pos - 1 : c.sent[j] = d.sent[j]
      /\ c.sent[d.pos] = d.ch
  <2>1. ASSUME NEW s \in Seq(Channels), NEW e \in Channels, NEW n \in Nat, Len(s) = n - 1
        PROVE  /\ Len(Append(s, e)) = n /\ Append(s, e)[n] = e
               /\ \A j \in 1 .. n - 1 : Append(s, e)[j] = s[j]
    BY <2>1
  <2>2. d.ch \in Channels
    BY <1>1, MadeBound
  <2> HIDE DEF d
  <2> QED  BY <1>1, <1>4, <2>1, <2>2
<1>6. CallLocal(c)
  <2> HIDE DEF d
  <2>0. ASSUME NEW i \in Nat, NEW n \in Nat, i \in 1 .. n
        PROVE  i + 1 \in 1 .. n + 1 /\ i + 1 <= n + 1 /\ i = (i + 1) - 1
    BY <2>0
  <2>1. c.pos \in 1 .. c.len + 1 /\ c.pos <= c.len + 1 /\ Len(c.sent) = c.pos - 1
    BY <1>1, <1>4, <1>5, <2>0
  <2> QED  BY <1>0, <1>3, <1>4, <2>1 DEF CallLocal
<1>7. CallServes(c)
  <2>1. ASSUME NEW i \in 1 .. d.safe, NEW j \in 1 .. d.pos PROVE c.sent[j] = d.snap[i] <=> i = j
    <3>1. CASE j = d.pos
      BY <1>0, <1>5, <3>1 DEF CallServes
    <3>2. CASE j # d.pos
      <4>1. j \in 1 .. Len(d.sent)
        BY <1>1, <3>2
      <4>2. c.sent[j] = d.sent[j]
        BY <1>1, <1>5, <4>1
      <4> QED  BY <1>0, <4>1, <4>2 DEF CallServes
    <3> QED  BY <3>1, <3>2
  <2> QED  BY <1>4, <1>5, <2>1 DEF CallServes
<1>8. CallArray(c)
  BY <1>0, <1>4 DEF CallArray
<1>9. call' = [call EXCEPT ![p] = c]
  BY DEF c
<1> QED  BY <1>6, <1>7, <1>8, <1>9, CallFacts, OneCall

LEMMA SendInv == ASSUME IInv, NEW p \in Procs, Send(p) PROVE IInv'
<1>1. buf \in [Channels -> 0 .. BufferSize] /\ call[p].ch \in Channels \cup {None}
  BY CallFacts DEF CallType
<1>2. call[p].ch \in Channels
  BY CallFacts, MadeBound DEF CallLocal, Send
<1>3. buf' \in [Channels -> 0 .. BufferSize]
  BY <1>1, <1>2, Bounds DEF Send, Room
<1> QED  BY <1>3, PassedInv DEF Send, Become

LEMMA DropInv == ASSUME IInv, NEW p \in Procs, Drop(p) PROVE IInv'
<1>1. buf' \in [Channels -> 0 .. BufferSize]
  BY CallFacts DEF Drop
<1> QED  BY <1>1, PassedInv DEF Drop, Become

(***************************************************************************)
(* The steps that change the writers, the buffers or the crash alone.      *)
(***************************************************************************)
LEMMA OthersInv ==
    ASSUME IInv, UNCHANGED <<bus, call>>,
           CountersOK', crashed' \in BOOLEAN, WritersOK',
           \A w \in Writers : writer'[w].pc = "shift" <=> writer[w].pc = "shift",
           \A w \in Writers : writer[w].pc = "shift" => writer'[w] = writer[w]
    PROVE  IInv'
<1>1. ListOK' /\ Open' = Open /\ Writing' = Writing
  BY DEF IInv, ListOK, Open, Writing, bus
<1>2. ShiftOK'
  BY <1>1 DEF IInv, ShiftOK, bus
<1>3. ListExact'
  <2>1. HoldsOpen' <=> HoldsOpen
    BY <1>1 DEF HoldsOpen, bus
  <2> QED  BY <1>1, <2>1, ExactIs, ExactIsPrimed DEF IInv
<1>4. ASSUME NEW q \in Procs
      PROVE  CallLocal(call[q])' /\ CallServes(call[q])' /\ CallArray(call[q])'
  <2>1. call' = call /\ mem' = mem /\ list' = list /\ made' = made
    BY DEF bus
  <2>2. CallLocal(call[q]) /\ CallServes(call[q]) /\ CallArray(call[q])
    BY CallFacts
  <2>3. CallLocal(call[q])'
    BY <2>1, <2>2 DEF CallLocal
  <2>4. CallServes(call[q])'
    BY <2>1, <2>2 DEF CallServes
  <2>5. CallArray(call[q])'
    BY <2>1, <2>2 DEF CallArray
  <2> QED  BY <2>3, <2>4, <2>5
<1>5. CallsOK'
  BY <1>4 DEF CallsOK, IInv
<1> QED  BY <1>1, <1>2, <1>3, <1>5 DEF IInv

LEMMA SendPanicsInv == ASSUME IInv, NEW p \in Procs, SendPanics(p) PROVE IInv'
<1>1. CountersOK' /\ WritersOK'
  BY DEF IInv, SendPanics, CountersOK, WritersOK, Subscribing, bus
<1>2. crashed' \in BOOLEAN /\ UNCHANGED <<bus, writer, call>>
  BY DEF SendPanics
<1> QED  BY <1>1, <1>2, OthersInv

LEMMA ReceiveInv == ASSUME IInv, NEW ch \in Channels, Receive(ch) PROVE IInv'
<1>1. buf' \in [Channels -> 0 .. BufferSize]
  <2>1. buf \in [Channels -> 0 .. BufferSize]
    BY DEF IInv, CountersOK
  <2>2. buf[ch] - 1 \in 0 .. BufferSize
    BY <2>1, Bounds DEF Receive
  <2> QED  BY <2>1, <2>2 DEF Receive
<1>2. CountersOK' /\ WritersOK' /\ crashed' \in BOOLEAN
  BY <1>1 DEF IInv, Receive, CountersOK, WritersOK, Subscribing, bus
<1> QED  BY <1>2, OthersInv DEF Receive

LEMMA CallSubscribeInv == ASSUME IInv, NEW w \in Writers, CallSubscribe(w) PROVE IInv'
<1> DEFINE r == [writer[w] EXCEPT !.pc = "subscribe"]
<1>1. /\ writer[w] \in [pc : {"idle", "subscribe", "unsubscribe", "shift"},
                        ch : Channels \cup {None}, at : 0 .. MaxSubs]
      /\ writer' = [writer EXCEPT ![w] = r] /\ writer[w].pc = "idle"
  BY DEF IInv, WritersOK, CallSubscribe
<1>2. /\ r \in [pc : {"idle", "subscribe", "unsubscribe", "shift"},
                ch : Channels \cup {None}, at : 0 .. MaxSubs]
      /\ r.pc = "subscribe"
  BY <1>1
<1> HIDE DEF r
<1>3. WritersOK' /\ writer'[w] = r /\ \A v \in Writers \ {w} : writer'[v] = writer[v]
  BY <1>1, <1>2 DEF IInv, WritersOK
<1>4. Subscribing' = Subscribing \cup {w} /\ w \notin Subscribing
  BY <1>1, <1>2, <1>3 DEF Subscribing
<1>5. IsFiniteSet(Subscribing)
  BY Bounds, FS_Subset DEF Subscribing
<1>6. Cardinality(Subscribing') = Cardinality(Subscribing) + 1 /\ Cardinality(Subscribing) \in Nat
  BY <1>4, <1>5, FS_AddElement, FS_CardinalityType
<1>7. made + Cardinality(Subscribing) < MaxSubs
  BY DEF CallSubscribe, Subscribing
<1>8. made' = made /\ made' \in Nat /\ made' + Cardinality(Subscribing') <= MaxSubs
  BY <1>6, <1>7, Bounds DEF CallSubscribe, bus, IInv, CountersOK
<1>9. CountersOK' /\ crashed' \in BOOLEAN
  BY <1>8 DEF IInv, CallSubscribe, CountersOK, bus
<1> QED  BY <1>1, <1>2, <1>3, <1>9, OthersInv DEF CallSubscribe

LEMMA CallUnsubscribeInv ==
    ASSUME IInv, NEW w \in Writers, NEW ch \in Channels, CallUnsubscribe(w, ch) PROVE IInv'
<1> DEFINE r == [pc |-> "unsubscribe", ch |-> ch, at |-> 0]
<1>1. writer' = [writer EXCEPT ![w] = r] /\ writer[w].pc = "idle"
  BY DEF CallUnsubscribe
<1>2. /\ r \in [pc : {"idle", "subscribe", "unsubscribe", "shift"},
                ch : Channels \cup {None}, at : 0 .. MaxSubs]
      /\ r.pc = "unsubscribe"
  BY Bounds
<1> HIDE DEF r
<1>3. WritersOK' /\ writer'[w] = r /\ \A v \in Writers \ {w} : writer'[v] = writer[v]
  BY <1>1, <1>2 DEF IInv, WritersOK
<1>4. Subscribing' = Subscribing
  BY <1>1, <1>2, <1>3 DEF Subscribing
<1>5. unsubs' \in 0 .. MaxUnsubs
  BY Bounds DEF CallUnsubscribe, IInv, CountersOK
<1>6. CountersOK' /\ crashed' \in BOOLEAN
  BY <1>4, <1>5 DEF IInv, CallUnsubscribe, CountersOK, bus
<1> QED  BY <1>1, <1>2, <1>3, <1>6, OthersInv DEF CallUnsubscribe

(***************************************************************************)
(* The steps of Unsubscribe.                                               *)
(***************************************************************************)
WriterType ==
    [pc : {"idle", "subscribe", "unsubscribe", "shift"},
     ch : Channels \cup {None}, at : 0 .. MaxSubs]

(* What a writer does to its own record.                                   *)
LEMMA OneWriter ==
    ASSUME IInv, NEW w \in Writers, NEW r \in WriterType, writer' = [writer EXCEPT ![w] = r],
           r.pc = "shift" => \A v \in Writers \ {w} : writer[v].pc # "shift"
    PROVE  /\ WritersOK'
           /\ writer'[w] = r /\ \A v \in Writers \ {w} : writer'[v] = writer[v]
           /\ writer[w].pc # "subscribe" /\ r.pc # "subscribe" => Subscribing' = Subscribing
<1>1. writer \in [Writers -> WriterType]
  BY DEF IInv, WritersOK, WriterType
<1>2. /\ writer' \in [Writers -> WriterType]
      /\ writer'[w] = r /\ \A v \in Writers \ {w} : writer'[v] = writer[v]
  BY <1>1
<1>3. WritersOK'
  BY <1>2 DEF IInv, WritersOK, WriterType
<1>4. writer[w].pc # "subscribe" /\ r.pc # "subscribe" => Subscribing' = Subscribing
  BY <1>2 DEF Subscribing
<1> QED  BY <1>2, <1>3, <1>4

LEMMA IdleWriter == NoWrite \in WriterType /\ NoWrite.pc = "idle"
BY Bounds DEF WriterType, NoWrite

(* What a call has copied and sent is not touched by a step of a writer.   *)
LEMMA CallKept ==
    ASSUME IInv, NEW q \in Procs, call'[q] = call[q], made' \in Nat, made <= made'
    PROVE  CallLocal(call[q])' /\ CallServes(call[q])'
<1>1. CallLocal(call[q]) /\ CallServes(call[q])
  BY CallFacts
<1>2. made \in Nat
  BY DEF IInv, CountersOK
<1>3. CallLocal(call[q])'
  BY <1>1, <1>2 DEF CallLocal
<1>4. CallServes(call[q])'
  BY <1>1 DEF CallServes
<1> QED  BY <1>3, <1>4

(* The channel that is removed leaves the slice, the others move up to it. *)
LEMMA LookupInv == ASSUME IInv, NEW w \in Writers, Lookup(w) PROVE IInv'
<1> DEFINE ch == writer[w].ch
           found == ch \in ToSet(Listed)
           i == CHOOSE j \in 1 .. list.len : Listed[j] = ch
<1>1. writer[w] \in WriterType /\ writer[w].pc = "unsubscribe"
  BY DEF IInv, WritersOK, WriterType, Lookup
<1>2. ~Writing /\ HoldsOpen /\ ListOK
  BY ExactIs DEF IInv, Lookup, MayWrite
<1>3. \A v \in Writers : writer[v].pc # "shift"
  BY <1>2 DEF Writing
<1>4. CASE ~found
  <2>1. writer' = [writer EXCEPT ![w] = NoWrite] /\ UNCHANGED <<bus, call, buf, crashed, unsubs, calls>>
    BY <1>4 DEF Lookup, IInv, CallsOK
  <2>2. WritersOK' /\ Subscribing' = Subscribing /\ \A v \in Writers : writer'[v].pc # "shift"
    <3>1. NoWrite \in WriterType /\ NoWrite.pc # "subscribe" /\ NoWrite.pc # "shift"
      BY IdleWriter
    <3>2. writer[w].pc # "subscribe"
      BY <1>1
    <3>3. /\ WritersOK' /\ Subscribing' = Subscribing
          /\ writer'[w] = NoWrite /\ \A v \in Writers \ {w} : writer'[v] = writer[v]
      BY <2>1, <3>1, <3>2, OneWriter
    <3> QED  BY <1>3, <3>1, <3>3
  <2>3. CountersOK' /\ crashed' \in BOOLEAN
    BY <2>1, <2>2 DEF IInv, CountersOK, bus
  <2> QED  BY <1>3, <2>1, <2>2, <2>3, OthersInv
<1>5. CASE found
  <2> DEFINE r == [pc |-> "shift", ch |-> ch, at |-> i]
  <2>1. /\ DOMAIN Listed = 1 .. list.len
        /\ \A j \in 1 .. list.len : Listed[j] = mem[list.arr][j]
    BY DEF Listed
  <2>2. i \in 1 .. list.len /\ Listed[i] = ch
    <3>1. \E j \in 1 .. list.len : Listed[j] = ch
      BY <1>5, <2>1 DEF ToSet
    <3> QED  BY <3>1
  <2>3. /\ writer' = [writer EXCEPT ![w] = r]
        /\ call' = [p \in Procs |-> IF call[p].arr = list.arr /\ call[p].safe >= i
                                    THEN [call[p] EXCEPT !.safe = i - 1] ELSE call[p]]
        /\ UNCHANGED <<bus, buf, crashed, unsubs, calls>>
    BY <1>5 DEF Lookup
  <2> HIDE DEF i, found
  <2>4. list.len \in 0 .. made /\ made \in 0 .. MaxSubs /\ i \in Nat
    BY <1>2, <2>2, MadeBound DEF ListOK
  <2>5. i \in 0 .. MaxSubs
    BY <2>2, <2>4, Bounds
  <2>6. r \in WriterType /\ r.pc = "shift" /\ r.ch = ch /\ r.at = i
    BY <1>1, <2>5 DEF WriterType
  <2> HIDE DEF r
  <2>7. /\ WritersOK' /\ Subscribing' = Subscribing
        /\ writer'[w] = r /\ \A v \in Writers \ {w} : writer'[v].pc # "shift"
    BY <1>1, <1>3, <2>3, <2>6, OneWriter
  <2>8. CountersOK' /\ crashed' \in BOOLEAN /\ ListOK'
    BY <2>3, <2>7 DEF IInv, CountersOK, ListOK, bus
  <2>9. ShiftOK'
    <3> DEFINE rest == (1 .. list.len) \ {i}
    <3>1. mem' = mem /\ list' = list /\ Open' = Open
      BY <2>3 DEF bus, Open
    <3>2. ch \in Open /\ mem[list.arr][i] = ch
      BY <1>2, <2>1, <2>2 DEF HoldsOpen
    <3>3. \A j \in rest : mem[list.arr][j] # ch
      <4>1. \A j \in 1 .. list.len : mem[list.arr][j] \in 1 .. made
        BY <1>2 DEF ListOK
      <4> QED  BY <1>2, <2>2, <2>4, <3>2, <4>1 DEF HoldsOpen
    <3>4. {mem[list.arr][j] : j \in rest} = Open \ {ch}
      BY <1>2, <2>2, <3>2, <3>3 DEF HoldsOpen
    <3>5. \A j, k \in rest : j < k => mem[list.arr][j] < mem[list.arr][k]
      BY <1>2 DEF HoldsOpen
    <3> QED  BY <2>2, <2>6, <2>7, <3>1, <3>2, <3>4, <3>5 DEF ShiftOK
  <2>10. ListExact'
    <3>1. Writing'
      BY <2>6, <2>7 DEF Writing
    <3> QED  BY <3>1, ExactIsPrimed
  <2>11. ASSUME NEW q \in Procs
         PROVE  CallLocal(call[q])' /\ CallServes(call[q])' /\ CallArray(call[q])'
    <3> DEFINE c == call[q]
               d == call'[q]
    <3>1. CallLocal(c) /\ CallServes(c) /\ CallArray(c) /\ c \in CallType
      BY CallFacts
    <3>2. mem' = mem /\ list' = list /\ made' = made
      BY <2>3 DEF bus
    <3>3. \A v \in Writers : writer'[v].pc = "shift" => v = w
      BY <2>7
    <3>4. CASE ~(c.arr = list.arr /\ c.safe >= i)
      <4>1. d = c
        BY <2>3, <3>4
      <4>2. CallLocal(call[q])' /\ CallServes(call[q])'
        BY <2>4, <3>2, <4>1, CallKept
      <4>3. c.arr = list.arr => c.safe < i
        BY <2>4, <3>1, <3>4, Bounds DEF CallType
      <4>4. CallArray(call[q])'
        BY <2>6, <2>7, <3>1, <3>2, <3>3, <4>1, <4>3 DEF CallArray
      <4> QED  BY <4>2, <4>4
    <3>5. CASE c.arr = list.arr /\ c.safe >= i
      <4>1. d = [c EXCEPT !.safe = i - 1]
        BY <2>3, <3>5
      <4>2. i - 1 \in 0 .. MaxSubs /\ i - 1 \in Nat /\ c.safe \in Nat /\ i - 1 < c.safe /\ i - 1 < i
        BY <2>2, <2>4, <2>5, <3>1, <3>5, Bounds DEF CallType
      <4>3. d \in CallType
        BY <3>1, <4>1, <4>2 DEF CallType
      <4>4. /\ d.pc = c.pc /\ d.arr = c.arr /\ d.len = c.len /\ d.pos = c.pos /\ d.ch = c.ch
            /\ d.snap = c.snap /\ d.sent = c.sent /\ d.safe = i - 1
        BY <3>1, <4>1 DEF CallType
      <4> HIDE DEF d
      <4>5. CallLocal(d)
        BY <3>1, <4>2, <4>3, <4>4 DEF CallLocal
      <4>6. CallServes(d)
        BY <3>1, <4>2, <4>4 DEF CallServes
      <4>7. c.len \in Nat /\ c.safe <= c.len /\ list.len \in Nat /\ c.safe <= list.len
        BY <2>4, <3>1, <3>5 DEF CallLocal, CallType, CallArray
      <4>8. \A k \in 1 .. i - 1 : \A j \in i .. c.safe : mem[c.arr][j] # c.snap[k]
        <5>1. \A j \in 1 .. c.safe : mem[c.arr][j] = c.snap[j]
          BY <3>1 DEF CallArray
        <5>2. \A k, j \in 1 .. c.len : c.snap[k] = c.snap[j] => k = j
          BY <3>1 DEF CallLocal
        <5> QED  BY <2>2, <2>4, <4>2, <4>7, <5>1, <5>2
      <4>9. /\ d.arr <= Len(mem) /\ (d.arr = 0 => d.len = 0)
            /\ d.arr # 0 => d.len <= Len(mem[d.arr])
            /\ \A j \in 1 .. d.len : mem[d.arr][j] \in 1 .. made
        BY <3>1, <4>4 DEF CallArray
      <4>10. \A k \in 1 .. d.safe : mem[d.arr][k] = d.snap[k]
        BY <3>1, <4>2, <4>4 DEF CallArray
      <4>11. \A k \in 1 .. d.safe : \A j \in d.safe + 1 .. d.len : mem[d.arr][j] # d.snap[k]
        <5>1. \A k \in 1 .. c.safe : \A j \in c.safe + 1 .. c.len : mem[c.arr][j] # c.snap[k]
          BY <3>1 DEF CallArray
        <5> QED  BY <2>4, <4>2, <4>4, <4>7, <4>8, <5>1
      <4>12. \A k \in 1 .. d.safe : \A j \in d.safe + 1 .. list.len : mem[d.arr][j] # d.snap[k]
        <5>1. \A k \in 1 .. c.safe : \A j \in c.safe + 1 .. list.len : mem[c.arr][j] # c.snap[k]
          BY <3>1, <3>5 DEF CallArray
        <5> QED  BY <2>4, <4>2, <4>4, <4>7, <4>8, <5>1
      <4>13. d.safe <= list.len /\ d.safe < i
        BY <2>4, <4>2, <4>4, <4>7
      <4>14. CallArray(call[q])'
        BY <2>6, <2>7, <3>2, <3>3, <4>9, <4>10, <4>11, <4>12, <4>13 DEF CallArray, d
      <4>15. CallLocal(call[q])' /\ CallServes(call[q])'
        BY <3>2, <4>5, <4>6 DEF CallLocal, CallServes, d
      <4> QED  BY <4>14, <4>15
    <3> QED  BY <3>4, <3>5
  <2>12. CallsOK'
    <3>1. call' = [p \in Procs |-> call'[p]]
      BY <2>3
    <3> QED  BY <2>11, <3>1 DEF CallsOK
  <2> QED  BY <2>7, <2>8, <2>9, <2>10, <2>12 DEF IInv
<1> QED  BY <1>4, <1>5

(* A write to one element of one array.                                    *)
LEMMA Put ==
    ASSUME NEW S, NEW m \in Seq(Seq(S)), NEW a \in 1 .. Len(m), NEW k \in 1 .. Len(m[a]),
           NEW x \in S
    PROVE  LET n == [m EXCEPT ![a][k] = x]
           IN /\ n \in Seq(Seq(S)) /\ Len(n) = Len(m)
              /\ \A b \in 1 .. Len(m) : Len(n[b]) = Len(m[b])
              /\ n[a][k] = x
              /\ \A j \in 1 .. Len(m[a]) : j # k => n[a][j] = m[a][j]
              /\ \A b \in 1 .. Len(m) : b # a => n[b] = m[b]
<1> DEFINE s == [m[a] EXCEPT ![k] = x]
           n == [m EXCEPT ![a] = s]
<1>1. m[a] \in Seq(S)
  OBVIOUS
<1>2. /\ s \in Seq(S) /\ Len(s) = Len(m[a]) /\ s[k] = x
      /\ \A j \in 1 .. Len(m[a]) : j # k => s[j] = m[a][j]
  BY <1>1
<1>3. n = [m EXCEPT ![a][k] = x]
  OBVIOUS
<1> HIDE DEF s
<1>4. n \in Seq(Seq(S)) /\ Len(n) = Len(m) /\ n[a] = s /\ \A b \in 1 .. Len(m) : b # a => n[b] = m[b]
  BY <1>2
<1> HIDE DEF n
<1> QED  BY <1>2, <1>3, <1>4

LEMMA ShiftInv == ASSUME IInv, NEW w \in Writers, Shift(w) PROVE IInv'
<1> DEFINE at == writer[w].at
           a == list.arr
           r == [writer[w] EXCEPT !.at = at + 1]
           x == mem[a][at + 1]
<1>1. writer[w] \in WriterType /\ writer[w].pc = "shift"
  BY DEF IInv, WritersOK, WriterType, Shift
<1>2. ListOK /\ made \in 0 .. MaxSubs /\ 1 .. made \subseteq Channels
  BY MadeBound DEF IInv
<1>3. list.len \in 0 .. made /\ a \in 0 .. Len(mem) /\ mem \in Seq(Seq(Channels \cup {None}))
  BY <1>2 DEF ListOK
<1>4. at \in 1 .. list.len /\ at < list.len
  BY <1>1 DEF IInv, ShiftOK, Shift
<1>5. at + 1 \in 1 .. list.len /\ at + 1 \in 0 .. MaxSubs /\ at \in Nat
  BY <1>2, <1>3, <1>4, Bounds
<1>6. a \in 1 .. Len(mem) /\ list.len <= Len(mem[a])
  BY <1>2, <1>3, <1>4 DEF ListOK
<1>7. x \in 1 .. made
  BY <1>2, <1>5 DEF ListOK
<1>8. at \in 1 .. Len(mem[a])
  <2>1. Len(mem[a]) \in Nat
    BY <1>3, <1>6
  <2> QED  BY <1>3, <1>4, <1>6, <2>1
<1>9. x \in Channels \cup {None}
  BY <1>2, <1>7
<1>10. mem' = [mem EXCEPT ![a][at] = x] /\ UNCHANGED <<list, made, closed, buf, call, crashed, unsubs, calls>>
  BY DEF Shift
<1>11. r \in WriterType /\ r.pc = "shift" /\ r.ch = writer[w].ch /\ r.at = at + 1
  BY <1>1, <1>5 DEF WriterType
<1>12. writer' = [writer EXCEPT ![w] = r]
  BY DEF Shift
<1>13. \A v \in Writers \ {w} : writer[v].pc # "shift"
  BY <1>1 DEF IInv, WritersOK
<1> HIDE DEF r, x
<1>14. /\ mem' \in Seq(Seq(Channels \cup {None})) /\ Len(mem') = Len(mem)
       /\ \A b \in 1 .. Len(mem) : Len(mem'[b]) = Len(mem[b])
       /\ mem'[a][at] = x
       /\ \A j \in 1 .. Len(mem[a]) : j # at => mem'[a][j] = mem[a][j]
       /\ \A b \in 1 .. Len(mem) : b # a => mem'[b] = mem[b]
  BY <1>3, <1>6, <1>8, <1>9, <1>10, Put
<1>15. /\ WritersOK' /\ Subscribing' = Subscribing
       /\ writer'[w] = r /\ \A v \in Writers \ {w} : writer'[v].pc # "shift"
  BY <1>1, <1>11, <1>12, <1>13, OneWriter
<1>16. CountersOK' /\ crashed' \in BOOLEAN
  BY <1>10, <1>15 DEF IInv, CountersOK
<1>17. \A j \in 1 .. list.len : j # at => mem'[a][j] = mem[a][j]
  <2>1. Len(mem[a]) \in Nat
    BY <1>3, <1>6
  <2>2. \A j \in 1 .. list.len : j \in 1 .. Len(mem[a])
    BY <1>3, <1>6, <2>1
  <2> QED  BY <1>14, <2>2
<1>18. ListOK'
  <2>1. \A j \in 1 .. list.len : mem'[a][j] \in 1 .. made
    BY <1>2, <1>7, <1>14, <1>17 DEF ListOK
  <2>2. list \in [arr : 0 .. Len(mem), len : 0 .. made]
    BY <1>2 DEF ListOK
  <2>3. list.len <= Len(mem'[a]) /\ a # 0
    BY <1>6, <1>14
  <2> QED  BY <1>10, <1>14, <2>1, <2>2, <2>3 DEF ListOK
<1>19. ShiftOK'
  <2> DEFINE rest == (1 .. list.len) \ {at}
             next == (1 .. list.len) \ {at + 1}
             ch == writer[w].ch
  <2>1. /\ ch \in Open
        /\ {mem[a][i] : i \in rest} = Open \ {ch}
        /\ \A i, j \in rest : i < j => mem[a][i] < mem[a][j]
    BY <1>1 DEF IInv, ShiftOK
  <2>2. /\ \A j \in next : j # at => j \in rest /\ mem'[a][j] = mem[a][j]
        /\ at + 1 \in rest /\ mem'[a][at] = mem[a][at + 1] /\ at \in next
        /\ \A j \in rest : j # at + 1 => j \in next /\ j # at
    BY <1>4, <1>5, <1>14, <1>17 DEF x
  <2>3. {mem'[a][i] : i \in next} = {mem[a][i] : i \in rest}
    <3>1. \A j \in next : \E i \in rest : mem'[a][j] = mem[a][i]
      BY <2>2
    <3>2. \A i \in rest : \E j \in next : mem'[a][j] = mem[a][i]
      BY <2>2
    <3> HIDE DEF rest, next
    <3> QED  BY <3>1, <3>2
  <2>4. \A i, j \in next : i < j => mem'[a][i] < mem'[a][j]
    <3>0. \A n \in next : n \in Nat /\ n # at + 1
      <4>1. \A n \in 1 .. list.len : n \in Nat
        OBVIOUS
      <4> QED  BY <4>1
    <3> HIDE DEF rest, next, at, a
    <3> SUFFICES ASSUME NEW i \in next, NEW j \in next, i < j PROVE mem'[a][i] < mem'[a][j]
      OBVIOUS
    <3>1. CASE i = at
      <4>1. j \in Nat /\ j # at /\ j # at + 1 /\ at < j
        BY <1>5, <3>0, <3>1
      <4>2. at + 1 < j
        BY <1>5, <4>1
      <4>3. j \in rest /\ mem'[a][j] = mem[a][j]
        BY <2>2, <4>1
      <4> QED  BY <2>1, <2>2, <3>1, <4>2, <4>3
    <3>2. CASE j = at
      <4>1. i \in Nat /\ i # at /\ i < at
        BY <1>5, <3>0, <3>2
      <4>2. i < at + 1
        BY <1>5, <4>1
      <4>3. i \in rest /\ mem'[a][i] = mem[a][i]
        BY <2>2, <4>1
      <4> QED  BY <2>1, <2>2, <3>2, <4>2, <4>3
    <3>3. CASE i # at /\ j # at
      BY <2>1, <2>2, <3>3
    <3> QED  BY <3>1, <3>2, <3>3
  <2>5. Open' = Open
    BY <1>10 DEF Open
  <2>6. \A v \in Writers : writer'[v].pc = "shift" => v = w
    BY <1>15
  <2> QED  BY <1>5, <1>10, <1>11, <1>15, <2>1, <2>3, <2>4, <2>5, <2>6 DEF ShiftOK
<1>20. ListExact'
  <2>1. Writing'
    BY <1>11, <1>15 DEF Writing
  <2> QED  BY <2>1, ExactIsPrimed
<1>21. ASSUME NEW q \in Procs
       PROVE  CallLocal(call[q])' /\ CallServes(call[q])' /\ CallArray(call[q])'
  <2> DEFINE c == call[q]
  <2>1. CallLocal(c) /\ CallServes(c) /\ CallArray(c) /\ c \in CallType
    BY CallFacts
  <2>2. CallLocal(call[q])' /\ CallServes(call[q])'
    BY <1>2, <1>10, CallKept
  <2>3. \A v \in Writers : writer'[v].pc = "shift" => v = w
    BY <1>15
  <2>4. c.arr \in Nat /\ c.len \in Nat /\ c.safe \in Nat /\ c.arr <= Len(mem)
    BY <2>1, Bounds DEF CallType, CallArray
  <2>5. CASE c.arr # a
    <3>1. mem'[c.arr] = mem[c.arr] \/ c.len = 0
      BY <1>14, <2>1, <2>4, <2>5 DEF CallArray
    <3>2. c.arr # 0 => c.len <= Len(mem'[c.arr])
      BY <1>14, <2>1, <2>4 DEF CallArray
    <3>3. c.safe <= c.len
      BY <2>1 DEF CallLocal
    <3> QED
      <4>1. CASE mem'[c.arr] = mem[c.arr]
        BY <1>10, <1>14, <2>1, <2>2, <2>5, <4>1 DEF CallArray
      <4>2. CASE c.len = 0
        <5>1. c.safe = 0 /\ 1 .. c.safe = {} /\ 1 .. c.len = {}
          BY <2>4, <3>3, <4>2
        <5> QED  BY <1>10, <1>14, <2>1, <2>2, <2>5, <3>2, <5>1 DEF CallArray
      <4> QED  BY <3>1, <4>1, <4>2
  <2>6. CASE c.arr = a
    <3>1. c.safe < at /\ c.safe <= list.len /\ c.len <= Len(mem[a]) /\ c.safe <= c.len
      BY <1>1, <1>6, <2>1, <2>6 DEF CallArray, CallLocal
    <3>2. Len(mem[a]) \in Nat
      BY <1>3, <1>6
    <3>3. \A j \in 1 .. c.len : j # at => mem'[a][j] = mem[a][j]
      <4>1. \A j \in 1 .. c.len : j \in 1 .. Len(mem[a])
        BY <2>4, <3>1, <3>2
      <4> QED  BY <1>14, <4>1
    <3>4. \A j \in 1 .. c.len : mem'[a][j] \in 1 .. made
      BY <1>7, <1>14, <2>1, <2>6, <3>3 DEF CallArray
    <3>5. \A i \in 1 .. c.safe : mem'[a][i] = c.snap[i]
      <4>1. \A i \in 1 .. c.safe : i \in 1 .. c.len /\ i # at
        BY <1>5, <2>4, <3>1
      <4> QED  BY <2>1, <2>6, <3>3, <4>1 DEF CallArray
    <3>6. \A i \in 1 .. c.safe : x # c.snap[i]
      <4>1. at + 1 \in c.safe + 1 .. list.len
        BY <1>3, <1>5, <2>4, <3>1
      <4> QED  BY <2>1, <2>6, <4>1 DEF CallArray, x
    <3>7. \A i \in 1 .. c.safe : \A j \in c.safe + 1 .. c.len : mem'[a][j] # c.snap[i]
      <4>1. \A i \in 1 .. c.safe : \A j \in c.safe + 1 .. c.len : mem[a][j] # c.snap[i]
        BY <2>1, <2>6 DEF CallArray
      <4>2. \A j \in c.safe + 1 .. c.len : j \in 1 .. c.len
        BY <2>4
      <4> QED  BY <1>14, <3>3, <3>6, <4>1, <4>2
    <3>8. \A i \in 1 .. c.safe : \A j \in c.safe + 1 .. list.len : mem'[a][j] # c.snap[i]
      <4>1. \A i \in 1 .. c.safe : \A j \in c.safe + 1 .. list.len : mem[a][j] # c.snap[i]
        BY <2>1, <2>6 DEF CallArray
      <4>2. \A j \in c.safe + 1 .. list.len : j \in 1 .. list.len
        BY <1>3, <2>4
      <4> QED  BY <1>14, <1>17, <3>6, <4>1, <4>2
    <3>9. c.arr <= Len(mem') /\ c.arr # 0 /\ c.len <= Len(mem'[a]) /\ c.safe < at + 1
      <4>1. Len(mem') = Len(mem) /\ Len(mem'[a]) = Len(mem[a]) /\ a # 0
        BY <1>6, <1>14
      <4>2. c.safe < at + 1
        BY <1>5, <2>4, <3>1
      <4> QED  BY <2>4, <2>6, <3>1, <4>1, <4>2
    <3>10. CallArray(call[q])'
      BY <1>10, <1>11, <1>15, <2>3, <2>6, <3>1, <3>4, <3>5, <3>7, <3>8, <3>9 DEF CallArray
    <3> QED  BY <2>2, <3>10
  <2> QED  BY <2>2, <2>5, <2>6
<1>22. CallsOK'
  BY <1>10, <1>21 DEF CallsOK, IInv
<1> QED  BY <1>15, <1>16, <1>18, <1>19, <1>20, <1>22 DEF IInv

LEMMA UnsubscribeInv == ASSUME IInv, NEW w \in Writers, Unsubscribe(w) PROVE IInv'
<1> DEFINE ch == writer[w].ch
           a == list.arr
           len == list.len
<1>1. writer[w].pc = "shift" /\ writer[w].at = len
  BY DEF Unsubscribe
<1>2. ListOK /\ made \in 0 .. MaxSubs /\ len \in 0 .. made /\ a \in 0 .. Len(mem)
  BY MadeBound DEF IInv, ListOK
<1>3. /\ len \in 1 .. len /\ ch \in Open
      /\ {mem[a][i] : i \in (1 .. len) \ {len}} = Open \ {ch}
      /\ \A i, j \in (1 .. len) \ {len} : i < j => mem[a][i] < mem[a][j]
  BY <1>1 DEF IInv, ShiftOK
<1>4. len >= 1 /\ len - 1 \in 0 .. made /\ (1 .. len) \ {len} = 1 .. len - 1
  BY <1>2, <1>3
<1>5. /\ list' = [list EXCEPT !.len = len - 1]
      /\ writer' = [writer EXCEPT ![w] = NoWrite]
      /\ closed' = closed \cup {ch}
      /\ UNCHANGED <<mem, made, buf, call, crashed, unsubs, calls>>
  BY DEF Unsubscribe
<1>6. list'.arr = a /\ list'.len = len - 1 /\ list' \in [arr : 0 .. Len(mem), len : 0 .. made]
  BY <1>2, <1>4, <1>5 DEF ListOK
<1>7. \A v \in Writers \ {w} : writer[v].pc # "shift"
  BY <1>1 DEF IInv, WritersOK
<1>8. WritersOK' /\ Subscribing' = Subscribing /\ \A v \in Writers : writer'[v].pc # "shift"
  BY <1>1, <1>5, <1>7, IdleWriter, OneWriter
<1>9. CountersOK' /\ crashed' \in BOOLEAN
  BY <1>3, <1>5, <1>8 DEF IInv, CountersOK, Open
<1>10. ListOK'
  <2>1. a # 0 /\ len <= Len(mem[a]) /\ mem \in Seq(Seq(Channels \cup {None}))
    BY <1>2, <1>4 DEF ListOK
  <2>2. Len(mem[a]) \in Nat
    BY <1>2, <2>1
  <2>3. len - 1 <= Len(mem[a])
    BY <1>2, <2>1, <2>2
  <2>4. \A i \in 1 .. len - 1 : mem[a][i] \in 1 .. made
    BY <1>2, <1>4 DEF ListOK
  <2> QED  BY <1>5, <1>6, <2>1, <2>3, <2>4 DEF ListOK
<1>11. ShiftOK'
  BY <1>8 DEF ShiftOK
<1>12. ListExact'
  <2>1. Open' = Open \ {ch}
    BY <1>5 DEF Open
  <2>2. HoldsOpen'
    BY <1>3, <1>4, <1>5, <1>6, <2>1 DEF HoldsOpen
  <2> QED  BY <2>2, ExactIsPrimed
<1>13. ASSUME NEW q \in Procs
       PROVE  CallLocal(call[q])' /\ CallServes(call[q])' /\ CallArray(call[q])'
  <2> DEFINE c == call[q]
  <2>1. CallArray(c) /\ c \in CallType
    BY CallFacts
  <2>2. CallLocal(call[q])' /\ CallServes(call[q])'
    BY <1>2, <1>5, CallKept
  <2>3. c.safe \in Nat
    BY <2>1, Bounds DEF CallType
  <2>4. c.arr = a => c.safe <= len - 1
    BY <1>1, <1>2, <2>1, <2>3 DEF CallArray
  <2>5. c.arr = a => \A i \in 1 .. c.safe : \A j \in c.safe + 1 .. len - 1 : mem[c.arr][j] # c.snap[i]
    <3>1. \A j \in c.safe + 1 .. len - 1 : j \in c.safe + 1 .. len
      BY <1>2, <2>3
    <3> QED  BY <2>1, <3>1 DEF CallArray
  <2>6. CallArray(call[q])'
    BY <1>5, <1>6, <1>8, <2>1, <2>4, <2>5 DEF CallArray
  <2> QED  BY <2>2, <2>6
<1>14. CallsOK'
  BY <1>5, <1>13 DEF CallsOK, IInv
<1> QED  BY <1>8, <1>9, <1>10, <1>11, <1>12, <1>14 DEF IInv

(***************************************************************************)
(* Subscribe: the channel goes behind the slice, into the same array or    *)
(* into a copy of it.                                                      *)
(***************************************************************************)
Appended ==
    /\ mem' \in Seq(Seq(Channels \cup {None})) /\ Len(mem) <= Len(mem')
    /\ list' \in [arr : 1 .. Len(mem'), len : {list.len + 1}]
    /\ list.len + 1 <= Len(mem'[list'.arr])
    /\ \A j \in 1 .. list.len : mem'[list'.arr][j] = mem[list.arr][j]
    /\ mem'[list'.arr][list.len + 1] = made + 1
    /\ \A b \in 1 .. Len(mem) : Len(mem'[b]) = Len(mem[b])
    /\ \A b \in 1 .. Len(mem) : \A j \in 1 .. Len(mem[b]) :
          b # list.arr \/ j # list.len + 1 => mem'[b][j] = mem[b][j]
    /\ \A b \in 1 .. Len(mem) : \A j \in 1 .. Len(mem[b]) :
          mem'[b][j] = mem[b][j] \/ mem'[b][j] = made + 1
    /\ list'.arr = list.arr \/ list'.arr > Len(mem)

LEMMA AppendIs ==
    ASSUME ListOK, made \in Nat, made + 1 \in Channels, AppendChannel(made + 1)
    PROVE  Appended
<1> DEFINE a == list.arr
           len == list.len
           S == Channels \cup {None}
<1>1. mem \in Seq(Seq(S)) /\ list \in [arr : 0 .. Len(mem), len : 0 .. made]
  BY DEF ListOK
<1>2. len \in Nat /\ Len(mem) \in Nat /\ a \in 0 .. Len(mem)
  BY <1>1
<1>3. made + 1 \in S
  OBVIOUS
<1>4. CASE len < Cap
  <2>1. a \in 1 .. Len(mem) /\ Cap = Len(mem[a])
    BY <1>2, <1>4 DEF Cap
  <2>2. Len(mem[a]) \in Nat
    BY <1>1, <2>1
  <2>3. len + 1 \in 1 .. Len(mem[a])
    BY <1>2, <1>4, <2>1, <2>2
  <2>4. mem' = [mem EXCEPT ![a][len + 1] = made + 1] /\ list' = [list EXCEPT !.len = len + 1]
    BY <1>4 DEF AppendChannel
  <2>5. list'.arr = a /\ list'.len = len + 1
    BY <1>1, <2>4
  <2> HIDE DEF S
  <2>6. /\ mem' \in Seq(Seq(S)) /\ Len(mem') = Len(mem)
        /\ \A b \in 1 .. Len(mem) : Len(mem'[b]) = Len(mem[b])
        /\ mem'[a][len + 1] = made + 1
        /\ \A j \in 1 .. Len(mem[a]) : j # len + 1 => mem'[a][j] = mem[a][j]
        /\ \A b \in 1 .. Len(mem) : b # a => mem'[b] = mem[b]
    BY <1>1, <1>3, <2>1, <2>3, <2>4, Put
  <2>7. \A j \in 1 .. len : mem'[a][j] = mem[a][j]
    <3>1. \A j \in 1 .. len : j \in 1 .. Len(mem[a]) /\ j # len + 1
      BY <1>2, <2>2, <2>3
    <3> QED  BY <2>6, <3>1
  <2>8. \A b \in 1 .. Len(mem) : \A j \in 1 .. Len(mem[b]) :
          /\ b # a \/ j # len + 1 => mem'[b][j] = mem[b][j]
          /\ mem'[b][j] = mem[b][j] \/ mem'[b][j] = made + 1
    BY <2>6
  <2>9. list' \in [arr : 1 .. Len(mem'), len : {len + 1}]
    BY <1>1, <2>1, <2>4, <2>6
  <2>10. len + 1 <= Len(mem'[a]) /\ Len(mem) <= Len(mem')
    BY <1>2, <2>1, <2>3, <2>6
  <2> QED  BY <2>5, <2>6, <2>7, <2>8, <2>9, <2>10 DEF Appended, S
<1>5. CASE ~(len < Cap)
  <2> DEFINE g == Grown(made + 1)
  <2>1. mem' = Append(mem, g) /\ list' = [arr |-> Len(mem) + 1, len |-> len + 1]
    BY <1>5 DEF AppendChannel
  <2>2. NewCap \in Nat /\ len + 1 <= NewCap
    BY <1>2 DEF NewCap
  <2>3. \A i \in 1 .. len : a # 0 /\ i \in 1 .. Len(mem[a]) /\ mem[a][i] \in S
    <3>1. SUFFICES ASSUME NEW i \in 1 .. len PROVE a # 0 /\ i \in 1 .. Len(mem[a]) /\ mem[a][i] \in S
      OBVIOUS
    <3>2. len # 0
      BY <1>2
    <3>3. a # 0 /\ len <= Len(mem[a])
      BY <3>2 DEF ListOK
    <3>4. mem[a] \in Seq(S)
      BY <1>1, <1>2, <3>3
    <3>5. i \in 1 .. Len(mem[a])
      BY <1>2, <3>3, <3>4
    <3> QED  BY <3>3, <3>4, <3>5
  <2>4. \A i \in 1 .. NewCap : (IF i <= len THEN mem[a][i] ELSE IF i = len + 1 THEN made + 1 ELSE None) \in S
    BY <1>2, <2>2, <2>3
  <2>5. g \in Seq(S) /\ Len(g) = NewCap
    BY <2>2, <2>4 DEF Grown
  <2>6. (\A j \in 1 .. len : g[j] = mem[a][j]) /\ g[len + 1] = made + 1
    BY <1>2, <2>2 DEF Grown
  <2> HIDE DEF g, S
  <2>7. mem' \in Seq(Seq(S)) /\ Len(mem') = Len(mem) + 1 /\ mem'[Len(mem) + 1] = g
    BY <1>1, <2>1, <2>5
  <2>8. \A b \in 1 .. Len(mem) : mem'[b] = mem[b]
    BY <1>1, <2>1, <2>5
  <2>9. list' \in [arr : 1 .. Len(mem'), len : {len + 1}] /\ list'.arr = Len(mem) + 1
    BY <1>2, <2>1, <2>7
  <2>10. Len(mem) <= Len(mem') /\ list'.arr > Len(mem) /\ len + 1 <= Len(mem'[list'.arr])
    BY <1>2, <2>2, <2>5, <2>7, <2>9
  <2> QED  BY <2>6, <2>7, <2>8, <2>9, <2>10 DEF Appended, S
<1> QED  BY <1>4, <1>5

LEMMA SubscribeInv == ASSUME IInv, NEW w \in Writers, Subscribe(w) PROVE IInv'
<1> DEFINE a == list.arr
           len == list.len
           b == list'.arr
<1>1. ~Writing /\ HoldsOpen /\ ListOK
  BY ExactIs DEF IInv, Subscribe, MayWrite
<1>2. \A v \in Writers : writer[v].pc # "shift"
  BY <1>1 DEF Writing
<1>3. /\ writer' = [writer EXCEPT ![w] = NoWrite] /\ made' = made + 1
      /\ UNCHANGED <<closed, buf, call, crashed, unsubs, calls>>
  BY DEF Subscribe
<1>4. /\ WritersOK' /\ writer'[w] = NoWrite /\ NoWrite.pc = "idle"
      /\ \A v \in Writers \ {w} : writer'[v] = writer[v]
  BY <1>3, IdleWriter, OneWriter
<1>5. \A v \in Writers : writer'[v].pc # "shift"
  BY <1>2, <1>4
<1>6. Subscribing' = Subscribing \ {w} /\ w \in Subscribing
  BY <1>4 DEF Subscribing, Subscribe
<1>7. IsFiniteSet(Subscribing)
  BY Bounds, FS_Subset DEF Subscribing
<1>8. Cardinality(Subscribing') = Cardinality(Subscribing) - 1
  BY <1>6, <1>7, FS_RemoveElement
<1>9. Cardinality(Subscribing) \in Nat
  BY <1>7, FS_CardinalityType
<1>10. Cardinality(Subscribing') \in Nat
  <2>1. IsFiniteSet(Subscribing')
    BY <1>6, <1>7, FS_RemoveElement
  <2> QED  BY <2>1, FS_CardinalityType
<1>11. made \in Nat /\ made + Cardinality(Subscribing) <= MaxSubs /\ closed \subseteq 1 .. made
  BY DEF IInv, CountersOK
<1>12. made + 1 + Cardinality(Subscribing') <= MaxSubs /\ made + 1 \in Nat /\ made + 1 \in 1 .. MaxSubs
  BY <1>8, <1>9, <1>10, <1>11, Bounds
<1>13. CountersOK' /\ crashed' \in BOOLEAN
  <2>1. closed \subseteq 1 .. made + 1
    BY <1>11
  <2> QED  BY <1>3, <1>12, <2>1 DEF IInv, CountersOK
<1>14. Appended
  BY <1>1, <1>11, <1>12, AppendIs DEF Subscribe, Channels
<1>15. /\ mem' \in Seq(Seq(Channels \cup {None})) /\ Len(mem) \in Nat /\ Len(mem') \in Nat
       /\ Len(mem) <= Len(mem') /\ b \in 1 .. Len(mem') /\ list'.len = len + 1
       /\ len \in 0 .. made /\ a \in 0 .. Len(mem)
  BY <1>1, <1>14 DEF Appended, ListOK
<1>a. len \in Nat /\ b # 0
  BY <1>11, <1>15
<1>b. \A n \in Nat : n <= Len(mem) => n <= Len(mem')
  <2>1. ASSUME NEW k \in Nat, NEW m \in Nat, k <= m, NEW n \in Nat, n <= k PROVE n <= m
    BY <2>1
  <2> QED  BY <1>15, <2>1
<1>16. /\ \A j \in 1 .. len : mem'[b][j] = mem[a][j] /\ mem[a][j] \in 1 .. made
       /\ mem'[b][len + 1] = made + 1
  BY <1>1, <1>14 DEF Appended, ListOK
<1>17. \A j \in 1 .. len + 1 : j \in 1 .. len \/ j = len + 1
  BY <1>15
<1>18. ListOK'
  <2>1. \A j \in 1 .. len + 1 : mem'[b][j] \in 1 .. made + 1
    BY <1>11, <1>16, <1>17
  <2>2. list' \in [arr : 0 .. Len(mem'), len : 0 .. made + 1]
    <3>1. len + 1 \in 0 .. made + 1
      BY <1>11, <1>15
    <3> QED  BY <1>14, <1>15, <3>1 DEF Appended
  <2>3. b # 0 /\ len + 1 <= Len(mem'[b])
    BY <1>14, <1>15 DEF Appended
  <2> QED  BY <1>3, <1>15, <2>1, <2>2, <2>3 DEF ListOK
<1>19. ShiftOK'
  BY <1>5 DEF ShiftOK
<1>20. ListExact'
  <2>1. Open' = Open \cup {made + 1}
    BY <1>3, <1>11 DEF Open
  <2>2. {mem'[b][j] : j \in 1 .. len + 1} = {mem[a][j] : j \in 1 .. len} \cup {made + 1}
    <3>1. \A j \in 1 .. len : j \in 1 .. len + 1
      BY <1>15
    <3>2. len + 1 \in 1 .. len + 1
      BY <1>15
    <3> QED  BY <1>16, <1>17, <3>1, <3>2
  <2>3. \A i, j \in 1 .. len + 1 : i < j => mem'[b][i] < mem'[b][j]
    <3> SUFFICES ASSUME NEW i \in 1 .. len + 1, NEW j \in 1 .. len + 1, i < j
                 PROVE  mem'[b][i] < mem'[b][j]
      OBVIOUS
    <3>1. i \in 1 .. len
      BY <1>15
    <3>2. mem'[b][i] = mem[a][i] /\ mem[a][i] \in 1 .. made
      BY <1>16, <3>1
    <3>3. CASE j = len + 1
      BY <1>11, <1>16, <3>2, <3>3
    <3>4. CASE j \in 1 .. len
      BY <1>1, <1>16, <3>1, <3>2, <3>4 DEF HoldsOpen
    <3> QED  BY <1>17, <3>3, <3>4
  <2>4. HoldsOpen'
    BY <1>1, <1>15, <2>1, <2>2, <2>3 DEF HoldsOpen
  <2> QED  BY <2>4, ExactIsPrimed
<1>21. ASSUME NEW q \in Procs
       PROVE  CallLocal(call[q])' /\ CallServes(call[q])' /\ CallArray(call[q])'
  <2> DEFINE c == call[q]
  <2>1. CallLocal(c) /\ CallArray(c) /\ c \in CallType
    BY CallFacts
  <2>2. CallLocal(call[q])' /\ CallServes(call[q])'
    BY <1>3, <1>11, <1>12, CallKept
  <2>3. /\ c.arr \in Nat /\ c.len \in Nat /\ c.safe \in Nat
        /\ c.arr <= Len(mem) /\ c.safe <= c.len
    BY <2>1, Bounds DEF CallType, CallArray, CallLocal
  <2>4. \A i \in 1 .. c.safe : c.snap[i] \in 1 .. made /\ c.snap[i] # made + 1
    BY <1>11, <2>1, <2>3 DEF CallLocal
  <2>5. CASE c.arr = 0
    <3>1. c.len = 0 /\ c.safe = 0 /\ 1 .. c.len = {} /\ 1 .. c.safe = {}
      BY <2>1, <2>3, <2>5 DEF CallArray
    <3>2. b # 0 /\ c.arr <= Len(mem')
      BY <1>a, <1>b, <2>3
    <3>3. CallArray(call[q])'
      BY <1>3, <2>5, <3>1, <3>2 DEF CallArray
    <3> QED  BY <2>2, <3>3
  <2>6. CASE c.arr # 0
    <3>1. c.arr \in 1 .. Len(mem) /\ c.arr <= Len(mem')
      <4>1. c.arr <= Len(mem')
        BY <1>b, <2>3
      <4>2. ASSUME NEW k \in Nat, NEW n \in Nat, n <= k, n # 0 PROVE n \in 1 .. k
        BY <4>2
      <4>3. Len(mem) \in Nat
        BY <1>15
      <4> QED  BY <2>3, <2>6, <4>1, <4>2, <4>3
    <3>2. c.len <= Len(mem[c.arr]) /\ Len(mem'[c.arr]) = Len(mem[c.arr])
      BY <1>14, <2>1, <2>6, <3>1 DEF CallArray, Appended
    <3>3. Len(mem[c.arr]) \in Nat
      BY <1>1, <3>1 DEF ListOK
    <3>4. \A j \in 1 .. c.len : j \in 1 .. Len(mem[c.arr])
      BY <2>3, <3>2, <3>3
    <3>5. \A j \in 1 .. c.len : mem'[c.arr][j] = mem[c.arr][j] \/ mem'[c.arr][j] = made + 1
      BY <1>14, <3>1, <3>4 DEF Appended
    <3>6. \A j \in 1 .. c.len : mem'[c.arr][j] \in 1 .. made + 1
      <4>1. \A j \in 1 .. c.len : mem[c.arr][j] \in 1 .. made
        BY <2>1 DEF CallArray
      <4> QED  BY <1>11, <3>5, <4>1
    <3>7. \A i \in 1 .. c.safe : i \in 1 .. c.len /\ (c.arr = a => i # len + 1)
      <4>1. c.arr = a => c.safe <= len
        BY <2>1 DEF CallArray
      <4>2. \A i \in 1 .. c.safe : i \in 1 .. c.len
        BY <2>3
      <4>3. c.safe <= len => \A i \in 1 .. c.safe : i # len + 1
        BY <1>a, <2>3
      <4> QED  BY <4>1, <4>2, <4>3
    <3>8. \A i \in 1 .. c.safe : mem'[c.arr][i] = c.snap[i]
      <4>1. \A i \in 1 .. c.safe : mem'[c.arr][i] = mem[c.arr][i]
        BY <1>14, <3>1, <3>4, <3>7 DEF Appended
      <4> QED  BY <2>1, <4>1 DEF CallArray
    <3>9. \A i \in 1 .. c.safe : \A j \in c.safe + 1 .. c.len : mem'[c.arr][j] # c.snap[i]
      <4>1. \A j \in c.safe + 1 .. c.len : j \in 1 .. c.len
        BY <2>3
      <4>2. \A i \in 1 .. c.safe : \A j \in c.safe + 1 .. c.len : mem[c.arr][j] # c.snap[i]
        BY <2>1 DEF CallArray
      <4> QED  BY <2>4, <3>5, <4>1, <4>2
    <3>10. ASSUME c.arr = b
           PROVE  /\ c.safe <= len + 1
                  /\ \A i \in 1 .. c.safe : \A j \in c.safe + 1 .. len + 1 : mem'[c.arr][j] # c.snap[i]
      <4>1. b = a
        <5>1. ~(b > Len(mem))
          BY <1>15, <2>3, <3>10
        <5> QED  BY <1>14, <5>1 DEF Appended
      <4>2. c.safe <= len
        BY <2>1, <3>10, <4>1 DEF CallArray
      <4>3. \A i \in 1 .. c.safe : \A j \in c.safe + 1 .. len : mem[c.arr][j] # c.snap[i]
        BY <2>1, <3>10, <4>1 DEF CallArray
      <4>4. \A j \in c.safe + 1 .. len + 1 : (j \in c.safe + 1 .. len /\ j \in 1 .. len) \/ j = len + 1
        <5>1. ASSUME NEW m \in Nat, NEW n \in Nat, NEW j \in m + 1 .. n + 1, j # n + 1
              PROVE  j \in m + 1 .. n /\ j \in 1 .. n
          BY <5>1
        <5>2. len \in Nat
          BY <1>11, <1>15
        <5> QED  BY <2>3, <5>1, <5>2, Zenon
      <4>5. \A i \in 1 .. c.safe : \A j \in c.safe + 1 .. len + 1 : mem'[c.arr][j] # c.snap[i]
        BY <1>16, <2>4, <3>10, <4>1, <4>3, <4>4
      <4> QED  BY <1>15, <2>3, <4>2, <4>5
    <3>11. CallArray(call[q])'
      BY <1>3, <1>5, <1>15, <2>6, <3>1, <3>2, <3>6, <3>8, <3>9, <3>10 DEF CallArray
    <3> QED  BY <2>2, <3>11
  <2> QED  BY <2>5, <2>6
<1>22. CallsOK'
  BY <1>3, <1>21 DEF CallsOK, IInv
<1> QED  BY <1>4, <1>13, <1>18, <1>19, <1>20, <1>22 DEF IInv

(***************************************************************************)
(* The theorems.                                                           *)
(***************************************************************************)
LEMMA NextInv == IInv /\ [Next]_vars => IInv'
<1> SUFFICES ASSUME IInv, [Next]_vars PROVE IInv'
  OBVIOUS
<1>1. ASSUME NEW w \in Writers, CallSubscribe(w) \/ Write(w) PROVE IInv'
  BY <1>1, CallSubscribeInv, SubscribeInv, LookupInv, ShiftInv, UnsubscribeInv DEF Write
<1>2. ASSUME NEW w \in Writers, NEW ch \in Channels, CallUnsubscribe(w, ch) PROVE IInv'
  BY <1>2, CallUnsubscribeInv
<1>3. ASSUME NEW p \in Procs, Call(p) \/ PublishStep(p) \/ Cancel(p) PROVE IInv'
  <2>1. CASE GiveUp(p) \/ Return(p)
    BY <2>1, EmptyCall DEF GiveUp, Return, Become
  <2> QED  BY <1>3, <2>1, CallInv, CancelInv, RLockInv, RUnlockInv, NextElementInv, SendInv,
              SendPanicsInv, DropInv DEF PublishStep
<1>4. ASSUME NEW ch \in Channels, Receive(ch) PROVE IInv'
  BY <1>4, ReceiveInv
<1>5. CASE UNCHANGED vars
  <2>1. UNCHANGED <<bus, buf, writer, call, crashed, unsubs, calls>>
    BY <1>5 DEF vars
  <2>2. CountersOK' /\ WritersOK' /\ crashed' \in BOOLEAN
    BY <2>1 DEF IInv, CountersOK, WritersOK, Subscribing, bus
  <2> QED  BY <2>1, <2>2, OthersInv
<1> QED  BY <1>1, <1>2, <1>3, <1>4, <1>5 DEF Next

(* The inductive invariant holds in every state of the bus.                *)
THEOREM Invariance == Spec => []IInv
BY InitInv, NextInv, PTL DEF Spec

(* Every slice, call, writer and buffer has its type: a header never       *)
(* points past the arrays made, and a buffer never holds more than         *)
(* buffer_size events.                                                     *)
THEOREM TypeCorrect == Spec => []TypeOK
<1>1. IInv => TypeOK
  <2> SUFFICES ASSUME IInv PROVE TypeOK
    OBVIOUS
  <2>1. made \in 0 .. MaxSubs /\ ListOK /\ CountersOK /\ WritersOK /\ crashed \in BOOLEAN
    BY MadeBound DEF IInv
  <2>2. /\ \A a \in DOMAIN mem : mem[a] \in Seq(Channels \cup {None})
        /\ list.arr \in 0 .. Len(mem)
    BY <2>1 DEF ListOK
  <2>3. list.len \in 0 .. MaxSubs
    <3>1. list.len \in 0 .. made
      BY <2>1 DEF ListOK
    <3> QED  BY <2>1, <3>1, Bounds
  <2>4. ASSUME NEW p \in Procs PROVE IsCall(call[p])
    <3> DEFINE c == call[p]
    <3>1. CallLocal(c) /\ CallArray(c) /\ c \in CallType
      BY CallFacts
    <3>2. c.arr \in Nat /\ c.arr <= Len(mem) /\ c.pos \in Nat /\ c.pos <= c.len + 1 /\ c.len \in 0 .. MaxSubs
      BY <3>1 DEF CallLocal, CallArray, CallType
    <3>3. Len(mem) \in Nat
      BY <2>1 DEF ListOK
    <3>4. c.arr \in 0 .. Len(mem) /\ c.pos \in 0 .. c.len + 1
      BY <3>2, <3>3, Bounds
    <3> QED  BY <3>1, <3>4 DEF IsCall, CallType
  <2> QED  BY <2>1, <2>2, <2>3, <2>4 DEF TypeOK, CountersOK, WritersOK
<1> QED  BY <1>1, Invariance, PTL

(* Whenever a call may copy the slice, it holds exactly the open channels  *)
(* in the order of subscription: no append into the shared array and no    *)
(* shift of Unsubscribe loses, repeats or reorders one.                    *)
THEOREM SliceIsExact == Spec => []ListExact
<1>1. IInv => ListExact
  BY DEF IInv
<1> QED  BY <1>1, Invariance, PTL

(* Whatever Subscribe and Unsubscribe do to the array while Publish or     *)
(* PublishAsync goes through it without a lock, the subscribers before     *)
(* every removed one are served exactly once.                              *)
THEOREM PrefixIsServed == Spec => []PrefixServed
<1>1. IInv => PrefixServed
  <2> SUFFICES ASSUME IInv, NEW p \in Procs, NEW i \in DOMAIN call[p].sent, i <= call[p].safe
               PROVE  /\ call[p].sent[i] = call[p].snap[i]
                      /\ \A j \in DOMAIN call[p].sent : j # i => call[p].sent[j] # call[p].snap[i]
    BY DEF PrefixServed
  <2>1. CallServes(call[p]) /\ call[p] \in CallType
    BY CallFacts
  <2>2. call[p].sent \in Seq(Channels) /\ call[p].safe \in Nat
    BY <2>1, Bounds DEF CallType
  <2>3. DOMAIN call[p].sent = 1 .. Len(call[p].sent) /\ Len(call[p].sent) \in Nat
    BY <2>2
  <2>4. i \in 1 .. call[p].safe
    BY <2>2, <2>3
  <2> QED  BY <2>1, <2>3, <2>4 DEF CallServes
<1> QED  BY <1>1, Invariance, PTL
==============================================================================
