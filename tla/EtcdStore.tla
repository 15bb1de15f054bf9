------------------------------ MODULE EtcdStore ------------------------------
(***************************************************************************)
(* internal/state/etcd.go: the requests of several goroutines on the etcd  *)
(* store, its mutex, and the channel of one watcher.                       *)
(*                                                                         *)
(* s.mu is held over the calls to etcd.  It is Go's RWMutex: not           *)
(* reentrant, and a writer that waits keeps new readers out.  A key holds  *)
(* the version that was put last, encoded and decoded without loss.        *)
(***************************************************************************)
EXTENDS Integers, Sequences

CONSTANTS
    Handlers,    \* goroutines that use the store
    Ids,         \* workload IDs
    WatchBuffer, \* capacity of the channel that Watch returns
    MaxRequests  \* bound: calls of the store

VARIABLES
    etcd,    \* keys and their values (external)
    changes, \* changes that etcd has not yet sent to watchEtcd (external)
    events,  \* the channel of the watcher
    req,     \* the calls under way
    requests \* bounded by MaxRequests

vars == <<etcd, changes, events, req, requests>>

Reads == {"Get", "List"}
Puts == {"Create", "Update"}
Absent == 0

Idle == [op |-> "none", id |-> "none", pc |-> "idle"]

Init ==
    /\ etcd = [id \in Ids |-> Absent]
    /\ changes = <<>>
    /\ events = <<>>
    /\ req = [h \in Handlers |-> Idle]
    /\ requests = 0

(* s.mu.                                                                   *)
At(h, pc) == req[h].pc = pc
Writers == {h \in Handlers : req[h].pc \in {"put", "get lock", "get", "delete"}}
Readers == {h \in Handlers : req[h].pc \in {"read", "get"}}
WriterWaits == \E h \in Handlers : At(h, "lock")

MayLock == Writers = {} /\ Readers = {}
MayRLock == Writers = {} /\ ~WriterWaits

Goto(h, pc) == req' = [req EXCEPT ![h].pc = pc]
Done(h) == req' = [req EXCEPT ![h] = Idle]

Request(h, op, id) ==
    /\ At(h, "idle")
    /\ requests < MaxRequests
    /\ requests' = requests + 1
    /\ req' = [req EXCEPT ![h] = [op |-> op, id |-> id,
                                  pc |-> IF op \in Reads THEN "rlock" ELSE "lock"]]
    /\ UNCHANGED <<etcd, changes, events>>

RLock(h) ==
    /\ At(h, "rlock")
    /\ MayRLock
    /\ Goto(h, "read")
    /\ UNCHANGED <<etcd, changes, events, requests>>

Lock(h) ==
    /\ At(h, "lock")
    /\ MayLock
    /\ Goto(h, IF req[h].op = "Delete" THEN "get lock" ELSE "put")
    /\ UNCHANGED <<etcd, changes, events, requests>>

(* Get and List answer, or fail; both unlock.                              *)
Read(h) ==
    /\ At(h, "read")
    /\ Done(h)
    /\ UNCHANGED <<etcd, changes, events, requests>>

(* A full channel skips the event; so do notify and watchEtcd.             *)
Sent(event) == IF Len(events) < WatchBuffer THEN Append(events, event) ELSE events
notify(type, id) == events' = Sent([type |-> type, id |-> id])

(* Create and Update put the value, whether or not the key exists: Update  *)
(* asks etcd for it, but takes an empty answer for an existing one.        *)
Put(h) ==
    /\ At(h, "put")
    /\ etcd' = [etcd EXCEPT ![req[h].id] = requests]
    /\ changes' = Append(changes, [type |-> "put", id |-> req[h].id])
    /\ notify(IF req[h].op = "Create" THEN "deploy requested" ELSE "updated", req[h].id)
    /\ Done(h)
    /\ UNCHANGED requests

(* etcd fails: so does the call, and it unlocks.                           *)
EtcdFails(h) ==
    /\ req[h].pc \in {"put", "get", "delete"}
    /\ Done(h)
    /\ UNCHANGED <<etcd, changes, events, requests>>

(* Delete calls Get, which takes the read lock of the mutex that Delete    *)
(* holds, ...                                                              *)
GetRLock(h) ==
    /\ At(h, "get lock")
    /\ MayRLock
    /\ Goto(h, "get")
    /\ UNCHANGED <<etcd, changes, events, requests>>

(* ... fails when the workload is not there, ...                           *)
GetForNotification(h) ==
    /\ At(h, "get")
    /\ IF etcd[req[h].id] = Absent THEN Done(h) ELSE Goto(h, "delete")
    /\ UNCHANGED <<etcd, changes, events, requests>>

(* ... and removes it.                                                     *)
Delete(h) ==
    /\ At(h, "delete")
    /\ etcd' = [etcd EXCEPT ![req[h].id] = Absent]
    /\ changes' = Append(changes, [type |-> "delete", id |-> req[h].id])
    /\ notify("deleted", req[h].id)
    /\ Done(h)
    /\ UNCHANGED requests

(* watchEtcd: a put is passed on; a deletion comes without a value, which  *)
(* does not parse, and is skipped.                                         *)
WatchEtcd ==
    /\ changes # <<>>
    /\ changes' = Tail(changes)
    /\ events' = IF Head(changes).type = "delete" THEN events
                 ELSE Sent([type |-> "updated", id |-> Head(changes).id])
    /\ UNCHANGED <<etcd, req, requests>>

Receive ==
    /\ events # <<>>
    /\ events' = Tail(events)
    /\ UNCHANGED <<etcd, changes, req, requests>>

Step(h) ==
    RLock(h) \/ Lock(h) \/ Read(h) \/ Put(h) \/ EtcdFails(h)
    \/ GetRLock(h) \/ GetForNotification(h) \/ Delete(h)

Next ==
    \/ \E h \in Handlers, op \in Reads \cup Puts \cup {"Delete"}, id \in Ids : Request(h, op, id)
    \/ \E h \in Handlers : Step(h)
    \/ WatchEtcd
    \/ Receive

(* Every goroutine that can go on does, and etcd answers.                  *)
Fairness == \A h \in Handlers : WF_vars(Step(h))

FairSpec == Init /\ [][Next]_vars /\ Fairness

(* etcd.go: "Delete removes a workload."  A call of Delete ends: the       *)
(* workload is gone, or the caller gets an error.                          *)
DeleteRemoves ==
    \A h \in Handlers : req[h].op = "Delete" ~> req[h].op = "none"
==============================================================================
