----------------------------- MODULE Dependencies -----------------------------
(***************************************************************************)
(* internal/dependency/resolver.go at work: a client resolves the order of *)
(* a list of workloads and deploys them in that order, each after          *)
(* WaitDependencies, while the reconcile loop and the runtime bring up (or *)
(* lose) what was deployed before.  Nothing in the repository calls the    *)
(* resolver yet; the client is the one that the README describes.          *)
(*                                                                         *)
(* CheckDependencies asks for one dependency after the other, and each     *)
(* time AllowRoute syncs that workload's circuit breaker (memory store:    *)
(* the change stays).  The unit of time is the ticker's 5 seconds.         *)
(***************************************************************************)
EXTENDS DependencyOrder, CircuitEngine

CONSTANTS
    Condition,      \* the Condition of dependencies on an ID
    Timeout,        \* their Timeout in ticks, 0 when unset or unreadable
    DefaultTimeout, \* the five minutes that a wait lasts at least
    Replicas,       \* Spec.Replicas
    MaxSlow,        \* bound: ticks that pass while a workload comes up
    MaxFailures     \* bound: failures of workloads that were up

ASSUME DependenciesAssumption ==
    /\ Condition \in [Ids -> STRING]
    /\ Timeout \in [Ids -> Nat]
    /\ DefaultTimeout \in Nat
    /\ Replicas \in [Ids -> Nat]
    /\ {MaxSlow, MaxFailures} \subseteq Nat

VARIABLES
    status,   \* Status of the stored workloads
    at,       \* the position of the workload deployed last, 0 before the first
    elapsed,  \* ticks that the client has been waiting
    check,    \* the dependency to be checked next, 0 between two ticks
    timedOut, \* did a wait time out?
    seen,     \* IDs whose condition held since the check began (history)
    slow,     \* bounded by MaxSlow
    failures  \* bounded by MaxFailures

waitVars == <<at, elapsed, check, timedOut>>
bounds == <<slow, failures>>
vars == <<orderVars, status, waitVars, seen, bounds>>

Absent == [phase |-> "none", ready |-> 0, cb |-> NoCircuit]
Fresh == [phase |-> "Pending", ready |-> 0, cb |-> NoCircuit]
Up(id) == [phase |-> "Running", ready |-> Replicas[id], cb |-> NoCircuit]

IsStatus(s, id) ==
    /\ s.phase \in Phases \cup {"none"}
    /\ s.ready \in 0 .. Replicas[id]
    /\ s.cb \in CircuitStatus

TypeOK ==
    /\ OrderTypeOK
    /\ \A id \in Ids : IsStatus(status[id], id)
    /\ at \in 0 .. Len(result)
    /\ elapsed \in Nat
    /\ check \in 0 .. MaxDeps + 1
    /\ timedOut \in BOOLEAN
    /\ seen \subseteq Ids
    /\ slow \in 0 .. MaxSlow
    /\ failures \in 0 .. MaxFailures

(* A dependency that is not listed may have been deployed long ago.        *)
Init ==
    /\ OrderInit
    /\ \E before \in SUBSET (Nodes \ listed) :
          status = [id \in Ids |-> IF id \in before THEN Up(id) ELSE Absent]
    /\ at = 0
    /\ elapsed = 0
    /\ check = 0
    /\ timedOut = FALSE
    /\ seen = {}
    /\ slow = 0
    /\ failures = 0

(***************************************************************************)
(* The checks.                                                             *)
(***************************************************************************)
isHealthy(s) == s.phase = "Running" /\ s.ready > 0
isReady(s, id) == s.phase = "Running" /\ s.ready = Replicas[id]

(* An unknown condition is read as "running".                              *)
ConditionMet(s, id) ==
    CASE Condition[id] = "healthy" -> isHealthy(s)
      [] Condition[id] = "ready"   -> isReady(s, id)
      [] OTHER                     -> s.phase = "Running"

(* AllowRoute, with the sync that it begins with.                          *)
Synced(s) ==
    IF s.phase = "none" THEN s
    ELSE [s EXCEPT !.cb = SyncFromWorkload(s.cb, s.phase, s.ready > 0)]

checkDependency(s, id) ==
    s.phase # "none" /\ RouteVerdict(s.cb, s.phase) /\ ConditionMet(s, id)

(***************************************************************************)
(* The client.                                                             *)
(***************************************************************************)
Ahead == {i \in DeploymentOrder : i > at}
Deploying == stage = "ordered" /\ ~timedOut /\ Ahead # {}
Current == result[Min(Ahead)]
Waiting == Deploying /\ deps[Current] # <<>>

(* The longest Timeout of its dependencies, and no less than the default.  *)
MaxTimeout(id) ==
    Max({DefaultTimeout} \cup {Timeout[deps[id][i]] : i \in DOMAIN deps[id]})

(* Mutant of CheckDependency: the last dependency decides.                 *)
CheckLastOnly ==
    LET id == deps[Current][check]
        s == Synced(status[id])
    IN /\ Waiting
       /\ check \in DOMAIN deps[Current]
       /\ status' = [status EXCEPT ![id] = s]
       /\ check' = IF checkDependency(s, id) \/ check < Len(deps[Current]) THEN check + 1 ELSE 0
       /\ UNCHANGED <<at, elapsed, timedOut, bounds, orderVars>>

(* CheckDependencies, one dependency at a time.                            *)
CheckDependency ==
    LET id == deps[Current][check]
        s == Synced(status[id])
    IN /\ Waiting
       /\ check \in DOMAIN deps[Current]
       /\ status' = [status EXCEPT ![id] = s]
       /\ check' = IF checkDependency(s, id) THEN check + 1 ELSE 0
       /\ UNCHANGED <<at, elapsed, timedOut, bounds, orderVars>>

(* WaitDependencies returns nil, at once when there are no dependencies,   *)
(* and the client creates the workload.                                    *)
Start ==
    /\ Deploying
    /\ check = Len(deps[Current]) + 1 \/ deps[Current] = <<>>
    /\ status' = [status EXCEPT ![Current] = Fresh]
    /\ at' = Min(Ahead)
    /\ elapsed' = 0
    /\ check' = 0
    /\ UNCHANGED <<timedOut, bounds, orderVars>>

(* Mutant of WaitTimesOut: a check that finds nothing starts over.         *)
WaitStartsOver ==
    /\ Waiting
    /\ check = 0
    /\ elapsed = MaxTimeout(Current)
    /\ elapsed' = 0
    /\ UNCHANGED <<status, at, check, timedOut, bounds, orderVars>>

(* ctx.Done: the wait fails, and the client gives up.                      *)
WaitTimesOut ==
    /\ Waiting
    /\ check = 0
    /\ elapsed = MaxTimeout(Current)
    /\ timedOut' = TRUE
    /\ UNCHANGED <<status, at, elapsed, check, bounds, orderVars>>

(***************************************************************************)
(* Time and the runtime (external).                                        *)
(***************************************************************************)
Present == {id \in Ids : status[id].phase # "none"}
AllUp == \A id \in Present : isReady(status[id], id)

(* Five seconds pass and the ticker fires; at the deadline it is open      *)
(* which of the two channels select picks.  Workloads come up between two  *)
(* ticks, with MaxSlow exceptions and unless one has failed.               *)
Tick ==
    /\ Waiting
    /\ check = 0
    /\ elapsed < MaxTimeout(Current)
    /\ elapsed' = elapsed + 1
    /\ check' \in IF elapsed' = MaxTimeout(Current) THEN {0, 1} ELSE {1}
    /\ AllUp \/ failures > 0 \/ slow < MaxSlow
    /\ slow' = IF AllUp \/ failures > 0 THEN slow ELSE slow + 1
    /\ status' = [id \in Ids |->
                    [status[id] EXCEPT !.cb.openUntil = IF @ > 0 THEN @ - 1 ELSE @]]
    /\ UNCHANGED <<at, timedOut, failures, orderVars>>

(* A pass of the reconcile loop over a workload: its two syncs, the probe  *)
(* that it counts, and the rollout of a Pending one (module                *)
(* CircuitBreaker).                                                        *)
Reconcile(id) ==
    \E t \in {Synced(status[id])} : \E s \in {Synced(t)} :
       /\ id \in Present
       /\ status' = [status EXCEPT ![id] =
             [phase |-> IF RouteVerdict(s.cb, s.phase) /\ s.phase = "Pending" THEN "Running" ELSE s.phase,
              ready |-> s.ready,
              cb |-> IF RouteVerdict(s.cb, s.phase) THEN RecordRouteAttempt(s.cb) ELSE s.cb]]
       /\ UNCHANGED <<waitVars, bounds, orderVars>>

Report(id, s) ==
    /\ status' = [status EXCEPT ![id].phase = s.phase, ![id].ready = s.ready]
    /\ UNCHANGED <<waitVars, slow, orderVars>>

(* One more replica of a workload is ready, a workload fails, or is back.  *)
ReplicaReady(id) ==
    /\ status[id].phase = "Running"
    /\ status[id].ready < Replicas[id]
    /\ Report(id, [phase |-> "Running", ready |-> status[id].ready + 1])
    /\ UNCHANGED failures

Fail(id) ==
    /\ status[id].phase = "Running"
    /\ failures < MaxFailures
    /\ failures' = failures + 1
    /\ Report(id, [phase |-> "Failed", ready |-> 0])

Recover(id) ==
    /\ status[id].phase = "Failed"
    /\ Report(id, [phase |-> "Running", ready |-> Replicas[id]])
    /\ UNCHANGED failures

(* seen starts over with every round of checks.                            *)
Observe ==
    seen' = (IF check = 0 THEN {} ELSE seen) \cup {id \in Ids : ConditionMet(status[id], id)'}

Resolve == OrderNext /\ UNCHANGED <<status, waitVars, bounds>>
Client == CheckDependency \/ Start \/ WaitTimesOut

Next ==
    /\ \/ Resolve
       \/ Client
       \/ Tick
       \/ \E id \in Ids : Reconcile(id) \/ ReplicaReady(id) \/ Fail(id) \/ Recover(id)
    /\ Observe

(* The client's goroutine goes on, and so does the loop; a workload that   *)
(* runs gets its replicas.                                                 *)
Fairness ==
    /\ WF_vars((Resolve \/ Client \/ Tick) /\ Observe)
    /\ \A id \in Ids : WF_vars(Reconcile(id) /\ Observe) /\ WF_vars(ReplicaReady(id) /\ Observe)

Spec == Init /\ [][Next]_vars
FairSpec == Spec /\ Fairness

(***************************************************************************)
(* Properties (see also ImplementsDeployOrder and CycleReported).          *)
(***************************************************************************)

(* When the client deploys a workload, each of its dependencies met its    *)
(* condition at some moment since the last tick: an answer from an earlier *)
(* round is never used, although the dependencies fail and recover between *)
(* the checks.  (They need not all have met it at the same moment.)        *)
StartsOnSatisfied ==
    [][at' # at => ToSet(deps[Current]) \subseteq seen]_vars

(* A dependency that is neither listed nor there lets a wait time out.     *)
Reachable == \A id \in listed : ToSet(deps[id]) \subseteq listed \cup Present

Ended ==
    \/ stage = "circular"
    \/ timedOut
    \/ stage = "ordered" /\ Ahead = {}

(* What OrderSuffices needs and the resolver cannot promise: workloads     *)
(* come up before the last tick of the shortest wait, and who is depended  *)
(* upon as "healthy" asks for a replica.                                   *)
Timely ==
    /\ MaxSlow + 1 < DefaultTimeout
    /\ \A id \in Ids : Condition[id] = "healthy" => Replicas[id] > 0

(* Without cycles, missing dependencies and failures no wait times out and *)
(* all workloads are deployed, even when some come up late: the order is   *)
(* such that nobody waits for something that is deployed after it.         *)
OrderSuffices == timedOut => failures > 0 \/ ~Reachable

(* Every deployment ends: the sort and the search do, and so does every    *)
(* wait, whatever the dependencies do.                                     *)
DeploymentEnds == <>Ended
==============================================================================
