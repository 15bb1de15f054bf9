------------------------------- MODULE Rollout -------------------------------
(***************************************************************************)
(* The rollout of one workload: the health gate                            *)
(* (internal/healthgate/engine.go), the strategies                         *)
(* (internal/rollout/rollout.go) and the scheduler's placement, as the     *)
(* reconcile loop tries and retries them until the workload runs.          *)
(*                                                                         *)
(* A strategy is the list of Schedule calls it makes (Plan); a step is one *)
(* call, and core may crash between two of them.  The analysis sleeps in   *)
(* between change nothing.  Deploys reach the workload between attempts    *)
(* only (module Core is about deploys during a pass).                      *)
(*                                                                         *)
(* With the memory store (live) an attempt works on the stored object, and *)
(* what it changed there stays when it fails; with etcd it works on a      *)
(* copy, stored when it succeeds.                                          *)
(***************************************************************************)
EXTENDS Placement

CONSTANTS
    Submissions,    \* the specs that clients deploy
    MaxDisturbances \* bound: deploys and crashes in a behaviour

(* A spec.  config: the canary or A/B configuration is there; count and    *)
(* share are its Replicas and its Percentage or TrafficSplit, auto its     *)
(* AutoPromote or AutoSelectWinner, a and b the images of the variants.    *)
(* Validate looks at none of the numbers, so they may be negative and a    *)
(* share more than 100.                                                    *)
(* gate.timeout says whether Timeout is empty or can be parsed.            *)
GateType == [on : BOOLEAN, mode : {"block", "warn", "ignore"},
             timeout : {"unset", "valid", "invalid"},
             checks : Seq({"http", "tcp", "command", "prometheus", "other"})]
Selectors == {s.sched.selectors : s \in Submissions}
SelectorKeys == {Hostname} \cup UNION {DOMAIN f : f \in Selectors}
SelectorValues == NodeIDs \cup UNION {{f[k] : k \in DOMAIN f} : f \in Selectors}
SpecType == [type : STRING, config : BOOLEAN, image : STRING, replicas : Int, count : Int,
             share : Int, auto : BOOLEAN, a : STRING, b : STRING, gate : GateType,
             sched : SchedulingType(SelectorKeys, SelectorValues)]

ASSUME RolloutAssumption ==
    /\ Submissions \subseteq SpecType
    /\ MaxDisturbances \in Nat

VARIABLES
    live,    \* memory store, or etcd
    stored,  \* the stored spec, or NoSpec
    asked,   \* the spec as the client submitted it (history)
    phase,   \* Status.Phase
    attempt, \* the rollout under way: the spec it works on and the next call
    runtime, \* what a driver deployed last, per part (external)
    before,  \* runtime at the last deploy request (history)
    cleared, \* did an attempt since then meet no failing blocking check? (history)
    count    \* deploys and crashes so far

vars == <<live, stored, asked, phase, attempt, runtime, before, cleared, count>>
history == <<live, asked, before, count>>

NoSpec == [type |-> "none"]

(* The workload's own ID, ID-canary, ID-variant-a and ID-variant-b.        *)
Parts == {"main", "canary", "variant-a", "variant-b"}
NotDeployed == [node |-> "none"]
Images == UNION {{s.image, s.a, s.b} : s \in Submissions}

(* wants is the scheduling record the client asked for (history).          *)
Deployment == [node : NodeIDs \cup {AnyNode}, image : Images, replicas : Int,
               wants : {s.sched : s \in Submissions}]

NoAttempt == [next |-> 0, w |-> NoSpec]
Idle == attempt = NoAttempt

(* A stored spec is a submitted one, up to the image an A/B test selected  *)
(* and the node it was pinned to.                                          *)
StoredSpec(s) == [s EXCEPT !.image = asked.image, !.sched = asked.sched] = asked

TypeOK ==
    /\ live \in BOOLEAN
    /\ asked \in Submissions \cup {NoSpec}
    /\ stored = NoSpec \/ StoredSpec(stored)
    /\ phase \in {"none", "Pending", "Running"}
    /\ attempt.next \in 0 .. 4
    /\ attempt.w = NoSpec \/ StoredSpec(attempt.w)
    /\ runtime \in [Parts -> Deployment \cup {NotDeployed}]
    /\ cleared \in BOOLEAN
    /\ count \in 0 .. MaxDisturbances

Init ==
    /\ live \in BOOLEAN
    /\ stored = NoSpec
    /\ asked = NoSpec
    /\ phase = "none"
    /\ attempt = NoAttempt
    /\ runtime = [p \in Parts |-> NotDeployed]
    /\ before = runtime
    /\ cleared = FALSE
    /\ count = 0

Disturbance == count < MaxDisturbances /\ count' = count + 1

(* A client deploys: a fresh object, Pending.                              *)
Deploy(s) ==
    /\ Idle
    /\ Disturbance
    /\ stored' = s
    /\ asked' = s
    /\ phase' = "Pending"
    /\ before' = runtime
    /\ cleared' = FALSE
    /\ UNCHANGED <<live, attempt, runtime>>

(* Core crashes and starts again: the attempt is gone, and with the memory *)
(* store the workload too.  What runs keeps running.                       *)
Crash ==
    /\ Disturbance
    /\ attempt' = NoAttempt
    /\ IF live
       THEN /\ stored' = NoSpec
            /\ asked' = NoSpec
            /\ phase' = "none"
            /\ before' = runtime
            /\ cleared' = FALSE
       ELSE UNCHANGED <<stored, asked, phase, before, cleared>>
    /\ UNCHANGED <<live, runtime>>

(***************************************************************************)
(* The health gate.                                                        *)
(***************************************************************************)

(* executeCheck: only HTTP checks are implemented.  failed are the ones    *)
(* whose endpoint does not answer as expected; an unreadable Timeout is    *)
(* read as 0, so that no request is made in time.                          *)
executeCheck(gate, i, failed) ==
    CASE gate.checks[i] # "http"                     -> "unknown"
      [] gate.timeout = "invalid" \/ i \in failed    -> "failing"
      [] OTHER                                       -> "passing"

(* Mutant of Blocked: the last check decides.                              *)
BlockedByLast(gate, failed) ==
    /\ gate.on
    /\ gate.mode = "block"
    /\ gate.checks # <<>>
    /\ executeCheck(gate, Len(gate.checks), failed) = "failing"

(* EvaluateHealthGates: one failing check blocks.                          *)
Blocked(gate, failed) ==
    /\ gate.on
    /\ gate.mode = "block"
    /\ \E i \in DOMAIN gate.checks : executeCheck(gate, i, failed) = "failing"

(***************************************************************************)
(* The strategies.                                                         *)
(***************************************************************************)
Single == {"", "rolling", "recreate", "bluegreen"}

(* n * share / 100, where Go's division truncates towards zero.            *)
Percent(n, share) ==
    LET x == n * share IN IF x >= 0 THEN x \div 100 ELSE -((-x) \div 100)

CanaryReplicas(w) == IF w.share > 0 THEN Percent(w.replicas, w.share) ELSE w.count

VariantBReplicas(w) == Percent(w.replicas, w.share)

Call(part, image, replicas) == [part |-> part, image |-> image, replicas |-> replicas]

(* The Schedule calls of a strategy.  The winner of an A/B test is A.      *)
Plan(w) ==
    CASE w.type = "canary" ->
            <<Call("canary", w.image, CanaryReplicas(w))>>
            \o IF w.auto THEN <<Call("main", w.image, w.replicas)>> ELSE <<>>
      [] w.type = "abtest" ->
            <<Call("variant-a", w.a, w.replicas - VariantBReplicas(w)),
              Call("variant-b", w.b, VariantBReplicas(w))>>
            \o IF w.auto THEN <<Call("main", w.a, w.replicas)>> ELSE <<>>
      [] OTHER -> <<Call("main", w.image, w.replicas)>>

(* Neither an unknown type nor a missing configuration.                    *)
KnownStrategy(w) == w.type \in Single \/ (w.type \in {"canary", "abtest"} /\ w.config)

(* ExecuteRollout up to the first call.  A blocked or an unknown rollout   *)
(* ends with an error.                                                     *)
ExecuteRollout(failed) ==
    /\ Idle
    /\ phase = "Pending"
    /\ cleared' = (cleared \/ ~stored.gate.on \/ stored.gate.mode # "block"
                   \/ \A i \in DOMAIN stored.gate.checks :
                         stored.gate.checks[i] = "http" => i \notin failed)
    /\ IF Blocked(stored.gate, failed) \/ ~KnownStrategy(stored)
       THEN UNCHANGED attempt
       ELSE attempt' = [next |-> 1, w |-> stored]
    /\ UNCHANGED <<stored, phase, runtime, history>>

(* What a failed attempt leaves behind: its changes to a live object.      *)
Abandon(w) ==
    /\ attempt' = NoAttempt
    /\ stored' = IF live THEN w ELSE stored

Calling == ~Idle /\ attempt.next <= Len(Plan(attempt.w))

(* Mutant of Current: the parts are no copies of the workload, so that the *)
(* replicas of each are written into it.                                   *)
CurrentShared(w, i) == [w EXCEPT !.replicas = Plan(w)[i].replicas]

(* The object when a call is made: an A/B test sets the winner's image     *)
(* before the last one.                                                    *)
Current(w, i) ==
    IF w.type = "abtest" /\ Plan(w)[i].part = "main" THEN [w EXCEPT !.image = w.a] ELSE w

(* Schedule: cost-aware workloads are placed first.  The parts share the   *)
(* scheduling record of the workload, so each placement pins the next.     *)
Placed(w) == IF w.sched.costAware THEN selectCheapestNode(w.sched) ELSE {[id |-> AnyNode]}

Pin(w, node) ==
    IF w.sched.costAware THEN [w EXCEPT !.sched = Pinned(w.sched, node)] ELSE w

Advance(w) ==
    /\ attempt' = [next |-> attempt.next + 1, w |-> w]
    /\ UNCHANGED stored

(* The driver's Deploy succeeds, ...                                       *)
ScheduleOK(part) ==
    LET i == attempt.next
        w == Current(attempt.w, i)
        call == Plan(w)[i]
    IN /\ Calling
       /\ call.part = part
       /\ \E node \in Placed(w) :
             /\ Advance(Pin(w, node))
             /\ runtime' = [runtime EXCEPT ![part] =
                   [node |-> node.id, image |-> call.image, replicas |-> call.replicas,
                    wants |-> asked.sched]]
       /\ UNCHANGED <<phase, cleared, history>>

(* Mutant of DeployFails: the error is ignored.                            *)
DeployFailsIgnored ==
    /\ Calling
    /\ Advance(Current(attempt.w, attempt.next))
    /\ UNCHANGED <<phase, runtime, cleared, history>>

(* ... or fails, after the placement has been written down.                *)
DeployFails ==
    LET w == Current(attempt.w, attempt.next)
    IN /\ Calling
       /\ \E node \in Placed(w) : Abandon(Pin(w, node))
       /\ UNCHANGED <<phase, runtime, cleared, history>>

(* Schedule fails before that: no driver for the backend, no answer from   *)
(* the registry, or no node within the cost limit.                         *)
ScheduleFails ==
    /\ Calling
    /\ Abandon(Current(attempt.w, attempt.next))
    /\ UNCHANGED <<phase, runtime, cleared, history>>

(* Mutant of PostSchedule: the phase is set on the object and not stored.  *)
PostScheduleUnsaved ==
    /\ ~Idle
    /\ ~Calling
    /\ stored' = IF live THEN attempt.w ELSE stored
    /\ phase' = IF live THEN "Running" ELSE phase
    /\ attempt' = NoAttempt
    /\ UNCHANGED <<runtime, cleared, history>>

(* postSchedule of reconcileOne.                                           *)
PostSchedule ==
    /\ ~Idle
    /\ ~Calling
    /\ stored' = attempt.w
    /\ phase' = "Running"
    /\ attempt' = NoAttempt
    /\ UNCHANGED <<runtime, cleared, history>>

(* A pass over a workload that is not Pending rolls nothing out.           *)
NothingToDo ==
    /\ Idle
    /\ phase # "Pending"
    /\ UNCHANGED vars

Checks == UNION {DOMAIN s.gate.checks : s \in Submissions}

Step ==
    \/ \E failed \in SUBSET Checks : ExecuteRollout(failed)
    \/ \E p \in Parts : ScheduleOK(p)
    \/ DeployFails
    \/ ScheduleFails
    \/ PostSchedule

Next ==
    \/ \E s \in Submissions : Deploy(s)
    \/ Crash
    \/ Step
    \/ NothingToDo

(* The loop goes on, and what is asked for again and again, a passing set  *)
(* of checks or a driver's Deploy of a part, is granted in the end.        *)
Fairness ==
    /\ WF_vars(Step)
    /\ SF_vars(ExecuteRollout({}))
    /\ \A p \in Parts : SF_vars(ScheduleOK(p))

Spec == Init /\ [][Next]_vars
FairSpec == Spec /\ Fairness

(***************************************************************************)
(* Properties.                                                             *)
(***************************************************************************)

(* Running means rolled out: every part of the strategy is deployed with   *)
(* the image and the replicas it should have, however many attempts failed *)
(* half-way, crashed or were replaced before.                              *)
RunningIsComplete ==
    phase = "Running" =>
       \A i \in DOMAIN Plan(asked) :
          LET call == Plan(asked)[i] IN
          /\ runtime[call.part] # NotDeployed
          /\ runtime[call.part].image = call.image
          /\ runtime[call.part].replicas = call.replicas

(* A blocking gate keeps the old version: as long as every attempt for the *)
(* deployed spec met a failing HTTP check, nothing that runs has changed.  *)
BlockedKeepsOld == ~cleared => runtime = before

(* max_cost_per_hour holds for every part, through retries and when no     *)
(* node matches the preferences.                                           *)
PlacedWithinBudget ==
    \A p \in Parts, i \in DOMAIN Nodes :
        runtime[p] # NotDeployed /\ runtime[p].node = Nodes[i].id =>
           Affordable(Nodes[i], runtime[p].wants)

(* A spec that can be rolled out at all: a known strategy, a gate that can *)
(* pass, and an affordable node among the first candidates.                *)
Deployable(s) ==
    /\ KnownStrategy(s)
    /\ ~Blocked(s.gate, {})
    /\ s.sched.costAware => selectCheapestNode(s.sched) # {}

(* Once deploys and crashes end, a spec that can be rolled out is, however *)
(* the attempts before left object and runtime.                            *)
RolloutsEnd == <>[](phase = "Pending" => ~Deployable(asked))

(* README: architecture and avoid_draining_nodes "filter the node registry *)
(* before cost-aware placement".  When a matching and affordable node      *)
(* exists, every part is placed on one.                                    *)
PlacementFiltered ==
    \A p \in Parts, i \in DOMAIN Nodes :
        /\ runtime[p].node = Nodes[i].id
        /\ \E j \in DOMAIN Nodes : Preferred(Nodes[j], runtime[p].wants)
                                   /\ Affordable(Nodes[j], runtime[p].wants)
        => Preferred(Nodes[i], runtime[p].wants)
==============================================================================
