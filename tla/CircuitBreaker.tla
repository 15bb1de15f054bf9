---------------------------- MODULE CircuitBreaker ----------------------------
(***************************************************************************)
(* One workload and its circuit breaker, as the reconcile loop drives it   *)
(* (internal/reconciler/reconciler.go, reconcileOne).                      *)
(*                                                                         *)
(* A pass syncs the status and persists it; later in the same pass         *)
(* AllowRoute syncs the status AGAIN, decides whether the workload may be  *)
(* scheduled, and RecordRouteAttempt counts a probe.  The events published *)
(* on the way have no subscriber and are left out.                         *)
(*                                                                         *)
(* With the memory store the workload is a live pointer, so what           *)
(* AllowRoute and RecordRouteAttempt change stays; with etcd it is a copy, *)
(* and only a successful rollout writes it back.                           *)
(*                                                                         *)
(* Passes are made by one goroutine, and nothing else writes the phase of  *)
(* a stored workload during a pass, so a pass is one action.  The phases   *)
(* other than Pending come from outside (runtime drivers and custom        *)
(* controllers); the clock ticks between passes.                           *)
(***************************************************************************)
EXTENDS CircuitEngine

VARIABLES
    live,       \* TRUE: memory store (live pointers); FALSE: etcd (copies)
    phase,      \* Status.Phase of the stored workload
    ready,      \* Status.ReadyReplicas > 0
    cb,         \* Status.CircuitBreaker of the stored workload
    routed,     \* did the last pass pass the AllowRoute gate?
    sinceTrip,  \* ticks since the circuit last tripped, capped at OpenDuration
    probes      \* passes routed in the current half-open period

vars == <<live, phase, ready, cb, routed, sinceTrip, probes>>
history == <<live, sinceTrip, probes>>

(* probes counts only as far as the properties look.                       *)
ProbesShown == HalfOpenMax + 1
Capped(n) == IF n < ProbesShown THEN n + 1 ELSE n

TypeOK ==
    /\ live \in BOOLEAN
    /\ phase \in Phases
    /\ ready \in BOOLEAN
    /\ cb \in CircuitStatus
    /\ routed \in BOOLEAN
    /\ sinceTrip \in 0 .. OpenDuration
    /\ probes \in 0 .. ProbesShown

Init ==
    /\ live \in BOOLEAN
    /\ phase = "Pending"
    /\ ready = FALSE
    /\ cb = NoCircuit
    /\ routed = FALSE
    /\ sinceTrip = OpenDuration
    /\ probes = 0

(* reconcileOne as far as the circuit breaker is concerned.  due is FALSE  *)
(* when the workload has a cron schedule that is not due: the pass returns *)
(* before AllowRoute.  deployed is the outcome of the rollout of a Pending *)
(* workload: on success postSchedule sets Running and persists the object. *)
ReconcileOne(due, deployed) ==
    LET synced  == SyncFromWorkload(cb, phase, ready)
        again   == IF due THEN SyncFromWorkload(synced, phase, ready) ELSE synced
        allowed == due /\ RouteVerdict(again, phase)
        final   == IF allowed THEN RecordRouteAttempt(again) ELSE again
        runs    == allowed /\ phase = "Pending" /\ deployed
        stored  == IF live \/ runs THEN final ELSE synced
        tripped == stored.state = "open" /\ ~(cb.state = "open" /\ cb.openUntil # 0)
    IN /\ cb' = stored
       /\ routed' = allowed
       /\ phase' = IF runs THEN "Running" ELSE phase
       /\ sinceTrip' = IF tripped THEN 0 ELSE sinceTrip
       /\ probes' = IF stored.state # "half-open" THEN 0
                    ELSE IF allowed THEN Capped(probes) ELSE probes
       /\ UNCHANGED <<live, ready>>

(* A pass that policy or quota stops before the breaker looks at the       *)
(* workload.                                                               *)
ReconcileRejected ==
    /\ routed' = FALSE
    /\ UNCHANGED <<phase, ready, cb, history>>

(* A runtime driver or a custom controller reports what it observes.       *)
RuntimeReports(p, r) ==
    /\ phase' = p
    /\ ready' = r
    /\ UNCHANGED <<cb, routed, history>>

(* warmstandby.Promote puts a standby back to Pending and keeps its status.*)
Requeue ==
    /\ phase' = "Pending"
    /\ UNCHANGED <<ready, cb, routed, history>>

(* deployOne stores a fresh object: Pending, with no circuit status.       *)
Redeploy ==
    /\ phase' = "Pending"
    /\ ready' = FALSE
    /\ cb' = NoCircuit
    /\ routed' = FALSE
    /\ sinceTrip' = OpenDuration
    /\ probes' = 0
    /\ UNCHANGED live

(* A clock tick: the deadline of an open circuit comes nearer.             *)
Tick ==
    /\ cb' = [cb EXCEPT !.openUntil = IF @ > 0 THEN @ - 1 ELSE @]
    /\ sinceTrip' = IF sinceTrip < OpenDuration THEN sinceTrip + 1 ELSE sinceTrip
    /\ UNCHANGED <<live, phase, ready, routed, probes>>

Next ==
    \/ \E due, deployed \in BOOLEAN : ReconcileOne(due, deployed)
    \/ ReconcileRejected
    \/ \E p \in Phases \ {"Pending"}, r \in BOOLEAN : RuntimeReports(p, r)
    \/ Requeue
    \/ Redeploy
    \/ Tick

(* The ticker of the reconcile loop fires for ever, and so does time; the  *)
(* workload is not rejected for ever.                                      *)
Fairness ==
    /\ WF_vars(\E due, deployed \in BOOLEAN : ReconcileOne(due, deployed))
    /\ WF_vars(Tick)

Spec == Init /\ [][Next]_vars
FairSpec == Spec /\ Fairness

(***************************************************************************)
(* Properties.                                                             *)
(***************************************************************************)

(* The counters agree with the state, in every state of the store, however *)
(* passes, reports, ticks and redeploys follow each other.                 *)
CountersMatchState == Consistent(cb)

(* A pass lets a workload through to the scheduler only when the circuit   *)
(* has never tripped or OpenDuration has gone by since it last did,        *)
(* whatever the phases reported and the probes made in between.            *)
NoRouteDuringCooldown == routed => sinceTrip = OpenDuration

(* One half-open period lets at most half_open_max_requests passes through *)
(* to the scheduler, as long as the pass works on the stored object: on a  *)
(* copy, what RecordRouteAttempt counts is lost.                           *)
ProbeBudget == live => probes <= HalfOpenMax

(* A workload that stays Running with ready replicas gets its circuit      *)
(* closed for good: no combination of an open circuit, a spent probe       *)
(* budget and a late deadline blocks the recovery of a healthy workload.   *)
HealthyCloses ==
    <>[](phase = "Running" /\ ready) => <>[](cb.state \in {"none", "closed"})

(* A workload that stays Failed is not scheduled for ever: from some pass  *)
(* on, AllowRoute refuses it, half-open periods included.                  *)
FailedIsCutOff == <>[](phase = "Failed") => <>[](~routed)
==============================================================================
