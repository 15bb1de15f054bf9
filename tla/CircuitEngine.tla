---------------------------- MODULE CircuitEngine ----------------------------
(***************************************************************************)
(* The per-workload circuit breaker of internal/circuitbreaker/engine.go   *)
(* as operators on a circuit status record.  The status is what            *)
(* types.CircuitBreakerStatus persists, without LastTransition and Message *)
(* (never read).  Two fields are abstracted:                               *)
(*   - openUntil is the time left until OpenUntil, in clock ticks, floored *)
(*     at 0 (the code only asks whether OpenUntil has passed); the nil     *)
(*     pointer is NoDeadline;                                              *)
(*   - fails stops at the failure threshold: the code compares it with the *)
(*     threshold and with nothing else.                                    *)
(***************************************************************************)
EXTENDS Integers

CONSTANTS
    Config,     \* circuitbreaker.Config as read from the configuration file
    CircuitSpec \* Workload.Spec.CircuitBreaker

(* The value of the CONSTANTs: integers as they come from YAML and JSON,   *)
(* where 0 or less means "not set".  present is FALSE when the workload's  *)
(* spec has no circuit_breaker; trip is TripOnDegraded, "unset" when nil.  *)
ConfigType == [enabled : BOOLEAN, failureThreshold : Int, successThreshold : Int,
               openDuration : Int, halfOpenMax : Int]
SpecType == [present : BOOLEAN, enabled : BOOLEAN, failureThreshold : Int,
             successThreshold : Int, openDuration : Int, halfOpenMax : Int,
             trip : {"unset", "yes", "no"}]

ASSUME ConfigAssumption ==
    /\ Config \in ConfigType
    /\ CircuitSpec \in SpecType

(* New replaces the unset limits of the configuration.                     *)
New(cfg) ==
    [enabled          |-> cfg.enabled,
     failureThreshold |-> IF cfg.failureThreshold <= 0 THEN 3 ELSE cfg.failureThreshold,
     successThreshold |-> IF cfg.successThreshold <= 0 THEN 2 ELSE cfg.successThreshold,
     openDuration     |-> IF cfg.openDuration <= 0 THEN 60 ELSE cfg.openDuration,
     halfOpenMax      |-> IF cfg.halfOpenMax <= 0 THEN 1 ELSE cfg.halfOpenMax]

(* EnabledFor: by the workload's spec or globally.                         *)
EnabledFor == \/ CircuitSpec.present /\ CircuitSpec.enabled
              \/ Config.enabled

(* effectiveSpec: positive limits of the workload override the defaults.   *)
Override(own, default) == IF own > 0 THEN own ELSE default

EffectiveSpec ==
    LET es == New(Config) IN
    IF ~CircuitSpec.present
    THEN [failureThreshold |-> es.failureThreshold, successThreshold |-> es.successThreshold,
          openDuration |-> es.openDuration, halfOpenMax |-> es.halfOpenMax, trip |-> "unset"]
    ELSE [failureThreshold |-> Override(CircuitSpec.failureThreshold, es.failureThreshold),
          successThreshold |-> Override(CircuitSpec.successThreshold, es.successThreshold),
          openDuration     |-> Override(CircuitSpec.openDuration, es.openDuration),
          halfOpenMax      |-> Override(CircuitSpec.halfOpenMax, es.halfOpenMax),
          trip             |-> CircuitSpec.trip]

FailureThreshold == EffectiveSpec.failureThreshold
SuccessThreshold == EffectiveSpec.successThreshold
OpenDuration == EffectiveSpec.openDuration
HalfOpenMax == EffectiveSpec.halfOpenMax
TripDegraded == EffectiveSpec.trip # "no"

Phases == {"Pending", "Running", "Degraded", "Failed", "Succeeded"}
CircuitStates == {"closed", "open", "half-open"}

(* OpenUntil = nil.                                                        *)
NoDeadline == -1

(* Status.CircuitBreaker = nil: the workload has not been seen yet.        *)
NoCircuit == [state |-> "none", fails |-> 0, ok |-> 0, attempts |-> 0,
              openUntil |-> NoDeadline]

CircuitStatus ==
    [state : CircuitStates \cup {"none"}, fails : 0 .. FailureThreshold,
     ok : 0 .. SuccessThreshold, attempts : Nat, openUntil : NoDeadline .. OpenDuration]

(* Mutant of Unhealthy: only a degraded workload counts.                   *)
UnhealthyDegradedOnly(phase) == phase = "Degraded"

Unhealthy(phase) == phase = "Failed" \/ (TripDegraded /\ phase = "Degraded")

(* A new status is closed; an open one whose deadline passed is half-open. *)
Initialised(cb) == IF cb.state = "none" THEN [cb EXCEPT !.state = "closed"] ELSE cb

(* Mutant of Advanced: half-open without waiting for the deadline.         *)
AdvancedEarly(cb) == IF cb.state = "open" THEN [cb EXCEPT !.state = "half-open"] ELSE cb

Advanced(cb) ==
    IF cb.state = "open" /\ cb.openUntil = 0
    THEN [cb EXCEPT !.state = "half-open"]
    ELSE cb

(* ConsecutiveFails++, as far as it matters.                               *)
Bump(n) == IF n < FailureThreshold THEN n + 1 ELSE n

CountFailure(cb) ==
    [state |-> cb.state, fails |-> Bump(cb.fails), ok |-> 0,
     attempts |-> cb.attempts, openUntil |-> cb.openUntil]

(* Mutant of Trip: OpenUntil is not set.                                   *)
TripWithoutDeadline(cb) == [CountFailure(cb) EXCEPT !.state = "open"]

(* Mutant of Closed: ConsecutiveFails is not reset.                        *)
ClosedKeepsFails(cb) ==
    [cb EXCEPT !.state = "closed", !.attempts = 0, !.openUntil = NoDeadline]

(* The transition to open, with a new deadline, and to closed.             *)
Trip(cb) ==
    [state |-> "open", fails |-> cb.fails, ok |-> cb.ok,
     attempts |-> cb.attempts, openUntil |-> OpenDuration]

Closed(cb) ==
    [state |-> "closed", fails |-> 0, ok |-> cb.ok,
     attempts |-> 0, openUntil |-> NoDeadline]

(* The switch on the state, in the closed and in the half-open case.       *)
SyncClosed(cb, phase) ==
    CASE Unhealthy(phase) ->
            LET c == CountFailure(cb)
            IN IF c.fails >= FailureThreshold THEN Trip(c) ELSE c
      [] phase = "Running" -> [cb EXCEPT !.fails = 0]
      [] OTHER -> cb

(* Mutant of SyncHalfOpen: one success more than the threshold is needed.  *)
SyncHalfOpenLate(cb, phase, ready) ==
    CASE Unhealthy(phase) -> Trip(CountFailure(cb))
      [] phase = "Running" /\ ready ->
            LET c == [cb EXCEPT !.ok = @ + 1]
            IN IF c.ok > SuccessThreshold THEN Closed(c) ELSE c
      [] OTHER -> cb

SyncHalfOpen(cb, phase, ready) ==
    CASE Unhealthy(phase) -> Trip(CountFailure(cb))
      [] phase = "Running" /\ ready ->
            LET c == [cb EXCEPT !.ok = @ + 1]
            IN IF c.ok >= SuccessThreshold THEN Closed(c) ELSE c
      [] OTHER -> cb

(* SyncFromWorkload: the status after one observation of the workload's    *)
(* phase (ready: ReadyReplicas > 0).                                       *)
SyncFromWorkload(cb, phase, ready) ==
    IF ~EnabledFor THEN cb ELSE
    LET c == Advanced(Initialised(cb)) IN
    CASE c.state = "closed"    -> SyncClosed(c, phase)
      [] c.state = "half-open" -> SyncHalfOpen(c, phase, ready)
      [] OTHER                 -> c

(* The verdict of AllowRoute on a status that it has just synced.          *)
RouteVerdict(cb, phase) ==
    IF ~EnabledFor THEN phase # "Failed" ELSE
    CASE cb.state = "open"      -> FALSE
      [] cb.state = "half-open" -> cb.attempts < HalfOpenMax
      [] OTHER                  -> ~Unhealthy(phase)

(* Mutant of RecordRouteAttempt: the probe is not counted.                 *)
RecordRouteAttemptLost(cb) == cb

RecordRouteAttempt(cb) ==
    IF cb.state = "half-open" THEN [cb EXCEPT !.attempts = @ + 1] ELSE cb

(* What a status should be in any reachable state: one not yet initialised *)
(* is blank, a closed circuit is below the failure threshold, an open one  *)
(* reached it, forgot its successes and has a deadline (without one it     *)
(* would never probe), and a half-open one is past the deadline and still  *)
(* short of the successes that would close it, its failures not forgiven.  *)
Consistent(c) ==
    /\ c.state = "none" => c = NoCircuit
    /\ c.state = "closed" => c.fails < FailureThreshold /\ c.openUntil = NoDeadline
    /\ c.state = "open" =>
          /\ c.fails = FailureThreshold
          /\ c.ok = 0
          /\ c.openUntil # NoDeadline
    /\ c.state = "half-open" =>
          /\ c.fails = FailureThreshold
          /\ c.ok < SuccessThreshold
          /\ c.openUntil = 0
==============================================================================
