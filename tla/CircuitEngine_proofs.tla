------------------------- MODULE CircuitEngine_proofs -------------------------
(***************************************************************************)
(* Lemmas about the operators of CircuitEngine, for every configuration    *)
(* and every circuit_breaker spec: what one observation, one recorded      *)
(* probe and one tick make of a well-typed and consistent status.          *)
(***************************************************************************)
EXTENDS CircuitEngine, TLAPS

(* New and effectiveSpec leave no limit unset: whatever integers the       *)
(* configuration and the workload hold, every effective limit is positive. *)
LEMMA LimitsPositive ==
    /\ FailureThreshold \in Nat \ {0}
    /\ SuccessThreshold \in Nat \ {0}
    /\ OpenDuration \in Nat \ {0}
    /\ HalfOpenMax \in Nat \ {0}
  BY ConfigAssumption
     DEF ConfigType, SpecType, FailureThreshold, SuccessThreshold, OpenDuration,
         HalfOpenMax, EffectiveSpec, New, Override

(* What one observation makes of a well-typed, consistent status: it is    *)
(* consistent again; an open status that is not past its deadline stays as *)
(* it is, and one that is open afterwards has just got a full deadline.    *)
SyncResult(c, s) ==
    /\ s \in CircuitStatus
    /\ Consistent(s)
    /\ s.attempts <= c.attempts
    /\ s.state = "half-open" =>
          c.state \in {"open", "half-open"} /\ s.attempts = c.attempts
    /\ c.state = "open" /\ c.openUntil # 0 => s = c
    /\ s.state = "open" /\ ~(c.state = "open" /\ c.openUntil # 0)
          => s.openUntil = OpenDuration

(* CountFailure keeps the type, resets the successes and leaves the rest.  *)
LEMMA CountFailureResult ==
    ASSUME NEW c \in CircuitStatus
    PROVE  LET f == CountFailure(c) IN
           /\ f \in CircuitStatus
           /\ f.state = c.state /\ f.attempts = c.attempts /\ f.openUntil = c.openUntil
           /\ f.ok = 0
           /\ c.fails = FailureThreshold => f.fails = FailureThreshold
  <1>1. Bump(c.fails) \in 0 .. FailureThreshold
    BY LimitsPositive DEF Bump, CircuitStatus
  <1>2. c.fails = FailureThreshold => Bump(c.fails) = FailureThreshold
    BY LimitsPositive DEF Bump
  <1> QED BY LimitsPositive, <1>1, <1>2 DEF CountFailure, CircuitStatus, CircuitStates

(* The transition to open sets a full deadline and keeps the counters.     *)
LEMMA TripResult ==
    ASSUME NEW c \in CircuitStatus
    PROVE  LET f == Trip(c) IN
           /\ f \in CircuitStatus
           /\ f.state = "open" /\ f.openUntil = OpenDuration
           /\ f.attempts = c.attempts /\ f.ok = c.ok /\ f.fails = c.fails
  BY LimitsPositive DEF Trip, CircuitStatus, CircuitStates, NoDeadline

(* The transition to closed keeps the type.                                *)
LEMMA ClosedResult ==
    ASSUME NEW c \in CircuitStatus
    PROVE  Closed(c) \in CircuitStatus
  BY LimitsPositive DEF Closed, CircuitStatus, CircuitStates, NoDeadline

(* SyncFromWorkload of an enabled breaker, state by state.                 *)
LEMMA SyncKeepsConsistent ==
    ASSUME EnabledFor,
           NEW c \in CircuitStatus, Consistent(c), NEW p \in Phases, NEW r \in BOOLEAN
    PROVE  SyncResult(c, SyncFromWorkload(c, p, r))
  <1> DEFINE a == Advanced(Initialised(c))
  <1> USE LimitsPositive DEF Consistent, NoDeadline
  <1>1. /\ a \in CircuitStatus /\ Consistent(a)
        /\ a.attempts = c.attempts
        /\ a.state # "none"
        /\ a.state = "half-open" => c.state \in {"open", "half-open"}
        /\ a.state = "open" => c = a /\ c.openUntil # 0
        /\ a.state = "open" \/ ~(c.state = "open" /\ c.openUntil # 0)
    BY DEF Initialised, Advanced, CircuitStatus, CircuitStates, NoCircuit
  <1>2. CASE a.state = "closed"
    <2>1. SyncFromWorkload(c, p, r) = SyncClosed(a, p)
      BY <1>2 DEF SyncFromWorkload
    <2>2. SyncResult(a, SyncClosed(a, p))
      <3> HIDE DEF a
      <3>1. CASE Unhealthy(p)
        <4> DEFINE f == CountFailure(a)
        <4>1. /\ f \in CircuitStatus /\ f.state = "closed" /\ f.ok = 0
              /\ f.attempts = a.attempts /\ f.openUntil = NoDeadline
          BY <1>1, <1>2, CountFailureResult
        <4>2. SyncClosed(a, p) = IF f.fails >= FailureThreshold THEN Trip(f) ELSE f
          BY <3>1 DEF SyncClosed, Unhealthy
        <4> HIDE DEF f
        <4> QED BY <1>1, <1>2, <4>1, <4>2, TripResult DEF SyncResult, CircuitStatus
      <3>2. CASE ~Unhealthy(p)
        BY <1>1, <1>2, <3>2
           DEF SyncClosed, SyncResult, Unhealthy, CircuitStatus, CircuitStates
      <3> QED BY <3>1, <3>2
    <2> QED BY <1>1, <1>2, <2>1, <2>2 DEF SyncResult
  <1>3. CASE a.state = "half-open"
    <2>1. SyncFromWorkload(c, p, r) = SyncHalfOpen(a, p, r)
      BY <1>3 DEF SyncFromWorkload
    <2>2. SyncResult(a, SyncHalfOpen(a, p, r))
      <3> HIDE DEF a
      <3>1. CASE Unhealthy(p)
        <4> DEFINE f == CountFailure(a)
        <4>1. /\ f \in CircuitStatus /\ f.state = "half-open" /\ f.ok = 0
              /\ f.attempts = a.attempts /\ f.fails = FailureThreshold
          BY <1>1, <1>3, CountFailureResult
        <4>2. SyncHalfOpen(a, p, r) = Trip(f)
          BY <3>1 DEF SyncHalfOpen, Unhealthy
        <4> HIDE DEF f
        <4> QED BY <1>1, <1>3, <4>1, <4>2, TripResult DEF SyncResult, CircuitStatus
      <3>2. CASE ~Unhealthy(p)
        <4> DEFINE g == [a EXCEPT !.ok = @ + 1]
        <4>1. ASSUME p = "Running", r
              PROVE  /\ g \in CircuitStatus
                     /\ g.state = "half-open" /\ g.attempts = a.attempts
                     /\ g.openUntil = 0 /\ g.fails = FailureThreshold
          BY <1>1, <1>3 DEF CircuitStatus, CircuitStates
        <4>2. SyncHalfOpen(a, p, r) =
                IF p = "Running" /\ r
                THEN IF g.ok >= SuccessThreshold THEN Closed(g) ELSE g
                ELSE a
          BY <3>2 DEF SyncHalfOpen, Unhealthy
        <4> HIDE DEF g
        <4>3. CASE p = "Running" /\ r /\ g.ok >= SuccessThreshold
          BY <1>1, <1>3, <4>1, <4>2, <4>3, ClosedResult DEF SyncResult, Closed, CircuitStatus
        <4>4. CASE p = "Running" /\ r /\ ~(g.ok >= SuccessThreshold)
          BY <1>1, <1>3, <4>1, <4>2, <4>4 DEF SyncResult, CircuitStatus
        <4>5. CASE ~(p = "Running" /\ r)
          BY <1>1, <1>3, <4>2, <4>5 DEF SyncResult, CircuitStatus
        <4> QED BY <4>3, <4>4, <4>5
      <3> QED BY <3>1, <3>2
    <2> QED BY <1>1, <1>3, <2>1, <2>2 DEF SyncResult
  <1>4. CASE a.state = "open"
    BY <1>1, <1>4 DEF SyncFromWorkload, SyncResult, CircuitStatus
  <1> QED BY <1>1, <1>2, <1>3, <1>4 DEF CircuitStatus, CircuitStates

(* The status of a workload not seen yet is well-typed and consistent.     *)
LEMMA BlankStatus == NoCircuit \in CircuitStatus /\ Consistent(NoCircuit)
  BY LimitsPositive DEF NoCircuit, CircuitStatus, CircuitStates, NoDeadline, Consistent

(* A status as it should be.                                               *)
Sound(c) == c \in CircuitStatus /\ Consistent(c)

(* SyncFromWorkload keeps a status sound, whether the breaker is enabled   *)
(* or not.                                                                 *)
LEMMA SyncSound ==
    ASSUME NEW c, Sound(c), NEW p \in Phases, NEW r \in BOOLEAN
    PROVE  Sound(SyncFromWorkload(c, p, r))
  <1>1. CASE EnabledFor
    BY <1>1, SyncKeepsConsistent DEF Sound, SyncResult
  <1>2. CASE ~EnabledFor
    BY <1>2 DEF Sound, SyncFromWorkload
  <1> QED BY <1>1, <1>2

(* So does RecordRouteAttempt, which counts attempts only.                 *)
LEMMA RecordSound ==
    ASSUME NEW c, Sound(c)
    PROVE  Sound(RecordRouteAttempt(c))
  BY LimitsPositive DEF Sound, RecordRouteAttempt, CircuitStatus, Consistent

(* So does the clock: a deadline nears and stays a deadline.               *)
LEMMA TickSound ==
    ASSUME NEW c, Sound(c)
    PROVE  LET left == IF c.openUntil > 0 THEN c.openUntil - 1 ELSE c.openUntil
           IN Sound([c EXCEPT !.openUntil = left])
  <1> DEFINE left == IF c.openUntil > 0 THEN c.openUntil - 1 ELSE c.openUntil
             d == [c EXCEPT !.openUntil = left]
  <1>1. /\ left \in NoDeadline .. OpenDuration
        /\ left = NoDeadline <=> c.openUntil = NoDeadline
        /\ c.openUntil = 0 => left = 0
    BY LimitsPositive DEF Sound, CircuitStatus, NoDeadline
  <1>2. c.state = "none" => d = c
    BY <1>1 DEF Sound, Consistent, NoCircuit, NoDeadline
  <1> HIDE DEF left
  <1>3. /\ d \in CircuitStatus
        /\ d.state = c.state /\ d.openUntil = left /\ d.fails = c.fails /\ d.ok = c.ok
    BY <1>1 DEF Sound, CircuitStatus
  <1> HIDE DEF d
  <1>4. Consistent(d)
    BY <1>1, <1>2, <1>3 DEF Sound, Consistent
  <1> QED BY <1>3, <1>4 DEF Sound, d, left
==============================================================================
