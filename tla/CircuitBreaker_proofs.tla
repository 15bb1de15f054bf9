------------------------- MODULE CircuitBreaker_proofs -------------------------
(***************************************************************************)
(* Proofs about CircuitBreaker, for every configuration and every          *)
(* circuit_breaker spec, both store kinds.                                 *)
(***************************************************************************)
EXTENDS CircuitBreaker, CircuitEngine_proofs, TLAPS

(***************************************************************************)
(* The inductive invariant.  NoRouteDuringCooldown says nothing about a    *)
(* pass to come; what carries it is that the deadline of an open circuit   *)
(* and the ticks since its trip add up to OpenDuration.  ProbeBudget needs *)
(* the persisted counter to bound the probes made, which it does only when *)
(* the pass works on the stored object (live).                             *)
(***************************************************************************)
DeadlineAddsUp ==
    /\ cb.state = "open" => cb.openUntil + sinceTrip = OpenDuration
    /\ cb.state # "open" => sinceTrip = OpenDuration

ProbesCounted ==
    /\ cb.state # "half-open" => probes = 0
    /\ live => probes <= cb.attempts /\ cb.attempts <= HalfOpenMax

IInv ==
    /\ TypeOK
    /\ CountersMatchState
    /\ ~EnabledFor => cb.state = "none"
    /\ DeadlineAddsUp
    /\ NoRouteDuringCooldown
    /\ ProbesCounted

(* The history counter of probes stays in its range.                       *)
LEMMA CappedType ==
    ASSUME NEW n \in 0 .. ProbesShown
    PROVE  Capped(n) \in 0 .. ProbesShown /\ Capped(n) <= n + 1
  BY LimitsPositive DEF Capped, ProbesShown

(* The first state satisfies the inductive invariant.                      *)
LEMMA InitIInv == Init => IInv
  <1> SUFFICES ASSUME Init PROVE IInv
    OBVIOUS
  <1> USE LimitsPositive DEF Init
  <1>1. TypeOK
    <2>1. ProbesShown \in Nat
      BY DEF ProbesShown
    <2>2. cb \in CircuitStatus
      BY BlankStatus
    <2>3. /\ phase \in Phases /\ ready \in BOOLEAN /\ routed \in BOOLEAN /\ live \in BOOLEAN
      BY DEF Phases
    <2>4. /\ sinceTrip \in 0 .. OpenDuration
          /\ probes \in 0 .. ProbesShown
      BY <2>1
    <2> QED BY <2>1, <2>2, <2>3, <2>4 DEF TypeOK
  <1>2. CountersMatchState
    BY BlankStatus DEF CountersMatchState
  <1>3. cb.state = "none" /\ cb.attempts = 0
    BY DEF NoCircuit
  <1> QED
    BY <1>1, <1>2, <1>3 DEF IInv, DeadlineAddsUp, NoRouteDuringCooldown, ProbesCounted

(* The sync of a pass, whether the breaker is enabled or not.              *)
LEMMA SyncStep ==
    ASSUME NEW c \in CircuitStatus, Consistent(c), NEW p \in Phases, NEW r \in BOOLEAN,
           ~EnabledFor => c.state = "none"
    PROVE  LET s == SyncFromWorkload(c, p, r) IN
           /\ SyncResult(c, s)
           /\ ~EnabledFor => s = c
  <1>1. CASE EnabledFor
    BY <1>1, SyncKeepsConsistent
  <1>2. CASE ~EnabledFor
    BY <1>2, LimitsPositive DEF SyncFromWorkload, SyncResult, CircuitStatus
  <1> QED BY <1>1, <1>2

(* A pass keeps it: two syncs, the verdict, the probe, the write-back.     *)
LEMMA ReconcileOneStep ==
    ASSUME IInv, NEW due \in BOOLEAN, NEW deployed \in BOOLEAN, ReconcileOne(due, deployed)
    PROVE  IInv'
  <1> USE LimitsPositive
  <1> DEFINE synced  == SyncFromWorkload(cb, phase, ready)
             again   == IF due THEN SyncFromWorkload(synced, phase, ready) ELSE synced
             allowed == due /\ RouteVerdict(again, phase)
             final   == IF allowed THEN RecordRouteAttempt(again) ELSE again
             runs    == allowed /\ phase = "Pending" /\ deployed
             stored  == IF live \/ runs THEN final ELSE synced
             tripped == stored.state = "open" /\ ~(cb.state = "open" /\ cb.openUntil # 0)
  <1>1. /\ phase \in Phases /\ ready \in BOOLEAN /\ live \in BOOLEAN
        /\ cb \in CircuitStatus /\ Consistent(cb)
        /\ ~EnabledFor => cb.state = "none"
        /\ sinceTrip \in 0 .. OpenDuration
        /\ probes \in 0 .. ProbesShown
    BY DEF IInv, TypeOK, CountersMatchState
  <1>2. SyncResult(cb, synced) /\ (~EnabledFor => synced = cb)
    BY <1>1, SyncStep
  <1>3. SyncResult(synced, again) /\ (~EnabledFor => again = cb)
    <2>1. synced \in CircuitStatus /\ Consistent(synced) /\ synced.attempts \in Nat
      BY <1>2 DEF SyncResult, CircuitStatus
    <2>2. CASE due
      BY <1>1, <1>2, <2>1, <2>2, SyncStep
    <2>3. CASE ~due
      BY <1>1, <1>2, <2>1, <2>3 DEF SyncResult
    <2> QED BY <2>2, <2>3
  <1>4. /\ cb' = stored
        /\ routed' = allowed
        /\ phase' = IF runs THEN "Running" ELSE phase
        /\ sinceTrip' = IF tripped THEN 0 ELSE sinceTrip
        /\ probes' = IF stored.state # "half-open" THEN 0
                     ELSE IF allowed THEN Capped(probes) ELSE probes
        /\ ready' = ready /\ live' = live
    BY DEF ReconcileOne
  <1>5. /\ allowed \in BOOLEAN
        /\ allowed => again.state # "open"
        /\ allowed /\ again.state = "half-open" => again.attempts < HalfOpenMax
    BY <1>1, <1>3 DEF RouteVerdict, Unhealthy, TripDegraded
  <1>6. /\ final \in CircuitStatus /\ Consistent(final)
        /\ final.state = again.state /\ final.openUntil = again.openUntil
        /\ ~EnabledFor => final = cb
        /\ allowed /\ again.state = "half-open" => final.attempts = again.attempts + 1
        /\ ~(allowed /\ again.state = "half-open") => final.attempts = again.attempts
    BY <1>1, <1>3
       DEF SyncResult, RecordRouteAttempt, CircuitStatus, CircuitStates, Consistent
  <1>7. synced.state = "open" => synced.openUntil # 0 /\ again = synced
    BY <1>2, <1>3 DEF SyncResult
  <1>8. /\ stored \in CircuitStatus /\ Consistent(stored)
        /\ ~EnabledFor => stored.state = "none"
        /\ allowed => stored.state # "open"
        /\ cb.state = "open" /\ cb.openUntil # 0
              => stored.state = "open" /\ stored.openUntil = cb.openUntil
        /\ tripped => stored.openUntil = OpenDuration
    <2> HIDE DEF final, allowed, runs
    <2>1. CASE stored = final
      BY <1>1, <1>2, <1>3, <1>5, <1>6, <1>7, <2>1 DEF SyncResult
    <2>2. CASE stored = synced
      BY <1>1, <1>2, <1>3, <1>5, <1>7, <2>2 DEF SyncResult
    <2> QED BY <2>1, <2>2
  <1>9. live => stored = final
    OBVIOUS
  <1> HIDE DEF stored, final, tripped
  <1>10. TypeOK'
    <2>1. phase' \in Phases /\ ready' \in BOOLEAN /\ routed' \in BOOLEAN /\ live' \in BOOLEAN
      BY <1>1, <1>4, <1>5 DEF Phases
    <2>2. cb' \in CircuitStatus
      BY <1>4, <1>8
    <2>3. sinceTrip' \in 0 .. OpenDuration
      BY <1>1, <1>4
    <2>4. probes' \in 0 .. ProbesShown
      <3>1. ProbesShown \in Nat
        BY DEF ProbesShown
      <3> QED BY <1>1, <1>4, <1>5, <3>1, CappedType
    <2> QED BY <2>1, <2>2, <2>3, <2>4 DEF TypeOK
  <1>11. CountersMatchState' /\ (~EnabledFor => cb.state = "none")'
    BY <1>4, <1>8 DEF CountersMatchState, Consistent
  <1>12. DeadlineAddsUp' /\ NoRouteDuringCooldown'
    <2>1. DeadlineAddsUp
      BY DEF IInv
    <2>2. cb.openUntil \in Int /\ stored.openUntil \in Int
      BY <1>1, <1>8 DEF CircuitStatus, NoDeadline
    <2>3. tripped <=> stored.state = "open" /\ ~(cb.state = "open" /\ cb.openUntil # 0)
      BY DEF tripped
    <2> HIDE DEF allowed
    <2>4. CASE tripped
      BY <1>1, <1>4, <1>5, <1>8, <2>2, <2>3, <2>4 DEF DeadlineAddsUp, NoRouteDuringCooldown
    <2>5. CASE ~tripped /\ stored.state = "open"
      BY <1>1, <1>4, <1>5, <1>8, <2>1, <2>2, <2>3, <2>5
         DEF DeadlineAddsUp, NoRouteDuringCooldown
    <2>6. CASE stored.state # "open"
      BY <1>1, <1>4, <1>5, <1>8, <2>1, <2>2, <2>3, <2>6
         DEF DeadlineAddsUp, NoRouteDuringCooldown
    <2> QED BY <2>4, <2>5, <2>6
  <1>13. ProbesCounted'
    <2>1. ProbesCounted
      BY DEF IInv
    <2>2. cb'.state # "half-open" => probes' = 0
      BY <1>4
    <2>3. ASSUME live
          PROVE  probes' <= cb'.attempts /\ cb'.attempts <= HalfOpenMax
      <3>1. cb' = final /\ cb'.state = again.state
        BY <1>4, <1>6, <1>9, <2>3
      <3>2. again.state = "half-open" => again.attempts = cb.attempts
        BY <1>2, <1>3, <1>7 DEF SyncResult
      <3>3. again.attempts \in Nat /\ again.attempts <= cb.attempts /\ cb.attempts \in Nat
        BY <1>1, <1>2, <1>3 DEF SyncResult, CircuitStatus
      <3>4. probes <= cb.attempts /\ cb.attempts <= HalfOpenMax
        BY <2>1, <2>3 DEF ProbesCounted
      <3>5. Capped(probes) <= probes + 1 /\ Capped(probes) \in 0 .. ProbesShown
        BY <1>1, CappedType
      <3>6. ProbesShown \in Nat
        BY DEF ProbesShown
      <3> HIDE DEF again, allowed
      <3>7. CASE again.state # "half-open"
        BY <1>4, <1>6, <3>1, <3>3, <3>4, <3>7
      <3>8. CASE again.state = "half-open" /\ allowed
        <4>1. probes' = Capped(probes)
          BY <1>4, <3>1, <3>8
        <4> QED BY <1>1, <1>5, <1>6, <3>1, <3>2, <3>3, <3>4, <3>5, <3>6, <3>8, <4>1
      <3>9. CASE again.state = "half-open" /\ ~allowed
        <4>1. probes' = probes
          BY <1>4, <3>1, <3>9
        <4> QED BY <1>1, <1>6, <3>1, <3>2, <3>3, <3>4, <3>6, <3>9, <4>1
      <3> QED BY <1>5, <3>7, <3>8, <3>9
    <2> QED BY <1>4, <2>2, <2>3 DEF ProbesCounted
  <1> QED BY <1>10, <1>11, <1>12, <1>13 DEF IInv, EnabledFor

(* A tick keeps it: the deadline nears as fast as sinceTrip grows.         *)
LEMMA TickStep ==
    ASSUME IInv, Tick
    PROVE  IInv'
  <1> USE LimitsPositive
  <1> DEFINE left == IF cb.openUntil > 0 THEN cb.openUntil - 1 ELSE cb.openUntil
  <1>1. /\ cb \in CircuitStatus /\ Consistent(cb) /\ sinceTrip \in 0 .. OpenDuration
        /\ cb.openUntil \in NoDeadline .. OpenDuration
    BY DEF IInv, TypeOK, CountersMatchState, CircuitStatus
  <1>2. /\ left \in NoDeadline .. OpenDuration
        /\ left = NoDeadline <=> cb.openUntil = NoDeadline
        /\ cb.openUntil = 0 => left = 0
    BY <1>1 DEF NoDeadline
  <1>3. cb' = [cb EXCEPT !.openUntil = left]
    BY DEF Tick
  <1> HIDE DEF left
  <1>4. /\ cb' \in CircuitStatus
        /\ cb'.state = cb.state /\ cb'.attempts = cb.attempts /\ cb'.openUntil = left
        /\ cb'.fails = cb.fails /\ cb'.ok = cb.ok
    BY <1>1, <1>2, <1>3 DEF CircuitStatus
  <1>5. TypeOK'
    BY <1>4 DEF Tick, IInv, TypeOK
  <1>6. CountersMatchState'
    <2>1. cb.state = "none" => cb' = cb
      BY <1>1, <1>2, <1>3 DEF Consistent, NoCircuit
    <2> QED BY <1>1, <1>2, <1>4, <2>1 DEF CountersMatchState, Consistent
  <1>7. (~EnabledFor => cb.state = "none")'
    BY <1>4 DEF IInv, EnabledFor
  <1>8. DeadlineAddsUp' /\ NoRouteDuringCooldown'
    BY <1>1, <1>4 DEF Tick, IInv, DeadlineAddsUp, NoRouteDuringCooldown, left, Consistent, NoDeadline
  <1>9. ProbesCounted'
    BY <1>4 DEF Tick, IInv, ProbesCounted
  <1> QED BY <1>5, <1>6, <1>7, <1>8, <1>9 DEF IInv

(* Every step keeps it; all but passes and ticks leave the circuit alone.  *)
LEMMA NextIInv ==
    ASSUME IInv, [Next]_vars
    PROVE  IInv'
  <1>1. ASSUME NEW due \in BOOLEAN, NEW deployed \in BOOLEAN, ReconcileOne(due, deployed)
        PROVE  IInv'
    BY <1>1, ReconcileOneStep
  <1>2. ASSUME cb' = cb, routed' \in {routed, FALSE}, phase' \in Phases, ready' \in BOOLEAN,
               UNCHANGED history
        PROVE  IInv'
    <2>1. TypeOK'
      BY <1>2 DEF IInv, TypeOK, history
    <2>2. CountersMatchState' /\ (~EnabledFor => cb.state = "none")'
      BY <1>2 DEF IInv, CountersMatchState, Consistent, EnabledFor
    <2>3. DeadlineAddsUp' /\ ProbesCounted'
      BY <1>2 DEF IInv, DeadlineAddsUp, ProbesCounted, history
    <2>4. NoRouteDuringCooldown'
      BY <1>2 DEF IInv, NoRouteDuringCooldown, history
    <2> QED BY <2>1, <2>2, <2>3, <2>4 DEF IInv
  <1>3. CASE ReconcileRejected
    BY <1>2, <1>3 DEF ReconcileRejected, IInv, TypeOK
  <1>4. ASSUME NEW p \in Phases \ {"Pending"}, NEW r \in BOOLEAN, RuntimeReports(p, r)
        PROVE  IInv'
    BY <1>2, <1>4 DEF RuntimeReports
  <1>5. CASE Requeue
    BY <1>2, <1>5 DEF Requeue, IInv, TypeOK, Phases
  <1>6. CASE Redeploy
    <2>1. Init'
      BY <1>6 DEF Redeploy, Init, IInv, TypeOK
    <2>2. Init' => IInv'
      BY InitIInv, PTL
    <2> QED BY <2>1, <2>2
  <1>7. CASE Tick
    BY <1>7, TickStep
  <1>8. CASE UNCHANGED vars
    BY <1>2, <1>8 DEF vars, history, IInv, TypeOK
  <1> QED BY <1>1, <1>3, <1>4, <1>5, <1>6, <1>7, <1>8 DEF Next

(* IInv holds in every reachable state.                                    *)
THEOREM Invariance == Spec => []IInv
  BY InitIInv, NextIInv, PTL DEF Spec

(* Every variable keeps its type, whatever the configuration.              *)
THEOREM TypeCorrect == Spec => []TypeOK
  <1>1. IInv => TypeOK
    BY DEF IInv
  <1> QED BY Invariance, <1>1, PTL

(* The counters, the deadline and the state of the circuit agree in every  *)
(* reachable state, with live and with copied objects.                     *)
THEOREM CountersAgree == Spec => []CountersMatchState
  <1>1. IInv => CountersMatchState
    BY DEF IInv
  <1> QED BY Invariance, <1>1, PTL

(* No pass schedules a workload before OpenDuration has gone by since its  *)
(* circuit last tripped.                                                   *)
THEOREM CooldownRespected == Spec => []NoRouteDuringCooldown
  <1>1. IInv => NoRouteDuringCooldown
    BY DEF IInv
  <1> QED BY Invariance, <1>1, PTL

(* With the memory store a half-open period makes at most                  *)
(* half_open_max_requests probes.                                          *)
THEOREM ProbesBounded == Spec => []ProbeBudget
  <1>1. IInv => ProbeBudget
    BY LimitsPositive
       DEF IInv, ProbesCounted, ProbeBudget, TypeOK, CircuitStatus, ProbesShown
  <1> QED BY Invariance, <1>1, PTL
===============================================================================
