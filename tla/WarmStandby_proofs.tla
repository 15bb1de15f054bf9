--------------------------- MODULE WarmStandby_proofs ---------------------------
(***************************************************************************)
(* Proofs about WarmStandby, for every configuration, every                *)
(* circuit_breaker spec of the primary and every number of replicas.       *)
(***************************************************************************)
EXTENDS WarmStandby, CircuitEngine_proofs, TLAPS

(* The lemmas about the engine, for the standby's circuit_breaker spec.    *)
E == INSTANCE CircuitEngine_proofs WITH CircuitSpec <- NoSpec

(* S and E are the same engine.                                            *)
LEMMA SameEngine ==
    ASSUME NEW c, NEW p, NEW r
    PROVE  /\ S!CircuitStatus = E!CircuitStatus
           /\ S!SyncFromWorkload(c, p, r) = E!SyncFromWorkload(c, p, r)
           /\ S!RecordRouteAttempt(c) = E!RecordRouteAttempt(c)
  <1>1. /\ S!FailureThreshold = E!FailureThreshold
        /\ S!SuccessThreshold = E!SuccessThreshold
        /\ S!OpenDuration = E!OpenDuration
        /\ S!TripDegraded = E!TripDegraded
    BY Zenon
       DEF S!FailureThreshold, E!FailureThreshold, S!SuccessThreshold, E!SuccessThreshold,
           S!OpenDuration, E!OpenDuration, S!TripDegraded, E!TripDegraded,
           S!EffectiveSpec, E!EffectiveSpec, S!Override, E!Override, S!New, E!New
  <1>2. S!CircuitStatus = E!CircuitStatus
    BY <1>1, Zenon
       DEF S!CircuitStatus, E!CircuitStatus, S!CircuitStates, E!CircuitStates,
           S!NoDeadline, E!NoDeadline
  <1>3. S!RecordRouteAttempt(c) = E!RecordRouteAttempt(c)
    BY Zenon DEF S!RecordRouteAttempt, E!RecordRouteAttempt
  <1>4. /\ \A d : S!CountFailure(d) = E!CountFailure(d)
        /\ \A d : S!Trip(d) = E!Trip(d)
        /\ \A d : S!Closed(d) = E!Closed(d)
        /\ \A q : S!Unhealthy(q) = E!Unhealthy(q)
    BY <1>1, Zenon
       DEF S!CountFailure, E!CountFailure, S!Bump, E!Bump, S!Trip, E!Trip, S!Closed, E!Closed,
           S!NoDeadline, E!NoDeadline, S!Unhealthy, E!Unhealthy
  <1>5. \A d : S!SyncClosed(d, p) = E!SyncClosed(d, p)
    BY <1>1, <1>4, Zenon DEF S!SyncClosed, E!SyncClosed
  <1>6. \A d : S!SyncHalfOpen(d, p, r) = E!SyncHalfOpen(d, p, r)
    BY <1>1, <1>4, Zenon DEF S!SyncHalfOpen, E!SyncHalfOpen
  <1>7. S!Advanced(S!Initialised(c)) = E!Advanced(E!Initialised(c))
    BY Zenon DEF S!Advanced, E!Advanced, S!Initialised, E!Initialised
  <1>8. S!SyncFromWorkload(c, p, r) = E!SyncFromWorkload(c, p, r)
    BY <1>5, <1>6, <1>7, Zenon DEF S!SyncFromWorkload, E!SyncFromWorkload, S!EnabledFor, E!EnabledFor
  <1> QED BY <1>2, <1>3, <1>8

(* The standby's spec is one the engine assumes.                           *)
LEMMA StandbyConfig == Config \in E!ConfigType /\ NoSpec \in E!SpecType /\ E!Phases = Phases
  BY ConfigAssumption DEF E!ConfigType, ConfigType, E!SpecType, NoSpec, E!Phases, Phases

(* The standby's engine keeps a status sound, too.                         *)
LEMMA StandbyEngine ==
    ASSUME NEW c, E!Sound(c)
    PROVE  /\ c \in S!CircuitStatus
           /\ \A p \in Phases, r \in BOOLEAN : E!Sound(S!SyncFromWorkload(c, p, r))
           /\ E!Sound(S!RecordRouteAttempt(c))
           /\ E!Sound([c EXCEPT !.openUntil = Left(c)])
  <1>1. \A p \in Phases, r \in BOOLEAN : E!Sound(S!SyncFromWorkload(c, p, r))
    <2> SUFFICES ASSUME NEW p \in Phases, NEW r \in BOOLEAN
                 PROVE  E!Sound(S!SyncFromWorkload(c, p, r))
      OBVIOUS
    <2>1. E!Sound(E!SyncFromWorkload(c, p, r))
      BY E!SyncSound, StandbyConfig, Zenon
    <2> QED BY <2>1, SameEngine, Zenon
  <1>2. E!Sound(S!RecordRouteAttempt(c))
    <2>1. E!Sound(E!RecordRouteAttempt(c))
      BY E!RecordSound, StandbyConfig, Zenon
    <2> QED BY <2>1, SameEngine, Zenon
  <1>3. E!Sound([c EXCEPT !.openUntil = Left(c)])
    BY E!TickSound, StandbyConfig, Zenon DEF Left
  <1>4. c \in S!CircuitStatus
    BY SameEngine, Zenon DEF E!Sound
  <1> QED BY <1>1, <1>2, <1>3, <1>4

(***************************************************************************)
(* The inductive invariant.  A status is well-typed after a sync only when *)
(* it was consistent before (a half-open circuit one success short of the  *)
(* threshold closes), so both circuits are.                                *)
(***************************************************************************)
PrimaryOK == primary \in Primary /\ Sound(primary.cb)

StandbyOK == Exists => standby \in Standby /\ E!Sound(standby.cb)

IInv ==
    /\ PrimaryOK
    /\ StandbyOK
    /\ runtime \in {0, Active}
    /\ opened \in BOOLEAN
    /\ StatusMatchesStandby

(* The first state satisfies the inductive invariant.                      *)
LEMMA InitIInv == Init => IInv
  <1> SUFFICES ASSUME Init PROVE IInv
    OBVIOUS
  <1>1. Sound(NoCircuit)
    BY BlankStatus DEF Sound
  <1>2. PrimaryOK
    BY <1>1 DEF Init, NewPrimary, PrimaryOK, Primary, Sound, Phases
  <1> QED BY <1>2 DEF Init, IInv, StandbyOK, StatusMatchesStandby, Exists

(* The primary after its pass.                                             *)
LEMMA PrimaryPassPrimary ==
    ASSUME IInv, NEW scheduled \in BOOLEAN, NEW deployed \in BOOLEAN,
           PrimaryPass(scheduled, deployed)
    PROVE  PrimaryOK'
  <1> DEFINE synced   == SyncFromWorkload(primary.cb, primary.phase, primary.ready)
             promotes == ShouldAutoPromote(synced) /\ Exists
             cold     == primary.phase = "Running"
             again    == SyncFromWorkload(synced, primary.phase, primary.ready)
             allowed  == RouteVerdict(again, primary.phase)
             runs     == allowed /\ primary.phase = "Pending" /\ deployed
             cb1      == IF allowed THEN RecordRouteAttempt(again) ELSE again
             ph1      == IF runs THEN "Running" ELSE primary.phase
             ws1      == StandbyPhase(promotes, cold)
  <1>1. /\ primary \in Primary /\ Sound(primary.cb)
        /\ primary.phase \in Phases /\ primary.ready \in BOOLEAN
        /\ primary.ws \in {"none", "cold", "promoted"}
    BY DEF IInv, PrimaryOK, Primary
  <1>2. primary' = [primary EXCEPT !.cb = cb1, !.phase = ph1, !.ws = ws1]
    BY DEF PrimaryPass
  <1>3. Sound(again)
    BY <1>1, SyncSound
  <1>4. Sound(cb1)
    BY <1>3, RecordSound
  <1>5. ph1 \in Phases /\ ws1 \in {"none", "cold", "promoted"}
    BY <1>1 DEF StandbyPhase, Phases
  <1> HIDE DEF cb1, ph1, ws1
  <1>6. primary' \in Primary /\ primary'.cb = cb1
    BY <1>1, <1>2, <1>4, <1>5 DEF Primary, Sound
  <1> QED BY <1>4, <1>6 DEF PrimaryOK, Sound, CircuitStatus, Consistent

(* Promote and EnsureColdStandby on a stored standby.                      *)
LEMMA StandbyRewritten ==
    ASSUME NEW sb \in Standby
    PROVE  /\ Promote(sb) \in Standby
           /\ Promote(sb).replicas = Active /\ Promote(sb).cb = sb.cb
           /\ EnsureColdStandby(sb) \in Standby
           /\ EnsureColdStandby(sb).replicas = 0 /\ EnsureColdStandby(sb).cb = sb.cb
           /\ sb # NoStandby
  <1>1. sb # NoStandby
    BY DEF Standby, NoStandby, Phases
  <1> DEFINE q == [sb EXCEPT !.replicas = Active]
  <1>2. q \in Standby /\ q.replicas = Active /\ q.cb = sb.cb
    BY DEF Standby
  <1>3. Promote(sb) = [q EXCEPT !.phase = "Pending"]
    BY DEF Promote, Standby
  <1> HIDE DEF q
  <1>4. Promote(sb) \in Standby /\ Promote(sb).replicas = Active /\ Promote(sb).cb = sb.cb
    BY <1>2, <1>3 DEF Standby, Phases
  <1>5. EnsureColdStandby(sb) = [sb EXCEPT !.replicas = 0]
    BY <1>1 DEF EnsureColdStandby
  <1>6. /\ EnsureColdStandby(sb) \in Standby
        /\ EnsureColdStandby(sb).replicas = 0 /\ EnsureColdStandby(sb).cb = sb.cb
    BY <1>5 DEF Standby
  <1> QED BY <1>1, <1>4, <1>6

(* A standby as EnsureColdStandby creates it.                              *)
LEMMA StandbyCreated ==
    /\ NewStandby \in Standby
    /\ E!Sound(NewStandby.cb)
    /\ NewStandby.replicas = 0
  <1>1. E!NoCircuit = NoCircuit
    BY DEF E!NoCircuit, NoCircuit, E!NoDeadline, NoDeadline
  <1>2. E!Sound(NoCircuit)
    BY <1>1, E!BlankStatus, StandbyConfig, Zenon DEF E!Sound
  <1>3. NoCircuit \in S!CircuitStatus
    BY <1>2, StandbyEngine
  <1> QED BY <1>2, <1>3 DEF NewStandby, Standby, Phases

(* The standby after the primary's pass: promoted, ensured or left alone.  *)
LEMMA PrimaryPassStandby ==
    ASSUME IInv, NEW scheduled \in BOOLEAN, NEW deployed \in BOOLEAN,
           PrimaryPass(scheduled, deployed)
    PROVE  /\ StandbyOK'
           /\ StatusMatchesStandby'
           /\ runtime' \in {0, Active}
           /\ opened' \in BOOLEAN
  <1> DEFINE synced   == SyncFromWorkload(primary.cb, primary.phase, primary.ready)
             promotes == ShouldAutoPromote(synced) /\ Exists
             cold     == primary.phase = "Running"
             promoted == IF promotes THEN Promote(standby) ELSE standby
  <1>1. /\ standby' = IF cold THEN EnsureColdStandby(promoted) ELSE promoted
        /\ runtime' = IF promotes /\ scheduled THEN promoted.replicas ELSE runtime
        /\ opened' = promotes
    BY DEF PrimaryPass
  <1>2. primary'.ws = IF cold THEN "cold" ELSE IF promotes THEN "promoted" ELSE primary.ws
    BY DEF PrimaryPass, StandbyPhase, IInv, PrimaryOK, Primary
  <1>3. promotes \in BOOLEAN /\ (promotes => Exists)
    BY DEF ShouldAutoPromote, Exists, EnabledFor
  <1>4. runtime \in {0, Active} /\ StandbyOK /\ StatusMatchesStandby
    BY DEF IInv
  <1> HIDE DEF promotes, cold
  <1>5. CASE ~Exists
    <2>1. promoted = NoStandby /\ ~promotes
      BY <1>3, <1>5 DEF Exists
    <2>2. EnsureColdStandby(promoted) = NewStandby
      BY <2>1 DEF EnsureColdStandby
    <2>3. CASE cold
      <3>1. standby' = NewStandby /\ primary'.ws = "cold"
        BY <1>1, <1>2, <2>2, <2>3
      <3> QED BY <1>1, <1>3, <1>4, <2>1, <3>1, StandbyCreated
              DEF StandbyOK, StatusMatchesStandby
    <2>4. CASE ~cold
      BY <1>1, <1>3, <1>4, <2>1, <2>4 DEF StandbyOK, StatusMatchesStandby, Exists
    <2> QED BY <2>3, <2>4
  <1>6. CASE Exists
    <2>1. standby \in Standby /\ E!Sound(standby.cb)
      BY <1>4, <1>6 DEF StandbyOK
    <2>2. /\ promoted \in Standby /\ promoted.cb = standby.cb
          /\ promotes => promoted.replicas = Active
          /\ ~promotes => promoted = standby
      BY <2>1, StandbyRewritten
    <2> HIDE DEF promoted
    <2>3. CASE cold
      <3>1. /\ standby' \in Standby /\ standby'.cb = standby.cb /\ standby'.replicas = 0
            /\ primary'.ws = "cold"
        BY <1>1, <1>2, <2>2, <2>3, StandbyRewritten
      <3> QED BY <1>1, <1>3, <1>4, <2>1, <2>2, <3>1 DEF StandbyOK, StatusMatchesStandby
    <2>4. CASE ~cold /\ promotes
      <3>1. standby' = promoted /\ primary'.ws = "promoted"
        BY <1>1, <1>2, <2>4
      <3> QED BY <1>1, <1>3, <1>4, <2>1, <2>2, <2>4, <3>1 DEF StandbyOK, StatusMatchesStandby
    <2>5. CASE ~cold /\ ~promotes
      <3>1. standby' = standby /\ primary'.ws = primary.ws
        BY <1>1, <1>2, <2>2, <2>5
      <3> QED BY <1>1, <1>3, <1>4, <1>6, <2>1, <2>5, <3>1 DEF StandbyOK, StatusMatchesStandby, Exists
    <2> QED BY <1>3, <2>3, <2>4, <2>5
  <1> QED BY <1>5, <1>6

(* The standby's pass changes its circuit and its phase.                   *)
LEMMA StandbyPassStep ==
    ASSUME IInv, NEW deployed \in BOOLEAN, StandbyPass(deployed)
    PROVE  IInv'
  <1> DEFINE synced  == S!SyncFromWorkload(standby.cb, standby.phase, standby.ready)
             again   == S!SyncFromWorkload(synced, standby.phase, standby.ready)
             allowed == S!RouteVerdict(again, standby.phase)
             runs    == allowed /\ standby.phase = "Pending" /\ deployed
             cb1     == IF allowed THEN S!RecordRouteAttempt(again) ELSE again
             ph1     == IF runs THEN "Running" ELSE standby.phase
  <1>1. /\ Exists /\ standby \in Standby /\ E!Sound(standby.cb)
        /\ standby.phase \in Phases /\ standby.ready \in BOOLEAN
        /\ standby.replicas \in {0, Active}
    BY DEF StandbyPass, IInv, StandbyOK, Standby
  <1>2. /\ standby' = [standby EXCEPT !.cb = cb1, !.phase = ph1]
        /\ runtime' = IF runs THEN standby.replicas ELSE runtime
        /\ primary' = primary /\ opened' = opened
    BY DEF StandbyPass
  <1>3. E!Sound(synced)
    BY <1>1, StandbyEngine
  <1>4. E!Sound(again)
    BY <1>1, <1>3, StandbyEngine
  <1>5. E!Sound(cb1)
    BY <1>4, StandbyEngine
  <1>6. cb1 \in S!CircuitStatus /\ ph1 \in Phases
    BY <1>1, <1>5, StandbyEngine DEF Phases
  <1>7. runtime' \in {0, Active}
    BY <1>1, <1>2 DEF IInv
  <1> HIDE DEF cb1, ph1
  <1>8. standby' \in Standby /\ standby'.cb = cb1 /\ standby'.replicas = standby.replicas
    BY <1>1, <1>2, <1>6 DEF Standby
  <1>9. StandbyOK'
    BY <1>5, <1>8 DEF StandbyOK
  <1> QED BY <1>1, <1>2, <1>7, <1>8, <1>9
          DEF IInv, PrimaryOK, StatusMatchesStandby, Sound, Consistent

(* What happens around the loop keeps it.                                  *)
LEMMA AroundStep ==
    ASSUME IInv,
           \/ \E p \in Phases \ {"Pending"}, r \in BOOLEAN :
                 PrimaryReports(p, r) \/ StandbyReports(p, r)
           \/ Redeploy
           \/ DeleteStandby
           \/ Tick
           \/ UNCHANGED vars
    PROVE  IInv'
  <1>1. ASSUME NEW p \in Phases, NEW r \in BOOLEAN, PrimaryReports(p, r)
        PROVE  IInv'
    <2>1. /\ primary' \in Primary /\ primary'.cb = primary.cb /\ primary'.ws = primary.ws
          /\ UNCHANGED <<standby, runtime, opened>>
      BY <1>1 DEF PrimaryReports, IInv, PrimaryOK, Primary
    <2> QED BY <2>1 DEF IInv, PrimaryOK, StandbyOK, StatusMatchesStandby, Exists
  <1>2. ASSUME NEW p \in Phases, NEW r \in BOOLEAN, StandbyReports(p, r)
        PROVE  IInv'
    <2>1. /\ Exists /\ standby' \in Standby
          /\ standby'.cb = standby.cb /\ standby'.replicas = standby.replicas
          /\ UNCHANGED <<primary, runtime, opened>>
      BY <1>2 DEF StandbyReports, IInv, StandbyOK, Standby
    <2> QED BY <2>1 DEF IInv, PrimaryOK, StandbyOK, StatusMatchesStandby
  <1>3. CASE Redeploy
    <2>1. Sound(NoCircuit)
      BY BlankStatus DEF Sound
    <2>2. PrimaryOK' /\ primary'.ws = "none"
      BY <1>3, <2>1 DEF Redeploy, NewPrimary, PrimaryOK, Primary, Sound, Phases
    <2> QED BY <1>3, <2>2 DEF Redeploy, IInv, StandbyOK, StatusMatchesStandby, Exists
  <1>4. CASE DeleteStandby
    BY <1>4 DEF DeleteStandby, IInv, PrimaryOK, StandbyOK, StatusMatchesStandby, Exists
  <1>5. CASE Tick
    <2> DEFINE c == [primary.cb EXCEPT !.openUntil = Left(primary.cb)]
               d == [standby.cb EXCEPT !.openUntil = Left(standby.cb)]
    <2>1. primary \in Primary /\ Sound(primary.cb)
      BY DEF IInv, PrimaryOK
    <2>2. Sound(c)
      BY <2>1, TickSound DEF Left
    <2>3. primary' = [primary EXCEPT !.cb = c]
      BY <1>5, <2>1 DEF Tick, Primary
    <2> HIDE DEF c
    <2>4. primary' \in Primary /\ primary'.cb = c /\ primary'.ws = primary.ws
      BY <2>1, <2>2, <2>3 DEF Primary, Sound
    <2>5. PrimaryOK'
      BY <2>2, <2>4 DEF PrimaryOK
    <2>6. CASE Exists
      <3>1. standby \in Standby /\ E!Sound(standby.cb)
        BY <2>6 DEF IInv, StandbyOK
      <3>2. E!Sound(d) /\ d \in S!CircuitStatus
        BY <3>1, StandbyEngine
      <3>3. standby' = [standby EXCEPT !.cb = d]
        BY <1>5, <2>6, <3>1 DEF Tick, Standby
      <3> HIDE DEF d
      <3>4. standby' \in Standby /\ standby'.cb = d /\ standby'.replicas = standby.replicas
        BY <3>1, <3>2, <3>3 DEF Standby
      <3> QED BY <1>5, <2>4, <2>5, <2>6, <3>2, <3>4
              DEF Tick, IInv, StandbyOK, StatusMatchesStandby
    <2>7. CASE ~Exists
      BY <1>5, <2>5, <2>7 DEF Tick, IInv, StandbyOK, StatusMatchesStandby, Exists
    <2> QED BY <2>6, <2>7
  <1>6. CASE UNCHANGED vars
    BY <1>6 DEF vars, IInv, PrimaryOK, StandbyOK, StatusMatchesStandby, Exists, Sound, Consistent
  <1> QED BY <1>1, <1>2, <1>3, <1>4, <1>5, <1>6

(* Every step keeps it.                                                    *)
LEMMA NextIInv == IInv /\ [Next]_vars => IInv'
  <1> SUFFICES ASSUME IInv, [Next]_vars PROVE IInv'
    OBVIOUS
  <1>1. ASSUME NEW scheduled \in BOOLEAN, NEW deployed \in BOOLEAN,
               PrimaryPass(scheduled, deployed)
        PROVE  IInv'
    BY <1>1, PrimaryPassPrimary, PrimaryPassStandby DEF IInv
  <1>2. ASSUME NEW deployed \in BOOLEAN, StandbyPass(deployed)
        PROVE  IInv'
    BY <1>2, StandbyPassStep
  <1> QED BY <1>1, <1>2, AroundStep DEF Next

(* Every variable keeps its type: whatever the loop, the runtime and the   *)
(* clients do, the standby is wanted at zero or at full size.              *)
THEOREM TypeCorrect == Spec => []TypeOK
  <1>1. IInv => TypeOK
    BY DEF IInv, PrimaryOK, StandbyOK, Exists, TypeOK
  <1> QED BY <1>1, InitIInv, NextIInv, PTL DEF Spec

(* The primary's status tells the truth about the standby, in every        *)
(* configuration and for every number of replicas.                         *)
THEOREM StatusTellsStandby == Spec => []StatusMatchesStandby
  <1>1. IInv => StatusMatchesStandby
    BY DEF IInv
  <1> QED BY <1>1, InitIInv, NextIInv, PTL DEF Spec
==============================================================================
