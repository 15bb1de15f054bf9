----------------------------- MODULE WarmStandby -----------------------------
(***************************************************************************)
(* A workload with a warm standby (internal/warmstandby/manager.go), both  *)
(* under the reconcile loop and their circuit breakers, with the memory    *)
(* store.  The standby is a workload of its own: reconcileOne visits it    *)
(* like any other, in some order with the primary.                         *)
(*                                                                         *)
(* The operators of CircuitEngine are those of the primary; the standby    *)
(* has no circuit_breaker spec (cloneSpecForStandby drops it) and follows  *)
(* the global configuration.  Passes are made by one goroutine, so a pass  *)
(* is one action (module Core is about what happens inside one).           *)
(***************************************************************************)
EXTENDS CircuitEngine

CONSTANTS
    Replicas,        \* Spec.Replicas of the primary
    StandbyReplicas, \* Spec.WarmStandby.Replicas, 0 when not set
    AutoPromote      \* auto_promote of the workload or of the configuration

ASSUME StandbyAssumption ==
    /\ Replicas \in Nat
    /\ StandbyReplicas \in Nat
    /\ AutoPromote \in BOOLEAN

VARIABLES
    primary, \* the stored primary
    standby, \* the stored standby, or NoStandby
    runtime, \* the replicas a driver last deployed for the standby (external)
    opened   \* did the primary's last pass find its circuit open and a standby
             \* to promote? (history)

vars == <<primary, standby, runtime, opened>>

NoSpec == [present |-> FALSE, enabled |-> FALSE, failureThreshold |-> 0,
           successThreshold |-> 0, openDuration |-> 0, halfOpenMax |-> 0, trip |-> "unset"]

S == INSTANCE CircuitEngine WITH CircuitSpec <- NoSpec

(* standbyReplicas and the maximum that Promote takes.                     *)
Wanted == IF StandbyReplicas > 0 THEN StandbyReplicas ELSE 1
Active == IF Replicas < Wanted THEN Wanted ELSE Replicas

(* ws is Status.WarmStandby.Phase.                                         *)
Primary == [phase : Phases, ready : BOOLEAN, cb : CircuitStatus,
            ws : {"none", "cold", "promoted"}]
Standby == [phase : Phases, ready : BOOLEAN, cb : S!CircuitStatus,
            replicas : {0, Active}]
NoStandby == [phase |-> "none"]

Exists == standby # NoStandby

TypeOK ==
    /\ primary \in Primary
    /\ standby \in Standby \/ standby = NoStandby
    /\ runtime \in {0, Active}
    /\ opened \in BOOLEAN

NewPrimary == [phase |-> "Pending", ready |-> FALSE, cb |-> NoCircuit, ws |-> "none"]

Init ==
    /\ primary = NewPrimary
    /\ standby = NoStandby
    /\ runtime = 0
    /\ opened = FALSE

(***************************************************************************)
(* manager.go.                                                             *)
(***************************************************************************)

(* Mutant of NewStandby: the standby starts with the primary's replicas.   *)
NewStandbyWarm == [phase |-> "Pending", ready |-> FALSE, cb |-> NoCircuit, replicas |-> Replicas]

NewStandby == [phase |-> "Pending", ready |-> FALSE, cb |-> NoCircuit, replicas |-> 0]

(* Mutant of EnsureColdStandby: an existing standby is left as it is.      *)
EnsureColdStandbyOnce(sb) == IF sb = NoStandby THEN NewStandby ELSE sb

EnsureColdStandby(sb) ==
    IF sb = NoStandby THEN NewStandby ELSE [sb EXCEPT !.replicas = 0]

(* Mutant of Promote: the standby is queued with the replicas it had.      *)
PromoteUnscaled(sb) == [sb EXCEPT !.phase = "Pending"]

Promote(sb) == [sb EXCEPT !.replicas = Active, !.phase = "Pending"]

(* Status.WarmStandby.Phase after a pass that promotes, or (after that)    *)
(* ensures a cold standby.                                                 *)
StandbyPhase(promotes, cold) ==
    IF cold THEN "cold" ELSE IF promotes THEN "promoted" ELSE primary.ws

(* ShouldAutoPromote, on the status just synced; Promote needs a standby.  *)
ShouldAutoPromote(cb) ==
    /\ AutoPromote
    /\ IF EnabledFor THEN cb.state = "open" ELSE primary.phase \in {"Degraded", "Failed"}

(***************************************************************************)
(* reconcileOne.                                                           *)
(***************************************************************************)

(* The primary's pass: sync, promote and schedule the standby, bring a     *)
(* Running primary's standby (back) to cold, AllowRoute, roll out.         *)
(* scheduled and deployed are the outcomes of the driver calls.            *)
PrimaryPass(scheduled, deployed) ==
    LET synced   == SyncFromWorkload(primary.cb, primary.phase, primary.ready)
        promotes == ShouldAutoPromote(synced) /\ Exists
        cold     == primary.phase = "Running"
        again    == SyncFromWorkload(synced, primary.phase, primary.ready)
        allowed  == RouteVerdict(again, primary.phase)
        runs     == allowed /\ primary.phase = "Pending" /\ deployed
        promoted == IF promotes THEN Promote(standby) ELSE standby
    IN /\ standby' = IF cold THEN EnsureColdStandby(promoted) ELSE promoted
       /\ runtime' = IF promotes /\ scheduled THEN promoted.replicas ELSE runtime
       /\ opened' = promotes
       /\ primary' = [primary EXCEPT
                        !.cb = IF allowed THEN RecordRouteAttempt(again) ELSE again,
                        !.phase = IF runs THEN "Running" ELSE @,
                        !.ws = StandbyPhase(promotes, cold)]

(* The standby's pass: no standby of its own, otherwise the same.          *)
StandbyPass(deployed) ==
    LET synced  == S!SyncFromWorkload(standby.cb, standby.phase, standby.ready)
        again   == S!SyncFromWorkload(synced, standby.phase, standby.ready)
        allowed == S!RouteVerdict(again, standby.phase)
        runs    == allowed /\ standby.phase = "Pending" /\ deployed
    IN /\ Exists
       /\ standby' = [standby EXCEPT
                        !.cb = IF allowed THEN S!RecordRouteAttempt(again) ELSE again,
                        !.phase = IF runs THEN "Running" ELSE @]
       /\ runtime' = IF runs THEN standby.replicas ELSE runtime
       /\ UNCHANGED <<primary, opened>>

(***************************************************************************)
(* What happens around the loop.                                           *)
(***************************************************************************)
PrimaryReports(p, r) ==
    /\ primary' = [primary EXCEPT !.phase = p, !.ready = r]
    /\ UNCHANGED <<standby, runtime, opened>>

StandbyReports(p, r) ==
    /\ Exists
    /\ standby' = [standby EXCEPT !.phase = p, !.ready = r]
    /\ UNCHANGED <<primary, runtime, opened>>

(* deployOne of the primary: a fresh object.                               *)
Redeploy ==
    /\ primary' = NewPrimary
    /\ opened' = FALSE
    /\ UNCHANGED <<standby, runtime>>

(* A client deletes the standby; no driver is told.                        *)
DeleteStandby ==
    /\ Exists
    /\ standby' = NoStandby
    /\ opened' = FALSE
    /\ UNCHANGED <<primary, runtime>>

Left(cb) == IF cb.openUntil > 0 THEN cb.openUntil - 1 ELSE cb.openUntil

Tick ==
    /\ primary' = [primary EXCEPT !.cb.openUntil = Left(primary.cb)]
    /\ standby' = IF Exists THEN [standby EXCEPT !.cb.openUntil = Left(standby.cb)] ELSE standby
    /\ UNCHANGED <<runtime, opened>>

Next ==
    \/ \E scheduled, deployed \in BOOLEAN : PrimaryPass(scheduled, deployed)
    \/ \E deployed \in BOOLEAN : StandbyPass(deployed)
    \/ \E p \in Phases \ {"Pending"}, r \in BOOLEAN : PrimaryReports(p, r) \/ StandbyReports(p, r)
    \/ Redeploy
    \/ DeleteStandby
    \/ Tick

(* The ticker of the loop and the clock go on for ever, and a driver that  *)
(* is asked again and again succeeds in the end.                           *)
Fairness ==
    /\ WF_vars(PrimaryPass(TRUE, TRUE))
    /\ WF_vars(StandbyPass(TRUE))
    /\ WF_vars(Tick)

Spec == Init /\ [][Next]_vars
FairSpec == Spec /\ Fairness

(***************************************************************************)
(* Properties.                                                             *)
(***************************************************************************)

(* What the primary's status says of the standby is what the standby's     *)
(* spec wants, whatever was redeployed, deleted or reported in between.    *)
StatusMatchesStandby ==
    Exists => /\ primary.ws = "cold" => standby.replicas = 0
              /\ primary.ws = "promoted" => standby.replicas = Active

(* Failover: when the primary stays Failed and has a standby, the standby  *)
(* ends up deployed at full size and stays so, through the half-open       *)
(* periods of the primary and whatever the standby itself reports.         *)
FailoverCompletes ==
    <>[](primary.phase = "Failed" /\ Exists) => <>[](runtime = Active)

(* Failback: when the primary stays Running with ready replicas, its       *)
(* standby is wanted cold again and stays so.                              *)
FailbackWantsCold ==
    <>[](primary.phase = "Running" /\ primary.ready) => <>[](Exists => standby.replicas = 0)

(* README: auto_promote "scales the standby when the primary circuit       *)
(* opens".  After a pass that found the circuit open and a standby to      *)
(* promote, the standby is wanted at full size.                            *)
PromotionHolds == opened /\ Exists => standby.replicas = Active
==============================================================================
