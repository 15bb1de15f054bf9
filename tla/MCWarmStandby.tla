---------------------------- MODULE MCWarmStandby ----------------------------
(* An instance of WarmStandby: the primary has a breaker of its own, the   *)
(* standby has none.                                                       *)
EXTENDS WarmStandby

GlobalConfig == [enabled |-> FALSE, failureThreshold |-> 3, successThreshold |-> 2,
                 openDuration |-> 60, halfOpenMax |-> 1]
PrimarySpec == [present |-> TRUE, enabled |-> TRUE, failureThreshold |-> 3,
                successThreshold |-> 2, openDuration |-> 1, halfOpenMax |-> 1, trip |-> "no"]
==============================================================================
