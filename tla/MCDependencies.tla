---------------------------- MODULE MCDependencies ----------------------------
(* An instance of Dependencies: three IDs, one per kind of condition.      *)
EXTENDS Dependencies

CONSTANTS w1, w2, w3

Conditions == [id \in Ids |-> CASE id = w1 -> "running" [] id = w2 -> "healthy" [] OTHER -> "ready"]
Timeouts == [id \in Ids |-> IF id = w3 THEN 4 ELSE 0]
ReplicaCounts == [id \in Ids |-> IF id = w3 THEN 2 ELSE 1]

Breaker == [enabled |-> TRUE, failureThreshold |-> 2, successThreshold |-> 1,
            openDuration |-> 1, halfOpenMax |-> 1]
NoOwnLimits == [present |-> FALSE, enabled |-> FALSE, failureThreshold |-> 0,
                successThreshold |-> 0, openDuration |-> 0, halfOpenMax |-> 0, trip |-> "unset"]

(* The instance is one that OrderSuffices is about.                        *)
ASSUME InstanceTimely == Timely
==============================================================================
