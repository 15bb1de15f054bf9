--------------------------- MODULE MCCircuitBreaker ---------------------------
(* An instance of CircuitBreaker: the configuration leaves most limits to  *)
(* New, and the workload's own spec overrides some.                        *)
EXTENDS CircuitBreaker

SparseConfig == [enabled |-> FALSE, failureThreshold |-> 0, successThreshold |-> 0,
                 openDuration |-> 3, halfOpenMax |-> 0]
OwnSpec == [present |-> TRUE, enabled |-> TRUE, failureThreshold |-> 0,
            successThreshold |-> 3, openDuration |-> 2, halfOpenMax |-> 2, trip |-> "yes"]
==============================================================================
