CONSTANTS
    w1 = w1
    w2 = w2
    w3 = w3
    Ids = {w1, w2, w3}
    MaxDeps = 2
    MaxEdges = 3
    Condition <- Conditions
    Timeout <- Timeouts
    DefaultTimeout = 3
    Replicas <- ReplicaCounts
    MaxSlow = 1
    MaxFailures = 1
    Config <- Breaker
    CircuitSpec <- NoOwnLimits
SPECIFICATION FairSpec
CHECK_DEADLOCK FALSE
INVARIANTS
    TypeOK
    CycleReported
    OrderSuffices
PROPERTIES
    ImplementsDeployOrder
    StartsOnSatisfied
    DeploymentEnds
