CONSTANTS
    Config <- SparseConfig
    CircuitSpec <- OwnSpec
SPECIFICATION FairSpec
INVARIANTS
    TypeOK
    CountersMatchState
    NoRouteDuringCooldown
    ProbeBudget
PROPERTIES
    HealthyCloses
    FailedIsCutOff
