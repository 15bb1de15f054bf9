CONSTANTS
    Config <- GlobalConfig
    CircuitSpec <- PrimarySpec
    Replicas = 1
    StandbyReplicas = 2
    AutoPromote = TRUE
SPECIFICATION Spec
INVARIANT PromotionHolds
