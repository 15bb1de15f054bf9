CONSTANTS
    Nodes <- Registry
    Submissions <- AllSubmissions
    MaxDisturbances = 4
SPECIFICATION FairSpec
INVARIANTS
    TypeOK
    RunningIsComplete
    BlockedKeepsOld
    PlacedWithinBudget
PROPERTY RolloutsEnd
