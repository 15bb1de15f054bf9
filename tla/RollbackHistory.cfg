CONSTANTS
    Keys = {k1, k2, k3}
    Rests = {r1, r2}
    MaxVersions = 3
    MaxWrites = 6
SPECIFICATION Spec
INVARIANTS
    TypeOK
    Bookkeeping
PROPERTIES
    UndoAvailable
    RollbackKeepsHistory
CHECK_DEADLOCK FALSE
