CONSTANTS
    WorkloadSpecs = {s1, s2}
    MaxEventAge = 1
    Buffer = 1
    Limits = {0, 1}
    MaxEvents = 3
    MaxTime = 1
SYMMETRY SpecSymmetry
SPECIFICATION LogSpec
INVARIANTS
    LogTypeOK
    LogInOrder
    LogTellsState
    PagesExact
    NoGapAfterCatchUp
