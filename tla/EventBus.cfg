CONSTANTS
    Publishers = {p}
    Posters = {q}
    Writers = {w}
    BufferSize = 1
    MaxSubs = 3
    MaxUnsubs = 1
    MaxCalls = 2
SPECIFICATION FairSpec
CHECK_DEADLOCK FALSE
INVARIANTS
    TypeOK
    ListExact
    PrefixServed
PROPERTY CallsReturn
