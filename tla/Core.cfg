CONSTANTS
    ok = ok
    big = big
    bad = bad
    Ids = {w1, w2}
    Specs = {ok, bad}
    Text <- Texts
    RequiredTags = {}
    HardLimits <- OneReplica
    Quotas <- PutQuotas
    MaxRounds = 1
    Handlers = {h1, h2}
    RotateAll = FALSE
    MaxRequests = 3
    MaxVersion = 2
SPECIFICATION FairSpec
INVARIANTS
    TypeOK
    RejectedNeverRuns
    RunningWithinQuota
    RotationRestarts
PROPERTIES
    NoResurrection
    ComesToRest
