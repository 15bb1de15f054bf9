CONSTANTS
    ok = ok
    big = big
    bad = bad
    Ids = {w1}
    Specs = {ok, big}
    Text <- Texts
    RequiredTags = {}
    HardLimits <- NoQuota
    Quotas = {}
    MaxRounds = 0
    Handlers = {h1}
    RotateAll = FALSE
    MaxRequests = 2
    MaxVersion = 1
SPECIFICATION Spec
INVARIANT ActualIsDesired
