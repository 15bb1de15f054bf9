CONSTANTS
    Handlers = {h1, h2}
    Ids = {"w1"}
    WatchBuffer = 1
    MaxRequests = 2
SPECIFICATION FairSpec
CHECK_DEADLOCK FALSE
PROPERTY DeleteRemoves
