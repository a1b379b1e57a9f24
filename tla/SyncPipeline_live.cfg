SPECIFICATION FairSpec
CONSTANTS
    Channels = {a}
    Known = {a}
    MaxTS = 2
    MaxChanged = 1
    MaxConnects = 1
    MaxRestarts = 0
    FetchCap = 1
    PollLimit = 1
PROPERTIES LiveReachesPoll CachedReachesPoll
CHECK_DEADLOCK FALSE
