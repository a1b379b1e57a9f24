SPECIFICATION Spec
CONSTANTS
    Channels = {a}
    Known = {a}
    MaxTS = 2
    MaxChanged = 0
    MaxConnects = 1
    MaxRestarts = 0
    FetchCap = 2
    PollLimit = 2
INVARIANTS BackfillLeavesNoHole
CHECK_DEADLOCK FALSE
