SPECIFICATION Spec
CONSTANTS
    Channels = {a}
    Known = {a}
    MaxTS = 3
    MaxChanged = 0
    MaxConnects = 2
    MaxRestarts = 0
    FetchCap = 2
    PollLimit = 1
INVARIANTS RecoveredTail AboveWatermarkRecovered
CHECK_DEADLOCK FALSE
