SPECIFICATION Spec
CONSTANTS
    Channels = {a, b}
    Known = {a}
    MaxTS = 2
    MaxChanged = 1
    MaxConnects = 1
    MaxRestarts = 1
    FetchCap = 2
    PollLimit = 2
INVARIANTS TypeOK NotifiedOnce
PROPERTIES ImplementsDelivery
CHECK_DEADLOCK FALSE
