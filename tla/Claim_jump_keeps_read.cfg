SPECIFICATION Spec
CONSTANTS
    a = a
    b = b
    Channels = {a, b}
    Joined = {a}
    Home = a
    MaxReqs = 2
    MaxTS = 3
    MaxActs = 2
    Window = 2
    Chunk = 1
    Page = 2
    Around = 1
    MaxTries = 1

PROPERTY JumpKeepsRead
CHECK_DEADLOCK FALSE
