SPECIFICATION Spec
CONSTANTS
    a = a
    b = b
    Channels = {a, b}
    Joined = {a}
    Home = a
    MaxReqs = 2
    MaxTS = 2
    MaxActs = 2
    Window = 2
    Chunk = 1
    Page = 2
    Around = 1
    MaxTries = 1
INVARIANTS TypeOK TwoCopiesAgree
PROPERTIES LinesStay ImplementsOneList
CHECK_DEADLOCK FALSE
