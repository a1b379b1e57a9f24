SPECIFICATION Spec
CONSTANTS
    a = a
    b = b
    Threads = {a, b}
    j1 = j1
    g1 = g1
    Jobs = {j1}
    Tasks = {g1}
    MaxTS = 3
    MaxChanges = 1
    MaxDrops = 0
    PageSize = 1
    HardCap = 2
PROPERTIES ReconcileDropsUnfollowed
CHECK_DEADLOCK FALSE
