SPECIFICATION Spec
CONSTANTS
    a = a
    b = b
    Threads = {a, b}
    j1 = j1
    g1 = g1
    Jobs = {j1}
    Tasks = {g1}
    MaxTS = 3
    MaxChanges = 1
    MaxDrops = 1
    PageSize = 1
    HardCap = 2
INVARIANTS TypeOK NeverMarksUnseen
PROPERTIES LastReadKept SteadyIsNotDropped
SYMMETRY Symmetry
CHECK_DEADLOCK FALSE
