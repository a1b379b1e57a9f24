SPECIFICATION AttachSpec
CONSTANTS
    u1 = u1
    m1 = m1
    m2 = m2
    t1 = t1
    None = None
    Uploads = {u1}
    Sends = {m1, m2}
    Threads = {}
    MaxDrops = 0
INVARIANTS QuickSendCarriesItsImage
CHECK_DEADLOCK FALSE
