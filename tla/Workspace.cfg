SPECIFICATION MCSpec
CONSTANTS
    c1 = c1
    d1 = d1
    d2 = d2
    u1 = u1
    u2 = u2
    ta = ta
    tb = tb
    wa = wa
    wb = wb
    None = None
    Uploads = {x1}
    Sends = {m1, m2}
    Threads = {t1}
    MaxDrops = 1
    SessionUsers = {u1, u2}
    SessionDms = {u1}
    Senders = {s1, s2}
    GatewayUrls = {w1}
    NoUrl = NoUrl
    MaxBackoff = 2
    MaxDialFails = 1
    MaxLinkDrops = 1
    MaxPresenceMoves = 2
    MaxWatches = 1
    Conns = {l1, l2}
    Clicks = {k1}
    Checks = {x1, x2}
    NoClient = NoClient
    MaxChanges = 2
    MaxRefreshes = 2
    MaxRev = 2
    Convs = {c1, d1}
    NoConv = NoConv
    MaxIds = 2
    MaxBreaks = 2
    Windows = {w1, w2}
    NoWindow = NoWindow
    FocusChannels = {c1}
    NoChannel = NoChannel
    MaxDown = 1
    MaxFocusEvents = 3
    MaxMessages = 1
    DirChannels = {c1, d1, d2}
    DirDms = {d1, d2}
    Known = {d1}
    Active = {d2}
    Counterpart <- WithWhom
    Tasks <- SomeTasks
    Resolvers = {r1, r2}
    MaxTasks = 2
    MaxLookups = 2
    MaxWorkers = 3
    MaxTrouble = 2
    Members = {u1, u2}
    Fetchers = {f1, f2}
    MaxMemberMoves = 2
    MaxMemberStarts = 1
    MaxStale = 1
    MaxErrors = 1
    MaxCalls = 3
    MaxTS = 2
    MaxMarks = 2
    MaxSnapshots = 1
    Reactors = {u1, u2, d1}
    Listed = 2
    MaxReactionEvents = 4
    MaxPages = 2
    Stamps = {1, 2}
    Replies = {2}
    Words = {wa, wb}
    Terms = {ta, tb}
    Texts = {{wa}, {wb}, {wa, wb}}
    Starts <- TermStarts
    Within <- TermWithin
    Columns = {a1, a2}
    MaxStoreStarts = 2
    MaxWrites = 3
    MaxItem = 5
    PageSize = 1
    Cap = 3
    MaxListChanges = 2
    MaxFaults = 2
INVARIANTS WorkspaceTypeOK FilePostedOnce FileInItsThread PasteThenSend AskedIsCurrent ClientsAreTold DesktopAgrees PeopleAgree TablesAgree ListingHasNoGap
PROPERTIES NamesStay
CHECK_DEADLOCK FALSE
