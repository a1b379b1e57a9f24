SPECIFICATION MCSpec
CONSTANTS
    h1 = h1
    h2 = h2
    k1 = k1
    k2 = k2
    w1 = w1
    f1 = f1
    s1 = s1
    pic = pic
    still = still
    m1 = m1
    m2 = m2
    Hosts = {h1, h2}
    Targets = {k1}
    Links <- OneLink
    Cached = {h1}
    Callers = {c1, c2}
    Fetchers = {f1, f2}
    MaxRenders = 3
    Concurrency = 1
    None = None
    Uploads = {u1}
    Sends = {m1, m2}
    Threads = {}
    MaxDrops = 1
    FetchKeys = {k1, k2}
    FetchTargets = {t1}
    FetchCallers = {c1, c2}
    Size <- TwoEach
    CachePaths = {k1, k2}
    PathKey <- KeyPath
    TeamOf <- OneForeign
    Fallbacks <- OneTeam
    NoTeam = NoTeam
    NoImage = NoImage
    Cap = 1
    Limit = 1
    MaxRetries = 1
    MaxStarts = 1
    Urls = {w1}
    Surfaces = {s1, s2, s3}
    Previews = {}
    UrlOf <- SameUrl
    CellsOf <- OneOrTwo
    KeyOf <- NoKeys
    NoPlace = NoPlace
    MaxFails = 1
    MaxDraws = 2
    Files = {pic, still}
    Posters = {still}
    ViewFiles = {}
    Msgs = {m1, m2}
    FilesOf <- SharedPicture
    Jobs = {j1, j2}
    SemCap = 1
    Passes = 1
    MaxImageRenders = 2
    MaxFailures = 2
    SessionUsers = {u1}
    SessionDms = {u1}
    Senders = {s1}
    GatewayUrls = {w1}
    NoUrl = NoUrl
    MaxBackoff = 2
    MaxDialFails = 1
    MaxLinkDrops = 1
    MaxPresenceMoves = 1
    MaxWatches = 0
PROPERTIES WaiterIsServed SendSettles FetchReturns BlanksGo DaemonReconnects
CHECK_DEADLOCK FALSE
