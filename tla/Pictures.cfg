SPECIFICATION MCSpec
CONSTANTS
    h1 = h1
    h2 = h2
    c1 = c1
    c2 = c2
    f1 = f1
    f2 = f2
    f3 = f3
    k1 = k1
    k2 = k2
    t1 = t1
    p1 = p1
    p2 = p2
    p3 = p3
    w1 = w1
    w2 = w2
    u1 = u1
    u2 = u2
    s1 = s1
    s2 = s2
    s3 = s3
    b1 = b1
    v1 = v1
    pic = pic
    still = still
    m1 = m1
    m2 = m2
    Hosts = {h1, h2}
    Targets = {k1}
    Links <- OneLink
    Cached = {h1}
    Callers = {c1, c2}
    Fetchers = {f1, f2, f3}
    MaxRenders = 3
    Concurrency = 1
    FetchKeys = {k1, k2}
    FetchTargets = {t1}
    CachePaths = {p1, p2, p3}
    PathKey <- TwoNames
    FetchCallers = {c1, c2}
    Size <- OneAndTwo
    TeamOf <- OneForeign
    Fallbacks <- TwoTeams
    NoTeam = NoTeam
    NoImage = NoImage
    Cap = 1
    Limit = 1
    MaxRetries = 1
    MaxStarts = 2
    Urls = {u1, u2}
    Surfaces = {s1, s2, s3}
    Previews = {v1}
    UrlOf <- TwoOfOne
    CellsOf <- OneOrTwo
    KeyOf <- OwnKey
    NoPlace = NoPlace
    MaxFails = 1
    MaxDraws = 2
    Files = {pic, still, copy}
    Posters = {still}
    ViewFiles = {copy}
    Msgs = {m1, m2}
    FilesOf <- SharedPicture
    Jobs = {j1, j2}
    SemCap = 2
    Passes = 1
    MaxImageRenders = 2
    MaxFailures = 2
    Faces = {u1, u2}
    Teams = {w1, w2}
    Names = {n1, n2}
    MaxVersion = 2
    MaxScans = 1
    MaxRestarts = 1
    MaxFetches = 3
    Messages <- SlackMessages
    MaxSteps = 3
    PlainWords = {"w", "url"}
    Tokens = {"u", "e"}
    Emoji = {"e"}
    Forged = "f"
    Typed <- Documents
INVARIANTS PicturesTypeOK OneFetchServesAll CacheAgrees ScreenIsOnTerminal DownloadsShowUp FacesAreWhole RowsAreRight MarkupKeepsTheText
CHECK_DEADLOCK FALSE
