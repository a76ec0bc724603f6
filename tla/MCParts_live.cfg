SPECIFICATION Spec
CONSTANTS
    Parts = {"udp", "scan", "tracker", "feeds", "metadata"}
    Calls = {c1, c2}
    TidSpace = 2
    RecvLimit = 1
    IdBits = 4
    K = 1
    OwnId <- Own
    Known <- FiveNodes
    RefreshInterval = 0
    Tasks = {t1, t2}
    Askers = {t1}
    Permits = {permit1}
    Expect = 1
    Closest = 0
    Bootstraps = 1
    Supply = 1
    ScanLimit = 1
    UdpTrackers = {u1}
    HttpTrackers = {h1, h2}
    Intervals = {0, 1}
    MaxRetryNum = 1
    IdTimeout = 1
    Feeds = {"f1", "f2"}
    Guids = {"g1", "g2", "g3"}
    Torrents = {"t1", "t2"}
    Items <- TwoFeeds
    TorrentOf <- TwoTorrents
    Subscribed = {"f1", "f2"}
    Callers = {}
    PoolLimit = 4
    Concurrency = 2
    RefreshLimit = 1
    CrashLimit = 0
    Conns = {k1}
    RequestLimit = 1
    ChanLimit = 1
    Peers = {p1, p2}
    Pieces = 2
    TheirIds = {2}
    Early = FALSE
    RepeatLimit = 0
    Rates = {1, 20}
    QueueLimit = 1
    Streams = {}
    VcLen = 3
    OptionLen = 2
    PadMax = 0
    VcMaxOffset = 6
    HandshakeLen = 2
    Documents = {}
    Values = {}
    MaxDepth = 2
    Width = 1
    Lists = {}
    Announces = {}
    FileLists = {}
    PieceLength = 3
PROPERTIES
    CallsEnd
    
    
    
    
CHECK_DEADLOCK FALSE
