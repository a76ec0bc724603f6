INIT Init
NEXT Next
CONSTANTS
    Parts = {"udp", "table", "scan", "tracker", "feeds", "control", "metadata", "rate",
             "framing", "crypto", "bencode", "codecs", "layout"}
    Calls = {c1, c2}
    TidSpace = 2
    RecvLimit = 2
    IdBits = 4
    K = 2
    OwnId <- Own
    Known <- FiveNodes
    RefreshInterval = 0
    Tasks = {t1, t2}
    Askers = {t1}
    Permits = {permit1}
    Expect = 1
    Closest = 1
    Bootstraps = 1
    Supply = 1
    ScanLimit = 1
    UdpTrackers = {u1, u2}
    HttpTrackers = {h1, h2}
    Intervals = {0, 1, 2}
    MaxRetryNum = 1
    IdTimeout = 1
    Feeds = {"f1", "f2"}
    Guids = {"g1", "g2", "g3"}
    Torrents = {"t1", "t2"}
    Items <- TwoFeeds
    TorrentOf <- TwoTorrents
    Subscribed = {"f1"}
    Callers = {w1}
    PoolLimit = 4
    Concurrency = 2
    RefreshLimit = 1
    CrashLimit = 1
    Conns = {k1, k2}
    RequestLimit = 2
    ChanLimit = 1
    Peers = {p1, p2}
    Pieces = 2
    TheirIds = {2}
    Early = FALSE
    RepeatLimit = 1
    Rates = {1, 20}
    QueueLimit = 1
    Streams <- Conversations
    VcLen = 3
    OptionLen = 2
    PadMax = 2
    VcMaxOffset = 6
    HandshakeLen = 2
    Documents <- Documented
    Values <- Nestings
    MaxDepth = 2
    Width = 3
    Lists <- Compact
    Announces <- Trackers80
    FileLists <- FourFiles
    PieceLength = 3
INVARIANTS
    PartsTypeOK
    Reachable
    RtPlaced
    ClosestCorrect
    
    OneTask
    
    AnsweredOnce
    ConnsTracked
    
    
    KeepsExploring
    MessagesIntact
    
    OpenTracked
    RoundTrip
    
    BlocksExact
PROPERTIES
    Answers
    LiveNodesKept
CHECK_DEADLOCK FALSE
