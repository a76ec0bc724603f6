\* Two pieces of one block whose progress is saved; two peers with differing
\* bitfields that share one piece of two blocks.
INIT DownInit
NEXT DownNext
CONSTANTS
    Piece = {0, 1}
    Blocks = 1
    Task = {t1, t2}
    None = None
    BufLimit = 2
    CounterSize = 16
    BadLimit = 0
    AgainLimit = 0
    CrashLimit = 1
    PowerLoss = TRUE
    SPiece = {0}
    SBlocks = 2
    Peer = {r1, r2}
    Cwnd = 4
    HashConcurrency = 1
    Bitfields = {{}, {0}}
    Corrupt = {}
    Leaving = {r1}
    ChokeLimit = 0
    WriteFailLimit = 0
SYMMETRY Symmetric
INVARIANTS
    ShapesKept
    RowDurable
    FinishedComplete
    PrefixStored
CHECK_DEADLOCK FALSE
