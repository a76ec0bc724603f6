\* One piece of two blocks, resumed after a power loss; one peer that may choke once
\* and one write that may fail, for a piece of three blocks.
SPECIFICATION ViewSpec
CONSTANTS
    Piece = {0}
    Task = {t1, t2}
    None = None
    BufLimit = 3
    CounterSize = 16
    BadLimit = 0
    AgainLimit = 0
    CrashLimit = 1
    PowerLoss = TRUE
    Blocks = 3
    PBlocks = 2
    Peer = {r1}
    Cwnd = 1
    HashConcurrency = 1
    Bitfields = {{0}}
    Corrupt = {}
    Leaving = {}
    ChokeLimit = 1
    WriteFailLimit = 1
 
PROPERTIES
    Recovered
    Completed
CHECK_DEADLOCK FALSE
