SPECIFICATION Spec
CONSTANTS
    Peer = {r1, r2}
    Piece = {0}
    Blocks = 2
    Task = {t1, t2}
    None = None
    Cwnd = 4
    HashConcurrency = 1
    Bitfields = {{0}}
    Corrupt = {}
    Leaving = {r1}
    ChokeLimit = 0
    WriteFailLimit = 0
SYMMETRY Symmetric
CHECK_DEADLOCK FALSE
INVARIANT RequestInPiece
