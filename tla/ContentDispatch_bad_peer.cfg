CONSTANTS
    Id = {p1, p2}
    Addr = {a1, a2}
    NoId = NoId
    CHANNEL_BUFFER = 1
    LtLimit = 1
    TempLimit = 1
    AsyncPeerStartLimit = 1
    ErrorPieceLimit = 1
SPECIFICATION FairSpec
PROPERTY BadPeerRemoved
CHECK_DEADLOCK FALSE
