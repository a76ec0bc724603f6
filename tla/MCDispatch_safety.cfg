CONSTANTS
    Id = {p1, p2, p3}
    Addr = {a1, a2, a3}
    NoId = NoId
    CHANNEL_BUFFER = 1
    LtLimit = 1
    TempLimit = 1
    AsyncPeerStartLimit = 1
    ErrorPieceLimit = 2
INIT OwnerInit
NEXT OwnerNext
SYMMETRY Symmetric
INVARIANTS
    TypeOK
    
    OneHolderPerAddr
    ConnLimitRespected
    HolderIsBlocked
PROPERTY ReleasedWithHolder
CHECK_DEADLOCK FALSE
