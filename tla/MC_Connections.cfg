SPECIFICATION SumSpec
CONSTANTS
    Parts = {"h2", "pool", "request", "body", "session"}
    Requests = {r1, r2, r3}
    Conns = {c1}
    MaxStreams = 2
    MaxEntries = 2
    None = None
    Ids = {i1, i2}
    BodyBufSize = 6
    HeadLimit = 5
    TrailerLimit = 8
SYMMETRY Symmetry
INVARIANTS
    StreamsCounted
    PoolSound
    ResentOnlyIfSafe
    ResponsesApart
    BodyAsSent
    ServedInTurn
CHECK_DEADLOCK FALSE
