SPECIFICATION FairSpec
CONSTANTS
    Requests = {r1, r2}
    NoLock = NoLock
    Old = Old
    None = None
    Forced = {"ForceMiss", "ForceFresh"}
    Unlocked = {"lookup error"}
    MaxRetries = 1
    FailReaders = TRUE
INVARIANTS
    PermitsAccounted
    StoreSound
PROPERTIES
    ServedWhole
    EveryRequestEnds
CHECK_DEADLOCK FALSE
