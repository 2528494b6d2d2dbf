SPECIFICATION SumSpec
CONSTANTS
    Parts = {"timer"}
    Requests = {r1, r2, r3}
    MultiCalls = {r3}
    WithTimeout = TRUE
    NoLock = NoLock
    Durations = {3}
    MaxTime = 6
PROPERTY
    TimeoutEnds
CHECK_DEADLOCK FALSE
