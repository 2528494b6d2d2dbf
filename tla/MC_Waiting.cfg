SPECIFICATION SumSpec
CONSTANTS
    Parts = {"get", "fill", "timer", "clock", "run"}
    Requests = {r1, r2, r3}
    MultiCalls = {r3}
    WithTimeout = TRUE
    NoLock = NoLock
    Durations = {1, 3}
    MaxTime = 4
INVARIANTS
    GuardOwnsEntry
    WaitersWillWake
    RegistrySound
    TimersKept
    ServicesInOrder
PROPERTY
    EveryWaitEnds
CHECK_DEADLOCK FALSE
