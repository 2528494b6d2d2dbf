SPECIFICATION SumSpec
CONSTANTS
    None = None
INVARIANTS
    LruSound
    UsedAsAllowed
    RangesServed
PROPERTY
    ListKept
CHECK_DEADLOCK FALSE
