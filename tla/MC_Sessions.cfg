SPECIFICATION SumSpec
CONSTANTS
    Setups <- Exchanges
    CHANNEL_BUFFER_SIZE = 1
    MaxQueued = 2
INVARIANTS
    PipedWhole
    StreamsServed
PROPERTIES
    IdleCloseIsIdle
    NobodyLeftWaiting
CHECK_DEADLOCK FALSE
