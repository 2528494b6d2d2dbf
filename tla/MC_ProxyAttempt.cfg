SPECIFICATION AttemptFair
CONSTANTS
    Exchanges <- AllExchanges
    Capacity = 1
INVARIANTS
    MessagesWhole
    ReuseAtMessageEnd
    TunnelStaysOpen
PROPERTIES
    EveryAttemptEnds
