SPECIFICATION FairSpec
CONSTANTS
  Requests = {r1, r2, r3}
  NoLock = NoLock
INVARIANTS
  WriterKnown
  ReleasedNotWaiting
PROPERTIES
  EveryRequestProgresses
  ImplementsSingleFlight
CHECK_DEADLOCK FALSE
