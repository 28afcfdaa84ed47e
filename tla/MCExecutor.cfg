SPECIFICATION FairSpec
CONSTANTS
  NoPolicy = NoPolicy
  Producers = {p1, p2, p3}
  Workers = {w1, w2}
  Triggers <- MCTriggers
  QueueSize = 1
  MaxAttempts = 2
  MaxEvents = 1
INVARIANTS
  InflightIsExact NothingLost NoSendOnClosedChannel CloseDrains
PROPERTY CloseEnds
CHECK_DEADLOCK FALSE
