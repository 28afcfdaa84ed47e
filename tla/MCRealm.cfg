SPECIFICATION FairSpec
CONSTANTS
  Requests = {r1, r2}
  Earlier = Earlier
  Listener = Listener
  Healer = Healer
  Documents <- MCDocuments
  Initial <- MCInitial
  Triggers <- MCTriggers
  PolicyNames = {"p"}
  NoPolicy = NoPolicy
  None = None
  Collide <- MCCollide
  MaxFaults = 1
INVARIANT SnapshotCurrent
PROPERTIES NoServiceGap RequestsEnd
CHECK_DEADLOCK FALSE
