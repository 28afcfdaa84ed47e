SPECIFICATION Spec
CONSTANTS
  k1 = k1  k2 = k2  l1 = l1  l2 = l2  p1 = p1  x1 = x1  s1 = s1  s2 = s2
  None = None
  Keys = {k1, k2}
  Lanes = {l1, l2}
  LaneOf <- MCLaneOf
  Sources = {p1}
  Direct = {x1}
  Stoppers = {s1, s2}
  LaneCapacity = 1
  MaxMsgs <- MCMaxMsgs
  MaxBatch = 2
CHECK_DEADLOCK FALSE
INVARIANTS KeyOrder StopIsClean
PROPERTY StopReturns
