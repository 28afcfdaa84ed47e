SPECIFICATION Spec
CONSTANTS
  g1 = g1  g2 = g2  g3 = g3
  None = None
  NoRow = NoRow
  Callers = {c1}
  c1 = c1
  Graphs = {g1, g2, g3}
  MaxConfig = 1
  MaxFails = 1
CHECK_DEADLOCK FALSE
PROPERTY DeadFlowRestarts
