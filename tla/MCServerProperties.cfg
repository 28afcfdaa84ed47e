SPECIFICATION Spec
CONSTANTS
  Paths = {p}
  Values = {1, 2}
  Calls = {c1, c2}
  MaxCalls = 2
  MaxFaults = 2
INVARIANTS
  QuietDeviceAgrees
PROPERTIES
  ResyncIsServed
CHECK_DEADLOCK FALSE
