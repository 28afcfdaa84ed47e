SPECIFICATION Spec
CONSTANTS
  Paths = {p1, p2}
  Values = {v1, v2}
  NoValue = NoValue
  BatchMaxRows = 3
  MaxOps = 4
  Faults = {"lookup", "refuse", "crash", "retrigger", "late"}
  MaxFaults = 1
SYMMETRY Symmetry
INVARIANTS PrevIsSerial SubscriberKnowsValue
CHECK_DEADLOCK FALSE
