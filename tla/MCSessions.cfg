SPECIFICATION Spec
CONSTANTS
  d1 = d1  d2 = d2  g1 = g1  r1 = r1  r2 = r2  c1 = c1  c2 = c2  a1 = a1
  None = None
  NoRow = NoRow
  Old = Old
  Devices = {d1, d2}
  Groups = {g1}
  Requests = {r1, r2}
  Aliases = {a1}
  Conns = {c1, c2}
  Limit = 2
  EnforceLatestCert = TRUE
SYMMETRY Symmetry
CHECK_DEADLOCK FALSE
INVARIANTS PairedEvents
PROPERTIES ConfirmedKeepsSecret OldDisconnectNeverEvicts NoReturnToOldConnection
