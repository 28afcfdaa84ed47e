SPECIFICATION Spec
CONSTANTS
  d1 = d1
  s1 = s1
  Devices <- MCOneDevice
  Shards <- MCOneShard
  ShardOf <- MCAlone
  Profiles <- MCMixed
  MaxSeq = 3
  MaxGen = 2
  ShardQueue = 1
  BatchMaxRows = 2
  FaultKinds = {"transient", "permanent", "broken", "crash", "reconnect", "panic"}
  MaxFaults = 2
  StopCauses = {"serveErr", "signal"}
  Stragglers <- MCNone
INVARIANTS AckedIsSettled TimerCoversBatch 
PROPERTY ImplementsIngest
CHECK_DEADLOCK FALSE
