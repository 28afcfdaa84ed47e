SPECIFICATION Spec
CONSTANTS
  d1 = d1
  s1 = s1
  Devices <- MCOneDevice
  Shards <- MCOneShard
  ShardOf <- MCAlone
  Profiles <- MCStreams
  MaxSeq = 2
  MaxGen = 1
  ShardQueue = 1
  BatchMaxRows = 2
  FaultKinds = {}
  MaxFaults = 0
  StopCauses = {"signal"}
  Stragglers <- MCNone
INVARIANT ExitedShardIsDrained
CHECK_DEADLOCK FALSE
