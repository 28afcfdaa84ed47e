SPECIFICATION FairSpec
CONSTANTS
  d1 = d1
  s1 = s1
  Devices <- MCOneDevice
  Shards <- MCOneShard
  ShardOf <- MCAlone
  Profiles <- MCLively
  MaxSeq = 2
  MaxGen = 2
  ShardQueue = 1
  BatchMaxRows = 2
  FaultKinds = {"transient", "permanent", "timeout", "reconnect", "broken"}
  MaxFaults = 2
  StopCauses = {"serveErr"}
  Stragglers <- MCStraggler
INVARIANTS NoSendOnClosedLane ExitedShardIsDrained
PROPERTIES ShutdownCompletes EventuallyAcked
