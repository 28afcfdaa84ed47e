SPECIFICATION Spec
CONSTANTS
  Endpoints <- MCEndpoints
  FewEndpoints <- MCFewEndpoints
  CreatedWidth = 16
  Segments <- MCSegments
  BuiltIn <- MCBuiltIn
  MaxCompositeDepth = 2
  MaxInt32 = 1
  MaxSafe = 4
  MaxInt64 = 7
  MaxTime = 3
  MaxArrayLen = 2
  DefaultDeviceLimit = 3
  TokenRange = 8
  CacheSize = 1
INVARIANTS
  PublishesResolve UpgradeKeepsPaths TriggersFire ReplayKeepsOrder
  FlowRunsInOrder FailedBuildLeavesNothing ValueSurvives PagesCoverAll
  CacheIsTransparent StreamIsKept
CHECK_DEADLOCK FALSE
