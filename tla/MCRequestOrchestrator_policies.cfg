SPECIFICATION OrchestratorSpec
CONSTANTS
  r1 = r1  r2 = r2  r3 = r3
  Requests <- MCRequests
  BackendCount = 2
  InputTokenCount <- MCInputTokenCount
  MaxNewTokenCount <- MCMaxNewTokenCount
  CachedTokenCount <- MCCachedTokenCount
  BackendOverride <- MCBackendOverride
  NoBackend = 0
  Profiles <- MCProfiles
  NanosecondsPerSecond = 8
  MessageCapacity = 1
  Policies <- MCPolicies
INVARIANTS
  ReservationsMatch
  CountedOnce
  WorkIsNeverUnderestimated
  RoundRobinIsBalanced
PROPERTIES
  LeastLoadedIsChosen
CHECK_DEADLOCK FALSE
