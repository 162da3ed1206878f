SPECIFICATION SchedulerSpec
CONSTANTS
  r1 = r1  r2 = r2  r3 = r3  r4 = r4
  a = a  b = b
  Requests <- MCRequests
  Inputs <- MCInputs
  InputOf <- MCInputOf
  InputTokenCount <- MCInputTokenCount
  MaxNewTokenCount <- MCMaxNewTokenCount
  PageTokenCount = 2
  PageCapacity = 3
  MaxActiveRequestCount = 2
  MaxBatchedTokenCount = 3
  SchedulingPolicy = "FirstComeFirstServed"
  CoordinationPolicy = "UntilPrefixPublished"
  MaxFlightId = 4
  NoFlight = NoFlight
  NoRequest = NoRequest
INVARIANTS
  ReservationsFit
  BlockedAreFollowers
  LeadersMakeProgress
