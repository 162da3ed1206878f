SPECIFICATION FairWorkerSpec
CONSTANTS
  r1 = r1  r2 = r2  r3 = r3
  a = a  b = b
  Requests <- MCRequests
  Inputs <- MCInputs
  InputOf <- MCInputOf
  InputTokenCount <- MCInputTokenCount
  MaxNewTokenCount <- MCMaxNewTokenCount
  PageTokenCount = 2
  PageCapacity = 3
  MaxActiveRequestCount = 2
  MaxBatchedTokenCount = 2
  SchedulingPolicy = "ShortestPrefillFirst"
  CoordinationPolicy = "UntilPrefixPublished"
  MaxFlightId = 4
  NoFlight = NoFlight
  NoRequest = NoRequest
  MessageCapacity = 2
  EventCapacity = 1
  SpeculativeDecoding = FALSE
  PublicationMayFail = TRUE
  NoStep = NoStep
INVARIANTS
  LifecyclesAgree
  PublishedLoadIsExact
PROPERTIES
  SchedulerSpec
  TerminalEventsAreFinal
  EveryRequestIsAnswered
  ShutdownDrains
