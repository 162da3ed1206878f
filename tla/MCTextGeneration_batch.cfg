SPECIFICATION TextGenerationSpec
CONSTANTS
  greedy = greedy
  stochastic = stochastic
  a = a
  b = b
  end = end
  NoToken = NoToken
  Requests <- MCRequests
  GreedyRequests <- MCGreedyRequests
  Tokens <- MCTokens
  EndOfSequenceTokens <- MCEndOfSequenceTokens
  InputTokens <- MCInputTokens
  MaxNewTokenCount <- MCMaxNewTokenCount
  MaxTokenBudget = 2
  Policies <- MCPolicies
  ThresholdUnit = 3
INVARIANTS
  CachesHoldCommittedTokens
  ReservationCoversThePeak
  OutputIsTheTargetsOwn
  SelfChecksNeverFail
PROPERTY
  StepsAdvance
\* Every request may have ended.
CHECK_DEADLOCK FALSE
