SPECIFICATION Spec
CONSTANTS
  r1 = r1
  r2 = r2
  t1 = t1
  t2 = t2
  Stale = Stale
  Requests <- MCRequests
  Tokens <- MCTokens
  GenerationInputs <- MCGenerationInputs
  VerificationInputs <- MCVerificationInputs
  Modes <- MCModes
  LayerCount = 2
  QueryHeadCount = 4
  KeyValueHeadCount = 2
  PageCount = 8
  PageTokenCount = 2
  MetalGemvMaxRows = 2
  MaxLength = 4
  MaxCalls = 3
INVARIANTS
  AttentionIsCausal
  SamplingIsFaithful
  LimitsHold
  ConfigurationsAgree
CHECK_DEADLOCK FALSE
