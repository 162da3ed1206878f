SPECIFICATION Spec
CONSTANTS
  r1 = r1  r2 = r2  r3 = r3
  w1 = w1  w2 = w2
  Requests <- MCRequests
  StreamedSets <- MCStreamedSets
  Accepted = {r1}
  Workers = {w1, w2}
  Capacity = 1
  MaxRequestId = 4
  MaxTokens <- MCMaxTokens
INVARIANTS
  StreamsAreFaithful
  WorkersStay
PROPERTIES
  PreprocessingEnds
  ShutdownEnds
CHECK_DEADLOCK FALSE
