SPECIFICATION BufferSpec
CONSTANTS
  DEPTH = 2
  ADDR_DEPTH = 1
  NumWords = 3
  PULP_OBI = TRUE
  COREV_PULP = TRUE
INVARIANT BufferHolds
PROPERTY FetchProgress
