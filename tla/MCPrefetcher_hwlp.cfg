SPECIFICATION Spec
CONSTANTS
  DEPTH = 2
  NumWords = 5
  PULP_OBI = FALSE
  COREV_PULP = TRUE
INVARIANTS TypeOK FlushBounded RoomForAll LoopEndRequested StreamIntact
PROPERTY FetchStreamSpec
