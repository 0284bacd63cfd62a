SPECIFICATION Spec
CONSTANTS
  Reg = {0, 1, 2}
  MaxStall = 6
  Instrs <- Few
  LatSets <- Latencies
INVARIANTS
  OperandsRight
  RegistersSettle
  FlagsComplete
  LockStep
  StallsEnd
