SPECIFICATION Spec
CONSTANTS
  Programs <- TestPrograms
  COUNTER_BITS = 2
  MaxIrqs = 2
INVARIANTS
  ProgramOrder
  LoopJumpLegal
PROPERTIES
  Finishes
