SPECIFICATION Spec
CONSTANTS
  Programs <- ZeroPrograms
  COUNTER_BITS = 8
  MaxIrqs = 1
PROPERTY
  EnabledByProgram
