SPECIFICATION Spec
CONSTANTS
  Bits <- SomeBits
  MIN_ID = 26
  MAX_ID = 31
  MatSteps = 2
  MaxWords = 2
INVARIANTS
  NoError
  ServedOnce
PROPERTIES
  Terminates
