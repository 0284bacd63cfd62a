SPECIFICATION FairSpec
CONSTANTS
  MemBytes = 8
  Accesses <- MixedAccesses
INVARIANTS
  TypeOK
  LoadsCorrect
  StoresCorrect
  IncrementsCorrect
  RequestStable
PROPERTIES
  AccessesMoveOn
