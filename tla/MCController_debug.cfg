SPECIFICATION Spec
CONSTANTS
  NPC = 4
  BootPC = 0
  ExcPC = 1
  IrqPC = 1
  DbgPC = 2
  DbgExcPC = 3
  TriggerPC = 1
  Fetchable <- DebugCode
  DebugReqs = {FALSE, TRUE}
  Irqs = {FALSE, TRUE}
  Clusters = {FALSE}
INVARIANTS
  DebugStatus
PROPERTIES
  ImplementsIsa
  HaltFromReset
