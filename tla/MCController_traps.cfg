SPECIFICATION FairSpec
CONSTANTS
  NPC = 4
  BootPC = 0
  ExcPC = 2
  IrqPC = 3
  DbgPC = 0
  DbgExcPC = 0
  TriggerPC = 0
  Fetchable <- TrapCode
  DebugReqs = {FALSE}
  Irqs = {FALSE, TRUE}
  Clusters = {FALSE, TRUE}
INVARIANTS
  NoCsrWriteInFlight
PROPERTIES
  ImplementsIsa
  TakenBranchFlushed
  IrqServed
