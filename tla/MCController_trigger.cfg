SPECIFICATION Spec
CONSTANTS
  NPC = 3
  BootPC = 0
  ExcPC = 0
  IrqPC = 0
  DbgPC = 1
  DbgExcPC = 1
  TriggerPC = 0
  Fetchable <- TriggerCode
  DebugReqs = {FALSE, TRUE}
  Irqs = {FALSE}
  Clusters = {FALSE}
PROPERTIES
  TriggerWritesIgnored
