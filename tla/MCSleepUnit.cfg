SPECIFICATION SleepSpec
CONSTANTS
  NPC = 3
  BootPC = 0
  ExcPC = 1
  IrqPC = 1
  DbgPC = 2
  DbgExcPC = 2
  TriggerPC = 1
  Fetchable <- SleepCode
  DebugReqs = {FALSE, TRUE}
  Irqs = {FALSE, TRUE}
  Clusters = {FALSE}
INVARIANTS
  StopsOnlyIdle
PROPERTIES
  ExternalGateSafe
  FallsAsleep
  DebugPulseServed
