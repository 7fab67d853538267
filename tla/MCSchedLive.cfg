SPECIFICATION FairSpec
CONSTANTS
  NSlots = 3
  Slice = 2
  TickMod = 3
  PidLimit = 2
  MaxSleep = 2
  NStacks = 3
  NSpaces = 1
  Channels = {ch1}
  Irqs = {1}
  KillStates = {"BLOCKED", "ZOMBIE"}
  SleepWithIF = FALSE
  NULL = NULL
  KPML4 = KPML4
PROPERTIES
  EveryoneRuns
  WaiterReaps
