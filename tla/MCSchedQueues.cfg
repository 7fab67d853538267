SPECIFICATION Spec
CONSTANTS
  NSlots = 4
  Slice = 1
  TickMod = 3
  PidLimit = 2
  MaxSleep = 2
  NStacks = 4
  NSpaces = 2
  Channels = {ch1}
  Irqs = {}
  KillStates = {"BLOCKED", "ZOMBIE"}
  SleepWithIF = TRUE
  NULL = NULL
  KPML4 = KPML4
INVARIANTS
  QueuesExact
  OneOwnerEach
PROPERTIES
  ImplementsAbs
  DeadStayDead
