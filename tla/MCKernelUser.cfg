SPECIFICATION Spec
CONSTANTS
  MaxTasks = 2
  MaxTimer = 1
  Calls = {"ecall", "task_create", "task_yield", "spin_lock"}
  UserMode = TRUE
  InitTop = 1
  Creators = {0}
  Sources = {"timer", "external"}
  Timeouts = {1}
  TickMod = 1
  MaxTick = 1
  NULL = NULL
  HandlerCalls = {}
INVARIANTS
  PanicOnlyFromCsr
PROPERTIES
  ImplementsVirtualCpus
