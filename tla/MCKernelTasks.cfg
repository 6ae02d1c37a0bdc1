SPECIFICATION Spec
CONSTANTS
  MaxTasks = 3
  MaxTimer = 1
  Calls = {"task_yield", "spin_lock", "task_create"}
  UserMode = FALSE
  InitTop = 2
  Creators = {0}
  Sources = {"timer"}
  Timeouts = {1}
  TickMod = 1
  MaxTick = 1
  NULL = NULL
  HandlerCalls = {}
INVARIANTS
  ScratchIsCurrent
  LockExcludes
  CreatedTasksAreSetUp
PROPERTIES
  ImplementsVirtualCpus
