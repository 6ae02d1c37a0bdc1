SPECIFICATION LiveSpec
CONSTANTS
  MaxTasks = 2
  MaxTimer = 1
  Calls = {"task_yield", "spin_lock"}
  UserMode = FALSE
  InitTop = 2
  Creators = {}
  Sources = {"timer"}
  Timeouts = {1}
  TickMod = 1
  MaxTick = 1
  NULL = NULL
  HandlerCalls = {}
PROPERTIES
  YieldRelinquishes
  EveryTaskRuns
