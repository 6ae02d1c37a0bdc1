SPECIFICATION Spec
CONSTANTS
  MaxTasks = 2
  MaxTimer = 2
  Calls = {"spin_lock", "timer_create", "timer_delete"}
  UserMode = FALSE
  InitTop = 2
  Creators = {}
  Sources = {"timer"}
  Timeouts = {1, 2}
  TickMod = 8
  MaxTick = 4
  NULL = NULL
  HandlerCalls = {}
PROPERTIES
  ImplementsTimer
