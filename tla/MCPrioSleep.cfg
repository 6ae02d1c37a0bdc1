SPECIFICATION Spec
CONSTANTS
  MaxTasks = 3
  Starters = {2}
  Prios = {0}
  Slices = {1}
  Sleeps = {2}
  MaxTimers = 1
  KeepsSlices = FALSE
INVARIANTS
  SleepersHaveTimers
