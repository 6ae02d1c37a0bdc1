SPECIFICATION Spec
CONSTANTS
  MaxTasks = 3
  Starters = {2}
  Prios = {0, 1}
  Slices = {1}
  Sleeps = {0, 2}
  MaxTimers = 1
  KeepsSlices = FALSE
INVARIANTS
  RunsHighest
  CurrentIsCaller
  WakeupsMeetSleepers
  OversleepBound
PROPERTIES
  HighestIsPicked
