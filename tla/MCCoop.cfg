SPECIFICATION Spec
CONSTANTS
  Kernels = {"04", "07", "9_1", "9_2"}
  MaxTasks = 3
  Creations <- MCCreations
  Counting = {"04", "07"}
INVARIANTS
  CurrentExecutes
  HighestIsResumed
PROPERTIES
  ImplementsCoroutines
  EveryoneTakesTurns
