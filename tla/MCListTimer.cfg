SPECIFICATION Spec
CONSTANTS
  Builds = {"list", "skip"}
  Timeouts = {1, 3}
  MaxNodes = 3
  MaxLevel = 2
  INVALID = 99
INVARIANTS
  ListKeepsShape
  BlocksAreListed
  OnlyTallestDeleted
  FirstOfEquals
PROPERTIES
  ImplementsTimerQueue
  EveryTimerFires
