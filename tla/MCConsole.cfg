SPECIFICATION MCSpec
CONSTANTS
  NumTasks = 2
  Lengths = {2, 4}
  TickLength = 1
  BufSize = 4
  FifoSize = 1
  MaxChars = 2
  LongBits = 8
INVARIANTS
  BufferIsKept
  UndisturbedPrints
  PollHolds
  PrintsItems
PROPERTIES
  EveryCharEchoed
