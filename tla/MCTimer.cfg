SPECIFICATION HSpec
CONSTANTS
  MaxTimer = 3
  Handlers = {h1, h2, h3, h4}
  NULL = NULL
  Timeouts = {3, 4}
  TickMod = 16
  MaxTick = 10
  BehindIsNull = {TRUE, FALSE}
SYMMETRY HandlerSymmetry
INVARIANTS
  LostOnlyWhenFull
  LatenessBound
PROPERTIES
  NeverEarly
