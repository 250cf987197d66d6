\* Two wake words suffice.
CONSTANTS
  MaxTurns = 2
  RingCap = 1
SPECIFICATION Spec
INVARIANT BargeInIsKept
CHECK_DEADLOCK FALSE
