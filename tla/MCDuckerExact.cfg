SPECIFICATION DuckerSpec
CONSTANTS
  Conns = {k1, k2}
  Clients = {c1, c2}
  Levels = {1, 3}
  StartLevels = {3}
  DuckPercent = 1
  NoRecord = NoRecord
  MaxSpeaking = 2
  MaxManual = 0
  Faults = FALSE
INVARIANT RestoreIsExact
CHECK_DEADLOCK FALSE
