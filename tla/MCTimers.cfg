SPECIFICATION FairSpec
CONSTANTS
  MaxIds = 2
  MaxTasks = 2
  Labels = {pasta}
  NoLabel = NoLabel
  NoTask = NoTask
  MaxTurns = 1
  MaxAdjusts = 1
  MaxFailures = 1
INVARIANTS
  AlarmIsReachable
  RemovedFallsSilent
  ScreenAgreesUnlessDisturbed
PROPERTIES
  TableRefinement
  AlarmRepeats
CHECK_DEADLOCK FALSE
