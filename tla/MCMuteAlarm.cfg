\* One timer and no turn but the one that sets it.
SPECIFICATION FairSpec
CONSTANTS
  MaxIds = 1
  MaxTasks = 1
  Labels = {}
  NoLabel = NoLabel
  NoTask = NoTask
  MaxTurns = 1
  MaxAdjusts = 0
  MaxFailures = 0
PROPERTY AlarmOutlastsCore
CHECK_DEADLOCK FALSE
