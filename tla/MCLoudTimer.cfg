SPECIFICATION Spec
CONSTANTS
  MaxIds = 1
  MaxTasks = 1
  Labels = {}
  NoLabel = NoLabel
  NoTask = NoTask
  MaxTurns = 2
  MaxAdjusts = 0
  MaxFailures = 0
PROPERTIES AnnouncementYields
CHECK_DEADLOCK FALSE
