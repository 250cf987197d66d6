SPECIFICATION SettingsSpec
CONSTANTS
  People = {ann}
  Keys = {"k"}
  SeedPhones = {ann}
  MaxEdits = 1
  MaxStops = 1
  MaxFaults = 0
INVARIANTS
  UnlinkedStaysUnlinked
CHECK_DEADLOCK FALSE
