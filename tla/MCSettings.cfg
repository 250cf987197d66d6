SPECIFICATION KeptSpec
CONSTANTS
  People = {ann, bob}
  Keys = {"k"}
  SeedPhones = {ann}
  MaxEdits = 3
  MaxStops = 1
  MaxFaults = 1
  Voices = {va, vb}
  Stores = {nomic, openai}
  Admins = {a1, a2}
  MaxTurns = 2
  MaxChanges = 3
  MaxUpsets = 2
  MaxEvents = 4
  MinSamples = 2
  MaxScreens = 2
  MaxTakes = 3
  MaxSaves = 2
  MaxCoreStops = 1
SYMMETRY KeptSymmetry
INVARIANTS
  NoSaveIsLost
  ToolsFollowSettings
  FileAlwaysBoots
  RestartChangesNothing
  EnrolledIsMember
  NothingSkipped
  HistoryFollowsItsPeople
  NeverSomeoneElses
  NoVoiceIsKeptOrLearntTwice
  ScreenIsHonest
CHECK_DEADLOCK FALSE
