SPECIFICATION DisplaysSpec
CONSTANTS
  MaxConns = 2
  MaxChanges = 2
  MaxRestarts = 1
  Displays = {"d1", "d2"}
  MaxShows = 1
  MaxVolumes = 1
  MaxLosses = 1
  MaxQueue = 1
  Macs = {"m1", "m2"}
  Addrs = {"a1", "a2"}
  MaxMoves = 2
  Users = {"turn", "page"}
  MaxCommands = 2
  MaxPhones = 1
  MaxMishaps = 1
INVARIANTS
  MirrorAgreesUnlessOvertaken
  PinnedHearsItsMac
  StationIsHeard
PROPERTIES
  ClosedIsForgotten
  ScreensCatchUp
  ChannelComesBack
  NewStartIsHandedOff
CHECK_DEADLOCK FALSE
