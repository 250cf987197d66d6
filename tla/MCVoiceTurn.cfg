\* Three openings (wake words and follow-ups in any mix), so three turns; two
\* where the panel takes part, and a UI thread up to two events behind.  On
\* the wire two microphone frames and two sentences.  On the screen at least
\* two of what can be told apart, two camera views, one restart of the engine.
\* Two requests at a time for two apps, four in all; two identities, two tokens.
\* Two connections ducking two clients, with requests that may fail.
CONSTANTS
  MaxTurns = 3
  RingCap = 2
  MaxBehind = 2
  PanelTurns = 2
  MaxChunks = 2
  MaxSentences = 2
  FollowUp = TRUE
  Recipes = {"pie"}
  Panes = {1, 2}
  Reports = {"now", "later"}
  PlaceCards = {"cafe"}
  Cameras = {"door", "yard"}
  Tracks = {"song", "jazz fm"}
  Stations = {"jazz fm"}
  MaxOpens = 2
  MaxEngineStarts = 1
  Callers = {c1, c2}
  Apps = {"cadora", "nexthaul"}
  MaxUsers = 2
  MaxTokens = 2
  MaxRequests = 4
  MaxRebuilds = 1
  MaxCrashes = 1
  Conns = {k1, k2}
  Clients = {s1, s2}
  Levels = {1, 3}
  StartLevels = {3}
  DuckPercent = 1
  NoRecord = NoRecord
  MaxSpeaking = 2
  MaxManual = 1
  Faults = TRUE
SPECIFICATION VoiceSpec
INVARIANTS
  OneHolder
  ChannelsReachLiveTurn
  FollowupMicIsQuiet
  PanelWhileAudible
  WholeReply
  OneAudioStream
  HeardReplyReleases
  ContextTellsNoLies
  ViewsAreTheirOwn
  SessionSurvives
  LinkedIsUsable
  RestoreIsOwed
  ExactUnlessSpoiled
PROPERTIES
  SlotRefinement
CHECK_DEADLOCK FALSE
