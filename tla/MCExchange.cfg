\* Two openings (a wake word and its barge-in or follow-up) with the smallest
\* ring; one microphone frame and two sentences on the wire; two connections
\* ducking one client, with requests to the snapserver that may fail.
CONSTANTS
  MaxTurns = 2
  RingCap = 1
  MaxChunks = 1
  MaxSentences = 2
  FollowUp = TRUE
  Conns = {1, 2}
  Clients = {s1}
  Levels = {1, 3}
  StartLevels = {3}
  DuckPercent = 1
  NoRecord = NoRecord
  MaxSpeaking = 2
  MaxManual = 1
  Faults = TRUE
SPECIFICATION MCSpec
PROPERTIES
  TurnsEnd
  RestartIsTaken
  ExchangeEnds
  MusicReturns
CHECK_DEADLOCK FALSE
