SPECIFICATION WireSpec
CONSTANTS
  MaxChunks = 1
  MaxSentences = 1
  FollowUp = TRUE
INVARIANT SilentTurnSleeps
CHECK_DEADLOCK FALSE
