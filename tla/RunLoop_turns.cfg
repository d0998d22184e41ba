\* Two turns of two rounds on one conversation, with one rewind and one retry.
SPECIFICATION Spec
CONSTANTS
  MaxMsgs = 2
  MaxTurns = 2
  MaxRounds = 2
  MaxCalls = 1
  MaxResets = 1
  MaxRetries = 1
INVARIANTS Paired QuestionKept
PROPERTIES  LatestGroupKept StartsWithUser  TurnEnds
CHECK_DEADLOCK FALSE
