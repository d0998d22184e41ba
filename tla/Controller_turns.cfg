\* Turns only: chat lines, answers, steering, Esc, the Retry and Edit buttons.
SPECIFICATION FairSpec
CONSTANTS
  MaxMsgs = 3
  Threads = {w1, w2}
  MaxRounds = 2
  Commands = {}
  WaitingCommands = {}
  Buttons = TRUE
INVARIANTS TypeOK NothingStranded TypedOrder 
PROPERTIES QueuedGetsThrough WorkEnds
CHECK_DEADLOCK FALSE
