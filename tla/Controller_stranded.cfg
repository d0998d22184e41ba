\* A message typed during /compact, and the claim that it is never left behind.
SPECIFICATION Spec
CONSTANTS
  MaxMsgs = 2
  Threads = {w1, w2}
  MaxRounds = 2
  Commands = {"compact"}
  WaitingCommands = {}
  Buttons = FALSE
SYMMETRY Symmetry
INVARIANT NothingStranded
CHECK_DEADLOCK FALSE
