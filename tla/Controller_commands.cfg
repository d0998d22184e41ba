\* Every command and button the busy check covers; only undo and keep are also
\* typed while the model waits for an answer.
SPECIFICATION Spec
CONSTANTS
  MaxMsgs = 2
  Threads = {w1, w2}
  MaxRounds = 2
  Commands = {"compact", "plan", "new", "files", "retry"}
  WaitingCommands = {"files"}
  Buttons = FALSE
SYMMETRY Symmetry
INVARIANTS OneWorker AnswerReachesAsker StrandedOnlyByHelpers 
 
CHECK_DEADLOCK FALSE
