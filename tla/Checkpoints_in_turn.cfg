\* The user also edits while a turn runs.
SPECIFICATION Spec
CONSTANTS
  Files = {f1}
  MomoContents = {"a", "b"}
  UserContents = {"u"}
  Big = {}
  Absent = "absent"
  MaxId = 2
  Caps = {0}
  EditsInTurns = TRUE
  Crashes = 0
SYMMETRY Symmetry
PROPERTY UserEditsKept
CHECK_DEADLOCK FALSE
