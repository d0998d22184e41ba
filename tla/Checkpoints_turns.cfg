\* Two files over two checkpoints; the user edits between turns, also with a content
\* too big to save; caps of one and two; a crash, or a call whose copies cannot be saved.
SPECIFICATION Spec
CONSTANTS
  Files = {f1, f2}
  MomoContents = {"a"}
  UserContents = {"u"}
  Big = {"u"}
  Absent = "absent"
  MaxId = 2
  Caps = {0, 1, 2}
  EditsInTurns = FALSE
  Crashes = 1
SYMMETRY Symmetry
INVARIANTS TypeOK Durable IndexIntact OpenIsNewest
PROPERTIES UserEditsKept
CHECK_DEADLOCK FALSE
