\* Normal and TDD plans of two steps, one revision, undos and edits that leave the
\* finished steps in front.
SPECIFICATION Spec
CONSTANTS
  Titles = {a, b}
  MaxSteps = 2
  Kinds = {"normal", "tdd"}
  MaxRefusals = 2
  TextRetries = 1
  MaxRevisions = 1
  MaxChanges = 1
  InOrder = TRUE
  LateRevisions = TRUE
INVARIANTS TypeOK UniqueTags FileMirrors
PROPERTIES  FinishedStay
SYMMETRY Symmetry
CHECK_DEADLOCK FALSE
