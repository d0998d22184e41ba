\* A plan is paused, the user goes to plan mode, and a create_plan is refused.
SPECIFICATION Spec
CONSTANTS
  Titles = {a, b}
  MaxSteps = 2
  Kinds = {"normal"}
  MaxRefusals = 2
  TextRetries = 1
  MaxRevisions = 0
  MaxChanges = 0
  InOrder = TRUE
  LateRevisions = TRUE
INVARIANT ConsentFirst
SYMMETRY Symmetry
CHECK_DEADLOCK FALSE
