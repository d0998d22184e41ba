SPECIFICATION Spec
CONSTANTS
    Plans <- SmallPlans
    MaxAttempts = 2
    MaxRefusals = 2
    GateFixes = 1
    MaxNew = 1
    NewestFirst = TRUE
    DraftUndo = FALSE

PROPERTIES ClosedPhaseProven
CHECK_DEADLOCK FALSE
