\* A terminal, and a page that comes and goes.
SPECIFICATION Spec
CONSTANTS
  Pages = {web}
  Terminals = {tui}
  BacklogMax = 2
  MaxPuts = 6
INVARIANTS BusyShown NoStalePreview
PROPERTY SharedConversation
CHECK_DEADLOCK FALSE
