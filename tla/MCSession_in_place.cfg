CONSTANTS
  view = view
  other = other
  third = third
  Callers = {view, other}
  Calls <- InPlaceCalls
  ReadOnly = FALSE
  InPlace = TRUE
  MaxRevision = 2
  MaxTickets = 2
  MaxOutside = 1
  MaxChecks = 1
  MaxRefreshes = 3
SPECIFICATION FairSpec
INVARIANTS
  TypeOK
  AlarmIsForeign
  CloseDrains
PROPERTIES
  CallsAreAnswered
  CloseCompletes
CHECK_DEADLOCK FALSE
