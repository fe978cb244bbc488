CONSTANTS
  view = view
  other = other
  third = third
  Callers = {view, other}
  Calls <- InPlaceCalls
  ReadOnly = FALSE
  InPlace = TRUE
  MaxRevision = 2
  MaxTickets = 2
  MaxOutside = 0
  MaxChecks = 1
  MaxRefreshes = 3
SPECIFICATION Spec
INVARIANT
  QuietFingerprintIsCurrent
