CONSTANTS
  view = view
  other = other
  third = third
  Callers = {view, other}
  Calls <- CopyCalls
  ReadOnly = FALSE
  InPlace = FALSE
  MaxRevision = 3
  MaxTickets = 2
  MaxOutside = 0
  MaxChecks = 0
  MaxRefreshes = 3
SYMMETRY CallerSymmetry
SPECIFICATION Spec
INVARIANTS
  OneWriteAtATime
  NothingLost
PROPERTY
  NoLostUpdate
