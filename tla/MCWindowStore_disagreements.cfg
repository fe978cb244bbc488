CONSTANTS
  a = a
  b = b
  c = c
  d = d
  u = u
  v = v
  home = home
  disk = disk
  None = None
  Films = {a, b, c, d}
  Present = {a, b}
  Demos = {}
  Roots = {home, disk}
  Jobs = {1, 2}
  Uuids <- SmallUuids
  FirstDb <- SmallDb
  MayFail = {a, b, c}
  MaxActs = 3
  MaxReloads = 0
SPECIFICATION Spec
INVARIANTS ViewsAreCurrent RootIsItsOwn HeldOnlyWhileHad
PROPERTIES OnlyChoicesReplaceRoots ClosedStaysClosed
CHECK_DEADLOCK FALSE
