SPECIFICATION Spec
CONSTANTS
  Subjects = {"anna", "bob"}
  Shots = {"shot"}
  Project = "project"
  Files = {"f2", "f3"}
  When = {1, 2}
  FirstFilm <- SmallFilm
  MaxAsks = 2
  MaxQueue = 2
PROPERTIES UndoRestores OthersAreAsked RanksStayApart MovesKeepOrder
CHECK_DEADLOCK FALSE
