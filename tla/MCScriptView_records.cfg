CONSTANTS
  l1 = l1
  l2 = l2
  l3 = l3
  l4 = l4
  Lines = {l1, l2, l3, l4}
  LineTypes = {"heading"}
  Opening <- SmallFilm
  MaxEdits = 0
  MaxWrites = 2
  MaxScenes = 3
  MaxQueue = 1
  MaxLeaves = 1
  AgentDeletes = TRUE
SPECIFICATION Spec
INVARIANTS ReportsAreTrue UndoGivesBack
PROPERTIES FixedIsFixed
CHECK_DEADLOCK FALSE
