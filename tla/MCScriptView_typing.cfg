CONSTANTS
  l1 = l1
  l2 = l2
  l3 = l3
  l4 = l4
  Lines = {l1, l2, l3, l4}
  LineTypes = {"heading"}
  Opening <- SmallFilm
  MaxEdits = 2
  MaxWrites = 0
  MaxScenes = 3
  MaxQueue = 1
  MaxLeaves = 0
  AgentDeletes = FALSE
SPECIFICATION FairSpec
INVARIANTS OneHeadingPerScene
PROPERTIES SettledNumbers TypedIsSaved
CHECK_DEADLOCK FALSE
