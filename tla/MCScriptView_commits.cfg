CONSTANTS
  l1 = l1
  l2 = l2
  l3 = l3
  l4 = l4
  Lines = {l1, l2, l3, l4}
  LineTypes = {"heading"}
  Opening <- SmallFilm
  MaxEdits = 1
  MaxWrites = 0
  MaxScenes = 3
  MaxQueue = 1
  MaxLeaves = 1
  AgentDeletes = FALSE
SPECIFICATION Spec
PROPERTIES LinksAreKept NumbersFollowScript TypedStays TextIsNotUndone
CHECK_DEADLOCK FALSE
