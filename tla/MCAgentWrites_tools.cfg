CONSTANTS
  one = one
  two = two
  Slots = {one, two}
  Fields = {"scene", "number"}
  SceneField = "scene"
  NumberField = "number"
  Values = {"a", "bad"}
  Bad = "bad"
  Elicits = TRUE
  MaxCalls = 3
  MaxWindow = 1
  MaxOutside = 1
  MaxRestarts = 1
SYMMETRY SlotSymmetry
SPECIFICATION Spec
INVARIANT
  AppliedOnce
PROPERTIES
  AppliedAsApproved
  NoFindingAdded
CHECK_DEADLOCK FALSE
