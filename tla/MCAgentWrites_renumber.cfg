CONSTANTS
  one = one
  two = two
  Slots = {one, two}
  Fields = {"scene", "number"}
  SceneField = "scene"
  NumberField = "number"
  Values = {"a", "b", "bad"}
  Bad = "bad"
  Elicits = TRUE
  MaxCalls = 3
  MaxWindow = 0
  MaxOutside = 0
  MaxRestarts = 0
SYMMETRY SlotSymmetry
SPECIFICATION Spec
PROPERTY OnlyGivenFieldsChange
CHECK_DEADLOCK FALSE
