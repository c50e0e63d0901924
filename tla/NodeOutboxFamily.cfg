CONSTANTS
  parent = parent
  child = child
  None = None
  d1 = d1
  d2 = d2
  Subjects <- Family
  Parent <- FamilyParent
  Depth <- FamilyDepth
  Drains = {d1}
  BlockAfter = 1
  UniqueIds = TRUE
  MaxEdits = 1
  MaxCrashes = 1
  MaxLate = 1
  Outcomes = {"terminal", "network"}
SPECIFICATION Spec
INVARIANTS
  NothingForgotten
CHECK_DEADLOCK FALSE
