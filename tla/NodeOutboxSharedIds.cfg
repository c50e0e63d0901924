CONSTANTS
  parent = parent
  child = child
  None = None
  d1 = d1
  d2 = d2
  Subjects <- Family
  Parent <- FamilyParent
  Depth <- FamilyDepth
  Drains = {d1, d2}
  BlockAfter = 2
  UniqueIds = FALSE
  MaxEdits = 1
  MaxCrashes = 0
  MaxLate = 0
  Outcomes = {}
SPECIFICATION Spec
INVARIANT AckedWasApplied
CHECK_DEADLOCK FALSE
