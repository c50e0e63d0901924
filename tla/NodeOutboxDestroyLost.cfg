CONSTANTS
  parent = parent
  child = child
  None = None
  d1 = d1
  d2 = d2
  Subjects <- OneSubject
  Parent <- FamilyParent
  Depth <- FamilyDepth
  Drains = {d1}
  BlockAfter = 2
  UniqueIds = FALSE
  MaxEdits = 2
  MaxCrashes = 0
  MaxLate = 0
  Outcomes = {"transient"}
SPECIFICATION Spec
INVARIANT DeletesKept
CHECK_DEADLOCK FALSE
