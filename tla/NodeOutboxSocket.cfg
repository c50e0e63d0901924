CONSTANTS
  parent = parent
  child = child
  None = None
  d1 = d1
  d2 = d2
  Subjects <- OneSubject
  Parent <- FamilyParent
  Depth <- FamilyDepth
  Drains = {d1}
  BlockAfter = 2
  UniqueIds = FALSE
  MaxEdits = 2
  MaxCrashes = 1
  MaxLate = 1
  Outcomes = {"transient", "blocking", "terminal", "network"}
SPECIFICATION Spec
INVARIANTS
  NothingForgotten
  BaseHeldByHub
  DeltaHasGenesis
CHECK_DEADLOCK FALSE
