CONSTANTS
  parent = parent
  child = child
  None = None
  d1 = d1
  d2 = d2
  Subjects <- OneSubject
  Parent <- FamilyParent
  Depth <- FamilyDepth
  Drains = {d1, d2}
  BlockAfter = 1
  UniqueIds = TRUE
  MaxEdits = 2
  MaxCrashes = 0
  MaxLate = 1
  Outcomes = {"network"}
SPECIFICATION Spec
SYMMETRY DrainSymmetry
INVARIANTS
  TypeOK
  NothingForgotten
  BaseHeldByHub
  DeltaHasGenesis
CHECK_DEADLOCK FALSE
