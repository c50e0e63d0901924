SPECIFICATION Spec
CONSTANTS
  Subjects = {1, 2, 3}
  Imports = {1}
  Parent <- Family
  ImportOf <- Twins
  Ops = {x, y}
  Writers = {a, b}
  Kinds = {"genesis", "edit", "destroy", "update", "push", "remove", "batch", "restore"}
  None = none
  MaxRequests = 2
  MaxCrashes = 1
SYMMETRY Symmetry
INVARIANTS TypeOK OperationsSurvive TombstonesAreForTheGone DeletedStaysDeleted OneRecordPerImport NoCircularWait
CHECK_DEADLOCK FALSE
