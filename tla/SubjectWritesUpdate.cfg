SPECIFICATION Spec
CONSTANTS
  Subjects = {1}
  Imports = {1}
  Parent <- Family
  ImportOf <- Twins
  Ops = {x, y}
  Writers = {a, b}
  Kinds = {"update"}
  None = none
  MaxRequests = 1
  MaxCrashes = 0
SYMMETRY Symmetry
INVARIANT NothingComesBack
CHECK_DEADLOCK FALSE
