SPECIFICATION Spec
CONSTANTS
  Subjects = {1}
  Imports = {1}
  Parent <- Family
  ImportOf <- Twins
  Ops = {x, y}
  Writers = {a, b}
  Kinds = {"genesis", "push"}
  None = none
  MaxRequests = 2
  MaxCrashes = 0
SYMMETRY Symmetry
INVARIANT NothingComesBack
CHECK_DEADLOCK FALSE
