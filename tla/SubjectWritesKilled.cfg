SPECIFICATION Spec
CONSTANTS
  Subjects = {1}
  Imports = {1}
  Parent <- Family
  ImportOf <- Twins
  Ops = {x, y}
  Writers = {a, b}
  Kinds = {"destroy", "push"}
  None = none
  MaxRequests = 2
  MaxCrashes = 1
SYMMETRY Symmetry
INVARIANT NothingComesBack
CHECK_DEADLOCK FALSE
