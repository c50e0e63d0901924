CONSTANTS
  Nodes = {1, 2}
  Subjects = {1, 2, 3}
  Callers = {"schedule"}
  TTL = 2
  RenewBefore = 1
  SoloRecheck = 1
  Ahead = 1
  Skew <- OneAhead
  MaxTime = 4
  None = None
  Gone = Gone
SPECIFICATION Spec
INVARIANTS
  TypeOK
  BoundedOverlap
  TakeoverFindsItStopped
CHECK_DEADLOCK FALSE
VIEW Recent
