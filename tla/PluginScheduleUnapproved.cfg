SPECIFICATION Spec
CONSTANTS
  Plugins = {p}
  Sources = {v1, v2}
  w = w
  Places = {1}
  Plans <- OneWrite
  Blocked = blocked
  None = none
  MaxRuns = 2
  MaxTime = 5
  MaxActs = 2
  MaxCrashes = 0
INVARIANT ApprovedSource
CHECK_DEADLOCK FALSE
