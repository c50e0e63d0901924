SPECIFICATION Spec
CONSTANTS
  Plugins = {p}
  Sources = {v1}
  w = w
  Places = {1}
  Plans <- OneWrite
  Blocked = blocked
  None = none
  MaxRuns = 2
  MaxTime = 5
  MaxActs = 1
  MaxCrashes = 0
PROPERTY IntervalKeepsProposal
INVARIANT ClaimsHaveARun
CHECK_DEADLOCK FALSE
