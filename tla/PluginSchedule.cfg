SPECIFICATION FairSpec
CONSTANTS
  Plugins = {p}
  Sources = {v1, v2}
  w = w
  Places = {1}
  Plans <- OneWrite
  Blocked = blocked
  None = none
  MaxRuns = 2
  MaxTime = 5
  MaxActs = 1
  MaxCrashes = 1
INVARIANTS TypeOK WritesAtMostOnce OpenRunBlocksTheNext NothingRunsUnnoticed
PROPERTIES ImplementsRunOnce ClaimsAreReleased
CHECK_DEADLOCK FALSE
