SPECIFICATION FairSpec
CONSTANTS
  Plugins = {p}
  Subjects = {s, t}
  s = s
  t = t
  RunRecord = record
  Queries = {q}
  Agents = {me}
  Verdicts = {now, later}
  Waiting = {later}
  Places = {1, 2}
  Plans <- TwoWrites
  Blocked = blocked
  None = none
  MaxEvents = 2
  RateLimit = 1
  MaxAttempts = 1
  MaxActs = 0
  MaxCrashes = 2
INVARIANT OpenRunHoldsTheCursor
PROPERTIES EdgesSettle
CHECK_DEADLOCK FALSE
