SPECIFICATION Spec
CONSTANTS
  Plugins = {p}
  Subjects = {s}
  s = s
  t = t
  RunRecord = record
  Queries = {q}
  Agents = {me}
  Verdicts = {now}
  Waiting = {}
  Places = {1}
  Plans <- OneWrite
  Blocked = blocked
  None = none
  MaxEvents = 2
  RateLimit = 2
  MaxAttempts = 2
  MaxActs = 0
  MaxCrashes = 0
INVARIANT NoEcho
CHECK_DEADLOCK FALSE
