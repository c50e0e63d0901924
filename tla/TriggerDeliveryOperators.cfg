SPECIFICATION Spec
CONSTANTS
  Plugins = {p}
  Subjects = {s}
  s = s
  t = t
  RunRecord = record
  Queries = {q}
  Agents = {me}
  Verdicts = {now}
  Waiting = {}
  Places = {1}
  Plans <- OneWrite
  Blocked = blocked
  None = none
  MaxEvents = 2
  RateLimit = 1
  MaxAttempts = 1
  MaxActs = 2
  MaxCrashes = 1
INVARIANTS TypeOK WritesAtMostOnce ReceiptsAreDurable NothingAheadOfTheLog
PROPERTIES ImplementsRunOnce
CHECK_DEADLOCK FALSE
