CONSTANTS
  parent = parent
  child = child
  sibling = sibling
  None = None
  Subjects <- OneSubject
  Tier <- OneTier
  Concurrency = 1
  BlockAfter = 2
  Passes = {1, 2, 3}
  MaxEdits = 1
  MaxCalls = 1
  Outcomes = {"notReady", "cancelled", "network", "refused"}
  AuthMayFail = FALSE
SPECIFICATION FairSpec
PROPERTIES
  QueuedIsSettled
  CallsReturn
