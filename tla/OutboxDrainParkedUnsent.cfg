CONSTANTS
  parent = parent
  child = child
  sibling = sibling
  None = None
  Subjects <- OneSubject
  Tier <- OneTier
  Concurrency = 1
  BlockAfter = 2
  Passes = {1, 2, 3}
  MaxEdits = 2
  MaxCalls = 1
  Outcomes = {"notReady", "busy", "cancelled", "network", "lostAck", "refused", "parent", "error", "terminal"}
  AuthMayFail = FALSE
SPECIFICATION Spec
PROPERTY ParkedWasOffered
