CONSTANTS
  parent = parent
  child = child
  sibling = sibling
  None = None
  Subjects <- OneSubject
  Tier <- OneTier
  Concurrency = 1
  BlockAfter = 2
  Passes = {1, 2, 3}
  MaxEdits = 2
  MaxCalls = 2
  Outcomes = {"busy", "network", "lostAck", "parent", "pending", "terminal"}
  AuthMayFail = TRUE
SPECIFICATION Spec
INVARIANTS
  TypeOK
  NothingForgotten
  PersistedMeansAcked
  DestroyedMeansGone
  CursorNotPastServer
