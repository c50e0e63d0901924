CONSTANTS
  parent = parent
  child = child
  sibling = sibling
  None = None
  Subjects <- Family
  Tier <- FamilyTier
  Concurrency = 2
  BlockAfter = 1
  Passes = {1, 2, 3}
  MaxEdits = 0
  MaxCalls = 1
  Outcomes = {"busy"}
  AuthMayFail = FALSE
SPECIFICATION Spec
INVARIANTS
  OneAttemptPerSubject
  TierBarrier
  AwaitedDrainAttempts
  NoLostWakeup
