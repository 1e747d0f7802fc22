CONSTANTS
  f1 = f1
  f2 = f2
  a1 = a1
  a2 = a2
  Finding = {f1}
  Agent = {a1}
  Raises <- MCOneReviewer
  Audit <- NoFindings
  Overlap <- NoFindings
  ChallengeCap = 1
  DeliveryCap = 1
  MaxRuns = 2
  Nil = Nil
SPECIFICATION Spec
INVARIANT BrokenVettingStillChallenged
CHECK_DEADLOCK FALSE
