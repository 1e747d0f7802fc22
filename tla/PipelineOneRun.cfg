CONSTANTS
  f1 = f1
  f2 = f2
  a1 = a1
  a2 = a2
  Finding = {f1, f2}
  Agent = {a1, a2}
  Raises <- MCRaises
  Audit <- AuditLoss
  Overlap <- SameAnchor
  ChallengeCap = 1
  DeliveryCap = 1
  MaxRuns = 1
  Nil = Nil
  n1 = n1
  n2 = n2
  Settings <- McSettings
  Knobs <- McKnobs
  Delivery <- McDelivery
  Posting = {"pr_comments"}
  BranchHead = 2
  Topics = {"review"}
  Hosts = {}
  MaxPushes = 1
  MaxMoves = 0
  MaxKills = 0
SPECIFICATION MCLiveSpec
INVARIANTS SectionsEarned LossIsTold
CHECK_DEADLOCK FALSE
PROPERTY EventuallyReturns
