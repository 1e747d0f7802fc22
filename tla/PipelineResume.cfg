CONSTANTS
  f1 = f1
  f2 = f2
  a1 = a1
  a2 = a2
  Finding = {f1}
  Agent = {a1}
  Raises <- MCOneReviewer
  Audit <- NoFindings
  Overlap <- NoFindings
  ChallengeCap = 1
  DeliveryCap = 1
  MaxRuns = 2
  Nil = Nil
  n1 = n1
  n2 = n2
  Settings <- McSettings
  Knobs <- McKnobs
  Delivery <- McDelivery
  Posting = {"pr_comments"}
  BranchHead = 2
  Topics = {"review", "prepare"}
  Hosts = {n1, n2}
  MaxPushes = 1
  MaxMoves = 1
  MaxKills = 1
SPECIFICATION MCSpec
INVARIANTS VettingSurvivesResume ResumePoint NoFalseClean ContextTellsTruth
CHECK_DEADLOCK FALSE
