SPECIFICATION MCSpec
CONSTANTS
  p1 = p1
  p2 = p2
  Order <- TwoPRs
  Windowed = {TRUE}
  MaxPasses = 3
  MaxAttempts = 3
  MaxKills = 1
  MaxScores = 1
  d1 = d1
  d2 = d2
  t1 = t1
  t2 = t2
  h1 = h1
  h2 = h2
  Desk = {d1, d2}
  Kind = {"wave"}
  InitialRuns = 1
  ExtensionRuns = 1
  Treatment = {t1, t2}
  Review = {h1, h2}
  MaxClock = 1
  MaxManifests = 1
  MaxCandidates = 3
  MaxReports = 3
  MaxReceipts = 2
  Url = {1, 2, 3}
  PerUrl = 1
  SliceSize = 1
  Reviewed = {p1, p2}
  Paths <- McPaths
  Tracked = {"skill", "ledger"}
  Starts <- McStarts
  ControllerOwned = {"ledger"}
  Children <- McChildren
  MaxReviews = 2
  MaxGitFaults = 1
  Scope = {p1, p2}
  CLI = {1, 2}
  Hours = {2}
  MaxMinute = 3
  MaxWindows = 2
  MaxPlanned = 2
  MaxRuns = 4
  MaxTries = 4
  MaxChanges = 1
INVARIANTS
  SpendIsAccounted
  ScoresTellTruth
  GateKept
  CreditIsOwn
  ArmsAreComparable
PROPERTIES
  FinishedStaysFinished
  PassEnds
CHECK_DEADLOCK FALSE
