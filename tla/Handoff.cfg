SPECIFICATION MCSpec
CONSTANTS
  MaxRuns = 2
  Inputs <- AnyInput
  f1 = f1
  f2 = f2
  Files <- TwoFiles
  MaxAttempts = 2
  Timeout = 2
  Grace = 1
  Slack = 1
INVARIANTS HandedOverIsProven ArtifactsAreThisRuns
PROPERTIES TimeoutMeansMissing Patience EventuallyPersisted ChainEnds
CHECK_DEADLOCK FALSE
