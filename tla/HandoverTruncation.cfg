SPECIFICATION HSpec
CONSTANTS
  MaxRuns = 1
  Inputs <- ReturnInputs
PROPERTY ExitTwoTruncatedNothing
CHECK_DEADLOCK FALSE
