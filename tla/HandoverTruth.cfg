SPECIFICATION HSpec
CONSTANTS
  MaxRuns = 2
  Inputs <- ReturnInputs
PROPERTY HandoverTellsTruth
CHECK_DEADLOCK FALSE
