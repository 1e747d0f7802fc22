CONSTANTS
  i1 = i1
  i2 = i2
  i3 = i3
  Inputs <- SmallInputs
  NoId = NoId
  Envelope = 1
  Copy = 4
  Hard = 6
  SliceSize = 2
  Threshold = 2
SPECIFICATION Spec
INVARIANTS PlannerInvariant ProofIsEarned Disclosure
PROPERTIES Promise EveryFindingDecided
CHECK_DEADLOCK FALSE
