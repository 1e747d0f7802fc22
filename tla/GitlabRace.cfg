CONSTANTS
  r1 = r1
  r2 = r2
  k1 = k1
  k2 = k2
  k3 = k3
  s1 = s1
  Runner = {r1, r2}
  Key = {k1, k2, k3}
  Site = {s1}
  Plans <- TwoPlans
  Undeliverable = {k3}
  Tight = FALSE
  ReadsFail = TRUE
  MaxFaults = 1
SPECIFICATION LiveSpec
INVARIANTS SummaryFirst
PROPERTIES RerunsConverge
