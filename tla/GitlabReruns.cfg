CONSTANTS
  r1 = r1
  r2 = r2
  k1 = k1
  k2 = k2
  k3 = k3
  s1 = s1
  Runner = {r1}
  Key = {k1, k2, k3}
  Site = {s1}
  Plans <- RewordedPlans
  Undeliverable = {}
  Tight = TRUE
  ReadsFail = FALSE
  MaxFaults = 4
SPECIFICATION Spec
INVARIANTS MarkersAreHonest ExitTellsTruth
PROPERTIES NotesPromise RerunsOnlyAdd
