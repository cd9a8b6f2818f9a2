SPECIFICATION Spec
SYMMETRY MCSymmetry
CONSTANTS
  Writer = {w1, w2}
  Reader = {r1, r2}
  Call = {c1, c2}
  Metric <- MCMetric
  MaxMeasurements = 2
  Collected <- MCCollected
  BwEnabled = TRUE
  GenModulus = 4
  MaxWindows = 2
INVARIANTS
  TypeOK
  RaceFree
  CallsWhole
PROPERTIES
  ImplementsIntervalReports
