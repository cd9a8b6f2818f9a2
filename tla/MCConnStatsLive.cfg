SPECIFICATION FairSpec
CONSTANTS
  Writer = {w1, w2}
  Reader = {r1}
  Call = {c1, c2}
  Metric <- MCSendMetric
  MaxMeasurements = 1
  Collected <- MCSendCollected
  BwEnabled = TRUE
  GenModulus = 4
  MaxWindows = 1
PROPERTIES
  EveryCallReported
