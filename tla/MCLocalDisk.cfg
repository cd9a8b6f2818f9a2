SPECIFICATION Spec
CONSTANTS
  App = {a1}
  Reporter = reporter
  None = none
  Connection = {c1}
  Sample = {s1}
  Bitmap = {b1}
  Setting <- MCCallerMode
  RefModulus = 4
  MaxInstances = 1
INVARIANT LocalDiskModeStaysLocal
CHECK_DEADLOCK FALSE
