SPECIFICATION FairSpec
CONSTANTS
  App = {a1, a2}
  Reporter = reporter
  None = none
  Connection = {c1}
  Sample = {s1}
  Bitmap = {b1, b2}
  Setting <- MCSetting
  RefModulus = 4
  MaxInstances = 2
INVARIANTS
  TypeOK
  RefCountsHolders
  DiskGetsEverything
  ThreadHasInstance
  CrashNeedsExecutor
  DropsOnlyAfterFlush
  NoDeadlock
PROPERTIES
  CallsReturn
CHECK_DEADLOCK FALSE
