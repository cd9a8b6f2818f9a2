SPECIFICATION Spec
CONSTANTS
  nic = nic
  Nic = {nic}
  BucketTime = 1
  BatchTime = 2
  OutputInterval = 6
  Connection = {c1}
  NicOf <- MCNicOf
  BurstBuckets = 2
  JitterBuckets = 2
  MaxLatency = 1
  MaxBytes = 8
  Size = 12
  Latency = {0, 2}
  MaxCalls = 2
  FirstTime = 2
  LastTime = 8
  MaxLate = 1
INVARIANTS
  TypeOK
  SendBytesConserved
  NicBytesConserved
  MsecNeverInvents
CHECK_DEADLOCK FALSE
