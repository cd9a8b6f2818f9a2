SPECIFICATION Spec
CONSTANTS
  MaxSendAttempts = 2
  MaxCreateAttempts = Unlimited
  Unlimited = Unlimited
  MaxBatches = 3
  MaxChunks = 2
INVARIANTS
  UploadIndexFilled
CHECK_DEADLOCK FALSE
