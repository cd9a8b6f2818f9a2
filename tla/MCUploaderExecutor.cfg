SPECIFICATION FairSpec
CONSTANTS
  MaxSendAttempts = 2
  MaxCreateAttempts = Unlimited
  Unlimited = Unlimited
  MaxBatches = 3
  MaxChunks = 2
INVARIANTS
  TypeOK
  FrontHole
  UploaderExclusive
  IndexIdentifiesContent
  AckedInOrder
  RefusedOnlyWhenClosing
PROPERTIES
  ImplementsUploadQueue
  ShutdownHastens
  ShutdownCompletes
  UploadsFinish
CHECK_DEADLOCK FALSE
