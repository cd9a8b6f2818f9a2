SPECIFICATION Spec
CONSTANTS
  Sizes = {1, 2, 4}
  BytesPerMessage = 3
  MaxElements = 2
INVARIANTS
  TypeOK
  ContentKept
  LogEntriesFirst
  NoNeedlessMessage
CHECK_DEADLOCK FALSE
