SPECIFICATION Spec
CONSTANTS
  Sizes = {1, 2, 4}
  BytesPerMessage = 3
  MaxElements = 2
INVARIANTS
  ChunksFit
CHECK_DEADLOCK FALSE
