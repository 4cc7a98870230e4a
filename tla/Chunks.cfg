CONSTANTS
  None = None
  Cids = {"c3", "c4"}
  Shapes <- MixedShapes
  Formats = {0, 1, 2, 3}
  DefaultChunk = 2
  MaxChunk = 3
  TsMod = 2
  TsLimit = 1
  Resumes = FALSE
  MaxMessages = 3
  MaxTimeouts = 1
SPECIFICATION Spec
INVARIANTS InStep DeliveredWhole
PROPERTIES AckCurrent
CHECK_DEADLOCK FALSE
