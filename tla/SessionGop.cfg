CONSTANTS
  Capacity = 3
  None = None
  Never <- FarPast
  Tolerance = 1
  Step = 1
  CutThreshold = 3
  Outputs = {}
  Configs = {"c1"}
  ApiCalls = {"resync"}
  MaxPush = 4
  MaxConn = 2
  MaxFail = 1
  MaxAttempts = 2
  CanStall = TRUE
  Shapes <- GopShapes
SPECIFICATION Spec
INVARIANTS BoundedMemory Accounting DecodeOrder SequenceBeforeMedia ResumesOnKeyframe TransportMatchesState BackoffBudget
PROPERTIES ImplementsLifecycle
CHECK_DEADLOCK FALSE
