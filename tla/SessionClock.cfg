CONSTANTS
  Capacity = 3
  None = None
  Never <- FarPast
  Tolerance = 1
  Step = 0
  CutThreshold = None
  Outputs = {"o1"}
  Configs = {"c1"}
  ApiCalls = {"reset", "restart"}
  MaxPush = 3
  MaxConn = 2
  MaxFail = 1
  MaxAttempts = 1
  CanStall = FALSE
  Shapes <- ClockShapes
SPECIFICATION Spec
INVARIANTS MediaMonotone OutputsMirrorWire
CHECK_DEADLOCK FALSE
