CONSTANTS
  Capacity = 3
  None = None
  Never <- FarPast
  Tolerance = 1
  Step = 1
  CutThreshold = 3
  Outputs = {}
  Configs = {"c1"}
  ApiCalls = {"configure"}
  MaxPush = 2
  MaxConn = 2
  MaxFail = 1
  MaxAttempts = 2
  CanStall = FALSE
  Shapes <- BareShapes
SPECIFICATION FairSpec
INVARIANTS TickSendsAfterHeaders BrokenTransportDropped
PROPERTIES ReconnectDecides BufferDrains
CHECK_DEADLOCK FALSE
