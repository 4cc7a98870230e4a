CONSTANTS
  None = None
  Video <- VideoParams
  Audio <- AudioParams
  Second = 2
  Target = 1
  WindowSize = 2
  Tolerance = 1
  VideoFrame = 1
  FrameSamples = 2
  Shapes <- MixedShapes
  Steps <- Clocks
  MaxPackets = 5
  MaxFail = 1
SPECIFICATION Spec
INVARIANTS PlaylistServable TracksAreInInit SegmentsCarrySamples TimelineFollowsClock
PROPERTIES PlaylistMovesForward
CHECK_DEADLOCK FALSE
