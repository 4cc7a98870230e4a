CONSTANTS
  None = None
  Never <- FarPast
  Tolerance = 1
  MaxTs = 33554431
  Cases <- Sessions
  Served <- LiveApp
  Key <- StreamKey
  Cuts = {5, 100}
  MaxFrames = 3
  MaxFlight = 2
SPECIFICATION Spec
INVARIANTS PacketsSurvive StreamDescribed RecordingPlays SessionAsAsked EndsFinished
