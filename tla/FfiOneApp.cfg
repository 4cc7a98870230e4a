CONSTANTS
  Apps = {"ui"}
  MayCall <- AllCalls
  MaxSpawn = 3
  ConnectMayFail = FALSE
  NoWorker = NoWorker
SPECIFICATION FairSpec
PROPERTIES KeepsLifecycle StopReturns RearmHeeded
CHECK_DEADLOCK FALSE
