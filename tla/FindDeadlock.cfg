CONSTANTS
  Apps = {"ui"}
  MayCall <- AllCalls
  MaxSpawn = 3
  ConnectMayFail = TRUE
  NoWorker = NoWorker
SPECIFICATION FairSpec
PROPERTIES StopReturns
CHECK_DEADLOCK FALSE
