CONSTANTS
  Apps = {"ui", "io"}
  MayCall <- ControlAndStop
  MaxSpawn = 3
  ConnectMayFail = TRUE
  NoWorker = NoWorker
SPECIFICATION Spec
INVARIANTS OneWorker StateTruthful
PROPERTIES LifecycleOrRevived
CHECK_DEADLOCK FALSE
