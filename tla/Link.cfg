CONSTANTS
  None = None
  MaxPending = 3
  MaxUnanswered = 3
  Budget = 4
  MaxMedia = 3
SPECIFICATION FairSpec
INVARIANTS LivePublishing PublishEndsOnce FailsForCause
PROPERTIES VanishedDetected NobodyWaits
CHECK_DEADLOCK FALSE
