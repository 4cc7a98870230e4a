CONSTANTS
  MaxSinks = 3
  MaxWrites = 3
SPECIFICATION Spec
INVARIANTS LiveSinksIdentical
PROPERTIES RelayContained
CHECK_DEADLOCK FALSE
