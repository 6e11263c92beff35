CONSTANTS
  Limit = 1
  MaxWrites = 0
  MaxFaults = 0
SPECIFICATION Spec
INVARIANTS EveryNameFound
CHECK_DEADLOCK FALSE
