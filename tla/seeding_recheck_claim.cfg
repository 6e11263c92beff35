CONSTANTS
  Items = {i1}
  Workers = {w1}
  QB = TRUE
  ClientCheck = TRUE
  MaxFaults = 0
  MaxMeddling = 1
  MaxCalls = 0
SPECIFICATION Spec
INVARIANTS RecheckProven
CHECK_DEADLOCK FALSE
