CONSTANTS
  Items = {i1, i2}
  Workers = {w1, w2}
  QB = TRUE
  ClientCheck = FALSE
  MaxFaults = 1
  MaxMeddling = 0
  MaxCalls = 1
SPECIFICATION Spec
SYMMETRY Symmetry
INVARIANTS AddIsOurs ExecutionTruthful
CHECK_DEADLOCK FALSE
