CONSTANTS
  Items = {i1}
  Workers = {w1, w2}
  QB = FALSE
  ClientCheck = TRUE
  MaxFaults = 1
  MaxMeddling = 0
  MaxCalls = 1
SPECIFICATION Spec
SYMMETRY Symmetry
INVARIANTS TypeOK AtMostOnce
PROPERTIES CompletedStays KeepsPromise
CHECK_DEADLOCK FALSE
