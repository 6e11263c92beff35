CONSTANTS
  Items = {i1}
  Workers = {w1}
  QB = TRUE
  ClientCheck = TRUE
  MaxFaults = 2
  MaxMeddling = 2
  MaxCalls = 2
SPECIFICATION FairSpec
INVARIANTS RecheckReallyRan StartAfterVerify
CHECK_DEADLOCK FALSE
PROPERTIES Settles
