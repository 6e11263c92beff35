CONSTANTS
  i1 = i1
  i2 = i2
  Items = {i1, i2}
  Excluded = {}
  NeedsAux = {2}
  Page = 2
  Batch = 4
  MaxRetries = 0
  MaxFaults = 0
  MaxCalls = 0
SPECIFICATION FairSpec
PROPERTIES WaitingIsServed
