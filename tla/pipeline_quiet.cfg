CONSTANTS
  i1 = i1
  i2 = i2
  Items = {i1, i2}
  Excluded = {i2}
  NeedsAux = {}
  Page = 1
  Batch = 4
  MaxRetries = 1
  MaxFaults = 0
  MaxCalls = 0
SPECIFICATION FairSpec
INVARIANTS TerminalTruthful
PROPERTIES Settles ResultAnnounced
