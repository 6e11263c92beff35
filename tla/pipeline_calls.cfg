CONSTANTS
  i1 = i1
  Items = {i1}
  Excluded = {i1}
  NeedsAux = {1}
  Page = 1
  Batch = 1
  MaxRetries = 1
  MaxFaults = 1
  MaxCalls = 2
SPECIFICATION Spec
INVARIANTS PlansAreProven
PROPERTIES EffectPinsCandidate DecisionKept
