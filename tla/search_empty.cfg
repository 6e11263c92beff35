CONSTANTS
  Items = {1}
  Sites = {"a"}
  Queries = 1
  MaxPages = 1
  SiteConcurrency = 1
  RiskLimit = 2
  MaxRetries = 1
  Cooldown = 2
  MaxClock = 1
  MaxFaults = 1
  MaxEdits = 0
SPECIFICATION Spec
INVARIANTS EmptyIsAskedAgain
CHECK_DEADLOCK FALSE
