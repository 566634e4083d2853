CONSTANTS
  Calls = {c1, c2}
  RateUnit = 1
  MinRate = 1
  HardCap = 2
  MaxRetries = 2
  Workers = 1
  MaxAsks = 2
  SaveCanFail = TRUE
  Plans <- MCPlans
SPECIFICATION FairSpec
INVARIANTS ThreadsAccountedFor TokensPayRetries
PROPERTIES EndIsFinal RouteIsImplemented EveryCallEnds
CHECK_DEADLOCK FALSE
