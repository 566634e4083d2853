CONSTANTS
  Clients = {c1, c2}
  Processes = {s1, s2}
  Setups <- MCSetups
  NewsSec = 1
  ScoreSec = 1
  MaxShutdowns = 1
  MaxFetch = 1
  MaxNow = 5
SPECIFICATION Spec
INVARIANTS AgeIsBounded OutagesAreForgotten OneEraOneBackend
SYMMETRY MCSymmetry
CHECK_DEADLOCK FALSE
