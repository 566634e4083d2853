CONSTANTS
  Clients = {c1}
  Processes = {s1}
  Setups <- MCSetups
  NewsSec = 1
  ScoreSec = 1
  MaxShutdowns = 0
  MaxFetch = 1
  MaxNow = 1
SPECIFICATION Spec
INVARIANT ClosedClientLeavesNoCache
CHECK_DEADLOCK FALSE
