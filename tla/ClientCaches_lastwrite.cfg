CONSTANTS
  Clients = {c1, c2}
  Processes = {s1, s2}
  Setups <- SharedFile
  NewsSec = 1
  ScoreSec = 1
  MaxShutdowns = 0
  MaxFetch = 1
  MaxNow = 2
SPECIFICATION Spec
PROPERTY LastWriteStays
CHECK_DEADLOCK FALSE
