CONSTANTS
  One = 6
  Capacity = 12
  MinRate = 2
  HardCap = 4
  MaxTime = 5
  MaxCalls = 5
  MaxRuns = 1
SPECIFICATION Spec
INVARIANTS TypeOK BurstBound BookedInOrder SleepersAreSpread BacklogIsBooked
