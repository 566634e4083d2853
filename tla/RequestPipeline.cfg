CONSTANTS
  Requests = {r1, r2}
  RateUnit = 1
  MinRate = 1
  HardCap = 2
  MaxRetries = 3
  FailMax = 2
  NetworkRetried = TRUE
  SaveCanFail = TRUE
SPECIFICATION FairSpec
INVARIANTS NoSendWithoutToken SlotsOnlyWhileSending VerdictIsEarned ClosedEndsRetries
PROPERTIES EveryRequestEnds
CHECK_DEADLOCK FALSE
