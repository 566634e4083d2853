CONSTANTS
  a = a
  b = b
  Service = "fred"
  Limiters = {a, b}
  Setups <- MCSetups
  Documented <- VendorTable
  Namespace = "fred"
  Floor = 2
  DefaultRate = 4
  Increase = 2
  Streak = 3
  NoRow = NoRow
SPECIFICATION FairSpec
INVARIANTS TypeOK RateInBand RowInBand RowLagsOneChange
PROPERTIES RowRisesOnSuccess ProbeNeedsStreak Recovers
