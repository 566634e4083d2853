CONSTANTS
  Calls = {c1, c2}
  Buckets = {"requests", "tokens"}
  Capacity <- BucketSizes
  Rate <- Flow
  OneRequest = 2
  Estimates = {1, 4, 5}
  Usages = {1, 5}
  MaxAttempts = 2
  Window = 2
SPECIFICATION FairSpec
INVARIANT TypeOK
PROPERTIES QuotaKept WaitersHoldNothing FitsIsServed
