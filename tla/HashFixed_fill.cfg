SPECIFICATION FairSpec
CONSTANTS
  t1 = t1  t2 = t2  t3 = t3
  k1 = k1  k2 = k2  k3 = k3  k4 = k4
  b1 = b1  b2 = b2
  NULL = NULL
  Threads = {t1, t2, t3}
  Keys = {k1, k2, k4}
  Buckets = {b1, b2}
  BucketOf <- MCBucketOf
  MaxElements = 3
INVARIANTS
  CountIsExact
  SlotsAreOwned
  FoundElementKept
  ChainsAreComplete
PROPERTIES
  ChainsOnlyGrow
  CallReturns
