SPECIFICATION FairStartSpec
CONSTANTS
  t1 = t1  t2 = t2  t3 = t3
  n1 = n1  n2 = n2  n3 = n3  n4 = n4
  k1 = k1  k2 = k2  k3 = k3  k4 = k4  k5 = k5  k6 = k6
  b1 = b1  b2 = b2
  NULL = NULL  LruHead = LruHead  LruTail = LruTail  TempHead = TempHead  Dummy = Dummy
  Threads = {t1, t2}
  Nodes = {n1, n2, n3, n4}
  NodeAt <- MCNodeAt
  Keys = {k1, k2, k3, k4, k5, k6}
  Buckets = {b1, b2}
  BucketOf <- MCBucketOf
  LockOf <- MCLockOf
  PullThreshold = 3
  PurgeThreshold = 1
  Warm = 4
  Workloads <- HitsThenMisses
PROPERTIES
  HitReturns
  ConsolidationEnds
  AloneReturns
