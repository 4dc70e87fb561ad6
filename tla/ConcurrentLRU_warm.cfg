SPECIFICATION FairWarmSpec
CONSTANTS
  t1 = t1  t2 = t2  t3 = t3
  n1 = n1  n2 = n2  n3 = n3  n4 = n4
  k1 = k1  k2 = k2  k3 = k3  k4 = k4  k5 = k5
  b1 = b1  b2 = b2  b3 = b3
  NULL = NULL  LruHead = LruHead  LruTail = LruTail  PoolHead = PoolHead  PoolTail = PoolTail
  Threads = {t1, t2, t3}
  Nodes = {n1, n2, n3, n4}
  NodeAt <- MCNodeAt
  Keys = {k1, k2, k3, k4, k5}
  Buckets = {b1, b2, b3}
  BucketOf <- MCBucketOf
  Starts <- All
INVARIANTS
  LockDiscipline
  StructureIsSound
  NoBlockingCycle
PROPERTIES
  NodesChangeUnderLock
  ImplementsQueue
  CallsApartReturn
