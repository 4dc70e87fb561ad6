SPECIFICATION Spec
CONSTANTS
  t1 = t1  t2 = t2
  n1 = n1  n2 = n2  n3 = n3
  b1 = b1  b2 = b2  l1 = l1
  NULL = NULL
  Threads = {t1, t2}
  Nodes = {n1, n2, n3}
  Keys = {1, 2, 3, 4}
  Buckets = {b1, b2}
  BucketOf <- MCBucketOf
  Locks = {l1}
  LockOf <- SharedLock
SYMMETRY Symmetry
INVARIANTS
  ChainsAreSound
PROPERTIES
  AnswersAreExact
