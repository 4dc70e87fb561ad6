SPECIFICATION Spec
CONSTANTS
  t1 = t1  t2 = t2
  k1 = k1  k2 = k2  k3 = k3  k4 = k4  k5 = k5
  NULL = NULL  Garbage = Garbage
  Threads = {t1}
  Keys = {k1, k2, k3, k4, k5}
  BucketCount = 4
  BucketOf <- MCBucketOf
  MaxElements = 4
SYMMETRY KeySymmetry
INVARIANTS
  CoherentAfterEvict
