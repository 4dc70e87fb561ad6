--------------------------- MODULE MCBucketChain ---------------------------
(***************************************************************************)
(* An instance of BucketChain for TLC: four keys, three of them in one       *)
(* bucket, and two buckets under one lock.                                 *)
(***************************************************************************)
EXTENDS BucketChain, TLC

CONSTANTS t1, t2, n1, n2, n3, b1, b2, l1

MCBucketOf == [k \in Keys |-> IF k = 4 THEN b2 ELSE b1]
SharedLock == b1 :> l1 @@ b2 :> l1

Symmetry == Permutations(Threads) \cup Permutations(Nodes)
=============================================================================
