----------------------------- MODULE MCLRUCache -----------------------------
(***************************************************************************)
(* Instances of LRUCache for TLC: four elements and four buckets, the      *)
(* fewest allocateMemory accepts (with a load factor of one), two of them  *)
(* in use.                                                                 *)
(***************************************************************************)
EXTENDS LRUCacheRefinement, TLC

CONSTANTS t1, t2, k1, k2, k3, k4, k5

MCBucketOf == k1 :> 0 @@ k2 :> 0 @@ k3 :> 0 @@ k4 :> 3 @@ k5 :> 3
KeySymmetry ==
  Permutations(Threads) \cup Permutations({k1, k2, k3}) \cup Permutations({k4, k5})
=============================================================================
