---------------------------- MODULE MCHashFixed ----------------------------
(***************************************************************************)
(* Instances of HashFixed for TLC.                                         *)
(***************************************************************************)
EXTENDS HashFixed

CONSTANTS t1, t2, t3, k1, k2, k3, k4, b1, b2

MCBucketOf == [k \in Keys |-> IF k = k4 THEN b2 ELSE b1]
=============================================================================
