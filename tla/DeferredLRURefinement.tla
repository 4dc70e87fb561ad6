----------------------- MODULE DeferredLRURefinement -----------------------
(***************************************************************************)
(* DeferredLRU implements CacheSpec.  A call takes effect in the critical  *)
(* section of its bucket: find's, or addNodeToBucket's.  An eviction takes *)
(* effect in removeNodeFromBucket, before the node leaves the LRU list.    *)
(***************************************************************************)
EXTENDS DeferredLRUProperties

StageOf(t) ==
  CASE pc[t] = "idle" -> "idle"
    [] pc[t] \in {"drop", "drop_cas"} -> "rejected"
    [] pc[t] \in {"link", "link_cas", "link_back", "publish"} -> "stored"
    [] pc[t] \in {"take", "add_bucket"} \/ (pc[t] # "idle" /\ node[t] = NULL) -> "miss"
    [] OTHER -> "hit"

Promise == INSTANCE CacheSpec WITH
  Capacity <- Cardinality(Nodes),
  cached <- {key[n] : n \in Linked},
  pinned <- {key[n] : n \in Linked \cap Marked},
  stage  <- [t \in Threads |-> StageOf(t)],
  asked  <- req

(* Every behaviour of DeferredLRU is, seen from its callers, one of        *)
(* CacheSpec: a hit is on a key that is there and pins it until a pull, a  *)
(* key is stored once, the capacity is kept, and only unpinned keys go.    *)
ImplementsCache == Promise!Spec
=============================================================================
