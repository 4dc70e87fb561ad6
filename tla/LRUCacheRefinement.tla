------------------------- MODULE LRUCacheRefinement -------------------------
(***************************************************************************)
(* LRUCache implements LRUSpec: the LRU list, read from its head, is the   *)
(* queue of keys.                                                          *)
(***************************************************************************)
EXTENDS LRUCache

Queue == INSTANCE LRUSpec WITH
  Capacity <- MaxElements,
  order <- [i \in 1 .. cache.count |-> cache.key[LruOrder[i - 1]]]

(* Every behaviour of LRUCache is one of LRUSpec: a hit makes its key the  *)
(* most recent one, and an insert into a full cache evicts exactly the     *)
(* least recently used entry.                                              *)
ImplementsLRU == Queue!Spec
=============================================================================
