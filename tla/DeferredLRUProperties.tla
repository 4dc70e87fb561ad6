----------------------- MODULE DeferredLRUProperties -----------------------
(***************************************************************************)
(* What must hold of DeferredLRU while its threads interleave.             *)
(***************************************************************************)
EXTENDS DeferredLRU

(* The nodes from c along the links f, and what stands at their end; a     *)
(* cycle has a node at its end.                                            *)
Walk(f, c) ==
  LET w[i \in 0 .. Cardinality(Nodes)] ==
        IF i = 0 THEN c
        ELSE IF w[i - 1] \in Nodes THEN f[w[i - 1]] ELSE w[i - 1]
  IN  w
NodesFrom(f, c) == {Walk(f, c)[i] : i \in 0 .. Cardinality(Nodes)} \cap Nodes
EndFrom(f, c) == Walk(f, c)[Cardinality(Nodes)]

At(labels) == {t \in Threads : pc[t] \in labels}

Linked == UNION {chain[b] : b \in Buckets}
Marked == {n \in Nodes : recent_next[n] # NULL}
Pool == NodesFrom(empty_next, empty_head)
LruList == NodesFrom(lru_next, lru_next[LruHead])

(* Threads that own a node which is in no list yet, or no longer.          *)
Inserters == At({"add_bucket", "drop", "drop_cas", "link", "link_cas", "link_back", "publish"})
Linkers == At({"link", "link_cas"})
Purgers == At({"unlink", "dispose", "dispose_cas"})
Pullers == At({"reset_count", "pull_node", "pull_skip", "bulk", "bulk_cas"})

NodeOf(T) == {node[t] : t \in T}
Purging == IF Purgers = {} THEN {} ELSE {cursor}
Slice == IF At({"reset_count", "pull_node", "pull_skip"}) = {} THEN {}
         ELSE NodesFrom(recent_next, cursor)
Pulled == IF Pullers = {} THEN {} ELSE NodesFrom(lru_prev, last)

HoldsLru == {"first_purge", "purge", "purge_bucket", "unlink", "dispose", "dispose_cas",
             "pull", "reset_count", "pull_node", "pull_skip", "bulk", "bulk_cas",
             "bulk_back", "pull_done", "second_purge", "purge_done", "unlock"}
HoldsBucket == {"mark", "count"}

---------------------------------------------------------------------------
(* Every variable has its type.                                            *)
TypeOK ==
  /\ key \in [Nodes -> Keys \cup {NULL}]
  /\ chain \in [Buckets -> SUBSET Nodes]
  /\ bucket_lock \in [BucketLocks -> Threads \cup {NULL}]
  /\ lru_next \in [Cells -> Nodes \cup {LruTail, NULL}] /\ lru_next[LruHead] # NULL
  /\ lru_prev \in [Cells -> Nodes \cup {LruHead, TempHead, NULL}] /\ lru_prev[LruTail] # NULL
  /\ recent_next \in [Nodes -> Nodes \cup {Dummy, NULL}]
  /\ recent_head \in Nodes \cup {Dummy} /\ recent_count \in Nat
  /\ empty_next \in [Nodes -> Nodes \cup {NULL}]
  /\ empty_head \in Nodes \cup {NULL} /\ empty_marked \in BOOLEAN
  /\ pull_request \in BOOLEAN /\ purge_request \in BOOLEAN
  /\ lru_lock \in Threads \cup {NULL}
  /\ pc \in [Threads -> PcValues]
  /\ req \in [Threads -> Keys \cup {NULL}]
  /\ node \in [Threads -> Nodes \cup {NULL}]
  /\ cnext \in [Threads -> Nodes \cup {LruTail, NULL}]
  /\ cursor \in Nodes \cup {LruHead, Dummy, NULL}
  /\ resume \in Nodes \cup {LruHead, NULL}
  /\ quota \in Nat /\ second \in BOOLEAN
  /\ last \in Nodes \cup {TempHead, NULL}

(* lru_lock_ admits one consolidation at a time, and a bucket lock one     *)
(* marking thread: the plain loads and stores of purgeOld, pullRecent and  *)
(* the bucket chains rest on it.                                           *)
LockDiscipline ==
  /\ \A t \in Threads : pc[t] \in HoldsLru <=> lru_lock = t
  /\ \A t \in Threads : pc[t] \in HoldsBucket => bucket_lock[LockFor(req[t])] = t

(* No node leaks and none is owned twice: each is in the empty list, in    *)
(* the table, with the one inserter that took it, or with the purging      *)
(* thread; and the empty list has no cycle.  The mark bit of empty_head_   *)
(* is what keeps a node that was taken and given back in between from      *)
(* bringing a stale successor into the list.                               *)
NodeConservation ==
  LET held == NodeOf(Inserters) \ Linked
  IN  /\ EndFrom(empty_next, empty_head) = NULL
      /\ Pool \cup held \cup Linked \cup Purging = Nodes
      /\ Pool \cap (NodeOf(Inserters) \cup Linked \cup Purging) = {}
      /\ Purging \cap (NodeOf(Inserters) \cup Linked) = {}
      /\ \A s, t \in Inserters : node[s] = node[t] => s = t
      /\ \A t \in At({"take"}) : empty_marked /\ empty_head = node[t]

(* Two calls that miss on one key insert it once: a key is in its own      *)
(* bucket and in one node only.                                            *)
UniqueKeys ==
  \A b \in Buckets : \A m, n \in chain[b] :
    /\ BucketOf[key[n]] = b
    /\ key[m] = key[n] => m = n

(* The LRU list and the sublist of a running pull hold exactly the nodes   *)
(* of the table, but for the nodes not yet linked and the one about to be  *)
(* unlinked: a node in the table only could never be evicted, a node in    *)
(* the list only would be evicted for a key nobody can find.               *)
LruMatchesTable ==
  LET leaving == IF At({"unlink"}) = {} THEN {} ELSE {cursor}
  IN  /\ EndFrom(lru_next, lru_next[LruHead]) = LruTail
      /\ LruList \cap Pulled = {}
      /\ LruList \cup Pulled = (Linked \ NodeOf(Linkers)) \cup leaving

(* The back links mirror the forward links, except where a thread that has *)
(* swung the head has not yet stored the back link of the old first node.  *)
BackLinksMirror ==
  \A c \in LruList \cup {LruHead} :
    LET d == lru_next[c]
        pending == {t \in At({"link_back", "bulk_back"}) : cnext[t] = d}
    IN  lru_prev[d] = IF pending = {} THEN c ELSE LruHead

(* The LRU list as a whole: what is on it, and its links both ways.        *)
LruIsSound == LruMatchesTable /\ BackLinksMirror

(* A node in the table is marked exactly while it is on the recent list,   *)
(* in the slice a pull is working through, being pushed by the one thread  *)
(* that found it unmarked, or still being inserted: a mark on no list      *)
(* would keep its node in the cache for ever.                              *)
MarksAreListed ==
  LET listed == NodesFrom(recent_next, recent_head)
      pushing == NodeOf(At({"mark"}))
      entering == NodeOf(Inserters) \cap Linked
  IN  /\ EndFrom(recent_next, recent_head) = Dummy
      /\ Slice # {} => EndFrom(recent_next, cursor) = Dummy
      /\ Linked \cap Marked = listed \cup Slice \cup pushing \cup entering
      /\ listed \cap Slice = {}
      /\ pushing \cap (listed \cup Slice \cup entering) = {}
      /\ entering \cap (listed \cup Slice) = {}
      /\ \A s, t \in At({"mark"}) : node[s] = node[t] => s = t

(* A hit works on a node that stays what it was: while a thread marks the  *)
(* node it found, the node keeps its key and its place in the table, and   *)
(* the purging thread never has it.                                        *)
HitNodeStays ==
  \A t \in At(HoldsBucket) :
    /\ node[t] \in chain[BucketOf[req[t]]]
    /\ key[node[t]] = req[t]
    /\ node[t] \notin Purging

(* The recent list as a whole: its nodes, and those about to come on it.   *)
MarksAreSound == MarksAreListed /\ HitNodeStays

(* When the lock holder takes a node out of the LRU list, no inserter may  *)
(* touch the links involved: the node is not next to the list head, and no *)
(* inserter has yet to store a back link into it or into its successor.    *)
RemovalPrivate ==
  \/ At({"unlink"}) # {}
  \/ At({"pull_node"}) # {} /\ cursor # Dummy /\ lru_prev[cursor] # LruHead
  => /\ lru_prev[cursor] \in Nodes /\ lru_next[lru_prev[cursor]] = cursor
     /\ lru_prev[lru_next[cursor]] = cursor
     /\ \A t \in At({"link_back", "bulk_back"}) : cnext[t] \notin {cursor, lru_next[cursor]}

---------------------------------------------------------------------------
(* An eviction takes an unmarked node, one that no hit has reached since   *)
(* the last pull; and it leaves the node next to the list head alone, so   *)
(* the table never goes from full to empty.                                *)
EvictionSpares ==
  [][\A n \in Linked \ Linked' :
       n \notin Marked /\ n # lru_next[LruHead] /\ n \notin Pulled]_vars

(* Nothing but a pull unmarks a node that is on the recent list.  A new    *)
(* node, found before insert has linked and published it, would lose its   *)
(* mark to that last store; the dummy link keeps it off the list.          *)
MarkLastsUntilPull ==
  [][NodesFrom(recent_next, recent_head) \subseteq Marked']_vars

---------------------------------------------------------------------------
(* A hit returns, whatever the other threads do: it never waits for        *)
(* lru_lock_, and its own consolidation ends.                              *)
HitReturns ==
  \A t \in Threads :
    (node[t] # NULL /\ pc[t] \in {"mark", "count", "threshold"}) ~> pc[t] = "idle"

(* Whoever takes lru_lock_ gives it back.                                  *)
ConsolidationEnds == \A t \in Threads : lru_lock = t ~> lru_lock # t

(* What deferred_lru.h says of insert (351-355: the caller may spin if     *)
(* other thread is currently performing the purge) and of the reset of     *)
(* recent_count_ (613: the race is harmless): a call that spins for ever   *)
(* does so because others hold lru_lock_ again and again.                  *)
SpinsOnlyForAnotherThread ==
  \A t \in Threads :
    <>[](pc[t] # "idle") => []<>(\E u \in Threads \ {t} : lru_lock = u)
=============================================================================
