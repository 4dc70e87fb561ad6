--------------------------- MODULE ConcurrentLRU ---------------------------
(***************************************************************************)
(* ConcurrentLRU (src/src/containers/concurrent_lru.h): every node has a   *)
(* lock, and the threads work on the LRU list hand over hand.  A node that *)
(* is in no list is in the hands of the thread that holds its lock.        *)
(*                                                                         *)
(* Grain: an action takes at most one lock, or reads one link without its  *)
(* lock; what a thread writes under its locks, and the releases after it,  *)
(* are one action.  A chain is touched only under its bucket lock, so it   *)
(* is the sequence of its nodes, the last inserted first.  A node's value  *)
(* is written with its key.  Nodes never go back to the pool: htInsert     *)
(* always succeeds.                                                        *)
(***************************************************************************)
EXTENDS Naturals, Sequences, FiniteSets, SequencesExt

CONSTANTS
  Threads,         \* callers of consumeCachedOrCompute
  Nodes,           \* the elements of data_
  NodeAt,          \* data_ itself: NodeAt[i] is the element at index i - 1
  Keys,
  Buckets,         \* the indices of ht_
  BucketOf,        \* whichBucket
  NULL,            \* nullptr; also "no key" and "no owner"
  LruHead, LruTail, PoolHead, PoolTail

Sentinels == {LruHead, LruTail, PoolHead, PoolTail}
Cells == Nodes \cup Sentinels

ASSUME ConstantsAssumption ==
  /\ IsFiniteSet(Nodes) /\ Nodes # {}
  /\ NodeAt \in [1 .. Cardinality(Nodes) -> Nodes]
  /\ \A n \in Nodes : \E i \in DOMAIN NodeAt : NodeAt[i] = n
  /\ \A i, j \in DOMAIN NodeAt : NodeAt[i] = NodeAt[j] => i = j
  /\ Cardinality(Sentinels) = 4
  /\ Nodes \cap Sentinels = {}
  /\ NULL \notin Cells \cup Threads \cup Keys
  /\ BucketOf \in [Keys -> Buckets]

VARIABLES
  key,                  \* of each node
  lru_flag, ht_flag,    \* the two flags beside each node's lock bit
  lru_next, lru_prev,
  lock,                 \* owner of each cell's lock, or NULL
  chain,                \* the nodes of each bucket
  bucket_lock,          \* ht_locks_
  (* locals of each thread *)
  pc,
  req,                  \* the key it asks for
  hit,                  \* the call has found its key
  node,                 \* the node in its hands, or on the way there
  prev                  \* the cell it locks, or has locked, before node

links  == <<lru_next, lru_prev>>
table  == <<key, lru_flag, ht_flag, chain, bucket_lock>>
locals == <<req, hit, node, prev>>
vars   == <<key, lru_flag, ht_flag, lru_next, lru_prev, lock, chain, bucket_lock,
            pc, req, hit, node, prev>>

PcValues ==
  {"idle", "find_lock",
   "remove_prev", "remove_wait", "remove_relock", "remove_again", "remove_next", "remove_unlink",
   "append_read", "append_prev", "append_node", "append_link",
   "evict_prev", "evict_node", "evict_next", "evict_unlink",
   "ht_remove", "ht_unlink", "fill", "ht_insert"}

Goto(t, label) == pc' = [pc EXCEPT ![t] = label]
Step(t, from, to) == pc[t] = from /\ Goto(t, to)
At(t, label) == pc[t] = label

(* allocateMemory: the pool holds the nodes in the order of the array, the *)
(* LRU list nothing.                                                       *)
Init ==
  LET order == <<PoolHead>> \o NodeAt \o <<PoolTail>>
      place(c) == CHOOSE i \in DOMAIN order : order[i] = c
  IN  /\ key = [n \in Nodes |-> NULL]
      /\ lru_flag = [n \in Nodes |-> FALSE] /\ ht_flag = [n \in Nodes |-> FALSE]
      /\ lru_next = [c \in Cells |-> IF c = LruHead THEN LruTail
                                     ELSE IF c \in {LruTail, PoolTail} THEN NULL
                                     ELSE order[place(c) + 1]]
      /\ lru_prev = [c \in Cells |-> IF c = LruTail THEN LruHead
                                     ELSE IF c \in {LruHead, PoolHead} THEN NULL
                                     ELSE order[place(c) - 1]]
      /\ lock = [c \in Cells |-> NULL]
      /\ chain = [b \in Buckets |-> <<>>]
      /\ bucket_lock = [b \in Buckets |-> NULL]
      /\ pc = [t \in Threads |-> "idle"]
      /\ req = [t \in Threads |-> NULL] /\ hit = [t \in Threads |-> FALSE]
      /\ node = [t \in Threads |-> NULL] /\ prev = [t \in Threads |-> NULL]

---------------------------------------------------------------------------
(* find                                                                    *)

Free(c) == lock[c] = NULL
Acquire(t, c) == Free(c) /\ lock' = [lock EXCEPT ![c] = t]
Release(cs) == lock' = [c \in Cells |-> IF c \in cs THEN NULL ELSE lock[c]]

(* The node htFind returns: the last one inserted with the key.            *)
Finds(k, n) ==
  LET c == chain[BucketOf[k]]
  IN  \E i \in DOMAIN c : /\ c[i] = n /\ key[n] = k
                          /\ \A j \in 1 .. i - 1 : key[c[j]] # k

(* The key is absent: the value is produced and insert asks the pool.      *)
FindMiss(t, k) ==
  /\ Step(t, "idle", "evict_prev")
  /\ bucket_lock[BucketOf[k]] = NULL
  /\ \A n \in Nodes : ~Finds(k, n)
  /\ req' = [req EXCEPT ![t] = k]
  /\ prev' = [prev EXCEPT ![t] = PoolHead]
  /\ UNCHANGED <<table, links, lock, hit, node>>

(* htFind has unlocked the bucket; the node is not locked yet.             *)
FindNode(t, k) ==
  /\ Step(t, "idle", "find_lock")
  /\ bucket_lock[BucketOf[k]] = NULL
  /\ \E n \in Nodes : Finds(k, n) /\ node' = [node EXCEPT ![t] = n]
  /\ req' = [req EXCEPT ![t] = k]
  /\ UNCHANGED <<table, links, lock, hit, prev>>

DataIsValidForKey(n, k) == lru_flag[n] /\ key[n] = k

FindHit(t) ==
  /\ Step(t, "find_lock", "remove_prev")
  /\ Acquire(t, node[t])
  /\ DataIsValidForKey(node[t], req[t])
  /\ hit' = [hit EXCEPT ![t] = TRUE]
  /\ UNCHANGED <<table, links, req, node, prev>>

(* The node holds another key by now: locked, looked at and unlocked.      *)
FindStale(t) ==
  /\ Step(t, "find_lock", "evict_prev")
  /\ Free(node[t]) /\ ~DataIsValidForKey(node[t], req[t])
  /\ node' = [node EXCEPT ![t] = NULL]
  /\ prev' = [prev EXCEPT ![t] = PoolHead]
  /\ UNCHANGED <<table, links, lock, req, hit>>

(* The end of a call: the node, still locked, is let go of.                *)
Finish(t) ==
  /\ Goto(t, "idle")
  /\ req'  = [req  EXCEPT ![t] = NULL]
  /\ hit'  = [hit  EXCEPT ![t] = FALSE]
  /\ node' = [node EXCEPT ![t] = NULL]
  /\ prev' = [prev EXCEPT ![t] = NULL]

---------------------------------------------------------------------------
(* lruRemoveNode: locks must be taken in the order of the list, but the    *)
(* thread already holds the node when it turns to the cell before it.      *)

RemovePrev(t) ==
  LET p == lru_prev[node[t]]
  IN  /\ Step(t, "remove_prev", "remove_next")
      /\ Acquire(t, p)
      /\ prev' = [prev EXCEPT ![t] = p]
      /\ UNCHANGED <<table, links, req, hit, node>>

(* Mutant: the node stays locked during the wait.                          *)
RemoveBackOffHolding(t) ==
  /\ Step(t, "remove_prev", "remove_wait")
  /\ ~Free(lru_prev[node[t]])
  /\ prev' = [prev EXCEPT ![t] = lru_prev[node[t]]]
  /\ UNCHANGED <<table, links, lock, req, hit, node>>

(* The try_lock has failed: give the node up and queue for prev.           *)
RemoveBackOff(t) ==
  LET p == lru_prev[node[t]]
  IN  /\ Step(t, "remove_prev", "remove_wait")
      /\ ~Free(p)
      /\ Release({node[t]})
      /\ prev' = [prev EXCEPT ![t] = p]
      /\ UNCHANGED <<table, links, req, hit, node>>

(* Mutant: prev is not looked at again after the wait.                     *)
RemoveWaitBlindly(t) ==
  /\ Step(t, "remove_wait", "remove_relock")
  /\ Acquire(t, prev[t])
  /\ UNCHANGED <<table, links, locals>>

(* Mutant: prev stays locked when it no longer leads to the node.          *)
RemoveWaitKeepsPrev(t) ==
  /\ At(t, "remove_wait")
  /\ Acquire(t, prev[t])
  /\ Goto(t, IF lru_next[prev[t]] = node[t] THEN "remove_relock" ELSE "remove_again")
  /\ UNCHANGED <<table, links, locals>>

(* prev is locked; when it no longer leads to the node, it is unlocked.    *)
RemoveWait(t) ==
  /\ At(t, "remove_wait")
  /\ Free(prev[t])
  /\ IF lru_next[prev[t]] = node[t]
     THEN Acquire(t, prev[t]) /\ Goto(t, "remove_relock")
     ELSE UNCHANGED lock /\ Goto(t, "remove_again")
  /\ UNCHANGED <<table, links, locals>>

(* lruRemoveNode gives up on a node that has left the list; prev is        *)
(* unlocked, and the call returns.                                         *)
RemoveAbandoned(t, cs) ==
  /\ Release(cs)
  /\ Finish(t)

(* With prev locked, the node is locked again.                             *)
RemoveRelock(t) ==
  /\ At(t, "remove_relock") /\ Free(node[t])
  /\ IF lru_flag[node[t]]
     THEN Acquire(t, node[t]) /\ Goto(t, "remove_next") /\ UNCHANGED locals
     ELSE RemoveAbandoned(t, {prev[t], node[t]})
  /\ UNCHANGED <<table, links>>

(* Without prev, the node is locked again, to start over.                  *)
RemoveAgain(t) ==
  /\ At(t, "remove_again") /\ Free(node[t])
  /\ IF lru_flag[node[t]]
     THEN Acquire(t, node[t]) /\ Goto(t, "remove_prev") /\ UNCHANGED locals
     ELSE RemoveAbandoned(t, {node[t]})
  /\ UNCHANGED <<table, links>>

RemoveNext(t) ==
  /\ Step(t, "remove_next", "remove_unlink")
  /\ Acquire(t, lru_next[node[t]])
  /\ UNCHANGED <<table, links, locals>>

(* Mutant: the back link of the next cell is left alone.                   *)
UnlinkForwardOnly(p, n) ==
  /\ lru_next' = [lru_next EXCEPT ![p] = lru_next[n], ![n] = NULL]
  /\ lru_prev' = [lru_prev EXCEPT ![n] = NULL]

(* The node between the two cells the thread has locked leaves the list.   *)
Unlink(p, n) ==
  /\ lru_next' = [lru_next EXCEPT ![p] = lru_next[n], ![n] = NULL]
  /\ lru_prev' = [lru_prev EXCEPT ![lru_next[n]] = p, ![n] = NULL]

(* lruMoveToTail goes on with lruInsertLast.                               *)
RemoveUnlink(t) ==
  /\ Step(t, "remove_unlink", "append_read")
  /\ Unlink(prev[t], node[t])
  /\ Release({prev[t], lru_next[node[t]]})
  /\ UNCHANGED <<table, locals>>

---------------------------------------------------------------------------
(* listInsertBefore, called for the LRU list                               *)

(* The last node is read without a lock.                                   *)
AppendRead(t) ==
  /\ Step(t, "append_read", "append_prev")
  /\ prev' = [prev EXCEPT ![t] = lru_prev[LruTail]]
  /\ UNCHANGED <<table, links, lock, req, hit, node>>

(* prev is locked; when it is no longer the last, it is unlocked.          *)
AppendPrev(t) ==
  /\ At(t, "append_prev")
  /\ Free(prev[t])
  /\ IF lru_next[prev[t]] = LruTail
     THEN Acquire(t, prev[t]) /\ Goto(t, "append_node")
     ELSE UNCHANGED lock /\ Goto(t, "append_read")
  /\ UNCHANGED <<table, links, locals>>

AppendNode(t) ==
  /\ Step(t, "append_node", "append_link")
  /\ Acquire(t, LruTail)
  /\ UNCHANGED <<table, links, locals>>

(* The end of a hit, but not of an insert.                                 *)
AppendLink(t) ==
  /\ At(t, "append_link")
  /\ lru_next' = [lru_next EXCEPT ![prev[t]] = node[t], ![node[t]] = LruTail]
  /\ lru_prev' = [lru_prev EXCEPT ![LruTail] = node[t], ![node[t]] = prev[t]]
  /\ IF hit[t]
     THEN Release({prev[t], LruTail, node[t]}) /\ Finish(t)
     ELSE Release({prev[t], LruTail}) /\ Goto(t, "ht_insert") /\ UNCHANGED locals
  /\ UNCHANGED table

---------------------------------------------------------------------------
(* acquireFreeNode: listEvictNext, on the pool and on the LRU list in turn *)

LastOf(head) == IF head = PoolHead THEN PoolTail ELSE LruTail

Other(head) == IF head = PoolHead THEN LruHead ELSE PoolHead

(* The head is locked; when the list is empty, the other list is tried.    *)
EvictPrev(t) ==
  LET first == lru_next[prev[t]]
  IN  /\ At(t, "evict_prev")
      /\ Free(prev[t])
      /\ IF first = LastOf(prev[t])
         THEN /\ prev' = [prev EXCEPT ![t] = Other(prev[t])]
              /\ UNCHANGED <<lock, pc, node>>
         ELSE /\ Acquire(t, prev[t])
              /\ node' = [node EXCEPT ![t] = first]
              /\ Goto(t, "evict_node") /\ UNCHANGED prev
      /\ UNCHANGED <<table, links, req, hit>>

EvictNode(t) ==
  /\ Step(t, "evict_node", "evict_next")
  /\ Acquire(t, node[t])
  /\ UNCHANGED <<table, links, locals>>

EvictNext(t) ==
  /\ Step(t, "evict_next", "evict_unlink")
  /\ Acquire(t, lru_next[node[t]])
  /\ UNCHANGED <<table, links, locals>>

(* A node of the LRU list loses its flag and must leave its chain.         *)
EvictUnlink(t) ==
  /\ Step(t, "evict_unlink", IF prev[t] = PoolHead THEN "fill" ELSE "ht_remove")
  /\ Unlink(prev[t], node[t])
  /\ Release({prev[t], lru_next[node[t]]})
  /\ lru_flag' = [lru_flag EXCEPT ![node[t]] = FALSE]
  /\ UNCHANGED <<key, ht_flag, chain, bucket_lock, locals>>

---------------------------------------------------------------------------
(* htRemove, retried by evictLeastRecentlyUsed until it succeeds           *)

ChainOf(n) == chain[BucketOf[key[n]]]
IsFirst(n) == ChainOf(n) # <<>> /\ Head(ChainOf(n)) = n
Pred(n, p) == \E i \in 2 .. Len(ChainOf(n)) : ChainOf(n)[i] = n /\ ChainOf(n)[i - 1] = p
BucketFree(n) == bucket_lock[BucketOf[key[n]]] = NULL

(* The node leaves its chain; evict loses the flag before it fills it anew.*)
LeaveChain(n) ==
  /\ \E i \in DOMAIN ChainOf(n) :
       /\ ChainOf(n)[i] = n
       /\ chain' = [chain EXCEPT ![BucketOf[key[n]]] = RemoveAt(@, i)]
  /\ ht_flag' = [ht_flag EXCEPT ![n] = FALSE]

(* Mutant: the link of the node before it is changed without its lock.     *)
HtRemoveAnywhere(t) ==
  /\ Step(t, "ht_remove", "fill")
  /\ ht_flag[node[t]] /\ BucketFree(node[t])
  /\ LeaveChain(node[t])
  /\ UNCHANGED <<key, lru_flag, bucket_lock, links, lock, locals>>

HtRemoveFirst(t) ==
  /\ Step(t, "ht_remove", "fill")
  /\ ht_flag[node[t]] /\ BucketFree(node[t]) /\ IsFirst(node[t])
  /\ LeaveChain(node[t])
  /\ UNCHANGED <<key, lru_flag, bucket_lock, links, lock, locals>>

(* The node before it holds the link to change in the word of its lock.    *)
HtRemoveLock(t) ==
  /\ Step(t, "ht_remove", "ht_unlink")
  /\ ht_flag[node[t]] /\ BucketFree(node[t])
  /\ \E p \in Nodes :
       /\ Pred(node[t], p) /\ Acquire(t, p)
       /\ prev' = [prev EXCEPT ![t] = p]
  /\ bucket_lock' = [bucket_lock EXCEPT ![BucketOf[key[node[t]]]] = t]
  /\ UNCHANGED <<key, lru_flag, ht_flag, chain, links, req, hit, node>>

(* Its try_lock fails: htRemove returns false and is called again.         *)
HtRemoveFails(t) ==
  /\ At(t, "ht_remove")
  /\ ht_flag[node[t]] /\ BucketFree(node[t])
  /\ \E p \in Nodes : Pred(node[t], p) /\ ~Free(p)
  /\ UNCHANGED vars

HtUnlink(t) ==
  /\ Step(t, "ht_unlink", "fill")
  /\ LeaveChain(node[t])
  /\ Release({prev[t]})
  /\ bucket_lock' = [bucket_lock EXCEPT ![BucketOf[key[node[t]]]] = NULL]
  /\ UNCHANGED <<key, lru_flag, links, locals>>

---------------------------------------------------------------------------
(* insert, with the node it was given                                      *)

Fill(t) ==
  /\ Step(t, "fill", "append_read")
  /\ key' = [key EXCEPT ![node[t]] = req[t]]
  /\ lru_flag' = [lru_flag EXCEPT ![node[t]] = TRUE]
  /\ UNCHANGED <<ht_flag, chain, bucket_lock, links, lock, locals>>

HtInsert(t) ==
  /\ At(t, "ht_insert") /\ BucketFree(node[t])
  /\ chain' = [chain EXCEPT ![BucketOf[req[t]]] = <<node[t]>> \o @]
  /\ ht_flag' = [ht_flag EXCEPT ![node[t]] = TRUE]
  /\ Release({node[t]}) /\ Finish(t)
  /\ UNCHANGED <<key, lru_flag, bucket_lock, links>>

---------------------------------------------------------------------------
(* assertIsCoherent, and the lists it walks                                *)

(* The cells from c to the end of its list.                                *)
WalkFrom(c) ==
  LET w[i \in Nat] == IF i = 0 THEN c ELSE IF w[i - 1] = NULL THEN NULL ELSE lru_next[w[i - 1]]
  IN  w
Listed(head) == {WalkFrom(head)[i] : i \in 1 .. Cardinality(Nodes)} \cap Nodes

Positions(n) == {p \in {<<b, i>> : b \in Buckets, i \in 1 .. Cardinality(Nodes)} :
                   p[2] \in DOMAIN chain[p[1]] /\ chain[p[1]][p[2]] = n}

AssertIsCoherent ==
  /\ Listed(PoolHead) \cup Listed(LruHead) = Nodes
  /\ \A head \in {PoolHead, LruHead} :
       \E i \in 1 .. Cardinality(Nodes) + 1 : WalkFrom(head)[i] = LastOf(head)
  /\ \A c \in Cells : lock[c] = NULL
  /\ \A n \in Listed(PoolHead) : ~lru_flag[n] /\ ~ht_flag[n] /\ Positions(n) = {}
  /\ \A n \in Listed(LruHead) : lru_flag[n] /\ ht_flag[n]
  /\ \A n \in Nodes : /\ Cardinality(Positions(n)) <= 1
                      /\ Positions(n) # {} => n \in Listed(LruHead)

---------------------------------------------------------------------------
Find(t, k) == FindMiss(t, k) \/ FindNode(t, k)

Proceed(t) ==
  \/ FindHit(t) \/ FindStale(t)
  \/ RemovePrev(t) \/ RemoveBackOff(t) \/ RemoveWait(t) \/ RemoveRelock(t) \/ RemoveAgain(t)
  \/ RemoveNext(t) \/ RemoveUnlink(t)
  \/ AppendRead(t) \/ AppendPrev(t) \/ AppendNode(t) \/ AppendLink(t)
  \/ EvictPrev(t) \/ EvictNode(t) \/ EvictNext(t) \/ EvictUnlink(t)
  \/ HtRemoveFirst(t) \/ HtRemoveLock(t) \/ HtRemoveFails(t) \/ HtUnlink(t)
  \/ Fill(t) \/ HtInsert(t)

Next == \E t \in Threads : Proceed(t) \/ \E k \in Keys : Find(t, k)

Spec == Init /\ [][Next]_vars

(* A thread in a call is run for ever, and gets a spin lock that is free   *)
(* again and again.                                                        *)
Fairness == \A t \in Threads : SF_vars(Proceed(t))
=============================================================================
