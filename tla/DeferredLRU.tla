---------------------------- MODULE DeferredLRU ----------------------------
(***************************************************************************)
(* DeferredLRU (src/src/containers/deferred_lru.h): a concurrent LRU cache *)
(* whose threads only mark a node as recent when they hit it; the node is  *)
(* moved to the LRU head later, by whichever thread holds lru_lock_.       *)
(*                                                                         *)
(* Grain: one action is at most one access to memory that another thread   *)
(* may be writing, or a whole critical section over memory that only that  *)
(* lock protects.  Accesses are sequentially consistent.  A bucket chain   *)
(* is read and written only under its bucket lock, so it is the set of the *)
(* nodes linked in it.  A node's value is written with its key and never   *)
(* apart from it, so key stands for the pair.  EmptyDeletePolicy and the   *)
(* profile counters change nothing the properties see.                     *)
(***************************************************************************)
EXTENDS Naturals, FiniteSets

CONSTANTS
  Threads,         \* callers of consumeCachedOrCompute
  Nodes,           \* the elements of nodes_
  NodeAt,          \* nodes_ itself: NodeAt[i] is the element at index i - 1
  Keys,
  Buckets,         \* the indices of buckets_
  BucketOf,        \* keyToBucketNr
  LockOf,          \* bucket_nr & bucketLockIndexMask()
  PullThreshold,   \* pull_threshold_
  PurgeThreshold,  \* purge_threshold_
  NULL,            \* nullptr; also "no key" and "no owner"
  LruHead, LruTail, \* lru_head_ and lru_tail_
  TempHead,        \* the local list head of pullRecent
  Dummy            \* recentDummyTerminalPtr()

Cells == Nodes \cup {LruHead, LruTail, TempHead}
BucketLocks == {LockOf[b] : b \in Buckets}

ASSUME ConstantsAssumption ==
  /\ IsFiniteSet(Nodes) /\ Nodes # {}
  /\ NodeAt \in [1 .. Cardinality(Nodes) -> Nodes]
  /\ \A n \in Nodes : \E i \in DOMAIN NodeAt : NodeAt[i] = n
  /\ Cardinality({NULL, LruHead, LruTail, TempHead, Dummy}) = 5
  /\ Nodes \cap {NULL, LruHead, LruTail, TempHead, Dummy} = {}
  /\ NULL \notin Threads \cup Keys
  /\ BucketOf \in [Keys -> Buckets]
  /\ DOMAIN LockOf = Buckets
  /\ PullThreshold \in Nat \ {0}
  /\ PurgeThreshold \in Nat \ {0}

VARIABLES
  (* shared memory *)
  key, lru_next, lru_prev, recent_next, empty_next,  \* fields of the nodes
  chain,                         \* nodes linked in each bucket
  bucket_lock, lru_lock,         \* owner of each lock, or NULL
  recent_head, recent_count,
  empty_head, empty_marked,      \* empty_head_: the pointer and its low bit
  pull_request, purge_request,
  (* locals of each thread *)
  pc,
  req,                           \* the key it asks for
  node,                          \* find: the node found; insert: the new node
  cnext,                         \* current_next of addSublistToLruHead
  (* locals of the thread that holds lru_lock_ *)
  cursor,                        \* purgeOld: node; pullRecent: current
  resume,                        \* purgeOld: next
  quota,                         \* purgeOld: required_nodes - nodes_freed
  second,                        \* TRUE in the second purgeOld
  last                           \* pullRecent: prev

table    == <<key, chain, bucket_lock>>
lru      == <<lru_next, lru_prev>>
recent   == <<recent_next, recent_head, recent_count>>
empty    == <<empty_next, empty_head, empty_marked>>
requests == <<pull_request, purge_request>>
shared   == <<table, lru, recent, empty, requests, lru_lock>>
locals   == <<req, node, cnext>>
sweep    == <<cursor, resume, quota, second, last>>
vars     == <<shared, pc, locals, sweep>>

PcValues ==
  {"idle", "mark", "count", "threshold", "request_pull", "try_lock",
   "allocate", "request_purge", "take", "add_bucket", "drop", "drop_cas",
   "link", "link_cas", "link_back", "publish",
   "first_purge", "purge", "purge_bucket", "unlink", "dispose", "dispose_cas",
   "pull", "reset_count", "pull_node", "pull_skip",
   "bulk", "bulk_cas", "bulk_back", "pull_done",
   "second_purge", "purge_done", "unlock"}

Goto(t, label) == pc' = [pc EXCEPT ![t] = label]
Step(t, from, to) == pc[t] = from /\ Goto(t, to)

(* Where find, or the consolidation it asked for, returns to: after a hit  *)
(* the call is over, after a miss the produced value is inserted.  A       *)
(* consolidation asked for by allocateNode returns to its loop.            *)
Return(t) ==
  IF node[t] = NULL
  THEN Goto(t, "allocate") /\ UNCHANGED locals
  ELSE /\ Goto(t, "idle")
       /\ req'   = [req  EXCEPT ![t] = NULL]
       /\ node'  = [node EXCEPT ![t] = NULL]
       /\ UNCHANGED cnext

---------------------------------------------------------------------------
(* find                                                                    *)

Found(k) == {n \in chain[BucketOf[k]] : key[n] = k}
LockFor(k) == LockOf[BucketOf[k]]
BucketFree(k) == bucket_lock[LockFor(k)] = NULL

(* The key is absent: consumeCachedOrCompute goes on to insert it.         *)
FindMiss(t, k) ==
  /\ Step(t, "idle", "threshold") /\ BucketFree(k) /\ Found(k) = {}
  /\ req' = [req EXCEPT ![t] = k]
  /\ UNCHANGED <<shared, node, cnext, sweep>>

(* A hit on a node marked recent already.                                  *)
FindRecent(t, k) ==
  /\ Step(t, "idle", "threshold") /\ BucketFree(k)
  /\ \E n \in Found(k) :
       /\ recent_next[n] # NULL
       /\ node' = [node EXCEPT ![t] = n]
  /\ req' = [req EXCEPT ![t] = k]
  /\ UNCHANGED <<shared, cnext, sweep>>

(* A hit on an unmarked node: markNodeRecent starts, the bucket locked.    *)
FindUnmarked(t, k) ==
  /\ Step(t, "idle", "mark") /\ BucketFree(k)
  /\ \E n \in Found(k) :
       /\ recent_next[n] = NULL
       /\ node' = [node EXCEPT ![t] = n]
       /\ recent_next' = [recent_next EXCEPT ![n] = recent_head]
  /\ req' = [req EXCEPT ![t] = k]
  /\ bucket_lock' = [bucket_lock EXCEPT ![LockFor(k)] = t]
  /\ UNCHANGED <<key, chain, lru, recent_head, recent_count, empty, requests,
                 lru_lock, cnext, sweep>>

(* Mutant: a plain store in place of the compare-exchange.                 *)
MarkStores(t) ==
  /\ Step(t, "mark", "count")
  /\ recent_head' = node[t]
  /\ UNCHANGED <<table, lru, recent_next, recent_count, empty, requests, lru_lock,
                 locals, sweep>>

(* Mutant: a failed compare-exchange does not refresh what it expects.     *)
MarkRetriesStale(t) ==
  /\ Step(t, "mark", "count") /\ recent_head = recent_next[node[t]]
  /\ recent_head' = node[t]
  /\ UNCHANGED <<table, lru, recent_next, recent_count, empty, requests, lru_lock,
                 locals, sweep>>

(* The compare-exchange that pushes the node on the recent list.           *)
MarkCas(t) ==
  /\ pc[t] = "mark"
  /\ IF recent_head = recent_next[node[t]]
     THEN /\ recent_head' = node[t]
          /\ Goto(t, "count")
          /\ UNCHANGED recent_next
     ELSE /\ recent_next' = [recent_next EXCEPT ![node[t]] = recent_head]
          /\ UNCHANGED <<recent_head, pc>>
  /\ UNCHANGED <<table, lru, recent_count, empty, requests, lru_lock, locals, sweep>>

CountRecent(t) ==
  /\ Step(t, "count", "threshold")
  /\ recent_count' = recent_count + 1
  /\ bucket_lock' = [bucket_lock EXCEPT ![LockFor(req[t])] = NULL]
  /\ UNCHANGED <<key, chain, lru, recent_next, recent_head, empty, requests,
                 lru_lock, locals, sweep>>

(* Mutant: > where the code has >=.                                        *)
CheckThresholdLate(t) ==
  /\ pc[t] = "threshold"
  /\ IF recent_count > PullThreshold
     THEN Goto(t, "request_pull") /\ UNCHANGED locals
     ELSE Return(t)
  /\ UNCHANGED <<shared, sweep>>

(* recentThresholdHit, read after the bucket is unlocked.                  *)
CheckThreshold(t) ==
  /\ pc[t] = "threshold"
  /\ IF recent_count >= PullThreshold
     THEN Goto(t, "request_pull") /\ UNCHANGED locals
     ELSE Return(t)
  /\ UNCHANGED <<shared, sweep>>

---------------------------------------------------------------------------
(* requestPull, requestPurge and the try_lock of consolidateCache          *)

RequestPull(t) ==
  /\ Step(t, "request_pull", "try_lock")
  /\ pull_request' = TRUE
  /\ UNCHANGED <<table, lru, recent, empty, purge_request, lru_lock, locals, sweep>>

RequestPurge(t) ==
  /\ Step(t, "request_purge", "try_lock")
  /\ purge_request' = TRUE
  /\ UNCHANGED <<table, lru, recent, empty, pull_request, lru_lock, locals, sweep>>

(* Mutant: the result of try_lock is ignored.                              *)
TryLockIgnored(t) ==
  /\ pc[t] = "try_lock"
  /\ lru_lock' = t /\ Goto(t, "first_purge")
  /\ UNCHANGED <<table, lru, recent, empty, requests, locals, sweep>>

TryLock(t) ==
  /\ pc[t] = "try_lock"
  /\ IF lru_lock = NULL
     THEN lru_lock' = t /\ Goto(t, "first_purge") /\ UNCHANGED locals
     ELSE Return(t) /\ UNCHANGED lru_lock
  /\ UNCHANGED <<table, lru, recent, empty, requests, sweep>>

---------------------------------------------------------------------------
(* insert                                                                  *)

(* allocateNode looks at empty_head_: it spins while the head is marked,   *)
(* asks for a purge when the pool is empty, else marks the head.           *)
Allocate(t) ==
  /\ pc[t] = "allocate" /\ ~empty_marked
  /\ IF empty_head = NULL
     THEN Goto(t, "request_purge") /\ UNCHANGED <<empty_marked, node>>
     ELSE /\ empty_marked' = TRUE
          /\ node' = [node EXCEPT ![t] = empty_head]
          /\ Goto(t, "take")
  /\ UNCHANGED <<table, lru, recent, empty_next, empty_head, requests, lru_lock,
                 req, cnext, sweep>>

(* Mutant: the new node does not get the dummy recent link.                *)
TakeWithoutDummy(t) ==
  /\ Step(t, "take", "add_bucket")
  /\ empty_head' = empty_next[node[t]]
  /\ empty_marked' = FALSE
  /\ empty_next' = [empty_next EXCEPT ![node[t]] = NULL]
  /\ key' = [key EXCEPT ![node[t]] = req[t]]
  /\ UNCHANGED <<chain, bucket_lock, lru, recent, requests, lru_lock, locals, sweep>>

(* The second compare-exchange succeeds; insert then fills the node and    *)
(* marks it recent with the dummy link, to keep it off the recent list.    *)
Take(t) ==
  /\ Step(t, "take", "add_bucket")
  /\ empty_head' = empty_next[node[t]]
  /\ empty_marked' = FALSE
  /\ empty_next' = [empty_next EXCEPT ![node[t]] = NULL]
  /\ key' = [key EXCEPT ![node[t]] = req[t]]
  /\ recent_next' = [recent_next EXCEPT ![node[t]] = Dummy]
  /\ UNCHANGED <<chain, bucket_lock, lru, recent_head, recent_count, requests,
                 lru_lock, locals, sweep>>

(* The weak compare-exchange fails spuriously: the mark is taken back.     *)
TakeFails(t) ==
  /\ Step(t, "take", "allocate")
  /\ empty_marked' = FALSE
  /\ node' = [node EXCEPT ![t] = NULL]
  /\ UNCHANGED <<table, lru, recent, empty_next, empty_head, requests, lru_lock,
                 req, cnext, sweep>>

(* Mutant: the chain is not searched for the key first.                    *)
AddBucketUnchecked(t) ==
  /\ Step(t, "add_bucket", "link") /\ BucketFree(req[t])
  /\ chain' = [chain EXCEPT ![BucketOf[req[t]]] = @ \cup {node[t]}]
  /\ UNCHANGED <<key, bucket_lock, lru, recent, empty, requests, lru_lock, locals, sweep>>

(* addNodeToBucket; another thread may have inserted the key meanwhile.    *)
AddBucket(t) ==
  /\ pc[t] = "add_bucket" /\ BucketFree(req[t])
  /\ IF Found(req[t]) # {}
     THEN Goto(t, "drop") /\ UNCHANGED chain
     ELSE /\ chain' = [chain EXCEPT ![BucketOf[req[t]]] = @ \cup {node[t]}]
          /\ Goto(t, "link")
  /\ UNCHANGED <<key, bucket_lock, lru, recent, empty, requests, lru_lock, locals, sweep>>

(* The last store of insert: the node may now join the recent list.        *)
Publish(t) ==
  /\ Step(t, "publish", "idle")
  /\ recent_next' = [recent_next EXCEPT ![node[t]] = NULL]
  /\ node' = [node EXCEPT ![t] = NULL]
  /\ req' = [req EXCEPT ![t] = NULL]
  /\ UNCHANGED <<table, lru, recent_head, recent_count, empty, requests, lru_lock,
                 cnext, sweep>>

---------------------------------------------------------------------------
(* disposeNode, by the inserter of a duplicate or by the purging thread    *)

DisposeLoad(n) ==
  /\ ~empty_marked
  /\ empty_next' = [empty_next EXCEPT ![n] = empty_head]
  /\ UNCHANGED <<empty_head, empty_marked>>

(* Mutant: the compare-exchange ignores the mark of a taker.               *)
DisposeIgnoresMark(n) == empty_head = empty_next[n]

DisposeSucceeds(n) == ~empty_marked /\ empty_head = empty_next[n]

DisposePush(n) ==
  /\ DisposeSucceeds(n)
  /\ empty_head' = n
  /\ UNCHANGED <<empty_next, empty_marked>>

(* drop: insert gives the node of a duplicate key back.                    *)
Drop(t) ==
  /\ Step(t, "drop", "drop_cas") /\ DisposeLoad(node[t])
  /\ UNCHANGED <<table, lru, recent, requests, lru_lock, locals, sweep>>

DropCas(t) ==
  /\ Step(t, "drop_cas", "idle") /\ DisposePush(node[t])
  /\ node' = [node EXCEPT ![t] = NULL]
  /\ req' = [req EXCEPT ![t] = NULL]
  /\ UNCHANGED <<table, lru, recent, requests, lru_lock, cnext, sweep>>

DropRetry(t) ==
  /\ Step(t, "drop_cas", "drop") /\ ~DisposeSucceeds(node[t])
  /\ UNCHANGED <<shared, locals, sweep>>

---------------------------------------------------------------------------
(* addSublistToLruHead(first, l), by an inserter or by pullRecent          *)

LinkLoad(t, first, l) ==
  /\ lru_prev' = [lru_prev EXCEPT ![first] = LruHead]
  /\ lru_next' = [lru_next EXCEPT ![l] = lru_next[LruHead]]
  /\ cnext' = [cnext EXCEPT ![t] = lru_next[LruHead]]

LinkSwap(t, first, l, done) ==
  /\ IF lru_next[LruHead] = cnext[t]
     THEN /\ lru_next' = [lru_next EXCEPT ![LruHead] = first]
          /\ Goto(t, done)
          /\ UNCHANGED cnext
     ELSE /\ lru_next' = [lru_next EXCEPT ![l] = lru_next[LruHead]]
          /\ cnext' = [cnext EXCEPT ![t] = lru_next[LruHead]]
          /\ UNCHANGED pc
  /\ UNCHANGED lru_prev

LinkPrev(t, l) ==
  /\ lru_prev' = [lru_prev EXCEPT ![cnext[t]] = l]
  /\ cnext' = [cnext EXCEPT ![t] = NULL]
  /\ UNCHANGED lru_next

Link(t) ==
  /\ Step(t, "link", "link_cas") /\ LinkLoad(t, node[t], node[t])
  /\ UNCHANGED <<table, recent, empty, requests, lru_lock, req, node, sweep>>

LinkCas(t) ==
  /\ pc[t] = "link_cas"
  /\ LinkSwap(t, node[t], node[t], "link_back")
  /\ UNCHANGED <<table, recent, empty, requests, lru_lock, req, node, sweep>>

LinkBack(t) ==
  /\ Step(t, "link_back", "publish") /\ LinkPrev(t, node[t])
  /\ UNCHANGED <<table, recent, empty, requests, lru_lock, req, node, sweep>>

Bulk(t) ==
  /\ Step(t, "bulk", "bulk_cas") /\ LinkLoad(t, lru_next[TempHead], last)
  /\ UNCHANGED <<table, recent, empty, requests, lru_lock, req, node, sweep>>

BulkCas(t) ==
  /\ pc[t] = "bulk_cas"
  /\ LinkSwap(t, lru_next[TempHead], last, "bulk_back")
  /\ UNCHANGED <<table, recent, empty, requests, lru_lock, req, node, sweep>>

BulkBack(t) ==
  /\ Step(t, "bulk_back", "pull_done") /\ LinkPrev(t, last)
  /\ UNCHANGED <<table, recent, empty, requests, lru_lock, req, node, sweep>>

---------------------------------------------------------------------------
(* consolidateCache, by the thread that holds lru_lock_                    *)

StartPurge(required, again) ==
  /\ cursor' = lru_prev[LruTail]
  /\ quota' = required
  /\ second' = again

FirstPurge(t) ==
  /\ pc[t] = "first_purge"
  /\ IF purge_request
     THEN StartPurge(20, FALSE) /\ Goto(t, "purge")
     ELSE Goto(t, "pull") /\ UNCHANGED <<cursor, quota, second>>
  /\ UNCHANGED <<shared, locals, resume, last>>

SecondPurge(t) ==
  /\ pc[t] = "second_purge"
  /\ IF purge_request
     THEN StartPurge(PurgeThreshold, TRUE) /\ Goto(t, "purge")
     ELSE Goto(t, "unlock") /\ UNCHANGED <<cursor, quota, second>>
  /\ UNCHANGED <<shared, locals, resume, last>>

(* Mutant: the check marked TODO is removed, the head's neighbour purged.  *)
PurgeContinuesToHead == cursor # LruHead /\ quota > 0

(* The loop of purgeOld never touches the node next to the list head.      *)
PurgeContinues == cursor # LruHead /\ quota > 0 /\ lru_prev[cursor] # LruHead

PurgeEnd(t) ==
  /\ pc[t] = "purge" /\ ~PurgeContinues
  /\ Goto(t, IF second THEN "purge_done" ELSE "pull")
  /\ UNCHANGED <<shared, locals, sweep>>

(* Mutant: the loop does not move on past a node marked recent.            *)
PurgeSkipStays(t) ==
  /\ pc[t] = "purge" /\ PurgeContinues
  /\ recent_next[cursor] # NULL
  /\ UNCHANGED vars

PurgeSkip(t) ==
  /\ pc[t] = "purge" /\ PurgeContinues
  /\ recent_next[cursor] # NULL
  /\ cursor' = lru_prev[cursor]
  /\ UNCHANGED <<shared, pc, locals, resume, quota, second, last>>

PurgeTry(t) ==
  /\ Step(t, "purge", "purge_bucket") /\ PurgeContinues
  /\ recent_next[cursor] = NULL
  /\ resume' = lru_prev[cursor]
  /\ UNCHANGED <<shared, locals, cursor, quota, second, last>>

(* Mutant: the bucket is neither locked nor the mark looked at again.      *)
PurgeBucketBlind(t) ==
  /\ Step(t, "purge_bucket", "unlink")
  /\ chain' = [chain EXCEPT ![BucketOf[key[cursor]]] = @ \ {cursor}]
  /\ UNCHANGED <<key, bucket_lock, lru, recent, empty, requests, lru_lock, locals, sweep>>

(* removeNodeFromBucket: it fails when the node has become recent since.   *)
PurgeBucket(t) ==
  /\ pc[t] = "purge_bucket" /\ BucketFree(key[cursor])
  /\ IF recent_next[cursor] # NULL \/ cursor \notin chain[BucketOf[key[cursor]]]
     THEN /\ cursor' = resume
          /\ Goto(t, "purge")
          /\ UNCHANGED chain
     ELSE /\ chain' = [chain EXCEPT ![BucketOf[key[cursor]]] = @ \ {cursor}]
          /\ Goto(t, "unlink")
          /\ UNCHANGED cursor
  /\ UNCHANGED <<key, bucket_lock, lru, recent, empty, requests, lru_lock, locals,
                 resume, quota, second, last>>

(* Mutant: one of the two stores of removeNodeFromLru is missing.          *)
NextUntouched(n) == lru_next

(* The links after the node n is taken out of the LRU list.                *)
NextWithout(n) == [lru_next EXCEPT ![lru_prev[n]] = lru_next[n]]
PrevWithout(n) == [lru_prev EXCEPT ![lru_next[n]] = lru_prev[n]]

(* removeNodeFromLru: its four accesses are one step, for the links it     *)
(* uses belong to the lock holder alone (RemovalPrivate).                  *)
Unlink(t) ==
  /\ Step(t, "unlink", "dispose")
  /\ lru_next' = NextWithout(cursor)
  /\ lru_prev' = PrevWithout(cursor)
  /\ UNCHANGED <<table, recent, empty, requests, lru_lock, locals, sweep>>

Dispose(t) ==
  /\ Step(t, "dispose", "dispose_cas") /\ DisposeLoad(cursor)
  /\ UNCHANGED <<table, lru, recent, requests, lru_lock, locals, sweep>>

DisposeCas(t) ==
  /\ Step(t, "dispose_cas", "purge") /\ DisposePush(cursor)
  /\ quota' = quota - 1
  /\ cursor' = resume
  /\ UNCHANGED <<table, lru, recent, requests, lru_lock, locals, resume, second, last>>

DisposeRetry(t) ==
  /\ Step(t, "dispose_cas", "dispose") /\ ~DisposeSucceeds(cursor)
  /\ UNCHANGED <<shared, locals, sweep>>

(* pullRecent takes the whole recent list in one exchange ...              *)
PullStart(t) ==
  /\ pc[t] = "pull"
  /\ IF pull_request
     THEN /\ cursor' = recent_head
          /\ last' = TempHead
          /\ recent_head' = Dummy
          /\ Goto(t, "reset_count")
     ELSE Goto(t, "second_purge") /\ UNCHANGED <<cursor, last, recent_head>>
  /\ UNCHANGED <<table, lru, recent_next, recent_count, empty, requests, lru_lock,
                 locals, resume, quota, second>>

(* ... and clears its length in a later store.                             *)
ResetCount(t) ==
  /\ Step(t, "reset_count", "pull_node")
  /\ recent_count' = 0
  /\ UNCHANGED <<table, lru, recent_next, recent_head, empty, requests, lru_lock,
                 locals, sweep>>

(* The end of the slice: nothing was moved, or the sublist is added.       *)
PullEnd(t) ==
  /\ pc[t] = "pull_node" /\ cursor = Dummy
  /\ Goto(t, IF last = TempHead THEN "pull_done" ELSE "bulk")
  /\ UNCHANGED <<shared, locals, sweep>>

(* A node next to the list head stays where it is.                         *)
PullAtHead(t) ==
  /\ Step(t, "pull_node", "pull_skip") /\ cursor # Dummy /\ lru_prev[cursor] = LruHead
  /\ UNCHANGED <<shared, locals, sweep>>

PullSkip(t) ==
  /\ Step(t, "pull_skip", "pull_node")
  /\ cursor' = recent_next[cursor]
  /\ recent_next' = [recent_next EXCEPT ![cursor] = NULL]
  /\ UNCHANGED <<table, lru, recent_head, recent_count, empty, requests, lru_lock,
                 locals, resume, quota, second, last>>

(* Any other moves to the end of the sublist: RemovalPrivate again.        *)
PullMove(t) ==
  /\ pc[t] = "pull_node" /\ cursor # Dummy /\ lru_prev[cursor] # LruHead
  /\ lru_next' = [NextWithout(cursor) EXCEPT ![last] = cursor]
  /\ lru_prev' = [PrevWithout(cursor) EXCEPT ![cursor] = last]
  /\ last' = cursor
  /\ cursor' = recent_next[cursor]
  /\ recent_next' = [recent_next EXCEPT ![cursor] = NULL]
  /\ UNCHANGED <<table, recent_head, recent_count, empty, requests, lru_lock, pc,
                 locals, resume, quota, second>>

PullDone(t) ==
  /\ Step(t, "pull_done", "second_purge")
  /\ pull_request' = FALSE
  /\ lru_next' = [lru_next EXCEPT ![TempHead] = NULL]
  /\ UNCHANGED <<table, lru_prev, recent, empty, purge_request, lru_lock, locals,
                 sweep>>

PurgeDone(t) ==
  /\ Step(t, "purge_done", "unlock")
  /\ purge_request' = FALSE
  /\ UNCHANGED <<table, lru, recent, empty, pull_request, lru_lock, locals, sweep>>

Unlock(t) ==
  /\ pc[t] = "unlock"
  /\ lru_lock' = NULL
  /\ Return(t)
  /\ cursor' = NULL /\ resume' = NULL /\ quota' = 0 /\ second' = FALSE /\ last' = NULL
  /\ UNCHANGED <<table, lru, recent, empty, requests>>

---------------------------------------------------------------------------
(* allocateMemory links the nodes into the empty list in array order.      *)
IndexOf(n) == CHOOSE i \in DOMAIN NodeAt : NodeAt[i] = n

Init ==
  /\ empty_head = NodeAt[1]
  /\ empty_next = [n \in Nodes |->
       IF IndexOf(n) + 1 \in DOMAIN NodeAt THEN NodeAt[IndexOf(n) + 1] ELSE NULL]
  /\ empty_marked = FALSE
  /\ key = [n \in Nodes |-> NULL]
  /\ chain = [b \in Buckets |-> {}]
  /\ bucket_lock = [l \in BucketLocks |-> NULL]
  /\ lru_next = [c \in Cells |-> IF c = LruHead THEN LruTail ELSE NULL]
  /\ lru_prev = [c \in Cells |-> IF c = LruTail THEN LruHead ELSE NULL]
  /\ recent_next = [n \in Nodes |-> NULL]
  /\ recent_head = Dummy
  /\ recent_count = 0
  /\ pull_request = FALSE /\ purge_request = FALSE
  /\ lru_lock = NULL
  /\ pc = [t \in Threads |-> "idle"]
  /\ req = [t \in Threads |-> NULL]
  /\ node = [t \in Threads |-> NULL]
  /\ cnext = [t \in Threads |-> NULL]
  /\ cursor = NULL /\ resume = NULL /\ quota = 0 /\ second = FALSE /\ last = NULL

Consolidate(t) ==
  \/ FirstPurge(t) \/ SecondPurge(t)
  \/ PurgeEnd(t) \/ PurgeSkip(t) \/ PurgeTry(t) \/ PurgeBucket(t) \/ Unlink(t)
  \/ Dispose(t) \/ DisposeCas(t) \/ DisposeRetry(t)
  \/ PullStart(t) \/ ResetCount(t) \/ PullEnd(t) \/ PullAtHead(t) \/ PullSkip(t)
  \/ PullMove(t) \/ Bulk(t) \/ BulkCas(t) \/ BulkBack(t) \/ PullDone(t)
  \/ PurgeDone(t) \/ Unlock(t)

Find(t) == \E k \in Keys : FindMiss(t, k) \/ FindRecent(t, k) \/ FindUnmarked(t, k)

(* The steps of a call once it has begun, TakeFails apart.                 *)
Proceed(t) ==
  \/ MarkCas(t) \/ CountRecent(t) \/ CheckThreshold(t)
  \/ RequestPull(t) \/ RequestPurge(t) \/ TryLock(t)
  \/ Allocate(t) \/ Take(t) \/ AddBucket(t) \/ Drop(t) \/ DropCas(t) \/ DropRetry(t)
  \/ Link(t) \/ LinkCas(t) \/ LinkBack(t) \/ Publish(t)
  \/ Consolidate(t)

Next == \E t \in Threads : Find(t) \/ Proceed(t) \/ TakeFails(t)

Spec == Init /\ [][Next]_vars

(* The operating system runs every thread, so no call is left half way for *)
(* ever; a spin for a lock or for the unmarked head of the empty list ends *)
(* if what it waits for is free again and again; and a weak                *)
(* compare-exchange does not fail for ever.  No thread has to call again.  *)
Fairness == \A t \in Threads : SF_vars(Proceed(t)) /\ SF_vars(Take(t))
FairSpec == Spec /\ Fairness
=============================================================================
