---------------------- MODULE ConcurrentLRUProperties ----------------------
(***************************************************************************)
(* What must hold of ConcurrentLRU.                                        *)
(***************************************************************************)
EXTENDS ConcurrentLRU

(* Every variable has its type.                                            *)
TypeOK ==
  /\ key \in [Nodes -> Keys \cup {NULL}]
  /\ lru_flag \in [Nodes -> BOOLEAN] /\ ht_flag \in [Nodes -> BOOLEAN]
  /\ lru_next \in [Cells -> Cells \cup {NULL}] /\ lru_prev \in [Cells -> Cells \cup {NULL}]
  /\ lock \in [Cells -> Threads \cup {NULL}]
  /\ chain \in [Buckets -> Seq(Nodes)]
  /\ bucket_lock \in [Buckets -> Threads \cup {NULL}]
  /\ pc \in [Threads -> PcValues]
  /\ req \in [Threads -> Keys \cup {NULL}] /\ hit \in [Threads -> BOOLEAN]
  /\ node \in [Threads -> Nodes \cup {NULL}] /\ prev \in [Threads -> Cells \cup {NULL}]

---------------------------------------------------------------------------
(* The cells whose locks a thread holds at each point of the code.         *)
HoldsNode(t) ==
  pc[t] \in {"remove_prev", "remove_next", "remove_unlink", "append_read", "append_prev",
             "append_node", "append_link", "evict_next", "evict_unlink",
             "ht_remove", "ht_unlink", "fill", "ht_insert"}
HoldsPrev(t) ==
  pc[t] \in {"remove_relock", "remove_next", "remove_unlink", "append_node", "append_link",
             "evict_node", "evict_next", "evict_unlink", "ht_unlink"}
Held(t) ==
  (IF HoldsNode(t) THEN {node[t]} ELSE {})
    \cup (IF HoldsPrev(t) THEN {prev[t]} ELSE {})
    \cup (IF pc[t] \in {"remove_unlink", "evict_unlink"} THEN {lru_next[node[t]]} ELSE {})
    \cup (IF pc[t] = "append_link" THEN {LruTail} ELSE {})

(* Each lock is owned by the thread that the comments on the functions     *)
(* ("node: locked->locked", "unlocked->locked") say holds it, and by none  *)
(* otherwise: no lock is leaked or released twice, whichever way a         *)
(* function is left.                                                       *)
LockDiscipline ==
  /\ \A c \in Cells, t \in Threads : lock[c] = t <=> c \in Held(t)
  /\ \A b \in Buckets, t \in Threads :
       bucket_lock[b] = t <=> pc[t] = "ht_unlink" /\ BucketOf[key[node[t]]] = b

---------------------------------------------------------------------------
(* The nodes that threads hold outside the lists.                          *)
InHand(t) ==
  IF pc[t] \in {"append_read", "append_prev", "append_node", "append_link",
                "ht_remove", "ht_unlink", "fill"}
  THEN {node[t]} ELSE {}

(* Every node is in the pool, in the LRU list or in the hands of one       *)
(* thread: none is lost, and none is handed out twice.                     *)
NodesConserved ==
  /\ Nodes = Listed(PoolHead) \cup Listed(LruHead) \cup UNION {InHand(t) : t \in Threads}
  /\ Listed(PoolHead) \cap Listed(LruHead) = {}
  /\ \A t \in Threads :
       /\ InHand(t) \cap (Listed(PoolHead) \cup Listed(LruHead)) = {}
       /\ \A u \in Threads \ {t} : InHand(t) \cap InHand(u) = {}

(* Both lists read the same in both directions and end at their sentinels, *)
(* in every state: the threads that write two neighbouring links exclude   *)
(* one another.  (What the debug code of lruRemoveNode and                 *)
(* listInsertBefore looks for.)                                            *)
ListsAreDouble ==
  /\ \A c \in Cells : lru_next[c] # NULL => lru_prev[lru_next[c]] = c
  /\ \A c \in Cells : lru_prev[c] # NULL => lru_next[lru_prev[c]] = c
  /\ \A head \in {LruHead, PoolHead} :
       WalkFrom(head)[Cardinality(Listed(head)) + 1] = LastOf(head)

(* A node is in a chain exactly when its flag says so, in the chain of its *)
(* key and only once: htRemove, which hashes the key again, finds it.      *)
ChainsMatchKeys ==
  \A n \in Nodes :
    /\ Cardinality(Positions(n)) = IF ht_flag[n] THEN 1 ELSE 0
    /\ \A p \in Positions(n) : BucketOf[key[n]] = p[1]

(* What assertIsCoherent says holds whenever no call is running.           *)
CoherentBetweenCalls == (\A t \in Threads : pc[t] = "idle") => AssertIsCoherent

(* The same of every node nobody has locked, at any time: one in the pool  *)
(* has neither flag, any other has both and is in the LRU list.            *)
(* The checks of the flag after a wait in lruRemoveNode rely on it.        *)
UnlockedIsCoherent ==
  \A n \in Nodes : Free(n) =>
    IF n \in Listed(PoolHead) THEN ~lru_flag[n] /\ ~ht_flag[n]
    ELSE lru_flag[n] /\ ht_flag[n] /\ n \in Listed(LruHead)

(* What the code's lists, chains and flags are meant to be, together.      *)
StructureIsSound ==
  /\ NodesConserved /\ ListsAreDouble /\ ChainsMatchKeys
  /\ UnlockedIsCoherent /\ CoherentBetweenCalls

---------------------------------------------------------------------------
(* The cell whose lock a thread waits for, blocked.                        *)
Wanted(t) ==
  CASE pc[t] \in {"find_lock", "remove_relock", "remove_again", "evict_node"} -> node[t]
    [] pc[t] \in {"remove_wait", "append_prev", "evict_prev"} -> prev[t]
    [] pc[t] \in {"remove_next", "evict_next"} -> lru_next[node[t]]
    [] pc[t] = "append_node" -> LruTail
    [] OTHER -> NULL
WaitsFor(t) == IF Wanted(t) = NULL THEN {} ELSE {lock[Wanted(t)]} \ {NULL}

(* Blocking locks never wait for one another in a circle: a thread that    *)
(* locks a cell while it holds another goes forward along the list, or     *)
(* holds a node that is in no list.                                        *)
NoBlockingCycle ==
  \A S \in (SUBSET Threads) \ {{}} :
    \E t \in S : WaitsFor(t) \cap S = {}

---------------------------------------------------------------------------
(* htFind compares keys of nodes it has not locked: a key changes only     *)
(* while its node is in no chain and in no list.                           *)
KeysChangeInHand ==
  [][\A n \in Nodes : key'[n] # key[n] => Positions(n) = {} /\ lru_next[n] = NULL]_vars

Successor(n) ==
  {chain[p[1]][p[2] + 1] : p \in {q \in Positions(n) : q[2] < Len(chain[q[1]])}}
Word(n) == <<lru_flag[n], ht_flag[n], Successor(n)>>

(* The flags, the chain link and the lock bit of a node share a word that  *)
(* is written by load and store: only the owner of the lock writes it.     *)
WordsChangeUnderLock ==
  [][\A n \in Nodes : Word(n)' # Word(n) =>
       lock[n] # NULL /\ pc'[lock[n]] # pc[lock[n]]]_vars

(* Together: what a thread reads of a node it has locked stays.            *)
NodesChangeUnderLock == KeysChangeInHand /\ WordsChangeUnderLock

---------------------------------------------------------------------------
(* evictLeastRecentlyUsed retries htRemove because the node before its own *)
(* is locked only while "it may be being simultaneously evicted by another *)
(* thread": the retries end.                                               *)
RetriesEnd == \A t \in Threads : pc[t] = "ht_remove" ~> pc[t] # "ht_remove"
---------------------------------------------------------------------------
OrderOf(head) == [i \in 1 .. Cardinality(Listed(head)) |-> WalkFrom(head)[i]]
Queue == INSTANCE LruQueue WITH
  queue  <- OrderOf(LruHead),
  unused <- OrderOf(PoolHead),
  hand   <- [t \in Threads |-> IF InHand(t) = {} THEN NULL ELSE node[t]]

(* Whatever the threads do to the LRU list at the same time, it behaves as *)
(* a queue: the node evicted is the least recent one, a node taken out or  *)
(* put back neither loses another nor changes the order of the rest.       *)
ImplementsQueue == Queue!Spec
=============================================================================
