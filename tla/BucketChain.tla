---------------------------- MODULE BucketChain ----------------------------
(***************************************************************************)
(* The bucket chains of DeferredLRU (src/src/containers/deferred_lru.h):   *)
(* singly linked, sorted by key, each under a lock it may share with other *)
(* buckets.  DeferredLRU.tla takes a chain for the set of its nodes; here  *)
(* every load and store of a link is an action.                            *)
(*                                                                         *)
(* Removals come from the holder of lru_lock_, one at a time, and are      *)
(* those of nodes that are not marked recent.  stored is history: the      *)
(* nodes added and not removed, by the order of the unlocks.               *)
(***************************************************************************)
EXTENDS Integers, FiniteSets

CONSTANTS
  Threads, Nodes, Keys,
  Buckets,
  BucketOf,      \* keyToBucketNr
  Locks,         \* the indices of bucket_locks_
  LockOf,        \* bucket_nr & bucketLockIndexMask()
  NULL

ASSUME ConstantsAssumption ==
  /\ Keys \subseteq Nat
  /\ IsFiniteSet(Nodes)
  /\ BucketOf \in [Keys -> Buckets]
  /\ LockOf \in [Buckets -> Locks]
  /\ Nodes \cap Buckets = {}
  /\ NULL \notin Nodes \cup Threads \cup Buckets

VARIABLES
  key,           \* of each node
  bucket_next,   \* of each node and bucket head
  lock,          \* the owner of each lock
  stored,
  pc,
  op,            \* the call: its kind, the key and the node it is about
  current, next, \* its local variables, current being the bucket for none
  answer         \* what the last call of each thread returned

vars == <<key, bucket_next, lock, stored, pc, op, current, next, answer>>

Idle == [kind |-> "none", key |-> 0, node |-> NULL]

Init ==
  /\ key \in [Nodes -> Keys]
  /\ bucket_next = [c \in Nodes \cup Buckets |-> NULL]
  /\ lock = [l \in Locks |-> NULL]
  /\ stored = {}
  /\ pc = [t \in Threads |-> "idle"]
  /\ op = [t \in Threads |-> Idle]
  /\ current = [t \in Threads |-> NULL] /\ next = current
  /\ answer = [t \in Threads |-> NULL]

BucketOfCall(t) == BucketOf[op[t].key]
InUse == stored \cup {op[t].node : t \in Threads}

Begin(t, kind, k, n) ==
  /\ pc[t] = "idle"
  /\ pc' = [pc EXCEPT ![t] = "lock"]
  /\ op' = [op EXCEPT ![t] = [kind |-> kind, key |-> k, node |-> n]]
  /\ answer' = [answer EXCEPT ![t] = NULL]
  /\ UNCHANGED <<bucket_next, lock, stored, current, next>>

Search(t, k) == Begin(t, "search", k, NULL) /\ UNCHANGED key

(* A node out of the empty list gets its key before it is added.           *)
Add(t, k, n) ==
  /\ n \notin InUse
  /\ Begin(t, "add", k, n)
  /\ key' = [key EXCEPT ![n] = k]

RemoveNode(t, n) ==
  /\ \A u \in Threads : op[u].kind # "remove"
  /\ n \in stored
  /\ Begin(t, "remove", key[n], n)
  /\ UNCHANGED key

(* Mutant: the lock is not waited for.                                     *)
LockBarging(t) ==
  LET b == BucketOfCall(t) IN
  /\ pc[t] = "lock"
  /\ lock' = [lock EXCEPT ![LockOf[b]] = t]
  /\ pc' = [pc EXCEPT ![t] = "walk"]
  /\ current' = [current EXCEPT ![t] = b]
  /\ next' = [next EXCEPT ![t] = bucket_next[b]]
  /\ UNCHANGED <<key, bucket_next, stored, op, answer>>

Lock(t) ==
  LET b == BucketOfCall(t) IN
  /\ pc[t] = "lock" /\ lock[LockOf[b]] = NULL
  /\ lock' = [lock EXCEPT ![LockOf[b]] = t]
  /\ pc' = [pc EXCEPT ![t] = "walk"]
  /\ current' = [current EXCEPT ![t] = b]
  /\ next' = [next EXCEPT ![t] = bucket_next[b]]
  /\ UNCHANGED <<key, bucket_next, stored, op, answer>>

(* The conditions of the three while loops.                                *)
GoesOn(t) ==
  /\ next[t] # NULL
  /\ CASE op[t].kind \in {"search", "add"} -> op[t].key > key[next[t]]
       [] op[t].kind = "remove"            -> op[t].node # next[t]

Walk(t) ==
  /\ pc[t] = "walk" /\ GoesOn(t)
  /\ current' = [current EXCEPT ![t] = next[t]]
  /\ next' = [next EXCEPT ![t] = bucket_next[next[t]]]
  /\ UNCHANGED <<key, bucket_next, lock, stored, pc, op, answer>>

(* The walk ended at the node of the key, or at the node to remove.        *)
Reached(t) ==
  /\ next[t] # NULL
  /\ IF op[t].kind = "remove" THEN op[t].node = next[t] ELSE op[t].key = key[next[t]]

Return(t, value, nodes) ==
  /\ lock' = [lock EXCEPT ![LockOf[BucketOfCall(t)]] = NULL]
  /\ pc' = [pc EXCEPT ![t] = "idle"]
  /\ op' = [op EXCEPT ![t] = Idle]
  /\ current' = [current EXCEPT ![t] = NULL] /\ next' = [next EXCEPT ![t] = NULL]
  /\ answer' = [answer EXCEPT ![t] = value]
  /\ stored' = nodes
  /\ UNCHANGED key

(* searchBucket returns what the walk reached, removeNodeFromBucket fails  *)
(* without its node, addNodeToBucket with another of the key.              *)
ReturnEarly(t) ==
  /\ pc[t] = "walk" /\ ~GoesOn(t)
  /\ \/ op[t].kind = "search" /\ Return(t, IF Reached(t) THEN next[t] ELSE NULL, stored)
     \/ op[t].kind = "add" /\ Reached(t) /\ Return(t, FALSE, stored)
     \/ op[t].kind = "remove" /\ ~Reached(t) /\ Return(t, FALSE, stored)
  /\ UNCHANGED bucket_next

SetNext(t, c, n) ==
  /\ bucket_next' = [bucket_next EXCEPT ![c] = n]
  /\ UNCHANGED <<key, lock, stored, op, current, next, answer>>

(* The first of addNodeToBucket's stores: the chain ends in a stale link.   *)
LinkPrev(t) ==
  /\ pc[t] = "walk" /\ ~GoesOn(t) /\ op[t].kind = "add" /\ ~Reached(t)
  /\ SetNext(t, current[t], op[t].node)
  /\ pc' = [pc EXCEPT ![t] = "link_next"]

(* Mutant: the second store is left out.                                   *)
LinkNextForgotten(t) ==
  /\ pc[t] = "link_next"
  /\ Return(t, TRUE, stored \cup {op[t].node})
  /\ UNCHANGED bucket_next

LinkNext(t) ==
  /\ pc[t] = "link_next"
  /\ bucket_next' = [bucket_next EXCEPT ![op[t].node] = next[t]]
  /\ Return(t, TRUE, stored \cup {op[t].node})

Unlink(t) ==
  /\ pc[t] = "walk" /\ ~GoesOn(t) /\ op[t].kind = "remove" /\ Reached(t)
  /\ bucket_next' = [bucket_next EXCEPT ![current[t]] = bucket_next[op[t].node]]
  /\ Return(t, TRUE, stored \ {op[t].node})

Call(t) ==
  \/ \E k \in Keys : Search(t, k) \/ \E n \in Nodes : Add(t, k, n)
  \/ \E n \in Nodes : RemoveNode(t, n)

Proceed(t) == Lock(t) \/ Walk(t) \/ ReturnEarly(t) \/ LinkPrev(t) \/ LinkNext(t) \/ Unlink(t)

Next == \E t \in Threads : Call(t) \/ Proceed(t)
Spec == Init /\ [][Next]_vars

---------------------------------------------------------------------------
TypeOK ==
  /\ key \in [Nodes -> Keys]
  /\ bucket_next \in [Nodes \cup Buckets -> Nodes \cup {NULL}]
  /\ lock \in [Locks -> Threads \cup {NULL}]
  /\ stored \subseteq Nodes
  /\ pc \in [Threads -> {"idle", "lock", "walk", "link_next"}]
  /\ op \in [Threads -> [kind : {"none", "search", "add", "remove"}, key : Keys \cup {0},
                         node : Nodes \cup {NULL}]]
  /\ current \in [Threads -> Nodes \cup Buckets \cup {NULL}]
  /\ next \in [Threads -> Nodes \cup {NULL}]
  /\ answer \in [Threads -> Nodes \cup {NULL} \cup BOOLEAN]

(* The nodes that follow the head of bucket b.                             *)
Chain(b) ==
  LET at[i \in 0 .. Cardinality(Nodes)] ==
        IF i = 0 THEN bucket_next[b] ELSE IF at[i - 1] = NULL THEN NULL ELSE bucket_next[at[i - 1]]
  IN  {at[i] : i \in 0 .. Cardinality(Nodes)} \ {NULL}

(* While nobody has the lock of a bucket, its chain is the stored nodes of *)
(* its keys: what DeferredLRU.tla assumes of a chain.  Buckets that share  *)
(* a lock do not mix, and no node is lost by an insertion in the middle.   *)
ChainIsStored ==
  \A b \in Buckets : lock[LockOf[b]] = NULL =>
                       Chain(b) = {n \in stored : BucketOf[key[n]] = b}

(* Such a chain is sorted without repetitions, on which the early ends of  *)
(* searchBucket and addNodeToBucket rely.                                  *)
ChainIsSorted ==
  \A b \in Buckets : lock[LockOf[b]] = NULL =>
    \A n \in Chain(b) : bucket_next[n] # NULL => key[n] < key[bucket_next[n]]

(* Both, whatever other chains share the lock and whoever holds it.        *)
ChainsAreSound == ChainIsStored /\ ChainIsSorted

WithKey(k) == {n \in stored : key[n] = k}

(* What a call returns is right for the moment of its unlock: a search     *)
(* gets the node of the key if there is one, an addition fails if there is *)
(* one, a removal finds its node.                                          *)
AnswersAreExact ==
  [][\A t \in Threads : pc[t] # "idle" /\ pc'[t] = "idle" =>
       CASE op[t].kind = "search" ->
              IF WithKey(op[t].key) = {} THEN answer'[t] = NULL ELSE answer'[t] \in WithKey(op[t].key)
         [] op[t].kind = "add"    -> answer'[t] = (WithKey(op[t].key) = {})
         [] op[t].kind = "remove" -> answer'[t] = (op[t].node \in stored)]_vars

=============================================================================
