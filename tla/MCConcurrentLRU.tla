-------------------------- MODULE MCConcurrentLRU --------------------------
(***************************************************************************)
(* Instances of ConcurrentLRU for TLC: four nodes and at most four         *)
(* buckets, the fewest allocateMemory accepts with a load factor of one.   *)
(* The cache starts as some misses of one thread on WarmKeys leave it; the *)
(* threads then make the calls of a workload.                              *)
(***************************************************************************)
EXTENDS ConcurrentLRUProperties, TLC

CONSTANTS
  t1, t2, t3, n1, n2, n3, n4, k1, k2, k3, k4, k5, b1, b2, b3,
  Starts       \* how many nodes are in use at the start, and what follows

MCNodeAt == <<n1, n2, n3, n4>>
NewestFirst == <<n4, n3, n2, n1>>
(* Three keys share a bucket; k2 and k4 have one of their own.             *)
MCBucketOf == k1 :> b1 @@ k2 :> b2 @@ k3 :> b1 @@ k4 :> b3 @@ k5 :> b1
WarmKeys == <<k1, k2, k3, k4>>
AnyKey == {k1, k2, k3, k4, k5}
Begin(nodes, w1, w2, w3) == [used |-> nodes, keys |-> t1 :> w1 @@ t2 :> w2 @@ t3 :> w3]

(* Two threads, across the last use of the pool; and three threads on      *)
(* neighbours in the list of the full cache.                               *)
Mixed == { Begin(3, <<AnyKey, AnyKey>>, <<AnyKey, AnyKey>>, <<>>),
           Begin(4, <<{k2}>>, <<{k3}>>, <<{k4, k5}>>) }
(* One thread fills the cache and goes on.                                 *)
FillThenCall == Begin(0, <<{k1}, {k2}, {k3}, {k4}, AnyKey, AnyKey, AnyKey>>, <<>>, <<>>)
(* t1 hits nodes that are alone in their bucket, while t2 evicts.          *)
HitsAndMisses == Begin(4, <<{k2, k4}, {k2, k4}>>, <<{k5}, {k1, k2, k3, k4}>>, <<>>)
Apart == {FillThenCall, HitsAndMisses}
All == Mixed \cup Apart
(* t1 hits; t2 hits the eldest node and then misses until it is evicted.   *)
HitAndMisses == { Begin(4, <<{k3}>>, <<{k1}, {k5}, {k2}, {k4}>>, <<>>) }

NodeSymmetry == Permutations(Nodes)

VARIABLES
  start,
  calls        \* how many calls each thread has begun

allVars == <<vars, start, calls>>

(* The pool gives its nodes out in order, and the LRU list keeps it.       *)
WarmInit ==
  LET Warm == start.used
      used == {NodeAt[i] : i \in 1 .. Warm}
      keyOf(n) == WarmKeys[CHOOSE i \in 1 .. Warm : NodeAt[i] = n]
      pool == <<PoolHead>> \o SubSeq(NodeAt, Warm + 1, Len(NodeAt)) \o <<PoolTail>>
      list == <<LruHead>> \o SubSeq(NodeAt, 1, Warm) \o <<LruTail>>
      next(s, c) == {s[i + 1] : i \in {j \in 1 .. Len(s) - 1 : s[j] = c}}
      before(s, c) == {s[i - 1] : i \in {j \in 2 .. Len(s) : s[j] = c}}
      only(S) == IF S = {} THEN NULL ELSE CHOOSE x \in S : TRUE
  IN  /\ key = [n \in Nodes |-> IF n \in used THEN keyOf(n) ELSE NULL]
      /\ lru_flag = [n \in Nodes |-> n \in used] /\ ht_flag = lru_flag
      /\ lru_next = [c \in Cells |-> only(next(pool, c) \cup next(list, c))]
      /\ lru_prev = [c \in Cells |-> only(before(pool, c) \cup before(list, c))]
      /\ lock = [c \in Cells |-> NULL]
      /\ chain = [b \in Buckets |->
                    SelectSeq(NewestFirst, LAMBDA n : n \in used /\ BucketOf[keyOf(n)] = b)]
      /\ bucket_lock = [b \in Buckets |-> NULL]
      /\ pc = [t \in Threads |-> "idle"]
      /\ req = [t \in Threads |-> NULL] /\ hit = [t \in Threads |-> FALSE]
      /\ node = [t \in Threads |-> NULL] /\ prev = [t \in Threads |-> NULL]

Call(t) ==
  /\ calls[t] < Len(start.keys[t])
  /\ calls' = [calls EXCEPT ![t] = @ + 1]
  /\ \E k \in start.keys[t][calls'[t]] : Find(t, k)
  /\ UNCHANGED start

Finished ==
  /\ \A t \in Threads : pc[t] = "idle" /\ calls[t] = Len(start.keys[t])
  /\ UNCHANGED allVars

CallNext ==
  \/ \E t \in Threads : Call(t)
  \/ \E t \in Threads : Proceed(t) /\ UNCHANGED <<start, calls>>
  \/ Finished

WarmStart == start \in Starts /\ calls = [t \in Threads |-> 0] /\ WarmInit

WarmSpec == WarmStart /\ [][CallNext]_allVars
FairWarmSpec == WarmSpec /\ Fairness

---------------------------------------------------------------------------
(* As long as no thread hits a node whose bucket another one evicts from,  *)
(* every call returns.                                                     *)
CallsApartReturn ==
  \A t \in Threads : pc[t] # "idle" /\ start \in Apart ~> pc[t] = "idle"
=============================================================================
