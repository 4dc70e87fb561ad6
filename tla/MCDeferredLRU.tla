--------------------------- MODULE MCDeferredLRU ---------------------------
(***************************************************************************)
(* Instances of DeferredLRU for TLC: a cache of four nodes, the fewest     *)
(* allocateMemory accepts, with two buckets in use.  A cold cache starts   *)
(* from Init; a warm one starts as Warm misses of one thread leave it, on  *)
(* the keys of WarmKeys in turn.  The threads then make the calls of a     *)
(* workload, as the threads of a trace benchmark do: for each thread, the  *)
(* keys each of its calls may ask for.                                     *)
(***************************************************************************)
EXTENDS DeferredLRURefinement, Sequences, TLC

CONSTANTS
  t1, t2, t3, n1, n2, n3, n4, k1, k2, k3, k4, k5, k6, b1, b2,
  Warm,            \* how many nodes are in use at the start
  Workloads        \* what the threads may be going to ask for

MCNodeAt == <<n1, n2, n3, n4>>
MCBucketOf == k1 :> b1 @@ k2 :> b2 @@ k3 :> b1 @@ k4 :> b2 @@ k5 :> b1 @@ k6 :> b2
MCLockOf == b1 :> 0 @@ b2 :> 1
WarmKeys == <<k1, k2, k3, k4>>

AnyKey == {k1, k2, k3, k4, k5}
TwoCallsEach == { t1 :> <<AnyKey, AnyKey>> @@ t2 :> <<AnyKey, AnyKey>> }
(* t1 fills the cache, then calls at will; t2 makes no call.               *)
FillThenCall ==
  { t1 :> <<{k1}, {k2}, {k3}, {k4}, AnyKey, AnyKey, AnyKey, AnyKey, AnyKey, AnyKey>> @@ t2 :> <<>> }
(* Both threads hit, then miss.                                            *)
HitsThenMisses == { t1 :> <<{k1}, {k5}>> @@ t2 :> <<{k2}, {k3}, {k6}>> }
(* t1 hits, then misses; t2 hits every other node.                         *)
HitsThenMiss == { t1 :> <<{k1}, {k5}>> @@ t2 :> <<{k2}, {k3}, {k4}>> }

NodeSymmetry == Permutations(Nodes)
Symmetry == Permutations(Nodes) \cup Permutations(Threads)

VARIABLES
  workload,
  calls    \* how many calls each thread has begun

allVars == <<vars, workload, calls>>

WarmInit ==
  /\ LET used(c) == c \in Nodes /\ IndexOf(c) <= Warm
         NodeOr(i, other) == IF i \in 1 .. Warm THEN NodeAt[i] ELSE other
     IN  /\ key = [n \in Nodes |-> IF used(n) THEN WarmKeys[IndexOf(n)] ELSE NULL]
         /\ chain = [b \in Buckets |->
                       {n \in Nodes : used(n) /\ BucketOf[WarmKeys[IndexOf(n)]] = b}]
         /\ lru_next = [c \in Cells |-> IF c = LruHead THEN NodeOr(Warm, LruTail)
                                        ELSE IF used(c) THEN NodeOr(IndexOf(c) - 1, LruTail)
                                        ELSE NULL]
         /\ lru_prev = [c \in Cells |-> IF c = LruTail THEN NodeOr(1, LruHead)
                                        ELSE IF used(c) THEN NodeOr(IndexOf(c) + 1, LruHead)
                                        ELSE NULL]
         /\ empty_head = IF Warm + 1 \in DOMAIN NodeAt THEN NodeAt[Warm + 1] ELSE NULL
         /\ empty_next = [n \in Nodes |-> IF ~used(n) /\ IndexOf(n) + 1 \in DOMAIN NodeAt
                                          THEN NodeAt[IndexOf(n) + 1] ELSE NULL]
  /\ empty_marked = FALSE
  /\ bucket_lock = [l \in BucketLocks |-> NULL]
  /\ recent_next = [n \in Nodes |-> NULL] /\ recent_head = Dummy /\ recent_count = 0
  /\ pull_request = FALSE /\ purge_request = FALSE
  /\ lru_lock = NULL
  /\ pc = [t \in Threads |-> "idle"]
  /\ req = [t \in Threads |-> NULL]
  /\ node = [t \in Threads |-> NULL]
  /\ cnext = [t \in Threads |-> NULL]
  /\ cursor = NULL /\ resume = NULL /\ quota = 0 /\ second = FALSE /\ last = NULL

Call(t) ==
  /\ calls[t] < Len(workload[t])
  /\ calls' = [calls EXCEPT ![t] = @ + 1]
  /\ \E k \in workload[t][calls'[t]] : FindMiss(t, k) \/ FindRecent(t, k) \/ FindUnmarked(t, k)
  /\ UNCHANGED workload

Finished ==
  /\ \A t \in Threads : pc[t] = "idle" /\ calls[t] = Len(workload[t])
  /\ UNCHANGED allVars

CallNext ==
  \/ \E t \in Threads : Call(t)
  \/ \E t \in Threads : (Proceed(t) \/ TakeFails(t)) /\ UNCHANGED <<workload, calls>>
  \/ Finished

Start == workload \in Workloads /\ calls = [t \in Threads |-> 0]
WarmStart == WarmInit /\ Start
(* From the cold cache one thread works alone, to its end.                 *)
ColdStart == Init /\ workload \in FillThenCall /\ calls = [t \in Threads |-> 0]

WarmSpec == WarmStart /\ [][CallNext]_allVars
FairWarmSpec == WarmSpec /\ Fairness
FairStartSpec == (WarmStart \/ ColdStart) /\ [][CallNext]_allVars /\ Fairness

---------------------------------------------------------------------------
(* A call of a thread that works alone returns: its misses find a node in  *)
(* the end, although nobody else purges or pulls for it.                   *)
AloneReturns ==
  \A t \in Threads :
    pc[t] # "idle" /\ (\A u \in Threads \ {t} : workload[u] = <<>>) ~> pc[t] = "idle"
=============================================================================
