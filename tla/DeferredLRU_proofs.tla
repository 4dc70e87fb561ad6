------------------------- MODULE DeferredLRU_proofs -------------------------
(***************************************************************************)
(* Theorems about DeferredLRU for any number of threads, nodes, keys and   *)
(* buckets: the locks first, then the structure, that is, who owns each    *)
(* node, and what its three lists hold.  The invariants speak of lists by  *)
(* the sets of nodes they hold (HasChain); that the walks along the links  *)
(* find those sets comes last, and then that the cache implements          *)
(* CacheSpec.                                                              *)
(***************************************************************************)
EXTENDS DeferredLRURefinement, ListLemmas, TLAPS

(* The types of what the locks are used through.                           *)
LockTypeOK ==
  /\ bucket_lock \in [BucketLocks -> Threads \cup {NULL}]
  /\ lru_lock \in Threads \cup {NULL}
  /\ pc \in [Threads -> PcValues]
  /\ req \in [Threads -> Keys \cup {NULL}]

(* A thread under way knows its key, so it unlocks the bucket it locked.   *)
KeyAsked == \A t \in Threads : pc[t] # "idle" => req[t] \in Keys

LockInv == LockTypeOK /\ KeyAsked /\ LockDiscipline

(* The lock of a key is a bucket lock.                                     *)
LEMMA LockForType == \A k \in Keys : LockFor(k) \in BucketLocks
  BY ConstantsAssumption DEF LockFor, BucketLocks

(* The lock invariant holds at the start.                                  *)
LEMMA LockInit == Init => LockInv
  BY ConstantsAssumption
  DEF Init, LockInv, LockTypeOK, KeyAsked, LockDiscipline, HoldsLru, HoldsBucket, PcValues

(* A step inside one phase of a call keeps the locks as they are.          *)
LEMMA PhaseStep ==
  ASSUME NEW t \in Threads, NEW from, NEW to \in PcValues, LockInv,
         Step(t, from, to), from # "idle",
         from \in HoldsLru <=> to \in HoldsLru,
         to \in HoldsBucket => from \in HoldsBucket,
         UNCHANGED <<bucket_lock, lru_lock, req>>
  PROVE  LockInv'
  BY DEF Step, Goto, LockInv, LockTypeOK, KeyAsked, LockDiscipline, LockFor

(* A step that moves no lock keeps the invariant.                          *)
LEMMA StillStep ==
  ASSUME LockInv, UNCHANGED <<bucket_lock, lru_lock, pc, req>>
  PROVE  LockInv'
  BY DEF LockInv, LockTypeOK, KeyAsked, LockDiscipline, LockFor

(* The last step of a call moves no lock and forgets the key.              *)
LEMMA EndStep ==
  ASSUME NEW t \in Threads, LockInv, pc[t] # "idle", pc[t] \notin HoldsLru,
         pc' = [pc EXCEPT ![t] = "idle"], req' = [req EXCEPT ![t] = NULL],
         UNCHANGED <<bucket_lock, lru_lock>>
  PROVE  LockInv'
  BY DEF LockInv, LockTypeOK, KeyAsked, LockDiscipline, LockFor, HoldsLru, HoldsBucket, PcValues

(* A call returns without a lock.                                          *)
LEMMA ReturnStep ==
  ASSUME NEW t \in Threads, LockInv, pc[t] # "idle", pc[t] \notin HoldsLru, Return(t),
         UNCHANGED <<bucket_lock, lru_lock>>
  PROVE  LockInv'
<1>1. CASE node[t] = NULL
  BY <1>1, PhaseStep DEF Return, Step, locals, HoldsLru, HoldsBucket, PcValues
<1>2. CASE node[t] # NULL
  BY <1>2, EndStep DEF Return, Goto
<1> QED BY <1>1, <1>2

(* Every step keeps the lock invariant.                                    *)
LEMMA LockNext == LockInv /\ [Next]_vars => LockInv'
<1> SUFFICES ASSUME LockInv, [Next]_vars PROVE LockInv'
  OBVIOUS
<1> USE DEF shared, table, locals
<1>0. CASE UNCHANGED vars
  BY <1>0 DEF vars, LockInv, LockTypeOK, KeyAsked, LockDiscipline, LockFor
<1>1. ASSUME NEW t \in Threads, NEW k \in Keys, FindMiss(t, k) \/ FindRecent(t, k)
      PROVE  LockInv'
  BY <1>1 DEF FindMiss, FindRecent, Step, Goto, LockInv, LockTypeOK, KeyAsked,
    LockDiscipline, LockFor, HoldsLru, HoldsBucket, PcValues
<1>2. ASSUME NEW t \in Threads, NEW k \in Keys, FindUnmarked(t, k)
      PROVE  LockInv'
  BY <1>2, LockForType, ConstantsAssumption DEF FindUnmarked, Step, Goto, BucketFree, LockInv, LockTypeOK,
    KeyAsked, LockDiscipline, LockFor, HoldsLru, HoldsBucket, PcValues
<1>3. ASSUME NEW t \in Threads, MarkCas(t) PROVE LockInv'
  BY <1>3 DEF MarkCas, Goto, LockInv, LockTypeOK, KeyAsked, LockDiscipline, LockFor,
    HoldsLru, HoldsBucket, PcValues
<1>4. ASSUME NEW t \in Threads, CountRecent(t) PROVE LockInv'
  BY <1>4, LockForType DEF CountRecent, Step, Goto, LockInv, LockTypeOK, KeyAsked, LockDiscipline,
    LockFor, HoldsLru, HoldsBucket, PcValues
<1>5. ASSUME NEW t \in Threads, CheckThreshold(t) PROVE LockInv'
  <2>1. Step(t, "threshold", "request_pull") \/ Return(t)
    BY <1>5 DEF CheckThreshold, Step
  <2> QED BY <1>5, <2>1, PhaseStep, ReturnStep DEF CheckThreshold, HoldsLru, HoldsBucket, PcValues
<1>6. ASSUME NEW t \in Threads, TryLock(t) PROVE LockInv'
  <2>1. CASE lru_lock = NULL
    BY <1>6, <2>1, ConstantsAssumption DEF TryLock, Goto, LockInv, LockTypeOK, KeyAsked, LockDiscipline, LockFor,
      HoldsLru, HoldsBucket, PcValues
  <2>2. CASE lru_lock # NULL
    BY <1>6, <2>2, ReturnStep DEF TryLock, HoldsLru
  <2> QED BY <2>1, <2>2
<1>7. ASSUME NEW t \in Threads, Unlock(t) PROVE LockInv'
  BY <1>7, ConstantsAssumption DEF Unlock, Return, Goto, LockInv, LockTypeOK, KeyAsked, LockDiscipline, LockFor,
    HoldsLru, HoldsBucket, PcValues
<1>8. ASSUME NEW t \in Threads, Publish(t) \/ DropCas(t) PROVE LockInv'
  BY <1>8, EndStep DEF Publish, DropCas, Step, Goto, HoldsLru
<1>9. ASSUME NEW t \in Threads, RequestPull(t) PROVE LockInv'
  BY <1>9, PhaseStep DEF RequestPull, HoldsLru, HoldsBucket, PcValues
<1>10. ASSUME NEW t \in Threads, RequestPurge(t) PROVE LockInv'
  BY <1>10, PhaseStep DEF RequestPurge, HoldsLru, HoldsBucket, PcValues
<1>11. ASSUME NEW t \in Threads, Allocate(t) PROVE LockInv'
  <2>1. Step(t, "allocate", "request_purge") \/ Step(t, "allocate", "take")
    BY <1>11 DEF Allocate, Step
  <2> QED BY <1>11, <2>1, PhaseStep, StillStep DEF Allocate, HoldsLru, HoldsBucket, PcValues
<1>12. ASSUME NEW t \in Threads, Take(t) PROVE LockInv'
  BY <1>12, PhaseStep DEF Take, HoldsLru, HoldsBucket, PcValues
<1>13. ASSUME NEW t \in Threads, TakeFails(t) PROVE LockInv'
  BY <1>13, PhaseStep DEF TakeFails, HoldsLru, HoldsBucket, PcValues
<1>14. ASSUME NEW t \in Threads, AddBucket(t) PROVE LockInv'
  <2>1. Step(t, "add_bucket", "drop") \/ Step(t, "add_bucket", "link")
    BY <1>14 DEF AddBucket, Step
  <2> QED BY <1>14, <2>1, PhaseStep, StillStep DEF AddBucket, HoldsLru, HoldsBucket, PcValues
<1>15. ASSUME NEW t \in Threads, Drop(t) PROVE LockInv'
  BY <1>15, PhaseStep DEF Drop, HoldsLru, HoldsBucket, PcValues
<1>16. ASSUME NEW t \in Threads, DropRetry(t) PROVE LockInv'
  BY <1>16, PhaseStep DEF DropRetry, HoldsLru, HoldsBucket, PcValues
<1>17. ASSUME NEW t \in Threads, Link(t) PROVE LockInv'
  BY <1>17, PhaseStep DEF Link, LinkLoad, HoldsLru, HoldsBucket, PcValues
<1>18. ASSUME NEW t \in Threads, LinkCas(t) PROVE LockInv'
  <2>1. Step(t, "link_cas", "link_back") \/ UNCHANGED pc
    BY <1>18 DEF LinkCas, LinkSwap, Step
  <2> QED BY <1>18, <2>1, PhaseStep, StillStep DEF LinkCas, LinkSwap, HoldsLru, HoldsBucket, PcValues
<1>19. ASSUME NEW t \in Threads, LinkBack(t) PROVE LockInv'
  BY <1>19, PhaseStep DEF LinkBack, LinkPrev, HoldsLru, HoldsBucket, PcValues
<1>20. ASSUME NEW t \in Threads, FirstPurge(t) PROVE LockInv'
  <2>1. Step(t, "first_purge", "purge") \/ Step(t, "first_purge", "pull")
    BY <1>20 DEF FirstPurge, Step
  <2> QED BY <1>20, <2>1, PhaseStep, StillStep DEF FirstPurge, HoldsLru, HoldsBucket, PcValues
<1>21. ASSUME NEW t \in Threads, SecondPurge(t) PROVE LockInv'
  <2>1. Step(t, "second_purge", "purge") \/ Step(t, "second_purge", "unlock")
    BY <1>21 DEF SecondPurge, Step
  <2> QED BY <1>21, <2>1, PhaseStep, StillStep DEF SecondPurge, HoldsLru, HoldsBucket, PcValues
<1>22. ASSUME NEW t \in Threads, PurgeEnd(t) PROVE LockInv'
  <2>1. Step(t, "purge", "purge_done") \/ Step(t, "purge", "pull")
    BY <1>22 DEF PurgeEnd, Step
  <2> QED BY <1>22, <2>1, PhaseStep, StillStep DEF PurgeEnd, HoldsLru, HoldsBucket, PcValues
<1>23. ASSUME NEW t \in Threads, PurgeSkip(t) PROVE LockInv'
  <2>1. UNCHANGED pc
    BY <1>23 DEF PurgeSkip, Step
  <2> QED BY <1>23, <2>1, PhaseStep, StillStep DEF PurgeSkip, HoldsLru, HoldsBucket, PcValues
<1>24. ASSUME NEW t \in Threads, PurgeTry(t) PROVE LockInv'
  BY <1>24, PhaseStep DEF PurgeTry, HoldsLru, HoldsBucket, PcValues
<1>25. ASSUME NEW t \in Threads, PurgeBucket(t) PROVE LockInv'
  <2>1. Step(t, "purge_bucket", "purge") \/ Step(t, "purge_bucket", "unlink")
    BY <1>25 DEF PurgeBucket, Step
  <2> QED BY <1>25, <2>1, PhaseStep, StillStep DEF PurgeBucket, HoldsLru, HoldsBucket, PcValues
<1>26. ASSUME NEW t \in Threads, Unlink(t) PROVE LockInv'
  BY <1>26, PhaseStep DEF Unlink, HoldsLru, HoldsBucket, PcValues
<1>27. ASSUME NEW t \in Threads, Dispose(t) PROVE LockInv'
  BY <1>27, PhaseStep DEF Dispose, HoldsLru, HoldsBucket, PcValues
<1>28. ASSUME NEW t \in Threads, DisposeCas(t) PROVE LockInv'
  BY <1>28, PhaseStep DEF DisposeCas, HoldsLru, HoldsBucket, PcValues
<1>29. ASSUME NEW t \in Threads, DisposeRetry(t) PROVE LockInv'
  BY <1>29, PhaseStep DEF DisposeRetry, HoldsLru, HoldsBucket, PcValues
<1>30. ASSUME NEW t \in Threads, PullStart(t) PROVE LockInv'
  <2>1. Step(t, "pull", "reset_count") \/ Step(t, "pull", "second_purge")
    BY <1>30 DEF PullStart, Step
  <2> QED BY <1>30, <2>1, PhaseStep, StillStep DEF PullStart, HoldsLru, HoldsBucket, PcValues
<1>31. ASSUME NEW t \in Threads, ResetCount(t) PROVE LockInv'
  BY <1>31, PhaseStep DEF ResetCount, HoldsLru, HoldsBucket, PcValues
<1>32. ASSUME NEW t \in Threads, PullEnd(t) PROVE LockInv'
  <2>1. Step(t, "pull_node", "pull_done") \/ Step(t, "pull_node", "bulk")
    BY <1>32 DEF PullEnd, Step
  <2> QED BY <1>32, <2>1, PhaseStep, StillStep DEF PullEnd, HoldsLru, HoldsBucket, PcValues
<1>33. ASSUME NEW t \in Threads, PullAtHead(t) PROVE LockInv'
  BY <1>33, PhaseStep DEF PullAtHead, HoldsLru, HoldsBucket, PcValues
<1>34. ASSUME NEW t \in Threads, PullSkip(t) PROVE LockInv'
  BY <1>34, PhaseStep DEF PullSkip, HoldsLru, HoldsBucket, PcValues
<1>35. ASSUME NEW t \in Threads, PullMove(t) PROVE LockInv'
  <2>1. UNCHANGED pc
    BY <1>35 DEF PullMove, Step
  <2> QED BY <1>35, <2>1, PhaseStep, StillStep DEF PullMove, HoldsLru, HoldsBucket, PcValues
<1>36. ASSUME NEW t \in Threads, Bulk(t) PROVE LockInv'
  BY <1>36, PhaseStep DEF Bulk, LinkLoad, HoldsLru, HoldsBucket, PcValues
<1>37. ASSUME NEW t \in Threads, BulkCas(t) PROVE LockInv'
  <2>1. Step(t, "bulk_cas", "bulk_back") \/ UNCHANGED pc
    BY <1>37 DEF BulkCas, LinkSwap, Step
  <2> QED BY <1>37, <2>1, PhaseStep, StillStep DEF BulkCas, LinkSwap, HoldsLru, HoldsBucket, PcValues
<1>38. ASSUME NEW t \in Threads, BulkBack(t) PROVE LockInv'
  BY <1>38, PhaseStep DEF BulkBack, LinkPrev, HoldsLru, HoldsBucket, PcValues
<1>39. ASSUME NEW t \in Threads, PullDone(t) PROVE LockInv'
  BY <1>39, PhaseStep DEF PullDone, HoldsLru, HoldsBucket, PcValues
<1>40. ASSUME NEW t \in Threads, PurgeDone(t) PROVE LockInv'
  BY <1>40, PhaseStep DEF PurgeDone, HoldsLru, HoldsBucket, PcValues
<1> QED BY <1>0, <1>1, <1>2, <1>3, <1>4, <1>5, <1>6, <1>7, <1>8, <1>9, <1>10, <1>11, <1>12, <1>13, <1>14, <1>15, <1>16, <1>17, <1>18, <1>19, <1>20, <1>21, <1>22, <1>23, <1>24, <1>25, <1>26, <1>27, <1>28, <1>29, <1>30, <1>31, <1>32, <1>33, <1>34, <1>35, <1>36, <1>37, <1>38, <1>39, <1>40
  DEF Next, Find, Proceed, Consolidate

(* At most one thread consolidates, and a thread that marks a node holds   *)
(* the lock of its bucket.                                                 *)
THEOREM LocksAreDisciplined == Spec => []LockDiscipline
<1>1. Spec => []LockInv
  BY LockInit, LockNext, PTL DEF Spec
<1> QED BY <1>1, PTL DEF LockInv

---------------------------------------------------------------------------
Holding == {"add_bucket", "drop", "drop_cas"}
Entering == {"link", "link_cas", "link_back", "publish"}
Inserting == Holding \cup Entering
Evicting == {"unlink", "dispose", "dispose_cas"}
Slicing == {"reset_count", "pull_node", "pull_skip"}
Pulling == Slicing \cup {"bulk", "bulk_cas"}

(* Where a thread has no node: it is not in a call, or its call missed.    *)
CallInv == \A t \in Threads : pc[t] \in {"idle", "allocate", "request_purge"} => node[t] = NULL

---------------------------------------------------------------------------
(* The table and the empty list: each node has one owner.                  *)

TableInv ==
  \A b \in Buckets : \A n \in chain[b] :
    /\ key[n] \in Keys /\ BucketOf[key[n]] = b
    /\ \A m \in chain[b] : key[m] = key[n] => m = n

OwnInv ==
  /\ \A t \in Threads :
       /\ pc[t] \in Inserting =>
            node[t] \in Nodes /\ key[node[t]] = req[t] /\ recent_next[node[t]] = Dummy
       /\ pc[t] \in Holding => node[t] \notin Linked
       /\ pc[t] \in Entering => node[t] \in Linked
       /\ pc[t] = "take" => empty_marked /\ node[t] \in Nodes /\ empty_head = node[t]
       /\ pc[t] \in Evicting => cursor \in Nodes /\ cursor \notin Linked
  /\ \A s, t \in Threads :
       /\ pc[s] \in Inserting /\ pc[t] \in Inserting /\ node[s] = node[t] => s = t
       /\ pc[s] = "take" /\ pc[t] = "take" => s = t
       /\ pc[s] \in Holding /\ pc[t] \in Evicting => node[s] # cursor

(* The nodes that nobody has are those of the empty list.                  *)
Works(labels, n) == \E t \in Threads : pc[t] \in labels /\ node[t] = n
Evicted(labels, n) == \E t \in Threads : pc[t] \in labels /\ cursor = n
PoolSet == {n \in Nodes : n \notin Linked /\ ~Works(Holding, n) /\ ~Evicted(Evicting, n)}
PoolInv == HasChain(empty_next, empty_head, NULL, PoolSet)

NodesAreOwned == TableInv /\ OwnInv /\ PoolInv

---------------------------------------------------------------------------
(* The recent list and the slice R of a running pull.                      *)

(* The nodes marked by a finished push.                                    *)
Listed == {n \in Linked : recent_next[n] # NULL /\ ~Works(Entering \cup {"mark"}, n)}

SliceInv(R) ==
  /\ R \subseteq Listed
  /\ HasChain(recent_next, recent_head, Dummy, Listed \ R)
  /\ \A t \in Threads : pc[t] \in Slicing => HasChain(recent_next, cursor, Dummy, R)
  /\ (\A t \in Threads : pc[t] \notin Slicing) => R = {}
  /\ \A t \in Threads : pc[t] = "pull_skip" => cursor # Dummy

HitInv ==
  /\ \A t \in Threads :
       /\ pc[t] \in HoldsBucket => node[t] \in chain[BucketOf[req[t]]] /\ key[node[t]] = req[t]
       /\ pc[t] = "mark" => recent_next[node[t]] # NULL
  /\ \A s, t \in Threads :
       pc[s] = "mark" /\ pc[t] \in Entering \cup {"mark"} /\ node[s] = node[t] => s = t

---------------------------------------------------------------------------
(* The LRU list and the sublist P of a running pull.                       *)

OnLru == {n \in Nodes : \/ n \in Linked /\ ~Works({"link", "link_cas"}, n)
                        \/ Evicted({"unlink"}, n)}

(* A thread has still to store the back link of d.                         *)
Awaited(d) == \E t \in Threads : pc[t] \in {"link_back", "bulk_back"} /\ cnext[t] = d

BackInv(S) == \A c \in S \cup {LruHead} :
  lru_prev[lru_next[c]] = IF Awaited(lru_next[c]) THEN LruHead ELSE c

(* What a thread knows that links a node or a sublist to the head.         *)
Links(t, P) ==
  /\ pc[t] \in Entering => node[t] \notin P
  /\ pc[t] \in {"link_cas", "link_back", "bulk_cas", "bulk_back"} => cnext[t] # NULL
  /\ pc[t] \in {"link_cas", "link_back"} => lru_next[node[t]] = cnext[t]
  /\ pc[t] = "link_cas" => lru_prev[node[t]] = LruHead
  /\ pc[t] \in {"bulk_cas", "bulk_back"} => lru_next[last] = cnext[t]
  /\ pc[t] = "bulk_back" => last \in OnLru /\ ~Works(Entering, last)

(* P from its last node back to its first: end is before the first.        *)
IsSublist(P, end) ==
  /\ lru_next[TempHead] \in P /\ last \in P /\ lru_prev[lru_next[TempHead]] = end
  /\ HasChain(lru_prev, last, end, P)
  /\ \A n \in P : n # lru_next[TempHead] => lru_prev[n] \in P /\ lru_next[lru_prev[n]] = n

Moving(t, P) ==
  /\ pc[t] \in Pulling => last # NULL
  /\ pc[t] = "reset_count" => last = TempHead
  /\ pc[t] \in {"bulk", "bulk_cas"} => last # TempHead
  /\ pc[t] \in Pulling /\ last = TempHead => P = {}
  /\ pc[t] \in Pulling /\ last # TempHead =>
       IsSublist(P, IF pc[t] = "bulk_cas" THEN LruHead ELSE TempHead)

ListInv(P) ==
  /\ P \subseteq OnLru
  /\ HasChain(lru_next, lru_next[LruHead], LruTail, OnLru \ P)
  /\ BackInv(OnLru \ P)
  /\ \A t \in Threads : Links(t, P) /\ Moving(t, P)
  /\ (\A t \in Threads : pc[t] \notin Pulling) => P = {}

(* What the purging thread knows of the nodes it looks at.                 *)
Sweeping == {"purge", "purge_bucket"} \cup Evicting
Sweeps(t) ==
  /\ pc[t] = "purge" => cursor \in OnLru \cup {LruHead}
  /\ pc[t] \in {"purge_bucket", "unlink"} => cursor \in OnLru /\ lru_prev[cursor] # LruHead
  /\ pc[t] \in {"purge_bucket"} \cup Evicting => resume \in OnLru /\ resume # cursor /\ quota > 0
SweepInv == \A t \in Threads : Sweeps(t)

---------------------------------------------------------------------------
(* The inductive invariant.                                                *)
IInv ==
  /\ TypeOK /\ LockInv /\ CallInv /\ NodesAreOwned /\ HitInv
  /\ SweepInv
  /\ \E P, R \in SUBSET Nodes : SliceInv(R) /\ ListInv(P) /\ R \cap P = {}

---------------------------------------------------------------------------
(* What the assumption on the constants says of the sentinels.             *)

(* Five values that make a set of five are five.                           *)
LEMMA FiveAreDistinct ==
  ASSUME NEW a, NEW b, NEW c, NEW d, NEW e, Cardinality({a, b, c, d, e}) = 5
  PROVE  a # b /\ a # c /\ a # d /\ a # e /\ b # c /\ b # d /\ b # e /\ c # d /\ c # e /\ d # e
<1>1. ASSUME NEW w, NEW x, NEW y, NEW z  PROVE Cardinality({w, x, y, z}) # 5
  <2>1. IsFiniteSet({w}) /\ Cardinality({w}) = 1
    BY FS_Singleton
  <2>2. /\ IsFiniteSet({w} \cup {x})
        /\ Cardinality({w} \cup {x}) = IF x \in {w} THEN 1 ELSE 1 + 1
    BY <2>1, FS_AddElement
  <2>3. /\ IsFiniteSet(({w} \cup {x}) \cup {y})
        /\ \/ Cardinality(({w} \cup {x}) \cup {y}) = Cardinality({w} \cup {x})
           \/ Cardinality(({w} \cup {x}) \cup {y}) = Cardinality({w} \cup {x}) + 1
    BY <2>2, FS_AddElement
  <2>4. \/ Cardinality((({w} \cup {x}) \cup {y}) \cup {z}) = Cardinality(({w} \cup {x}) \cup {y})
        \/ Cardinality((({w} \cup {x}) \cup {y}) \cup {z}) = Cardinality(({w} \cup {x}) \cup {y}) + 1
    BY <2>3, FS_AddElement
  <2>5. (({w} \cup {x}) \cup {y}) \cup {z} = {w, x, y, z}
    OBVIOUS
  <2> QED BY <2>2, <2>3, <2>4, <2>5
<1>2. a # b
  <2>1. a = b => {a, b, c, d, e} = {a, c, d, e}  OBVIOUS
  <2> QED BY <1>1, <2>1
<1>3. a # c
  <2>1. a = c => {a, b, c, d, e} = {a, b, d, e}  OBVIOUS
  <2> QED BY <1>1, <2>1
<1>4. a # d
  <2>1. a = d => {a, b, c, d, e} = {a, b, c, e}  OBVIOUS
  <2> QED BY <1>1, <2>1
<1>5. a # e
  <2>1. a = e => {a, b, c, d, e} = {a, b, c, d}  OBVIOUS
  <2> QED BY <1>1, <2>1
<1>6. b # c
  <2>1. b = c => {a, b, c, d, e} = {a, b, d, e}  OBVIOUS
  <2> QED BY <1>1, <2>1
<1>7. b # d
  <2>1. b = d => {a, b, c, d, e} = {a, b, c, e}  OBVIOUS
  <2> QED BY <1>1, <2>1
<1>8. b # e
  <2>1. b = e => {a, b, c, d, e} = {a, b, c, d}  OBVIOUS
  <2> QED BY <1>1, <2>1
<1>9. c # d
  <2>1. c = d => {a, b, c, d, e} = {a, b, c, e}  OBVIOUS
  <2> QED BY <1>1, <2>1
<1>10. c # e
  <2>1. c = e => {a, b, c, d, e} = {a, b, c, d}  OBVIOUS
  <2> QED BY <1>1, <2>1
<1>11. d # e
  <2>1. d = e => {a, b, c, d, e} = {a, b, c, d}  OBVIOUS
  <2> QED BY <1>1, <2>1
<1> QED BY <1>2, <1>3, <1>4, <1>5, <1>6, <1>7, <1>8, <1>9, <1>10, <1>11

(* No sentinel is another one, or a node.                                  *)
LEMMA Sentinels ==
  /\ NULL # LruHead /\ NULL # LruTail /\ NULL # TempHead /\ NULL # Dummy
  /\ LruHead # LruTail /\ LruHead # TempHead /\ LruHead # Dummy
  /\ LruTail # TempHead /\ LruTail # Dummy /\ TempHead # Dummy
  /\ NULL \notin Nodes /\ LruHead \notin Nodes /\ LruTail \notin Nodes
  /\ TempHead \notin Nodes /\ Dummy \notin Nodes
<1>1. Cardinality({NULL, LruHead, LruTail, TempHead, Dummy}) = 5
  BY ConstantsAssumption
<1>2. Nodes \cap {NULL, LruHead, LruTail, TempHead, Dummy} = {}
  BY ConstantsAssumption
<1> QED BY <1>1, <1>2, FiveAreDistinct

---------------------------------------------------------------------------
(* What a step of the thread t leaves alone.                               *)

(* The locals of the other threads.                                        *)
Others(t) ==
  \A u \in Threads : u # t =>
    pc'[u] = pc[u] /\ req'[u] = req[u] /\ node'[u] = node[u] /\ cnext'[u] = cnext[u]

Keeps(t, labels) == pc'[t] \in labels <=> pc[t] \in labels

(* The steps of one thread.                                                *)
Acts(t) == Find(t) \/ Proceed(t) \/ TakeFails(t)

(* Only one thread is at work on what lru_lock_ protects.                  *)
LEMMA OneHolder ==
  ASSUME LockInv, NEW s \in Threads, NEW t \in Threads, pc[s] \in HoldsLru, pc[t] \in HoldsLru
  PROVE  s = t
  BY DEF LockInv, LockDiscipline

(* A thread that marks a node has locked the bucket of its key, so that a  *)
(* thread that finds the bucket free knows of no such thread.              *)
LEMMA NoneMarks ==
  ASSUME LockInv, HitInv, NEW k \in Keys, BucketFree(k),
         NEW t \in Threads, pc[t] \in HoldsBucket
  PROVE  key[node[t]] # k
<1>1. bucket_lock[LockFor(req[t])] = t /\ key[node[t]] = req[t] /\ t # NULL
  BY ConstantsAssumption DEF LockInv, LockDiscipline, HitInv
<1> QED BY <1>1 DEF BucketFree

---------------------------------------------------------------------------
(* The nodes keep their owners.                                            *)

(* A bucket that loses a node, or gains one with a new key of its own,     *)
(* holds each key once.                                                    *)
LEMMA TableQuiet ==
  ASSUME TableInv, \A b \in Buckets : chain'[b] \subseteq chain[b],
         \A b \in Buckets : \A n \in chain[b] : key'[n] = key[n]
  PROVE  TableInv'
  BY DEF TableInv

(* The owners, when no node changes hands.                                 *)
LEMMA OwnQuiet ==
  ASSUME OwnInv, NEW t \in Threads, Others(t),
         UNCHANGED <<key, chain, empty_head, empty_marked>>,
         pc'[t] \in Inserting \cup {"take"} => node'[t] = node[t] /\ req'[t] = req[t],
         pc'[t] \in Holding => pc[t] \in Holding,
         pc'[t] \in Entering => pc[t] \in Entering,
         pc'[t] \in Evicting => pc[t] \in Evicting,
         pc'[t] = "take" => pc[t] = "take",
         (\E u \in Threads : pc'[u] \in Evicting) => cursor' = cursor,
         \A u \in Threads : pc'[u] \in Inserting => recent_next'[node[u]] = recent_next[node[u]]
  PROVE  OwnInv'
<1>1. Linked' = Linked
  BY DEF Linked
<1>2. \A u \in Threads :
        /\ pc'[u] \in Holding => pc[u] \in Holding /\ node'[u] = node[u] /\ req'[u] = req[u]
        /\ pc'[u] \in Entering => pc[u] \in Entering /\ node'[u] = node[u] /\ req'[u] = req[u]
        /\ pc'[u] = "take" => pc[u] = "take" /\ node'[u] = node[u]
        /\ pc'[u] \in Evicting => pc[u] \in Evicting
  BY DEF Others, Inserting
<1>3. ASSUME NEW u \in Threads
      PROVE  /\ pc'[u] \in Inserting =>
                  node'[u] \in Nodes /\ key'[node'[u]] = req'[u] /\ recent_next'[node'[u]] = Dummy
             /\ pc'[u] \in Holding => node'[u] \notin Linked'
             /\ pc'[u] \in Entering => node'[u] \in Linked'
             /\ pc'[u] = "take" => empty_marked' /\ node'[u] \in Nodes /\ empty_head' = node'[u]
             /\ pc'[u] \in Evicting => cursor' \in Nodes /\ cursor' \notin Linked'
  BY <1>1, <1>2 DEF OwnInv, Inserting
<1>4. ASSUME NEW s \in Threads, NEW u \in Threads
      PROVE  /\ pc'[s] \in Inserting /\ pc'[u] \in Inserting /\ node'[s] = node'[u] => s = u
             /\ pc'[s] = "take" /\ pc'[u] = "take" => s = u
             /\ pc'[s] \in Holding /\ pc'[u] \in Evicting => node'[s] # cursor'
  BY <1>2 DEF OwnInv, Inserting
<1> QED BY <1>3, <1>4, Zenon DEF OwnInv

(* The nodes that nobody has stay the same.                                *)
LEMMA PoolSame ==
  ASSUME NEW t \in Threads, Others(t), UNCHANGED chain,
         Keeps(t, Holding), Keeps(t, Evicting),
         pc[t] \in Holding => node'[t] = node[t],
         (\E u \in Threads : pc[u] \in Evicting) => cursor' = cursor
  PROVE  PoolSet' = PoolSet
<1>1. Linked' = Linked
  BY DEF Linked
<1>2. \A n \in Nodes : Works(Holding, n)' <=> Works(Holding, n)
  BY DEF Works, Others, Keeps
<1>3. \A n \in Nodes : Evicted(Evicting, n)' <=> Evicted(Evicting, n)
  BY DEF Evicted, Others, Keeps
<1> QED BY <1>1, <1>2, <1>3, Zenon DEF PoolSet

(* A step that gives no node to another owner.                             *)
LEMMA OwnedQuiet ==
  ASSUME NodesAreOwned, NEW t \in Threads, Others(t), UNCHANGED <<key, chain, empty>>,
         Keeps(t, Holding), Keeps(t, Evicting),
         pc'[t] \in Entering => pc[t] \in Entering,
         pc'[t] = "take" => pc[t] = "take",
         pc'[t] \in Inserting \cup {"take"} => node'[t] = node[t] /\ req'[t] = req[t],
         (\E u \in Threads : pc[u] \in Evicting) => cursor' = cursor,
         \A u \in Threads : pc'[u] \in Inserting => recent_next'[node[u]] = recent_next[node[u]]
  PROVE  NodesAreOwned'
<1>1. TableInv'
  BY TableQuiet DEF NodesAreOwned
<1>2. \A u \in Threads : pc'[u] \in Inserting => pc[u] \in Inserting
  BY DEF Others, Keeps, Inserting
<1>3. \A u \in Threads : pc'[u] \in Evicting <=> pc[u] \in Evicting
  BY DEF Others, Keeps
<1>4. OwnInv'
  BY <1>2, <1>3, OwnQuiet DEF NodesAreOwned, empty, Keeps
<1>5. PoolSet' = PoolSet
  <2>1. pc[t] \in Holding => node'[t] = node[t]
    BY DEF Keeps, Inserting
  <2> QED BY <2>1, PoolSame
<1>6. PoolInv'
  BY <1>5 DEF NodesAreOwned, PoolInv, empty
<1> QED BY <1>1, <1>4, <1>6 DEF NodesAreOwned

(* disposeNode links the node it gives back, on its own at first.          *)
LEMMA LoadKeepsPool ==
  ASSUME PoolInv, NEW n \in Nodes, n \notin PoolSet, TypeOK, DisposeLoad(n), PoolSet' = PoolSet
  PROVE  PoolInv'
<1>1. empty_head' = empty_head /\ \A m \in PoolSet : empty_next'[m] = empty_next[m]
  BY DEF DisposeLoad, TypeOK, PoolSet
<1>2. HasChain(empty_next', empty_head, NULL, PoolSet)
  BY <1>1, SameChain DEF PoolInv
<1> QED BY <1>1, <1>2 DEF PoolInv

(* The compare-exchange that follows puts it in front of the others.       *)
LEMMA PushKeepsPool ==
  ASSUME PoolInv, NEW n \in Nodes, n \notin PoolSet, DisposePush(n), PoolSet' = PoolSet \cup {n}
  PROVE  PoolInv'
<1>1. empty_next' = empty_next /\ empty_head' = n /\ empty_next[n] = empty_head
  BY DEF DisposePush, DisposeSucceeds
<1>2. HasChain(empty_next, n, NULL, PoolSet \cup {n})
  BY <1>1, Sentinels, PushChain DEF PoolInv
<1> QED BY <1>1, <1>2 DEF PoolInv

(* A taker marks the head of the empty list.                               *)
LEMMA AllocateOwns ==
  ASSUME TypeOK, NodesAreOwned, NEW t \in Threads, Allocate(t)
  PROVE  NodesAreOwned'
<1>1. CASE empty_head = NULL
  BY <1>1, OwnedQuiet DEF Allocate, Goto, TypeOK, Others, Keeps, Holding, Entering,
    Inserting, Evicting, table, recent, empty, sweep
<1>2. CASE empty_head # NULL
  <2>1. /\ pc[t] = "allocate" /\ pc' = [pc EXCEPT ![t] = "take"]
        /\ node' = [node EXCEPT ![t] = empty_head] /\ ~empty_marked /\ empty_marked' = TRUE
        /\ UNCHANGED <<key, chain, empty_next, empty_head, req, cursor, recent_next, cnext>>
    BY <1>2 DEF Allocate, Goto, table, recent, sweep
  <2>2. /\ pc'[t] = "take" /\ node'[t] = empty_head /\ empty_head \in Nodes /\ Others(t)
    BY <1>2, <2>1 DEF TypeOK, Others
  <2>3. TableInv'
    BY <2>1, TableQuiet DEF NodesAreOwned
  <2>4. Linked' = Linked
    BY <2>1 DEF Linked
  <2>5. \A u \in Threads : pc[u] # "take"
    BY <2>1 DEF NodesAreOwned, OwnInv
  <2>6. OwnInv'
    BY <2>1, <2>2, <2>4, <2>5 DEF NodesAreOwned, OwnInv, Others, Holding, Entering, Inserting,
      Evicting
  <2>7. PoolSet' = PoolSet
    BY <2>1, <2>2, PoolSame DEF Keeps, Holding, Evicting
  <2>8. PoolInv'
    BY <2>1, <2>7 DEF NodesAreOwned, PoolInv
  <2> QED BY <2>3, <2>6, <2>8 DEF NodesAreOwned
<1> QED BY <1>1, <1>2

(* It takes the head out of the list, or gives the mark back.              *)
LEMMA TakeOwns ==
  ASSUME TypeOK, LockInv, NodesAreOwned, NEW t \in Threads, Take(t)
  PROVE  NodesAreOwned'
<1> DEFINE n == node[t]
<1>1. /\ pc[t] = "take" /\ pc' = [pc EXCEPT ![t] = "add_bucket"]
      /\ empty_head' = empty_next[n] /\ empty_marked' = FALSE
      /\ empty_next' = [empty_next EXCEPT ![n] = NULL]
      /\ key' = [key EXCEPT ![n] = req[t]]
      /\ recent_next' = [recent_next EXCEPT ![n] = Dummy]
      /\ UNCHANGED <<chain, node, req, cnext, cursor>>
  BY DEF Take, Step, Goto, locals, sweep
<1>2. /\ n \in Nodes /\ empty_head = n /\ Others(t) /\ pc'[t] = "add_bucket"
      /\ \A u \in Threads : u # t => pc[u] # "take"
  BY <1>1 DEF NodesAreOwned, OwnInv, Others, TypeOK
<1>3. /\ key'[n] = req[t] /\ recent_next'[n] = Dummy
      /\ \A m \in Nodes : m # n => key'[m] = key[m] /\ recent_next'[m] = recent_next[m]
      /\ \A m \in Nodes : m # n => empty_next'[m] = empty_next[m]
  BY <1>1, <1>2 DEF TypeOK
<1> HIDE DEF n
<1>4. n \in PoolSet /\ HasChain(empty_next', empty_next[n], NULL, PoolSet \ {n})
  <2>1. HasChain(empty_next, n, NULL, PoolSet) /\ n # NULL
    BY <1>2, Sentinels DEF NodesAreOwned, PoolInv
  <2>2. \A x \in PoolSet \ {n} : empty_next'[x] = empty_next[x]
    BY <1>3 DEF PoolSet
  <2> QED BY <2>1, <2>2, PopChain
<1>5. n \notin Linked /\ ~Works(Holding, n) /\ ~Evicted(Evicting, n)
  BY <1>4 DEF PoolSet
<1>6. Linked' = Linked
  BY <1>1 DEF Linked
<1>7. \A m \in Nodes : Works(Holding, m)' <=> Works(Holding, m) \/ m = n
  BY <1>1, <1>2 DEF Works, Others, Holding, n
<1>8. \A m \in Nodes : Evicted(Evicting, m)' <=> Evicted(Evicting, m)
  BY <1>1, <1>2 DEF Evicted, Others, Evicting
<1>9. PoolSet' = PoolSet \ {n}
  BY <1>2, <1>5, <1>6, <1>7, <1>8 DEF PoolSet
<1>10. PoolInv'
  BY <1>1, <1>4, <1>9 DEF PoolInv
<1>11. TableInv'
  <2>1. \A b \in Buckets : \A m \in chain[b] : m \in Linked /\ m \in Nodes
    BY DEF Linked, TypeOK
  <2>2. \A b \in Buckets : \A m \in chain[b] : key'[m] = key[m]
    BY <1>3, <1>5, <2>1
  <2> QED BY <1>1, <2>2, TableQuiet DEF NodesAreOwned
<1>12. \A u \in Threads : pc[u] \in Inserting => node[u] \in Nodes /\ node[u] # n
  BY <1>5 DEF NodesAreOwned, OwnInv, Works, Inserting
<1>13. \A u \in Threads : pc[u] \in Evicting => cursor # n
  BY <1>5 DEF Evicted
<1>14. OwnInv'
  <2> USE <1>1, <1>2, <1>3, <1>5, <1>6, <1>12, <1>13
  <2>1. ASSUME NEW u \in Threads
        PROVE  /\ pc'[u] \in Inserting => node'[u] \in Nodes /\ key'[node'[u]] = req'[u]
                    /\ recent_next'[node'[u]] = Dummy
               /\ pc'[u] \in Holding => node'[u] \notin Linked'
               /\ pc'[u] \in Entering => node'[u] \in Linked'
               /\ pc'[u] # "take"
               /\ pc'[u] \in Evicting => cursor' \in Nodes /\ cursor' \notin Linked'
    <3>1. CASE u = t
      BY <3>1 DEF n, Inserting, Holding, Entering, Evicting
    <3>2. CASE u # t
      <4>1. pc'[u] = pc[u] /\ node'[u] = node[u] /\ req'[u] = req[u]
        BY <3>2 DEF Others
      <4> QED BY <3>2, <4>1 DEF NodesAreOwned, OwnInv
    <3> QED BY <3>1, <3>2
  <2>2. ASSUME NEW s \in Threads, NEW u \in Threads
        PROVE  /\ pc'[s] \in Inserting /\ pc'[u] \in Inserting /\ node'[s] = node'[u] => s = u
               /\ pc'[s] \in Holding /\ pc'[u] \in Evicting => node'[s] # cursor'
    BY DEF n, NodesAreOwned, OwnInv, Others, Inserting, Holding, Entering, Evicting
  <2> QED BY <2>1, <2>2 DEF OwnInv
<1> QED BY <1>10, <1>11, <1>14 DEF NodesAreOwned

(* The new node comes into the table, or stays with its inserter.          *)
LEMMA AddBucketOwns ==
  ASSUME TypeOK, LockInv, NodesAreOwned, NEW t \in Threads, AddBucket(t)
  PROVE  NodesAreOwned'
<1>1. CASE Found(req[t]) # {}
  <2>1. /\ pc[t] = "add_bucket" /\ pc' = [pc EXCEPT ![t] = "drop"]
        /\ UNCHANGED <<key, chain, empty, node, req, cnext, cursor, recent_next>>
    BY <1>1 DEF AddBucket, Goto, locals, sweep, recent
  <2>2. pc'[t] = "drop" /\ Others(t)
    BY <2>1 DEF TypeOK, Others
  <2> QED BY <2>1, <2>2, OwnedQuiet DEF Keeps, Holding, Entering, Inserting, Evicting
<1>2. CASE Found(req[t]) = {}
  <2> DEFINE n == node[t]
             b == BucketOf[req[t]]
  <2>1. /\ pc[t] = "add_bucket" /\ pc' = [pc EXCEPT ![t] = "link"]
        /\ chain' = [chain EXCEPT ![b] = chain[b] \cup {n}]
        /\ UNCHANGED <<key, empty, node, req, cnext, cursor, recent_next>>
    BY <1>2 DEF AddBucket, Goto, locals, sweep, recent
  <2>2. /\ n \in Nodes /\ n \notin Linked /\ key[n] = req[t] /\ req[t] \in Keys /\ b \in Buckets
        /\ pc'[t] = "link" /\ Others(t) /\ BucketOf[req[t]] = b /\ recent_next[n] = Dummy
    BY <2>1, ConstantsAssumption
    DEF NodesAreOwned, OwnInv, Others, TypeOK, LockInv, KeyAsked, Inserting, Holding
  <2>3. \A c \in Buckets : chain'[c] = IF c = b THEN chain[b] \cup {n} ELSE chain[c]
    BY <2>1, <2>2 DEF TypeOK
  <2>4. \A m \in chain[b] : key[m] # req[t]
    BY <1>2 DEF Found
  <2> HIDE DEF n, b
  <2>5. Linked' = Linked \cup {n}
    BY <2>2, <2>3 DEF Linked
  <2>6. TableInv'
    <3>1. ASSUME NEW c \in Buckets, NEW x \in chain'[c]
          PROVE  /\ key[x] \in Keys /\ BucketOf[key[x]] = c
                 /\ \A m \in chain'[c] : key[m] = key[x] => m = x
      BY <2>2, <2>3, <2>4 DEF NodesAreOwned, TableInv
    <3> QED BY <2>1, <3>1 DEF TableInv
  <2>7. OwnInv'
    <3>1. \A u \in Threads : u # t => (pc[u] \in Inserting => node[u] # n)
      BY <2>1 DEF n, NodesAreOwned, OwnInv, Inserting, Holding
    <3>2. \A u \in Threads : pc[u] \in Evicting => cursor # n
      BY <2>1 DEF n, NodesAreOwned, OwnInv, Holding
    <3>3. ASSUME NEW u \in Threads
          PROVE  /\ pc'[u] \in Inserting => node'[u] \in Nodes /\ key'[node'[u]] = req'[u]
                      /\ recent_next'[node'[u]] = Dummy
                 /\ pc'[u] \in Holding => node'[u] \notin Linked'
                 /\ pc'[u] \in Entering => node'[u] \in Linked'
                 /\ pc'[u] = "take" => empty_marked' /\ node'[u] \in Nodes /\ empty_head' = node'[u]
                 /\ pc'[u] \in Evicting => cursor' \in Nodes /\ cursor' \notin Linked'
      <4>1. CASE u = t
        BY <2>1, <2>2, <2>5, <4>1 DEF n, Inserting, Holding, Entering, Evicting
      <4>2. CASE u # t
        <5>1. pc'[u] = pc[u] /\ node'[u] = node[u] /\ req'[u] = req[u]
          BY <2>2, <4>2 DEF Others
        <5> QED BY <2>1, <2>5, <3>1, <3>2, <4>2, <5>1 DEF NodesAreOwned, OwnInv, empty, Inserting
      <4> QED BY <4>1, <4>2
    <3>4. ASSUME NEW s \in Threads, NEW u \in Threads
          PROVE  /\ pc'[s] \in Inserting /\ pc'[u] \in Inserting /\ node'[s] = node'[u] => s = u
                 /\ pc'[s] = "take" /\ pc'[u] = "take" => s = u
                 /\ pc'[s] \in Holding /\ pc'[u] \in Evicting => node'[s] # cursor'
      BY <2>1, <2>2 DEF NodesAreOwned, OwnInv, Others, Inserting, Holding, Entering, Evicting
    <3> QED BY <3>3, <3>4, Zenon DEF OwnInv
  <2>8. PoolSet' = PoolSet
    <3>1. \A m \in Nodes : Works(Holding, m) <=> Works(Holding, m)' \/ m = n
      BY <2>1, <2>2 DEF Works, Others, Holding, n
    <3>2. \A m \in Nodes : Evicted(Evicting, m)' <=> Evicted(Evicting, m)
      BY <2>1, <2>2 DEF Evicted, Others, Evicting
    <3> QED BY <2>2, <2>5, <3>1, <3>2 DEF PoolSet
  <2>9. PoolInv'
    BY <2>1, <2>8 DEF NodesAreOwned, PoolInv, empty
  <2> QED BY <2>6, <2>7, <2>9 DEF NodesAreOwned
<1> QED BY <1>1, <1>2

(* disposeNode begins: the node that is given back is still held.          *)
LEMMA DropOwns ==
  ASSUME TypeOK, NodesAreOwned, NEW t \in Threads, Drop(t)
  PROVE  NodesAreOwned'
<1>1. /\ pc[t] = "drop" /\ pc' = [pc EXCEPT ![t] = "drop_cas"] /\ DisposeLoad(node[t])
      /\ UNCHANGED <<key, chain, node, req, cnext, cursor, recent_next>>
  BY DEF Drop, Step, Goto, table, locals, sweep, recent
<1>2. pc'[t] = "drop_cas" /\ Others(t)
  BY <1>1 DEF TypeOK, Others
<1>3. node[t] \in Nodes /\ node[t] \notin PoolSet
  BY <1>1 DEF NodesAreOwned, OwnInv, PoolSet, Works, Inserting, Holding
<1>4. UNCHANGED <<empty_head, empty_marked>>
  BY <1>1 DEF DisposeLoad
<1>5. TableInv'
  BY <1>1, TableQuiet DEF NodesAreOwned
<1>6. OwnInv'
  BY <1>1, <1>2, <1>4, OwnQuiet DEF NodesAreOwned, Holding, Entering, Inserting, Evicting
<1>7. PoolSet' = PoolSet
  BY <1>1, <1>2, PoolSame DEF Keeps, Holding, Evicting
<1>8. PoolInv'
  BY <1>1, <1>3, <1>7, LoadKeepsPool DEF NodesAreOwned
<1> QED BY <1>5, <1>6, <1>8 DEF NodesAreOwned

(* It ends: the node is in the empty list.                                 *)
LEMMA DropCasOwns ==
  ASSUME TypeOK, NodesAreOwned, NEW t \in Threads, DropCas(t)
  PROVE  NodesAreOwned'
<1> DEFINE n == node[t]
<1>1. /\ pc[t] = "drop_cas" /\ pc' = [pc EXCEPT ![t] = "idle"] /\ DisposePush(n)
      /\ node' = [node EXCEPT ![t] = NULL] /\ req' = [req EXCEPT ![t] = NULL]
      /\ UNCHANGED <<key, chain, cnext, cursor, recent_next>>
  BY DEF DropCas, Step, Goto, table, sweep, recent
<1>2. pc'[t] = "idle" /\ Others(t)
  BY <1>1 DEF TypeOK, Others
<1>3. n \in Nodes /\ n \notin Linked /\ Works(Holding, n) /\ ~empty_marked
  BY <1>1 DEF NodesAreOwned, OwnInv, Works, Inserting, Holding, DisposePush, DisposeSucceeds
<1>4. \A u \in Threads : pc[u] # "take"
  BY <1>3 DEF NodesAreOwned, OwnInv
<1>5. TableInv'
  BY <1>1, TableQuiet DEF NodesAreOwned
<1>6. Linked' = Linked
  BY <1>1 DEF Linked
<1>7. \A u \in Threads : pc'[u] # "idle" => u # t
  BY <1>2
<1>8. OwnInv'
  BY <1>1, <1>2, <1>4, <1>6, <1>7
  DEF NodesAreOwned, OwnInv, Others, Holding, Entering, Inserting, Evicting
<1>9. PoolSet' = PoolSet \cup {n}
  <2>1. \A m \in Nodes : Works(Holding, m)' <=> Works(Holding, m) /\ m # n
    <3>1. \A u \in Threads : u # t /\ pc[u] \in Holding => node[u] # n
      BY <1>1 DEF NodesAreOwned, OwnInv, Inserting, Holding
    <3> QED BY <1>1, <1>2, <3>1 DEF Works, Others, Holding
  <2>2. \A m \in Nodes : Evicted(Evicting, m)' <=> Evicted(Evicting, m)
    BY <1>1, <1>2 DEF Evicted, Others, Evicting
  <2>3. ~Evicted(Evicting, n)
    BY <1>1 DEF NodesAreOwned, OwnInv, Evicted, Holding
  <2> HIDE DEF n
  <2> QED BY <1>3, <1>6, <2>1, <2>2, <2>3 DEF PoolSet
<1>10. PoolInv'
  <2>1. n \notin PoolSet
    BY <1>3 DEF PoolSet
  <2> HIDE DEF n
  <2> QED BY <1>1, <1>3, <1>9, <2>1, PushKeepsPool DEF NodesAreOwned
<1> QED BY <1>5, <1>8, <1>10 DEF NodesAreOwned

(* The same by the purging thread.                                         *)
LEMMA DisposeOwns ==
  ASSUME TypeOK, NodesAreOwned, NEW t \in Threads, Dispose(t)
  PROVE  NodesAreOwned'
<1>1. /\ pc[t] = "dispose" /\ pc' = [pc EXCEPT ![t] = "dispose_cas"] /\ DisposeLoad(cursor)
      /\ UNCHANGED <<key, chain, node, req, cnext, cursor, recent_next>>
  BY DEF Dispose, Step, Goto, table, locals, sweep, recent
<1>2. pc'[t] = "dispose_cas" /\ Others(t)
  BY <1>1 DEF TypeOK, Others
<1>3. cursor \in Nodes /\ cursor \notin PoolSet
  BY <1>1 DEF NodesAreOwned, OwnInv, PoolSet, Evicted, Evicting
<1>4. UNCHANGED <<empty_head, empty_marked>>
  BY <1>1 DEF DisposeLoad
<1>5. TableInv'
  BY <1>1, TableQuiet DEF NodesAreOwned
<1>6. OwnInv'
  BY <1>1, <1>2, <1>4, OwnQuiet DEF NodesAreOwned, Holding, Entering, Inserting, Evicting
<1>7. PoolSet' = PoolSet
  BY <1>1, <1>2, PoolSame DEF Keeps, Holding, Evicting
<1>8. PoolInv'
  BY <1>1, <1>3, <1>7, LoadKeepsPool DEF NodesAreOwned
<1> QED BY <1>5, <1>6, <1>8 DEF NodesAreOwned

(* And in front of the empty list again.                                   *)
LEMMA DisposeCasOwns ==
  ASSUME TypeOK, LockInv, NodesAreOwned, NEW t \in Threads, DisposeCas(t)
  PROVE  NodesAreOwned'
<1> DEFINE n == cursor
<1>1. /\ pc[t] = "dispose_cas" /\ pc' = [pc EXCEPT ![t] = "purge"] /\ DisposePush(n)
      /\ UNCHANGED <<key, chain, node, req, cnext, recent_next>>
  BY DEF DisposeCas, Step, Goto, table, locals, recent
<1>2. pc'[t] = "purge" /\ Others(t)
  BY <1>1 DEF TypeOK, Others
<1>3. n \in Nodes /\ n \notin Linked /\ Evicted(Evicting, n) /\ ~empty_marked
  BY <1>1 DEF NodesAreOwned, OwnInv, Evicted, Evicting, DisposePush, DisposeSucceeds
<1>4. \A u \in Threads : pc[u] # "take" /\ pc'[u] # "take" /\ pc'[u] \notin Evicting
  <2>1. \A u \in Threads : u # t => pc[u] \notin Evicting
    BY <1>1, OneHolder DEF Evicting, HoldsLru
  <2> QED BY <1>1, <1>2, <1>3, <2>1 DEF NodesAreOwned, OwnInv, Evicting, Others
<1>5. TableInv'
  BY <1>1, TableQuiet DEF NodesAreOwned
<1>6. Linked' = Linked
  BY <1>1 DEF Linked
<1>7. \A u \in Threads : pc'[u] \in Inserting => pc'[u] = pc[u] /\ node'[u] = node[u] /\ req'[u] = req[u]
  BY <1>2 DEF Others, Inserting, Holding, Entering
<1>8. OwnInv'
  BY <1>1, <1>4, <1>6, <1>7 DEF NodesAreOwned, OwnInv, Inserting
<1>9. PoolSet' = PoolSet \cup {n}
  <2>1. \A m \in Nodes : Works(Holding, m)' <=> Works(Holding, m)
    BY <1>1, <1>2 DEF Works, Others, Holding
  <2>2. \A m \in Nodes : ~Evicted(Evicting, m)'
    BY <1>4 DEF Evicted
  <2>3. \A m \in Nodes : Evicted(Evicting, m) => m = n
    BY DEF Evicted
  <2>4. ~Works(Holding, n)
    BY <1>1 DEF NodesAreOwned, OwnInv, Works, Evicting
  <2> HIDE DEF n
  <2> QED BY <1>3, <1>6, <2>1, <2>2, <2>3, <2>4 DEF PoolSet
<1>10. PoolInv'
  <2>1. n \notin PoolSet
    BY <1>3 DEF PoolSet
  <2> HIDE DEF n
  <2> QED BY <1>1, <1>3, <1>9, <2>1, PushKeepsPool DEF NodesAreOwned
<1> QED BY <1>5, <1>8, <1>10 DEF NodesAreOwned

(* The node that the purging thread has chosen is in the table, and in no  *)
(* bucket but its own.                                                     *)
LEMMA ChosenInTable ==
  ASSUME TypeOK, LockInv, NodesAreOwned, SweepInv, NEW t \in Threads, pc[t] = "purge_bucket"
  PROVE  /\ cursor \in Linked /\ cursor \in Nodes /\ key[cursor] \in Keys
         /\ BucketOf[key[cursor]] \in Buckets /\ cursor \in chain[BucketOf[key[cursor]]]
         /\ \A b \in Buckets : cursor \in chain[b] => b = BucketOf[key[cursor]]
         /\ \A u \in Threads : pc[u] \notin Evicting
<1>1. \A u \in Threads : pc[u] \notin Evicting
  BY OneHolder DEF Evicting, HoldsLru
<1>2. cursor \in OnLru
  BY DEF SweepInv, Sweeps
<1>3. cursor \in Linked /\ cursor \in Nodes
  BY <1>1, <1>2 DEF OnLru, Evicted, Evicting
<1>4. PICK b \in Buckets : cursor \in chain[b]
  BY <1>3 DEF Linked
<1> QED BY <1>1, <1>3, <1>4 DEF NodesAreOwned, TableInv

(* The purging thread takes a node out of the table: it is unmarked, so    *)
(* no inserter has it.                                                     *)
LEMMA PurgeBucketOwns ==
  ASSUME TypeOK, LockInv, NodesAreOwned, SweepInv, NEW t \in Threads, PurgeBucket(t)
  PROVE  NodesAreOwned'
<1> DEFINE n == cursor
           b == BucketOf[key[n]]
<1>1. /\ n \in Linked /\ n \in Nodes /\ b \in Buckets /\ n \in chain[b]
      /\ \A c \in Buckets : n \in chain[c] => c = b
      /\ \A u \in Threads : pc[u] \notin Evicting
  BY ChosenInTable DEF PurgeBucket
<1>2. CASE recent_next[n] # NULL
  <2>1. /\ pc[t] = "purge_bucket" /\ pc' = [pc EXCEPT ![t] = "purge"]
        /\ UNCHANGED <<key, chain, empty, node, req, cnext, recent_next>>
    BY <1>2 DEF PurgeBucket, Goto, locals, recent
  <2>2. pc'[t] = "purge" /\ Others(t)
    BY <2>1 DEF TypeOK, Others
  <2> QED BY <1>1, <2>1, <2>2, OwnedQuiet DEF Keeps, Holding, Entering, Inserting, Evicting
<1>3. CASE recent_next[n] = NULL
  <2>1. /\ pc[t] = "purge_bucket" /\ pc' = [pc EXCEPT ![t] = "unlink"]
        /\ chain' = [chain EXCEPT ![b] = chain[b] \ {n}]
        /\ UNCHANGED <<key, empty, node, req, cnext, cursor, recent_next>>
    BY <1>1, <1>3 DEF PurgeBucket, Goto, locals, recent
  <2>2. pc'[t] = "unlink" /\ Others(t)
    BY <2>1 DEF TypeOK, Others
  <2>3. \A c \in Buckets : chain'[c] = IF c = b THEN chain[b] \ {n} ELSE chain[c]
    BY <1>1, <2>1 DEF TypeOK
  <2> HIDE DEF b
  <2>4. Linked' = Linked \ {n}
    BY <1>1, <2>3 DEF Linked
  <2>5. TableInv'
    <3>1. \A c \in Buckets : chain'[c] \subseteq chain[c]
      BY <2>3
    <3> QED BY <2>1, <3>1, TableQuiet DEF NodesAreOwned
  <2>6. \A u \in Threads : pc[u] \in Inserting => node[u] # n
    BY <1>3, Sentinels DEF NodesAreOwned, OwnInv
  <2> HIDE DEF n
  <2>7. OwnInv'
    <3>1. \A u \in Threads : pc'[u] \in Evicting => u = t
      BY <1>1, <2>2 DEF Others
    <3>2. \A u \in Threads : pc'[u] \in Inserting \cup {"take"} =>
            pc'[u] = pc[u] /\ node'[u] = node[u] /\ req'[u] = req[u] /\ u # t
      BY <2>2 DEF Others, Inserting, Holding, Entering
    <3>3. ASSUME NEW u \in Threads
          PROVE  /\ pc'[u] \in Inserting => node'[u] \in Nodes /\ key'[node'[u]] = req'[u]
                      /\ recent_next'[node'[u]] = Dummy
                 /\ pc'[u] \in Holding => node'[u] \notin Linked'
                 /\ pc'[u] \in Entering => node'[u] \in Linked'
                 /\ pc'[u] = "take" => empty_marked' /\ node'[u] \in Nodes /\ empty_head' = node'[u]
                 /\ pc'[u] \in Evicting => cursor' \in Nodes /\ cursor' \notin Linked'
      BY <1>1, <2>1, <2>4, <2>6, <3>1, <3>2 DEF NodesAreOwned, OwnInv, empty, Inserting, n
    <3>4. ASSUME NEW s \in Threads, NEW u \in Threads
          PROVE  /\ pc'[s] \in Inserting /\ pc'[u] \in Inserting /\ node'[s] = node'[u] => s = u
                 /\ pc'[s] = "take" /\ pc'[u] = "take" => s = u
                 /\ pc'[s] \in Holding /\ pc'[u] \in Evicting => node'[s] # cursor'
      BY <2>1, <2>6, <3>2 DEF NodesAreOwned, OwnInv, Inserting, n
    <3> QED BY <3>3, <3>4, Zenon DEF OwnInv
  <2>8. PoolSet' = PoolSet
    <3>1. \A m \in Nodes : Works(Holding, m)' <=> Works(Holding, m)
      BY <2>1, <2>2 DEF Works, Others, Holding
    <3>2. \A m \in Nodes : ~Evicted(Evicting, m)
      BY <1>1 DEF Evicted
    <3>3. \A m \in Nodes : Evicted(Evicting, m)' <=> m = n
      BY <1>1, <2>1, <2>2 DEF Evicted, Others, Evicting, n
    <3> QED BY <1>1, <2>4, <3>1, <3>2, <3>3 DEF PoolSet
  <2>9. PoolInv'
    BY <2>1, <2>8 DEF NodesAreOwned, PoolInv, empty
  <2> QED BY <2>5, <2>7, <2>9 DEF NodesAreOwned
<1> QED BY <1>2, <1>3

(* While nothing else moves, a thread that holds lru_lock_ and evicts no   *)
(* node is sure that no thread does.                                       *)
LEMMA NoneEvicts ==
  ASSUME LockInv, NEW t \in Threads, pc[t] \in HoldsLru, pc[t] \notin Evicting
  PROVE  \A u \in Threads : pc[u] \notin Evicting
  BY OneHolder DEF Evicting, HoldsLru

(* The end of a call, or its return to allocateNode, moves no node.        *)
LEMMA ReturnOwns ==
  ASSUME TypeOK, NodesAreOwned, NEW t \in Threads, Return(t), UNCHANGED <<key, chain, empty, recent_next>>,
         pc[t] \notin Holding \cup Evicting,
         (\E u \in Threads : pc[u] \in Evicting) => cursor' = cursor
  PROVE  NodesAreOwned'
<1>1. Others(t) /\ pc'[t] \in {"idle", "allocate"}
  BY DEF Return, Goto, locals, TypeOK, Others
<1> QED BY <1>1, OwnedQuiet DEF Keeps, Holding, Entering, Inserting, Evicting

(* The slice that a pull works through starts with a listed node.          *)
LEMMA SliceHead ==
  ASSUME NEW R, SliceInv(R), NEW t \in Threads, pc[t] \in Slicing, cursor # Dummy
  PROVE  /\ cursor \in R /\ cursor \in Linked /\ cursor \in Listed /\ recent_next[cursor] # NULL
         /\ ~Works(Entering \cup {"mark"}, cursor)
<1>1. HasChain(recent_next, cursor, Dummy, R)
  BY DEF SliceInv
<1>2. cursor \in R
  BY <1>1, ChainFacts
<1> QED BY <1>2 DEF SliceInv, Listed

(* Every step keeps the owners of the nodes.                               *)
LEMMA OwnedNext ==
  ASSUME TypeOK, LockInv, NodesAreOwned, HitInv, SweepInv, NEW R, SliceInv(R),
         NEW t \in Threads, Acts(t)
  PROVE  NodesAreOwned'
<1> USE DEF shared, table, recent, locals, sweep, TypeOK, Others, Keeps, Holding, Entering, Inserting, Evicting
<1>1. ASSUME NEW k \in Keys, FindMiss(t, k) PROVE NodesAreOwned'
  BY <1>1, OwnedQuiet DEF FindMiss, Step, Goto
<1>2. ASSUME NEW k \in Keys, FindRecent(t, k) PROVE NodesAreOwned'
  BY <1>2, OwnedQuiet DEF FindRecent, Step, Goto
<1>3. ASSUME NEW k \in Keys, FindUnmarked(t, k) PROVE NodesAreOwned'
  <2>1. PICK n \in Found(k) :
          /\ recent_next[n] = NULL /\ recent_next' = [recent_next EXCEPT ![n] = recent_head]
          /\ node' = [node EXCEPT ![t] = n]
    BY <1>3 DEF FindUnmarked
  <2>2. \A u \in Threads : pc[u] \in Inserting => recent_next'[node[u]] = recent_next[node[u]]
    BY <2>1, Sentinels DEF NodesAreOwned, OwnInv
  <2> QED BY <1>3, <2>1, <2>2, OwnedQuiet DEF FindUnmarked, Step, Goto
<1>4. CASE MarkCas(t)
  <2>1. \A u \in Threads : pc[u] \in Inserting => node[u] # node[t]
    <3>1. pc[t] = "mark" /\ node[t] \in chain[BucketOf[req[t]]] /\ req[t] \in Keys
      BY <1>4 DEF MarkCas, HitInv, HoldsBucket, LockInv, KeyAsked
    <3>2. node[t] \in Linked
      BY <3>1, ConstantsAssumption DEF Linked
    <3> QED BY <3>1, <3>2 DEF NodesAreOwned, OwnInv, HitInv
  <2>2. /\ Others(t) /\ pc[t] = "mark" /\ pc'[t] \in {"mark", "count"}
        /\ UNCHANGED <<key, chain, empty, node, req, cursor>>
    BY <1>4 DEF MarkCas, Goto
  <2>3. \A u \in Threads : pc[u] \in Inserting => recent_next'[node[u]] = recent_next[node[u]]
    BY <1>4, <2>1 DEF MarkCas, NodesAreOwned, OwnInv
  <2> QED BY <2>2, <2>3, OwnedQuiet
<1>5. CASE CountRecent(t)
  BY <1>5, OwnedQuiet DEF CountRecent, Step, Goto, requests
<1>6. CASE RequestPull(t)
  BY <1>6, OwnedQuiet DEF RequestPull, Step, Goto, requests
<1>7. CASE RequestPurge(t)
  BY <1>7, OwnedQuiet DEF RequestPurge, Step, Goto, requests
<1>8. CASE CheckThreshold(t)
  BY <1>8, ReturnOwns, OwnedQuiet DEF CheckThreshold, Goto
<1>9. CASE TryLock(t)
  BY <1>9, ReturnOwns, OwnedQuiet DEF TryLock, Goto
<1>10. CASE Allocate(t)
  BY <1>10, AllocateOwns
<1>11. CASE Take(t)
  BY <1>11, TakeOwns
<1>12. CASE AddBucket(t)
  BY <1>12, AddBucketOwns
<1>13. CASE Drop(t)
  BY <1>13, DropOwns
<1>14. CASE DropCas(t)
  BY <1>14, DropCasOwns
<1>15. CASE TakeFails(t)
  <2>1. TableInv' /\ Linked' = Linked
    BY <1>15, TableQuiet DEF TakeFails, NodesAreOwned, Linked
  <2>2. Others(t) /\ pc'[t] = "allocate" /\ pc[t] = "take"
    BY <1>15 DEF TakeFails, Step, Goto
  <2>3. OwnInv'
    <3>1. \A u \in Threads : pc'[u] # "take"
      BY <2>2 DEF NodesAreOwned, OwnInv
    <3>2. UNCHANGED <<key, chain, recent_next, cursor>>
      BY <1>15 DEF TakeFails
    <3> QED BY <2>1, <2>2, <3>1, <3>2 DEF NodesAreOwned, OwnInv
  <2>4. PoolInv'
    <3>1. PoolSet' = PoolSet
      BY <1>15, <2>2, PoolSame DEF TakeFails
    <3> QED BY <1>15, <3>1 DEF TakeFails, NodesAreOwned, PoolInv
  <2> QED BY <2>1, <2>3, <2>4 DEF NodesAreOwned
<1>16. CASE DropRetry(t)
  BY <1>16, OwnedQuiet DEF DropRetry, Step, Goto
<1>17. CASE Link(t)
  BY <1>17, OwnedQuiet DEF Link, Step, Goto, LinkLoad
<1>18. CASE LinkCas(t)
  BY <1>18, OwnedQuiet DEF LinkCas, Step, Goto, LinkSwap
<1>19. CASE LinkBack(t)
  BY <1>19, OwnedQuiet DEF LinkBack, Step, Goto, LinkPrev
<1>20. CASE Publish(t)
  <2>1. \A u \in Threads : u # t /\ pc[u] \in Inserting => node[u] # node[t]
    BY <1>20 DEF Publish, Step, NodesAreOwned, OwnInv
  <2> QED BY <1>20, <2>1, OwnedQuiet DEF Publish, Step, Goto
<1>21. CASE PurgeBucket(t)
  BY <1>21, PurgeBucketOwns
<1>22. CASE Dispose(t)
  BY <1>22, DisposeOwns
<1>23. CASE DisposeCas(t)
  BY <1>23, DisposeCasOwns
<1>24. CASE DisposeRetry(t)
  BY <1>24, OwnedQuiet DEF DisposeRetry, Step, Goto
<1>25. CASE Unlink(t)
  BY <1>25, OwnedQuiet DEF Unlink, Step, Goto
<1>26. CASE FirstPurge(t)
  <2>1. \A u \in Threads : pc[u] \notin Evicting
    BY <1>26, NoneEvicts DEF FirstPurge, Step, HoldsLru
  <2> QED BY <1>26, <2>1, OwnedQuiet DEF FirstPurge, Step, Goto, StartPurge
<1>27. CASE SecondPurge(t)
  <2>1. \A u \in Threads : pc[u] \notin Evicting
    BY <1>27, NoneEvicts DEF SecondPurge, Step, HoldsLru
  <2> QED BY <1>27, <2>1, OwnedQuiet DEF SecondPurge, Step, Goto, StartPurge
<1>28. CASE PurgeEnd(t)
  <2>1. \A u \in Threads : pc[u] \notin Evicting
    BY <1>28, NoneEvicts DEF PurgeEnd, Step, HoldsLru
  <2> QED BY <1>28, <2>1, OwnedQuiet DEF PurgeEnd, Step, Goto
<1>29. CASE PurgeSkip(t)
  <2>1. \A u \in Threads : pc[u] \notin Evicting
    BY <1>29, NoneEvicts DEF PurgeSkip, Step, HoldsLru
  <2> QED BY <1>29, <2>1, OwnedQuiet DEF PurgeSkip, Step, Goto
<1>30. CASE PurgeTry(t)
  <2>1. \A u \in Threads : pc[u] \notin Evicting
    BY <1>30, NoneEvicts DEF PurgeTry, Step, HoldsLru
  <2> QED BY <1>30, <2>1, OwnedQuiet DEF PurgeTry, Step, Goto
<1>31. CASE PullStart(t)
  <2>1. \A u \in Threads : pc[u] \notin Evicting
    BY <1>31, NoneEvicts DEF PullStart, Step, HoldsLru
  <2> QED BY <1>31, <2>1, OwnedQuiet DEF PullStart, Step, Goto
<1>32. CASE ResetCount(t)
  <2>1. \A u \in Threads : pc[u] \notin Evicting
    BY <1>32, NoneEvicts DEF ResetCount, Step, HoldsLru
  <2> QED BY <1>32, <2>1, OwnedQuiet DEF ResetCount, Step, Goto
<1>33. CASE PullEnd(t)
  <2>1. \A u \in Threads : pc[u] \notin Evicting
    BY <1>33, NoneEvicts DEF PullEnd, Step, HoldsLru
  <2> QED BY <1>33, <2>1, OwnedQuiet DEF PullEnd, Step, Goto
<1>34. CASE PullAtHead(t)
  <2>1. \A u \in Threads : pc[u] \notin Evicting
    BY <1>34, NoneEvicts DEF PullAtHead, Step, HoldsLru
  <2> QED BY <1>34, <2>1, OwnedQuiet DEF PullAtHead, Step, Goto
<1>35. CASE Bulk(t)
  <2>1. \A u \in Threads : pc[u] \notin Evicting
    BY <1>35, NoneEvicts DEF Bulk, Step, HoldsLru
  <2> QED BY <1>35, <2>1, OwnedQuiet DEF Bulk, Step, Goto, LinkLoad
<1>36. CASE BulkCas(t)
  <2>1. \A u \in Threads : pc[u] \notin Evicting
    BY <1>36, NoneEvicts DEF BulkCas, Step, HoldsLru
  <2> QED BY <1>36, <2>1, OwnedQuiet DEF BulkCas, Step, Goto, LinkSwap
<1>37. CASE BulkBack(t)
  <2>1. \A u \in Threads : pc[u] \notin Evicting
    BY <1>37, NoneEvicts DEF BulkBack, Step, HoldsLru
  <2> QED BY <1>37, <2>1, OwnedQuiet DEF BulkBack, Step, Goto, LinkPrev
<1>38. CASE PullDone(t)
  <2>1. \A u \in Threads : pc[u] \notin Evicting
    BY <1>38, NoneEvicts DEF PullDone, Step, HoldsLru
  <2> QED BY <1>38, <2>1, OwnedQuiet DEF PullDone, Step, Goto
<1>39. CASE PurgeDone(t)
  <2>1. \A u \in Threads : pc[u] \notin Evicting
    BY <1>39, NoneEvicts DEF PurgeDone, Step, HoldsLru
  <2> QED BY <1>39, <2>1, OwnedQuiet DEF PurgeDone, Step, Goto
<1>40. CASE Unlock(t)
  <2>1. \A u \in Threads : pc[u] \notin Evicting
    BY <1>40, NoneEvicts DEF Unlock, HoldsLru
  <2> QED BY <1>40, <2>1, ReturnOwns DEF Unlock
<1>41. CASE PullSkip(t)
  <2>1. \A u \in Threads : pc[u] \notin Evicting
    BY <1>41, NoneEvicts DEF PullSkip, Step, HoldsLru
  <2>2. cursor \in Linked /\ ~Works(Entering \cup {"mark"}, cursor)
    <3>1. pc[t] \in Slicing /\ cursor # Dummy
      BY <1>41 DEF PullSkip, Step, Slicing, SliceInv
    <3> QED BY <3>1, SliceHead
  <2>3. \A u \in Threads : pc[u] \in Inserting => node[u] # cursor
    BY <2>2 DEF NodesAreOwned, OwnInv, Works
  <2> QED BY <1>41, <2>1, <2>3, OwnedQuiet DEF PullSkip, Step, Goto
<1>42. CASE PullMove(t)
  <2>1. \A u \in Threads : pc[u] \notin Evicting
    BY <1>42, NoneEvicts DEF PullMove, Step, HoldsLru
  <2>2. cursor \in Linked /\ ~Works(Entering \cup {"mark"}, cursor)
    <3>1. pc[t] \in Slicing /\ cursor # Dummy
      BY <1>42 DEF PullMove, Step, Slicing, SliceInv
    <3> QED BY <3>1, SliceHead
  <2>3. \A u \in Threads : pc[u] \in Inserting => node[u] # cursor
    BY <2>2 DEF NodesAreOwned, OwnInv, Works
  <2> QED BY <1>42, <2>1, <2>3, OwnedQuiet DEF PullMove, Step, Goto
<1> HIDE DEF shared, table, recent, locals, sweep, TypeOK, Others, Keeps, Holding, Entering, Inserting, Evicting
<1> QED BY <1>1, <1>2, <1>3, <1>4, <1>5, <1>6, <1>7, <1>8, <1>9, <1>10, <1>11, <1>12, <1>13,
  <1>14, <1>15, <1>16, <1>17, <1>18, <1>19, <1>20, <1>21, <1>22, <1>23, <1>24, <1>25, <1>26,
  <1>27, <1>28, <1>29, <1>30, <1>31, <1>32, <1>33, <1>34, <1>35, <1>36, <1>37, <1>38, <1>39,
  <1>40, <1>41, <1>42, Zenon
  DEF Acts, Find, Proceed, Consolidate

---------------------------------------------------------------------------
(* The recent list and the slice keep their nodes.                         *)

(* What a thread that marks a node knows, when nothing comes of it.        *)
LEMMA HitQuiet ==
  ASSUME HitInv, NEW t \in Threads, Others(t),
         pc'[t] \in HoldsBucket => pc[t] \in HoldsBucket /\ node'[t] = node[t] /\ req'[t] = req[t],
         pc'[t] = "mark" => pc[t] = "mark",
         pc'[t] \in Entering => pc[t] \in Entering /\ node'[t] = node[t],
         \A u \in Threads : pc[u] \in HoldsBucket =>
           node[u] \in chain'[BucketOf[req[u]]] /\ key'[node[u]] = req[u],
         \A u \in Threads : pc'[u] = "mark" => recent_next'[node[u]] # NULL
  PROVE  HitInv'
<1>1. \A u \in Threads :
        /\ pc'[u] \in HoldsBucket => pc[u] \in HoldsBucket /\ node'[u] = node[u] /\ req'[u] = req[u]
        /\ pc'[u] = "mark" => pc[u] = "mark" /\ node'[u] = node[u]
        /\ pc'[u] \in Entering => pc[u] \in Entering /\ node'[u] = node[u]
  BY DEF Others, HoldsBucket
<1> QED BY <1>1 DEF HitInv

(* The marked nodes, when nothing comes of it.                             *)
LEMMA ListedSame ==
  ASSUME NEW t \in Threads, Others(t), UNCHANGED <<chain, recent_next>>,
         Keeps(t, Entering \cup {"mark"}),
         pc[t] \in Entering \cup {"mark"} => node'[t] = node[t]
  PROVE  Listed' = Listed
<1>1. Linked' = Linked
  BY DEF Linked
<1>2. \A n \in Linked : Works(Entering \cup {"mark"}, n)' <=> Works(Entering \cup {"mark"}, n)
  BY DEF Works, Others, Keeps
<1> QED BY <1>1, <1>2, Zenon DEF Listed

(* The two lists, while the pull stands still.                             *)
LEMMA SliceQuiet ==
  ASSUME NEW R, SliceInv(R), NEW t \in Threads, Others(t), Listed' = Listed,
         \A n \in Listed : recent_next'[n] = recent_next[n], recent_head' = recent_head,
         Keeps(t, Slicing), (\E u \in Threads : pc[u] \in Slicing) => cursor' = cursor,
         pc'[t] = "pull_skip" => cursor # Dummy
  PROVE  SliceInv(R)'
<1>1. R \subseteq Listed
  BY DEF SliceInv
<1>2. HasChain(recent_next', recent_head, Dummy, Listed \ R)
  <2>1. HasChain(recent_next, recent_head, Dummy, Listed \ R)
    BY DEF SliceInv
  <2> QED BY <2>1, SameChain
<1>3. \A u \in Threads : pc'[u] \in Slicing <=> pc[u] \in Slicing
  BY DEF Others, Keeps
<1>4. ASSUME NEW u \in Threads, pc'[u] \in Slicing
      PROVE  HasChain(recent_next', cursor', Dummy, R)
  <2>1. HasChain(recent_next, cursor, Dummy, R) /\ cursor' = cursor
    BY <1>3, <1>4 DEF SliceInv
  <2> QED BY <1>1, <2>1, SameChain
<1>5. \A u \in Threads : pc'[u] = "pull_skip" => cursor' # Dummy
  BY <1>3 DEF Others, SliceInv, Slicing
<1> QED BY <1>1, <1>2, <1>3, <1>4, <1>5 DEF SliceInv

(* A hit on an unmarked node: it comes on no list yet.                     *)
LEMMA FindUnmarkedMarks ==
  ASSUME TypeOK, LockInv, NodesAreOwned, HitInv, NEW R, SliceInv(R),
         NEW t \in Threads, NEW k \in Keys, FindUnmarked(t, k)
  PROVE  HitInv' /\ SliceInv(R)'
<1>1. PICK n \in Found(k) :
        /\ recent_next[n] = NULL /\ recent_next' = [recent_next EXCEPT ![n] = recent_head]
        /\ node' = [node EXCEPT ![t] = n]
  BY DEF FindUnmarked
<1>2. /\ pc[t] = "idle" /\ pc' = [pc EXCEPT ![t] = "mark"] /\ req' = [req EXCEPT ![t] = k]
      /\ UNCHANGED <<key, chain, recent_head, cnext, cursor>> /\ BucketFree(k)
  BY DEF FindUnmarked, Step, Goto, sweep
<1>3. /\ pc'[t] = "mark" /\ node'[t] = n /\ req'[t] = k /\ Others(t)
      /\ n \in chain[BucketOf[k]] /\ key[n] = k /\ n \in Nodes /\ n \in Linked
  <2>1. n \in chain[BucketOf[k]] /\ key[n] = k /\ BucketOf[k] \in Buckets
    BY ConstantsAssumption DEF Found
  <2> QED BY <1>1, <1>2, <2>1 DEF TypeOK, Others, Linked
<1>4. recent_next'[n] # NULL /\ \A m \in Nodes : m # n => recent_next'[m] = recent_next[m]
  BY <1>1, <1>3, Sentinels DEF TypeOK
<1> HIDE DEF Found
<1>5. \A u \in Threads : u # t /\ pc[u] \in HoldsBucket \cup Entering => node[u] # n
  <2>1. \A u \in Threads : pc[u] \in HoldsBucket => key[node[u]] # k
    BY <1>2, NoneMarks
  <2>2. \A u \in Threads : pc[u] \in Entering => recent_next[node[u]] = Dummy
    BY DEF NodesAreOwned, OwnInv, Inserting
  <2> QED BY <1>1, <1>3, <2>1, <2>2, Sentinels
<1>6. HitInv'
  <2>1. ASSUME NEW u \in Threads
        PROVE  /\ pc'[u] \in HoldsBucket => node'[u] \in chain'[BucketOf[req'[u]]] /\ key'[node'[u]] = req'[u]
               /\ pc'[u] = "mark" => recent_next'[node'[u]] # NULL
    <3>1. CASE u = t
      BY <1>2, <1>3, <1>4, <3>1
    <3>2. CASE u # t
      <4>1. pc'[u] = pc[u] /\ node'[u] = node[u] /\ req'[u] = req[u]
        BY <1>3, <3>2 DEF Others
      <4>2. pc[u] \in HoldsBucket => node[u] \in Nodes
        <5>1. pc[u] # "idle" => req[u] \in Keys
          BY DEF LockInv, KeyAsked
        <5> QED BY <5>1, ConstantsAssumption DEF HitInv, TypeOK, HoldsBucket
      <4> QED BY <1>2, <1>4, <1>5, <3>2, <4>1, <4>2 DEF HitInv, HoldsBucket
    <3> QED BY <3>1, <3>2
  <2>2. ASSUME NEW s \in Threads, NEW u \in Threads,
               pc'[s] = "mark", pc'[u] \in Entering \cup {"mark"}, node'[s] = node'[u]
        PROVE  s = u
    BY <1>3, <1>5, <2>2 DEF HitInv, Others, HoldsBucket, Entering
  <2> QED BY <2>1, <2>2 DEF HitInv
<1>7. Listed' = Listed
  <2>1. Linked' = Linked
    BY <1>2 DEF Linked
  <2>2. \A m \in Linked : Works(Entering \cup {"mark"}, m)' <=> Works(Entering \cup {"mark"}, m) \/ m = n
    BY <1>2, <1>3 DEF Works, Others, Entering
  <2>3. \A m \in Linked : m \in Nodes
    BY DEF Linked, TypeOK
  <2> QED BY <1>1, <1>4, <2>1, <2>2, <2>3 DEF Listed
<1>8. SliceInv(R)'
  <2>1. \A m \in Listed : recent_next'[m] = recent_next[m]
    BY <1>1, <1>4 DEF Listed, Linked, TypeOK
  <2> QED BY <1>2, <1>3, <1>7, <2>1, SliceQuiet DEF Keeps, Slicing
<1> QED BY <1>6, <1>8

(* The compare-exchange of a push: the node stands before the recent head, *)
(* or sees the new one.                                                    *)
LEMMA MarkCasMarks ==
  ASSUME TypeOK, LockInv, NodesAreOwned, HitInv, NEW R, SliceInv(R),
         NEW t \in Threads, MarkCas(t)
  PROVE  HitInv' /\ SliceInv(R)'
<1> DEFINE n == node[t]
<1>1. /\ pc[t] = "mark" /\ UNCHANGED <<key, chain, req, node, cnext, cursor>>
  BY DEF MarkCas, table, locals, sweep
<1>2. req[t] \in Keys /\ n \in chain[BucketOf[req[t]]] /\ BucketOf[req[t]] \in Buckets
  BY <1>1, ConstantsAssumption DEF LockInv, KeyAsked, HitInv, HoldsBucket
<1>3. n \in Linked /\ n \in Nodes
  BY <1>2 DEF Linked, TypeOK
<1>4. \A u \in Threads : pc[u] \in Entering \cup {"mark"} /\ node[u] = n => u = t
  BY <1>1 DEF HitInv
<1>5. Works(Entering \cup {"mark"}, n) /\ n \notin Listed /\ recent_next[n] # NULL
  BY <1>1 DEF Works, Listed, HitInv
<1>6. Linked' = Linked
  BY <1>1 DEF Linked
<1>7. \A m \in Linked : m \in Nodes
  BY DEF Linked, TypeOK
<1>8. CASE recent_head = recent_next[n]
  <2>1. /\ pc' = [pc EXCEPT ![t] = "count"] /\ recent_head' = n /\ recent_next' = recent_next
        /\ Others(t) /\ pc'[t] = "count"
    BY <1>1, <1>8 DEF MarkCas, Goto, TypeOK, Others
  <2>2. HitInv'
    <3>1. \A u \in Threads : pc'[u] = "mark" => recent_next'[node[u]] # NULL
      BY <2>1 DEF HitInv, Others
    <3>2. \A u \in Threads : pc[u] \in HoldsBucket =>
            node[u] \in chain'[BucketOf[req[u]]] /\ key'[node[u]] = req[u]
      BY <1>1 DEF HitInv
    <3> QED BY <1>1, <2>1, <3>1, <3>2, HitQuiet DEF HoldsBucket, Entering
  <2>3. \A m \in Linked : Works(Entering \cup {"mark"}, m)' <=> Works(Entering \cup {"mark"}, m) /\ m # n
    BY <1>1, <1>4, <2>1 DEF Works, Others, Entering
  <2> HIDE DEF n
  <2>4. Listed' = Listed \cup {n}
    BY <1>3, <1>5, <1>6, <2>1, <2>3 DEF Listed
  <2>5. R \subseteq Listed /\ HasChain(recent_next, recent_head, Dummy, Listed \ R)
    BY DEF SliceInv
  <2>6. HasChain(recent_next, n, Dummy, (Listed \ R) \cup {n})
    <3>1. n \notin Listed \ R /\ n # Dummy
      BY <1>3, <1>5, Sentinels
    <3> QED BY <1>8, <2>5, <3>1, PushChain
  <2>7. (Listed \cup {n}) \ R = (Listed \ R) \cup {n}
    BY <1>5, <2>5
  <2>8. HasChain(recent_next', recent_head', Dummy, Listed' \ R)
    BY <2>1, <2>4, <2>6, <2>7
  <2>9. \A u \in Threads : /\ pc'[u] \in Slicing <=> pc[u] \in Slicing
                           /\ pc'[u] = "pull_skip" => pc[u] = "pull_skip"
    BY <1>1, <2>1 DEF Others, Slicing
  <2>10. SliceInv(R)'
    BY <1>1, <2>1, <2>4, <2>5, <2>8, <2>9 DEF SliceInv
  <2> QED BY <2>2, <2>10
<1>9. CASE recent_head # recent_next[n]
  <2>1. /\ pc' = pc /\ recent_head' = recent_head /\ Others(t)
        /\ recent_next' = [recent_next EXCEPT ![n] = recent_head]
    BY <1>1, <1>9 DEF MarkCas, Others
  <2>2. recent_next'[n] # NULL /\ \A m \in Nodes : m # n => recent_next'[m] = recent_next[m]
    BY <1>3, <2>1, Sentinels DEF TypeOK
  <2>3. HitInv'
    <3>1. \A u \in Threads : pc[u] = "mark" => recent_next'[node[u]] # NULL
      <4>1. \A u \in Threads : pc[u] = "mark" /\ u # t => node[u] # n
        BY <1>4
      <4>2. \A u \in Threads : pc[u] = "mark" => node[u] \in Nodes
        <5>1. \A u \in Threads : pc[u] # "idle" => req[u] \in Keys
          BY DEF LockInv, KeyAsked
        <5> QED BY <5>1, ConstantsAssumption DEF HitInv, TypeOK, HoldsBucket
      <4> QED BY <2>2, <4>1, <4>2 DEF HitInv
    <3>2. \A u \in Threads : pc[u] \in HoldsBucket =>
            node[u] \in chain'[BucketOf[req[u]]] /\ key'[node[u]] = req[u]
      BY <1>1 DEF HitInv
    <3> QED BY <1>1, <2>1, <3>1, <3>2, HitQuiet
  <2>4. \A m \in Linked : Works(Entering \cup {"mark"}, m)' <=> Works(Entering \cup {"mark"}, m)
    BY <1>1, <2>1 DEF Works
  <2> HIDE DEF n
  <2>5. Listed' = Listed
    BY <1>5, <1>6, <1>7, <2>2, <2>4 DEF Listed
  <2>6. \A m \in Listed : recent_next'[m] = recent_next[m]
    BY <1>5, <1>7, <2>2 DEF Listed
  <2>7. SliceInv(R)'
    BY <1>1, <2>1, <2>5, <2>6, SliceQuiet DEF Keeps, SliceInv
  <2> QED BY <2>3, <2>7
<1> QED BY <1>8, <1>9

(* A node that is being marked is in the table.                            *)
LEMMA MarkedInTable ==
  ASSUME TypeOK, LockInv, HitInv
  PROVE  \A u \in Threads : pc[u] \in HoldsBucket =>
           /\ req[u] \in Keys /\ BucketOf[req[u]] \in Buckets
           /\ node[u] \in Linked /\ node[u] \in Nodes
<1> SUFFICES ASSUME NEW u \in Threads, pc[u] \in HoldsBucket
             PROVE  /\ req[u] \in Keys /\ BucketOf[req[u]] \in Buckets
                    /\ node[u] \in Linked /\ node[u] \in Nodes
  OBVIOUS
<1>1. req[u] \in Keys /\ BucketOf[req[u]] \in Buckets
  BY ConstantsAssumption DEF LockInv, KeyAsked, HoldsBucket
<1> QED BY <1>1 DEF HitInv, Linked, TypeOK

(* A node that comes from the empty list is not in the table yet.          *)
LEMMA TakeMarks ==
  ASSUME TypeOK, LockInv, NodesAreOwned, HitInv, NEW R, SliceInv(R), NEW t \in Threads, Take(t)
  PROVE  HitInv' /\ SliceInv(R)'
<1> DEFINE n == node[t]
<1>1. /\ pc[t] = "take" /\ pc' = [pc EXCEPT ![t] = "add_bucket"]
      /\ key' = [key EXCEPT ![n] = req[t]]
      /\ recent_next' = [recent_next EXCEPT ![n] = Dummy]
      /\ UNCHANGED <<chain, node, req, cnext, cursor, recent_head>>
  BY DEF Take, Step, Goto, locals, sweep
<1>2. n \in Nodes /\ empty_head = n /\ Others(t) /\ pc'[t] = "add_bucket"
  BY <1>1 DEF NodesAreOwned, OwnInv, Others, TypeOK
<1>3. n \notin Linked
  <2>1. HasChain(empty_next, n, NULL, PoolSet) /\ n # NULL
    BY <1>2, Sentinels DEF NodesAreOwned, PoolInv
  <2>2. n \in PoolSet
    BY <2>1, ChainFacts
  <2> QED BY <2>2 DEF PoolSet
<1>4. \A m \in Nodes : m # n => key'[m] = key[m] /\ recent_next'[m] = recent_next[m]
  BY <1>1, <1>2 DEF TypeOK
<1>5. Linked' = Linked /\ \A m \in Linked : m \in Nodes /\ m # n
  BY <1>1, <1>3 DEF Linked, TypeOK
<1> HIDE DEF n
<1>6. HitInv'
  <2>1. \A u \in Threads : pc[u] \in HoldsBucket => node[u] \in Nodes /\ node[u] # n
    BY <1>5, MarkedInTable
  <2>2. \A u \in Threads : pc[u] \in HoldsBucket =>
          node[u] \in chain'[BucketOf[req[u]]] /\ key'[node[u]] = req[u]
    BY <1>1, <1>4, <2>1 DEF HitInv
  <2>3. \A u \in Threads : pc'[u] = "mark" => pc[u] = "mark"
    BY <1>2 DEF Others
  <2>4. \A u \in Threads : pc'[u] = "mark" => recent_next'[node[u]] # NULL
    BY <1>4, <2>1, <2>3 DEF HitInv, HoldsBucket
  <2> QED BY <1>1, <1>2, <2>2, <2>4, HitQuiet DEF HoldsBucket, Entering
<1>7. Listed' = Listed
  <2>1. \A m \in Linked : Works(Entering \cup {"mark"}, m)' <=> Works(Entering \cup {"mark"}, m)
    BY <1>1, <1>2 DEF Works, Others, Entering
  <2> QED BY <1>4, <1>5, <2>1 DEF Listed
<1>8. \A m \in Listed : recent_next'[m] = recent_next[m]
  BY <1>4, <1>5 DEF Listed
<1>9. SliceInv(R)'
  BY <1>1, <1>2, <1>7, <1>8, SliceQuiet DEF Keeps, Slicing
<1> QED BY <1>6, <1>9

(* It comes into the table marked, but on no list.                         *)
LEMMA AddBucketMarks ==
  ASSUME TypeOK, LockInv, NodesAreOwned, HitInv, NEW R, SliceInv(R), NEW t \in Threads, AddBucket(t)
  PROVE  HitInv' /\ SliceInv(R)'
<1> DEFINE n == node[t]
           b == BucketOf[req[t]]
<1>1. /\ pc[t] = "add_bucket"
      /\ UNCHANGED <<key, node, req, cnext, cursor, recent_next, recent_head>>
  BY DEF AddBucket, Goto, locals, sweep, recent
<1>2. n \in Nodes /\ n \notin Linked /\ req[t] \in Keys /\ b \in Buckets
  BY <1>1, ConstantsAssumption
  DEF NodesAreOwned, OwnInv, LockInv, KeyAsked, Inserting, Holding
<1>3. \A u \in Threads : pc[u] \in HoldsBucket => node[u] \in Nodes /\ node[u] # n
  BY <1>2, MarkedInTable
<1>4. CASE pc' = [pc EXCEPT ![t] = "drop"] /\ chain' = chain
  <2>1. Others(t) /\ pc'[t] = "drop"
    BY <1>1, <1>4 DEF Others, TypeOK
  <2>2. HitInv'
    <3>1. \A u \in Threads : pc[u] \in HoldsBucket =>
            node[u] \in chain'[BucketOf[req[u]]] /\ key'[node[u]] = req[u]
      BY <1>1, <1>4 DEF HitInv
    <3>2. \A u \in Threads : pc'[u] = "mark" => recent_next'[node[u]] # NULL
      BY <1>1, <2>1 DEF HitInv, Others
    <3> QED BY <1>1, <2>1, <3>1, <3>2, HitQuiet DEF HoldsBucket, Entering
  <2>3. Listed' = Listed
    BY <1>1, <1>4, <2>1, ListedSame DEF Keeps, Entering
  <2> QED BY <1>1, <2>1, <2>2, <2>3, SliceQuiet DEF Keeps, Slicing
<1>5. CASE pc' = [pc EXCEPT ![t] = "link"] /\ chain' = [chain EXCEPT ![b] = chain[b] \cup {n}]
  <2>1. Others(t) /\ pc'[t] = "link"
    BY <1>1, <1>5 DEF Others, TypeOK
  <2>2. \A c \in Buckets : chain'[c] = IF c = b THEN chain[b] \cup {n} ELSE chain[c]
    BY <1>2, <1>5 DEF TypeOK
  <2> HIDE DEF b
  <2>3. Linked' = Linked \cup {n}
    BY <1>2, <2>2 DEF Linked
  <2>4. HitInv'
    <3>1. ASSUME NEW u \in Threads
          PROVE  /\ pc'[u] \in HoldsBucket => node'[u] \in chain'[BucketOf[req'[u]]] /\ key'[node'[u]] = req'[u]
                 /\ pc'[u] = "mark" => recent_next'[node'[u]] # NULL
      <4>1. pc'[u] \in HoldsBucket => pc[u] \in HoldsBucket /\ pc'[u] = pc[u]
        BY <2>1 DEF Others, HoldsBucket
      <4>2. pc[u] \in HoldsBucket => BucketOf[req[u]] \in Buckets
        BY MarkedInTable
      <4> QED BY <1>1, <2>2, <4>1, <4>2 DEF HitInv, HoldsBucket
    <3>2. ASSUME NEW s \in Threads, NEW u \in Threads,
                 pc'[s] = "mark", pc'[u] \in Entering \cup {"mark"}, node'[s] = node'[u]
          PROVE  s = u
      <4>1. pc[s] = "mark" /\ node[s] = node[u] /\ node[s] # n
        BY <1>1, <1>3, <2>1, <3>2 DEF Others, HoldsBucket
      <4>2. u # t /\ pc[u] \in Entering \cup {"mark"}
        BY <2>1, <3>2, <4>1 DEF Others
      <4> QED BY <4>1, <4>2 DEF HitInv
    <3> QED BY <3>1, <3>2 DEF HitInv
  <2>5. Listed' = Listed
    <3>1. \A m \in Nodes : Works(Entering \cup {"mark"}, m)' <=> Works(Entering \cup {"mark"}, m) \/ m = n
      BY <1>1, <2>1 DEF Works, Others, Entering
    <3>2. \A m \in Linked : m \in Nodes
      BY DEF Linked, TypeOK
    <3> HIDE DEF n
    <3> QED BY <1>1, <1>2, <2>3, <3>1, <3>2 DEF Listed
  <2> QED BY <1>1, <2>1, <2>4, <2>5, SliceQuiet DEF Keeps, Slicing
<1> QED BY <1>4, <1>5 DEF AddBucket, Goto

(* The last store of insert unmarks a node that is on no list.             *)
LEMMA PublishMarks ==
  ASSUME TypeOK, LockInv, NodesAreOwned, HitInv, NEW R, SliceInv(R), NEW t \in Threads, Publish(t)
  PROVE  HitInv' /\ SliceInv(R)'
<1> DEFINE n == node[t]
<1>1. /\ pc[t] = "publish" /\ pc' = [pc EXCEPT ![t] = "idle"]
      /\ recent_next' = [recent_next EXCEPT ![n] = NULL]
      /\ node' = [node EXCEPT ![t] = NULL] /\ req' = [req EXCEPT ![t] = NULL]
      /\ UNCHANGED <<key, chain, cnext, cursor, recent_head>>
  BY DEF Publish, Step, Goto, table, sweep
<1>2. pc'[t] = "idle" /\ Others(t)
  BY <1>1 DEF TypeOK, Others
<1>3. n \in Nodes /\ n \in Linked /\ Works(Entering \cup {"mark"}, n)
  BY <1>1 DEF NodesAreOwned, OwnInv, Works, Inserting, Entering
<1>4. recent_next'[n] = NULL /\ \A m \in Nodes : m # n => recent_next'[m] = recent_next[m]
  BY <1>1, <1>3 DEF TypeOK
<1>5. \A m \in Linked : m \in Nodes
  BY DEF Linked, TypeOK
<1>6. HitInv'
  <2>1. \A u \in Threads : pc'[u] = "mark" => pc[u] = "mark"
    BY <1>2 DEF Others
  <2>2. \A u \in Threads : pc[u] = "mark" => node[u] \in Nodes /\ node[u] # n
    BY <1>1, MarkedInTable DEF HitInv, Entering, HoldsBucket
  <2>3. \A u \in Threads : pc'[u] = "mark" => recent_next'[node[u]] # NULL
    BY <1>4, <2>1, <2>2 DEF HitInv
  <2>4. \A u \in Threads : pc[u] \in HoldsBucket =>
          node[u] \in chain'[BucketOf[req[u]]] /\ key'[node[u]] = req[u]
    BY <1>1 DEF HitInv
  <2> QED BY <1>2, <2>3, <2>4, HitQuiet DEF HoldsBucket, Entering
<1>7. Listed' = Listed
  <2>1. Linked' = Linked
    BY <1>1 DEF Linked
  <2>2. \A m \in Linked : m # n =>
          (Works(Entering \cup {"mark"}, m)' <=> Works(Entering \cup {"mark"}, m))
    BY <1>1, <1>2 DEF Works, Others, Entering
  <2> HIDE DEF n
  <2> QED BY <1>3, <1>4, <1>5, <2>1, <2>2 DEF Listed
<1>8. \A m \in Listed : recent_next'[m] = recent_next[m]
  <2> HIDE DEF n
  <2> QED BY <1>3, <1>4, <1>5 DEF Listed
<1>9. SliceInv(R)'
  BY <1>1, <1>2, <1>7, <1>8, SliceQuiet DEF Keeps, Slicing
<1> QED BY <1>6, <1>9

(* The purging thread finds the bucket free: nobody marks its node.        *)
LEMMA PurgeBucketMarks ==
  ASSUME TypeOK, LockInv, NodesAreOwned, SweepInv, HitInv, NEW R, SliceInv(R),
         NEW t \in Threads, PurgeBucket(t)
  PROVE  HitInv' /\ SliceInv(R)'
<1> DEFINE n == cursor
           b == BucketOf[key[n]]
<1>1. /\ n \in Linked /\ n \in Nodes /\ b \in Buckets /\ n \in chain[b] /\ key[n] \in Keys
      /\ \A c \in Buckets : n \in chain[c] => c = b
  BY ChosenInTable DEF PurgeBucket
<1>2. /\ pc[t] = "purge_bucket" /\ BucketFree(key[n])
      /\ UNCHANGED <<key, node, req, cnext, recent_next, recent_head>>
  BY DEF PurgeBucket, recent, locals
<1>3. \A u \in Threads : pc[u] \in HoldsBucket => node[u] # n
  <2>1. \A u \in Threads : pc[u] \in HoldsBucket => key[node[u]] # key[n]
    BY <1>1, <1>2, NoneMarks
  <2> QED BY <2>1
<1>4. \A u \in Threads : pc[u] \notin Slicing
  BY <1>2, OneHolder DEF Slicing, HoldsLru
<1>5. /\ \/ pc' = [pc EXCEPT ![t] = "purge"] /\ chain' = chain
         \/ /\ pc' = [pc EXCEPT ![t] = "unlink"] /\ recent_next[n] = NULL
            /\ chain' = [chain EXCEPT ![b] = chain[b] \ {n}]
  BY <1>1 DEF PurgeBucket, Goto
<1>6. Others(t) /\ pc'[t] \in {"purge", "unlink"}
  BY <1>2, <1>5 DEF TypeOK, Others
<1>7. \A c \in Buckets : chain'[c] \subseteq chain[c] /\ \A m \in chain[c] : m = n \/ m \in chain'[c]
  BY <1>1, <1>5 DEF TypeOK
<1>8. Linked' = Linked \/ (recent_next[n] = NULL /\ Linked' = Linked \ {n})
  <2>1. CASE chain' = chain
    BY <2>1 DEF Linked
  <2>2. CASE recent_next[n] = NULL /\ chain' = [chain EXCEPT ![b] = chain[b] \ {n}]
    <3>1. \A c \in Buckets : chain'[c] = IF c = b THEN chain[b] \ {n} ELSE chain[c]
      BY <1>1, <2>2 DEF TypeOK
    <3> HIDE DEF n, b
    <3>2. Linked' = Linked \ {n}
      BY <1>1, <3>1 DEF Linked
    <3> QED BY <2>2, <3>2
  <2> QED BY <1>5, <2>1, <2>2
<1>9. HitInv'
  <2>1. \A u \in Threads : pc[u] \in HoldsBucket =>
          node[u] \in chain'[BucketOf[req[u]]] /\ key'[node[u]] = req[u]
    BY <1>2, <1>3, <1>7, MarkedInTable DEF HitInv
  <2>2. \A u \in Threads : pc'[u] = "mark" => recent_next'[node[u]] # NULL
    BY <1>2, <1>6 DEF HitInv, Others
  <2> QED BY <1>2, <1>6, <2>1, <2>2, HitQuiet DEF HoldsBucket, Entering
<1>10. Listed' = Listed
  <2>1. \A m \in Linked : Works(Entering \cup {"mark"}, m)' <=> Works(Entering \cup {"mark"}, m)
    BY <1>2, <1>6 DEF Works, Others, Entering
  <2> HIDE DEF n
  <2> QED BY <1>2, <1>8, <2>1 DEF Listed
<1>11. SliceInv(R)'
  BY <1>2, <1>4, <1>6, <1>10, SliceQuiet DEF Keeps, Slicing
<1> QED BY <1>9, <1>11

(* A pull takes the whole recent list.                                     *)
LEMMA PullStartMarks ==
  ASSUME TypeOK, LockInv, HitInv, NEW R, SliceInv(R), NEW t \in Threads, PullStart(t)
  PROVE  HitInv' /\ \E Q \in SUBSET Nodes : SliceInv(Q)'
<1>1. pc[t] = "pull" /\ UNCHANGED <<key, chain, node, req, cnext, recent_next>>
  BY DEF PullStart, table, locals
<1>2. R = {} /\ \A u \in Threads : pc[u] \notin Slicing
  <2>1. \A u \in Threads : pc[u] \notin Slicing
    BY <1>1, OneHolder DEF Slicing, HoldsLru
  <2> QED BY <2>1 DEF SliceInv
<1>3. Others(t) /\ pc'[t] \in {"reset_count", "second_purge"}
  BY <1>1 DEF PullStart, Goto, TypeOK, Others
<1>4. HitInv'
  <2>1. \A u \in Threads : pc[u] \in HoldsBucket =>
          node[u] \in chain'[BucketOf[req[u]]] /\ key'[node[u]] = req[u]
    BY <1>1 DEF HitInv
  <2>2. \A u \in Threads : pc'[u] = "mark" => recent_next'[node[u]] # NULL
    BY <1>1, <1>3 DEF HitInv, Others
  <2> QED BY <1>1, <1>3, <2>1, <2>2, HitQuiet DEF HoldsBucket, Entering
<1>5. Listed' = Listed
  BY <1>1, <1>3, ListedSame DEF Keeps, Entering
<1>6. CASE pull_request
  <2>0. PICK Q : Q = Listed
    OBVIOUS
  <2>1. cursor' = recent_head /\ recent_head' = Dummy /\ pc'[t] = "reset_count"
    BY <1>1, <1>6 DEF PullStart, Goto, TypeOK
  <2>2. HasChain(recent_next, recent_head, Dummy, Listed)
    <3>1. HasChain(recent_next, recent_head, Dummy, Listed \ R) /\ Listed \ R = Listed
      BY <1>2 DEF SliceInv
    <3> QED BY <3>1
  <2>3. HasChain(recent_next', recent_head', Dummy, Listed' \ Q)
    <3>1. Listed' \ Q = {}
      BY <1>5, <2>0
    <3>2. HasChain(recent_next', Dummy, Dummy, {})
      BY EmptyChain
    <3> QED BY <2>1, <3>1, <3>2
  <2>4. \A u \in Threads : pc'[u] # "pull_skip"
    BY <1>2, <1>3, <2>1 DEF Others, Slicing
  <2>5. pc'[t] \in Slicing
    BY <2>1 DEF Slicing
  <2>6. SliceInv(Q)'
    BY <1>1, <1>5, <2>0, <2>1, <2>2, <2>3, <2>4, <2>5 DEF SliceInv
  <2>7. Q \in SUBSET Nodes
    BY <2>0 DEF Listed, Linked, TypeOK
  <2> QED BY <1>4, <2>6, <2>7
<1>7. CASE ~pull_request
  <2>1. recent_head' = recent_head /\ pc'[t] = "second_purge"
    BY <1>1, <1>7 DEF PullStart, Goto, TypeOK
  <2>2. SliceInv(R)'
    BY <1>1, <1>2, <1>3, <1>5, <2>1, SliceQuiet DEF Keeps, Slicing
  <2> QED BY <1>2, <1>4, <2>2
<1> QED BY <1>6, <1>7

(* And ends when the slice is empty.                                       *)
LEMMA PullEndMarks ==
  ASSUME TypeOK, LockInv, HitInv, NEW R, SliceInv(R), NEW t \in Threads, PullEnd(t)
  PROVE  HitInv' /\ SliceInv(R)' /\ R = {}
<1>1. /\ pc[t] = "pull_node" /\ cursor = Dummy
      /\ UNCHANGED <<key, chain, node, req, cnext, recent_next, recent_head, cursor>>
  BY DEF PullEnd, shared, table, recent, locals, sweep
<1>2. Others(t) /\ pc'[t] \in {"pull_done", "bulk"}
  BY <1>1 DEF PullEnd, Goto, TypeOK, Others
<1>3. R = {}
  <2>1. HasChain(recent_next, Dummy, Dummy, R)
    BY <1>1 DEF SliceInv, Slicing
  <2> QED BY <2>1, ChainFacts
<1>4. HitInv'
  <2>1. \A u \in Threads : pc[u] \in HoldsBucket =>
          node[u] \in chain'[BucketOf[req[u]]] /\ key'[node[u]] = req[u]
    BY <1>1 DEF HitInv
  <2>2. \A u \in Threads : pc'[u] = "mark" => recent_next'[node[u]] # NULL
    BY <1>1, <1>2 DEF HitInv, Others
  <2> QED BY <1>1, <1>2, <2>1, <2>2, HitQuiet DEF HoldsBucket, Entering
<1>5. Listed' = Listed
  BY <1>1, <1>2, ListedSame DEF Keeps, Entering
<1>6. \A u \in Threads : pc'[u] \notin Slicing
  <2>1. \A u \in Threads : u # t => pc[u] \notin Slicing
    BY <1>1, OneHolder DEF Slicing, HoldsLru
  <2> QED BY <1>2, <2>1 DEF Others, Slicing
<1>7. SliceInv(R)'
  BY <1>1, <1>3, <1>5, <1>6 DEF SliceInv, Slicing
<1> QED BY <1>3, <1>4, <1>7

(* Each node of the slice in turn is unmarked and leaves it.               *)
LEMMA PullNodeMarks ==
  ASSUME TypeOK, LockInv, NodesAreOwned, HitInv, NEW R, SliceInv(R),
         NEW t \in Threads, PullSkip(t) \/ PullMove(t)
  PROVE  HitInv' /\ \E Q \in SUBSET R : Q = R \ {cursor} /\ SliceInv(Q)'
<1> DEFINE n == cursor
<1>1. /\ pc[t] \in {"pull_skip", "pull_node"} /\ n # Dummy /\ cursor' = recent_next[n]
      /\ recent_next' = [recent_next EXCEPT ![n] = NULL]
      /\ UNCHANGED <<key, chain, node, req, recent_head>>
      /\ Others(t) /\ pc'[t] = "pull_node"
  BY DEF PullSkip, PullMove, Step, Goto, table, locals, SliceInv, TypeOK, Others
<1>2. /\ n \in R /\ n \in Linked /\ n \in Listed /\ ~Works(Entering \cup {"mark"}, n)
  BY <1>1, SliceHead DEF Slicing
<1>3. \A m \in Linked : m \in Nodes
  BY DEF Linked, TypeOK
<1>4. recent_next'[n] = NULL /\ \A m \in Nodes : m # n => recent_next'[m] = recent_next[m]
  BY <1>1, <1>2, <1>3 DEF TypeOK
<1>5. HitInv'
  <2>1. \A u \in Threads : pc[u] \in HoldsBucket =>
          node[u] \in chain'[BucketOf[req[u]]] /\ key'[node[u]] = req[u]
    BY <1>1 DEF HitInv
  <2>2. \A u \in Threads : pc'[u] = "mark" => pc[u] = "mark"
    BY <1>1 DEF Others
  <2>3. \A u \in Threads : pc[u] = "mark" => node[u] \in Nodes /\ node[u] # n
    BY <1>2, MarkedInTable DEF Works, HoldsBucket
  <2>4. \A u \in Threads : pc'[u] = "mark" => recent_next'[node[u]] # NULL
    BY <1>4, <2>2, <2>3 DEF HitInv
  <2> QED BY <1>1, <2>1, <2>4, HitQuiet DEF HoldsBucket, Entering
<1>6. Listed' = Listed \ {n}
  <2>1. Linked' = Linked
    BY <1>1 DEF Linked
  <2>2. \A m \in Linked : Works(Entering \cup {"mark"}, m)' <=> Works(Entering \cup {"mark"}, m)
    BY <1>1 DEF Works, Others, Entering
  <2> HIDE DEF n
  <2> QED BY <1>2, <1>3, <1>4, <2>1, <2>2 DEF Listed
<1>7. R \subseteq Listed /\ HasChain(recent_next, recent_head, Dummy, Listed \ R)
      /\ HasChain(recent_next, n, Dummy, R)
  BY <1>1 DEF SliceInv, Slicing
<1>8. \A m \in Listed : m # n => recent_next'[m] = recent_next[m]
  BY <1>3, <1>4 DEF Listed
<1> HIDE DEF n
<1>9. HasChain(recent_next', recent_next[n], Dummy, R \ {n})
  <2>1. \A m \in R \ {n} : recent_next'[m] = recent_next[m]
    BY <1>7, <1>8
  <2> QED BY <1>1, <1>7, <2>1, PopChain
<1>10. HasChain(recent_next', recent_head', Dummy, Listed' \ (R \ {n}))
  <2>1. Listed' \ (R \ {n}) = Listed \ R
    BY <1>2, <1>6
  <2>2. \A m \in Listed \ R : recent_next'[m] = recent_next[m]
    BY <1>2, <1>8
  <2>3. HasChain(recent_next', recent_head, Dummy, Listed \ R)
    BY <1>7, <2>2, SameChain
  <2> QED BY <1>1, <2>1, <2>3
<1>11. pc'[t] \in Slicing /\ \A u \in Threads : pc'[u] # "pull_skip"
  <2>1. \A u \in Threads : u # t => pc[u] \notin Slicing
    BY <1>1, OneHolder DEF Slicing, HoldsLru
  <2> QED BY <1>1, <2>1 DEF Others, Slicing
<1>12. PICK Q : Q = R \ {n}
  OBVIOUS
<1>13. SliceInv(Q)'
  BY <1>1, <1>6, <1>7, <1>9, <1>10, <1>11, <1>12 DEF SliceInv
<1> QED BY <1>5, <1>12, <1>13 DEF n

(* A step that neither marks a node nor moves the pull on.                 *)
LEMMA MarksQuiet ==
  ASSUME HitInv, NEW R, SliceInv(R), NEW t \in Threads, Others(t),
         UNCHANGED <<key, chain, recent_next, recent_head>>,
         Keeps(t, {"mark"}), Keeps(t, Entering),
         pc'[t] \in HoldsBucket => pc[t] \in HoldsBucket /\ req'[t] = req[t],
         pc'[t] \in HoldsBucket \cup Entering => node'[t] = node[t],
         Keeps(t, Slicing), (\E u \in Threads : pc[u] \in Slicing) => cursor' = cursor,
         pc'[t] = "pull_skip" => cursor # Dummy
  PROVE  HitInv' /\ SliceInv(R)'
<1>1. HitInv'
  <2>1. \A u \in Threads : pc[u] \in HoldsBucket =>
          node[u] \in chain'[BucketOf[req[u]]] /\ key'[node[u]] = req[u]
    BY DEF HitInv
  <2>2. \A u \in Threads : pc'[u] = "mark" => recent_next'[node[u]] # NULL
    BY DEF HitInv, Others, Keeps
  <2>3. /\ pc'[t] \in HoldsBucket => pc[t] \in HoldsBucket /\ node'[t] = node[t] /\ req'[t] = req[t]
        /\ pc'[t] = "mark" => pc[t] = "mark"
        /\ pc'[t] \in Entering => pc[t] \in Entering /\ node'[t] = node[t]
    BY DEF Keeps
  <2> QED BY <2>1, <2>2, <2>3, HitQuiet
<1>2. Listed' = Listed
  <2>1. Keeps(t, Entering \cup {"mark"})
    BY DEF Keeps
  <2>2. pc[t] \in Entering \cup {"mark"} => node'[t] = node[t]
    BY DEF Keeps, HoldsBucket
  <2> QED BY <2>1, <2>2, ListedSame
<1> QED BY <1>1, <1>2, SliceQuiet

(* What a step makes of the recent list and the slice.                     *)
SliceNext(R, Q, t) ==
  /\ SliceInv(Q)' /\ Q \in SUBSET Nodes
  /\ pc[t] # "pull" => Q \subseteq R
  /\ PullMove(t) => cursor \notin Q

(* The end of a call marks no node.                                        *)
LEMMA ReturnMarks ==
  ASSUME TypeOK, HitInv, NEW R, SliceInv(R), NEW t \in Threads, Return(t),
         UNCHANGED <<key, chain, recent_next, recent_head>>,
         pc[t] \notin HoldsBucket \cup Entering \cup Slicing,
         (\E u \in Threads : pc[u] \in Slicing) => cursor' = cursor
  PROVE  HitInv' /\ SliceInv(R)'
<1>1. Others(t) /\ pc'[t] \in {"idle", "allocate"}
  BY DEF Return, Goto, locals, TypeOK, Others
<1>2. /\ Keeps(t, {"mark"}) /\ Keeps(t, Entering) /\ Keeps(t, Slicing)
      /\ pc'[t] \notin HoldsBucket \cup Entering /\ pc'[t] # "pull_skip"
  BY <1>1 DEF Keeps, HoldsBucket, Entering, Slicing
<1> QED BY <1>1, <1>2, MarksQuiet

(* Every step keeps the marks on the lists they belong to.                 *)
LEMMA MarkedNext ==
  ASSUME TypeOK, LockInv, NodesAreOwned, HitInv, SweepInv, NEW R, SliceInv(R),
         NEW t \in Threads, Acts(t)
  PROVE  HitInv' /\ \E Q : SliceNext(R, Q, t)
<1>0. R \in SUBSET Nodes
  BY DEF SliceInv, Listed, Linked, TypeOK
<1>1. ASSUME NEW k \in Keys, FindMiss(t, k) PROVE HitInv' /\ SliceInv(R)'
  BY <1>1, MarksQuiet DEF FindMiss, Step, Goto, Others, Keeps, HoldsBucket, Entering, Slicing,
    TypeOK, shared, table, recent, locals, sweep
<1>2. ASSUME NEW k \in Keys, FindRecent(t, k) PROVE HitInv' /\ SliceInv(R)'
  BY <1>2, MarksQuiet DEF FindRecent, Step, Goto, Others, Keeps, HoldsBucket, Entering, Slicing,
    TypeOK, shared, table, recent, locals, sweep
<1>3. ASSUME NEW k \in Keys, FindUnmarked(t, k) PROVE HitInv' /\ SliceInv(R)'
  BY <1>3, FindUnmarkedMarks
<1>4. ASSUME MarkCas(t) PROVE HitInv' /\ SliceInv(R)'
  BY <1>4, MarkCasMarks
<1>5. ASSUME Take(t) PROVE HitInv' /\ SliceInv(R)'
  BY <1>5, TakeMarks
<1>6. ASSUME AddBucket(t) PROVE HitInv' /\ SliceInv(R)'
  BY <1>6, AddBucketMarks
<1>7. ASSUME Publish(t) PROVE HitInv' /\ SliceInv(R)'
  BY <1>7, PublishMarks
<1>8. ASSUME PurgeBucket(t) PROVE HitInv' /\ SliceInv(R)'
  BY <1>8, PurgeBucketMarks
<1>9. ASSUME CountRecent(t) PROVE HitInv' /\ SliceInv(R)'
  BY <1>9, MarksQuiet DEF CountRecent, Step, Goto, requests, Others, Keeps, HoldsBucket,
    Entering, Slicing, TypeOK, shared, table, recent, locals, sweep
<1>10. ASSUME RequestPull(t) PROVE HitInv' /\ SliceInv(R)'
  BY <1>10, MarksQuiet DEF RequestPull, Step, Goto, requests, Others, Keeps, HoldsBucket,
    Entering, Slicing, TypeOK, shared, table, recent, locals, sweep
<1>11. ASSUME RequestPurge(t) PROVE HitInv' /\ SliceInv(R)'
  BY <1>11, MarksQuiet DEF RequestPurge, Step, Goto, requests, Others, Keeps, HoldsBucket,
    Entering, Slicing, TypeOK, shared, table, recent, locals, sweep
<1>12. ASSUME Allocate(t) PROVE HitInv' /\ SliceInv(R)'
  BY <1>12, MarksQuiet DEF Allocate, Step, Goto, requests, Others, Keeps, HoldsBucket, Entering,
    Slicing, TypeOK, shared, table, recent, locals, sweep
<1>13. ASSUME TakeFails(t) PROVE HitInv' /\ SliceInv(R)'
  BY <1>13, MarksQuiet DEF TakeFails, Step, Goto, requests, Others, Keeps, HoldsBucket, Entering,
    Slicing, TypeOK, shared, table, recent, locals, sweep
<1>14. ASSUME Drop(t) PROVE HitInv' /\ SliceInv(R)'
  BY <1>14, MarksQuiet DEF Drop, Step, Goto, requests, Others, Keeps, HoldsBucket, Entering,
    Slicing, TypeOK, shared, table, recent, locals, sweep
<1>15. ASSUME DropCas(t) PROVE HitInv' /\ SliceInv(R)'
  BY <1>15, MarksQuiet DEF DropCas, Step, Goto, requests, Others, Keeps, HoldsBucket, Entering,
    Slicing, TypeOK, shared, table, recent, locals, sweep
<1>16. ASSUME DropRetry(t) PROVE HitInv' /\ SliceInv(R)'
  BY <1>16, MarksQuiet DEF DropRetry, Step, Goto, requests, Others, Keeps, HoldsBucket, Entering,
    Slicing, TypeOK, shared, table, recent, locals, sweep
<1>17. ASSUME Link(t) PROVE HitInv' /\ SliceInv(R)'
  BY <1>17, MarksQuiet DEF Link, Step, Goto, requests, Others, Keeps, HoldsBucket, Entering,
    Slicing, TypeOK, shared, table, recent, locals, sweep, LinkLoad
<1>18. ASSUME LinkCas(t) PROVE HitInv' /\ SliceInv(R)'
  BY <1>18, MarksQuiet DEF LinkCas, Step, Goto, requests, Others, Keeps, HoldsBucket, Entering,
    Slicing, TypeOK, shared, table, recent, locals, sweep, LinkSwap
<1>19. ASSUME LinkBack(t) PROVE HitInv' /\ SliceInv(R)'
  BY <1>19, MarksQuiet DEF LinkBack, Step, Goto, requests, Others, Keeps, HoldsBucket, Entering,
    Slicing, TypeOK, shared, table, recent, locals, sweep, LinkPrev
<1>20. ASSUME Unlink(t) PROVE HitInv' /\ SliceInv(R)'
  BY <1>20, MarksQuiet DEF Unlink, Step, Goto, requests, Others, Keeps, HoldsBucket, Entering,
    Slicing, TypeOK, shared, table, recent, locals, sweep
<1>21. ASSUME Dispose(t) PROVE HitInv' /\ SliceInv(R)'
  BY <1>21, MarksQuiet DEF Dispose, Step, Goto, requests, Others, Keeps, HoldsBucket, Entering,
    Slicing, TypeOK, shared, table, recent, locals, sweep
<1>22. ASSUME DisposeRetry(t) PROVE HitInv' /\ SliceInv(R)'
  BY <1>22, MarksQuiet DEF DisposeRetry, Step, Goto, requests, Others, Keeps, HoldsBucket,
    Entering, Slicing, TypeOK, shared, table, recent, locals, sweep
<1>23. ASSUME ResetCount(t) PROVE HitInv' /\ SliceInv(R)'
  BY <1>23, MarksQuiet DEF ResetCount, Step, Goto, requests, Others, Keeps, HoldsBucket,
    Entering, Slicing, TypeOK, shared, table, recent, locals, sweep
<1>24. ASSUME PullAtHead(t) PROVE HitInv' /\ SliceInv(R)'
  BY <1>24, MarksQuiet DEF PullAtHead, Step, Goto, requests, Others, Keeps, HoldsBucket,
    Entering, Slicing, TypeOK, shared, table, recent, locals, sweep
<1>25. ASSUME CheckThreshold(t) PROVE HitInv' /\ SliceInv(R)'
  BY <1>25, ReturnMarks, MarksQuiet DEF CheckThreshold, Goto, Others, Keeps, HoldsBucket,
    Entering, Slicing, TypeOK, shared, table, recent, locals, sweep
<1>26. ASSUME TryLock(t) PROVE HitInv' /\ SliceInv(R)'
  BY <1>26, ReturnMarks, MarksQuiet DEF TryLock, Goto, Others, Keeps, HoldsBucket, Entering,
    Slicing, TypeOK, shared, table, recent, locals, sweep
<1>27. ASSUME FirstPurge(t) PROVE HitInv' /\ SliceInv(R)'
  <2>1. \A u \in Threads : pc[u] \notin Slicing
    BY <1>27, OneHolder DEF FirstPurge, Step, HoldsLru, Slicing
  <2> QED BY <1>27, <2>1, MarksQuiet DEF FirstPurge, Step, Goto, Others, Keeps, HoldsBucket,
    Entering, Slicing, TypeOK, shared, table, recent, locals, sweep, StartPurge
<1>28. ASSUME SecondPurge(t) PROVE HitInv' /\ SliceInv(R)'
  <2>1. \A u \in Threads : pc[u] \notin Slicing
    BY <1>28, OneHolder DEF SecondPurge, Step, HoldsLru, Slicing
  <2> QED BY <1>28, <2>1, MarksQuiet DEF SecondPurge, Step, Goto, Others, Keeps, HoldsBucket,
    Entering, Slicing, TypeOK, shared, table, recent, locals, sweep, StartPurge
<1>29. ASSUME PurgeEnd(t) PROVE HitInv' /\ SliceInv(R)'
  <2>1. \A u \in Threads : pc[u] \notin Slicing
    BY <1>29, OneHolder DEF PurgeEnd, Step, HoldsLru, Slicing
  <2> QED BY <1>29, <2>1, MarksQuiet DEF PurgeEnd, Step, Goto, Others, Keeps, HoldsBucket,
    Entering, Slicing, TypeOK, shared, table, recent, locals, sweep
<1>30. ASSUME PurgeSkip(t) PROVE HitInv' /\ SliceInv(R)'
  <2>1. \A u \in Threads : pc[u] \notin Slicing
    BY <1>30, OneHolder DEF PurgeSkip, Step, HoldsLru, Slicing
  <2> QED BY <1>30, <2>1, MarksQuiet DEF PurgeSkip, Step, Goto, Others, Keeps, HoldsBucket,
    Entering, Slicing, TypeOK, shared, table, recent, locals, sweep
<1>31. ASSUME PurgeTry(t) PROVE HitInv' /\ SliceInv(R)'
  <2>1. \A u \in Threads : pc[u] \notin Slicing
    BY <1>31, OneHolder DEF PurgeTry, Step, HoldsLru, Slicing
  <2> QED BY <1>31, <2>1, MarksQuiet DEF PurgeTry, Step, Goto, Others, Keeps, HoldsBucket,
    Entering, Slicing, TypeOK, shared, table, recent, locals, sweep
<1>32. ASSUME DisposeCas(t) PROVE HitInv' /\ SliceInv(R)'
  <2>1. \A u \in Threads : pc[u] \notin Slicing
    BY <1>32, OneHolder DEF DisposeCas, Step, HoldsLru, Slicing
  <2> QED BY <1>32, <2>1, MarksQuiet DEF DisposeCas, Step, Goto, Others, Keeps, HoldsBucket,
    Entering, Slicing, TypeOK, shared, table, recent, locals, sweep
<1>33. ASSUME Bulk(t) PROVE HitInv' /\ SliceInv(R)'
  <2>1. \A u \in Threads : pc[u] \notin Slicing
    BY <1>33, OneHolder DEF Bulk, Step, HoldsLru, Slicing
  <2> QED BY <1>33, <2>1, MarksQuiet DEF Bulk, Step, Goto, Others, Keeps, HoldsBucket, Entering,
    Slicing, TypeOK, shared, table, recent, locals, sweep, LinkLoad
<1>34. ASSUME BulkCas(t) PROVE HitInv' /\ SliceInv(R)'
  <2>1. \A u \in Threads : pc[u] \notin Slicing
    BY <1>34, OneHolder DEF BulkCas, Step, HoldsLru, Slicing
  <2> QED BY <1>34, <2>1, MarksQuiet DEF BulkCas, Step, Goto, Others, Keeps, HoldsBucket,
    Entering, Slicing, TypeOK, shared, table, recent, locals, sweep, LinkSwap
<1>35. ASSUME BulkBack(t) PROVE HitInv' /\ SliceInv(R)'
  <2>1. \A u \in Threads : pc[u] \notin Slicing
    BY <1>35, OneHolder DEF BulkBack, Step, HoldsLru, Slicing
  <2> QED BY <1>35, <2>1, MarksQuiet DEF BulkBack, Step, Goto, Others, Keeps, HoldsBucket,
    Entering, Slicing, TypeOK, shared, table, recent, locals, sweep, LinkPrev
<1>36. ASSUME PullDone(t) PROVE HitInv' /\ SliceInv(R)'
  <2>1. \A u \in Threads : pc[u] \notin Slicing
    BY <1>36, OneHolder DEF PullDone, Step, HoldsLru, Slicing
  <2> QED BY <1>36, <2>1, MarksQuiet DEF PullDone, Step, Goto, Others, Keeps, HoldsBucket,
    Entering, Slicing, TypeOK, shared, table, recent, locals, sweep
<1>37. ASSUME PurgeDone(t) PROVE HitInv' /\ SliceInv(R)'
  <2>1. \A u \in Threads : pc[u] \notin Slicing
    BY <1>37, OneHolder DEF PurgeDone, Step, HoldsLru, Slicing
  <2> QED BY <1>37, <2>1, MarksQuiet DEF PurgeDone, Step, Goto, Others, Keeps, HoldsBucket,
    Entering, Slicing, TypeOK, shared, table, recent, locals, sweep
<1>38. ASSUME Unlock(t) PROVE HitInv' /\ SliceInv(R)'
  <2>1. \A u \in Threads : pc[u] \notin Slicing
    BY <1>38, OneHolder DEF Unlock, HoldsLru, Slicing
  <2> QED BY <1>38, <2>1, ReturnMarks DEF Unlock, Others, Keeps, HoldsBucket, Entering, Slicing,
    TypeOK, shared, table, recent, locals, sweep
<1>39. ASSUME PullEnd(t) PROVE HitInv' /\ SliceInv(R)'
  BY <1>39, PullEndMarks
<1>40. ASSUME HitInv', SliceInv(R)', ~PullMove(t) PROVE HitInv' /\ \E Q : SliceNext(R, Q, t)
  BY <1>0, <1>40 DEF SliceNext
<1>41. CASE PullStart(t)
  <2>1. pc[t] = "pull" /\ ~PullMove(t)
    BY <1>41 DEF PullStart, PullMove
  <2> QED BY <1>41, <2>1, PullStartMarks DEF SliceNext
<1>42. CASE PullSkip(t) \/ PullMove(t)
  <2>1. PICK Q \in SUBSET R : Q = R \ {cursor} /\ SliceInv(Q)'
    BY <1>42, PullNodeMarks
  <2>2. HitInv'
    BY <1>42, PullNodeMarks
  <2> QED BY <1>0, <2>1, <2>2 DEF SliceNext
<1>43. CASE ~(PullStart(t) \/ PullSkip(t) \/ PullMove(t))
  <2>1. HitInv' /\ SliceInv(R)'
    BY <1>43, <1>1, <1>2, <1>3, <1>4, <1>5, <1>6, <1>7, <1>8, <1>9, <1>10, <1>11, <1>12, <1>13,
      <1>14, <1>15, <1>16, <1>17, <1>18, <1>19, <1>20, <1>21, <1>22, <1>23, <1>24, <1>25, <1>26,
      <1>27, <1>28, <1>29, <1>30, <1>31, <1>32, <1>33, <1>34, <1>35, <1>36, <1>37, <1>38, <1>39,
      Zenon
    DEF Acts, Find, Proceed, Consolidate
  <2> QED BY <1>43, <2>1, <1>40
<1> QED BY <1>41, <1>42, <1>43

---------------------------------------------------------------------------
(* The LRU list and the sublist keep their nodes.                          *)

(* The nodes on the two, when none comes or goes.                          *)
LEMMA OnLruSame ==
  ASSUME NEW t \in Threads, Others(t), UNCHANGED chain,
         Keeps(t, {"link", "link_cas"}), pc[t] \in {"link", "link_cas"} => node'[t] = node[t],
         Keeps(t, {"unlink"}), (\E u \in Threads : pc[u] = "unlink") => cursor' = cursor
  PROVE  OnLru' = OnLru
<1>1. Linked' = Linked
  BY DEF Linked
<1>2. \A n \in Nodes : Works({"link", "link_cas"}, n)' <=> Works({"link", "link_cas"}, n)
  BY DEF Works, Others, Keeps
<1>3. \A n \in Nodes : Evicted({"unlink"}, n)' <=> Evicted({"unlink"}, n)
  BY DEF Evicted, Others, Keeps
<1> QED BY <1>1, <1>2, <1>3, Zenon DEF OnLru

(* A node on the LRU list that is not being linked is on it for good.      *)
LEMMA LinkedOnLru ==
  ASSUME NodesAreOwned, NEW t \in Threads, pc[t] \in {"link_back", "publish"}
  PROVE  node[t] \in OnLru
<1>1. node[t] \in Nodes /\ node[t] \in Linked
  BY DEF NodesAreOwned, OwnInv, Inserting, Entering
<1>2. ~Works({"link", "link_cas"}, node[t])
  BY DEF NodesAreOwned, OwnInv, Inserting, Entering, Works
<1> QED BY <1>1, <1>2 DEF OnLru

(* A node that is being linked is not on the list yet.                     *)
LEMMA LinkingOffLru ==
  ASSUME NodesAreOwned, NEW t \in Threads, pc[t] \in {"link", "link_cas"}
  PROVE  node[t] \in Nodes /\ node[t] \in Linked /\ node[t] \notin OnLru
<1>1. node[t] \in Nodes /\ node[t] \in Linked
  BY DEF NodesAreOwned, OwnInv, Inserting, Entering
<1>2. Works({"link", "link_cas"}, node[t])
  BY DEF Works
<1>3. ~Evicted({"unlink"}, node[t])
  BY <1>1 DEF NodesAreOwned, OwnInv, Evicted, Evicting
<1> QED BY <1>1, <1>2, <1>3 DEF OnLru

(* The two lists, when no link changes and no thread enters or leaves them. *)
LEMMA ListQuiet ==
  ASSUME NEW P, ListInv(P), NEW t \in Threads, Others(t), OnLru' = OnLru, UNCHANGED lru,
         pc'[t] \in Entering => pc[t] \in Entering,
         pc[t] \in {"link", "link_cas", "link_back", "bulk_back"}
           \/ pc'[t] \in Entering \cup {"bulk_cas", "bulk_back"}
           => pc'[t] = pc[t] /\ node'[t] = node[t] /\ cnext'[t] = cnext[t],
         pc'[t] \in Pulling => pc[t] \in Pulling /\ (pc'[t] = pc[t] \/ pc'[t] \in {"pull_node", "pull_skip"}),
         pc[t] \in Pulling /\ pc'[t] \notin Pulling => P = {},
         pc[t] \in {"bulk", "bulk_cas"} => pc'[t] = pc[t],
         (\E u \in Threads : pc'[u] \in Pulling \cup {"bulk_back"}) => last' = last
  PROVE  ListInv(P)'
<1>1. UNCHANGED <<lru_next, lru_prev>>
  BY DEF lru
<1>2. \A d : Awaited(d)' <=> Awaited(d)
  <2>1. \A u \in Threads : /\ pc'[u] \in {"link_back", "bulk_back"} <=> pc[u] \in {"link_back", "bulk_back"}
                           /\ pc[u] \in {"link_back", "bulk_back"} => cnext'[u] = cnext[u]
    BY DEF Others, Entering
  <2> QED BY <2>1 DEF Awaited
<1>3. (BackInv(OnLru \ P))'
  BY <1>1, <1>2 DEF ListInv, BackInv
<1>4. \A n : Works(Entering, n)' => Works(Entering, n)
  BY DEF Works, Others
<1>5. ASSUME NEW u \in Threads  PROVE Links(u, P)'
  <2>1. Links(u, P)
    BY DEF ListInv
  <2>2. CASE u = t
    BY <1>1, <1>4, <2>1, <2>2 DEF Links, Entering, Pulling, Slicing
  <2>3. CASE u # t
    <3>1. pc'[u] = pc[u] /\ node'[u] = node[u] /\ cnext'[u] = cnext[u]
      BY <2>3 DEF Others
    <3>2. pc[u] \in {"bulk_cas", "bulk_back"} => last' = last
      BY <3>1 DEF Pulling
    <3> QED BY <1>1, <1>4, <2>1, <3>1, <3>2 DEF Links
  <2> QED BY <2>2, <2>3
<1>6. ASSUME NEW u \in Threads  PROVE Moving(u, P)'
  <2>1. Moving(u, P)
    BY DEF ListInv
  <2>2. pc'[u] \in Pulling => last' = last
    OBVIOUS
  <2>3. \A end : last' = last => (IsSublist(P, end)' <=> IsSublist(P, end))
    BY <1>1 DEF IsSublist
  <2>4. CASE u = t
    BY <2>1, <2>2, <2>3, <2>4 DEF Moving, Pulling, Slicing
  <2>5. CASE u # t
    <3>1. pc'[u] = pc[u]
      BY <2>5 DEF Others
    <3>2. CASE pc[u] = "bulk_cas"
      BY <1>1, <2>1, <2>2, <3>1, <3>2 DEF Moving, IsSublist, Pulling, Slicing
    <3>3. CASE pc[u] # "bulk_cas"
      BY <1>1, <2>1, <2>2, <3>1, <3>3 DEF Moving, IsSublist, Pulling, Slicing
    <3> QED BY <3>2, <3>3
  <2> QED BY <2>4, <2>5
<1>7. (\A u \in Threads : pc'[u] \notin Pulling) => P = {}
  BY DEF ListInv, Others
<1> QED BY <1>1, <1>3, <1>5, <1>6, <1>7 DEF ListInv

(* Along the back links: to a node of the list or to its head.             *)
LEMMA PrevOnList ==
  ASSUME NEW S, S \subseteq Nodes, HasChain(lru_next, lru_next[LruHead], LruTail, S), BackInv(S),
         NEW n \in S \cup {LruTail}
  PROVE  /\ lru_prev[n] \in S \cup {LruHead}
         /\ lru_prev[n] # LruHead => lru_next[lru_prev[n]] = n /\ lru_prev[n] # n /\ ~Awaited(n)
<1>1. /\ \A x \in S : lru_next[x] \in S \cup {LruTail} /\ lru_next[x] # x
      /\ \A x \in S : x # lru_next[LruHead] => \E y \in S : lru_next[y] = x
      /\ LruTail \notin S /\ lru_next[LruHead] \in S \cup {LruTail}
      /\ lru_next[LruHead] = LruTail => S = {}
  BY ChainFacts
<1>2. \E c \in S \cup {LruHead} : lru_next[c] = n
  <2>1. CASE n = LruTail /\ S # {}
    <3>1. \E x \in S : lru_next[x] = LruTail
      BY <2>1, ChainEnds
    <3> QED BY <2>1, <3>1
  <2>2. CASE n = LruTail /\ S = {}
    BY <1>1, <2>2
  <2>3. CASE n # LruTail
    BY <1>1, <2>3
  <2> QED BY <2>1, <2>2, <2>3
<1>3. PICK c \in S \cup {LruHead} : lru_next[c] = n
  BY <1>2
<1>4. lru_prev[n] = IF Awaited(n) THEN LruHead ELSE c
  BY <1>3 DEF BackInv
<1>5. c \in S => c # n
  BY <1>1, <1>3
<1>6. LruHead \notin Nodes
  BY Sentinels
<1> QED BY <1>3, <1>4, <1>5

(* The lock holder takes nodes out of the list's middle: no other thread   *)
(* has a store to make there.                                              *)
LEMMA InMiddle ==
  ASSUME TypeOK, LockInv, NodesAreOwned, NEW P, ListInv(P), NEW n \in OnLru \ P,
         lru_prev[n] # LruHead, ~Works(Entering, n),
         NEW t \in Threads, pc[t] \in HoldsLru, pc[t] # "bulk_back"
  PROVE  /\ lru_prev[n] \in OnLru \ P /\ lru_next[lru_prev[n]] = n /\ lru_prev[n] # n
         /\ lru_next[n] \in (OnLru \ P) \cup {LruTail} /\ lru_next[n] # n
         /\ lru_next[n] # lru_prev[n]
         /\ lru_prev[lru_next[n]] = n /\ lru_next[LruHead] # n
         /\ ~Awaited(n) /\ ~Awaited(lru_next[n])
<1> DEFINE S == OnLru \ P
           d == lru_next[n]
<1>1. HasChain(lru_next, lru_next[LruHead], LruTail, S) /\ BackInv(S) /\ S \subseteq Nodes
  BY DEF ListInv, OnLru
<1>2. /\ \A x \in S : lru_next[x] \in S \cup {LruTail} /\ lru_next[x] # x /\ lru_next[x] # lru_next[LruHead]
      /\ \A x, y \in S : lru_next[x] = lru_next[y] => x = y
  BY <1>1, ChainFacts
<1> HIDE DEF S
<1>3. lru_prev[n] \in S /\ lru_next[lru_prev[n]] = n /\ lru_prev[n] # n /\ ~Awaited(n)
  <2>1. n \in S
    BY DEF S
  <2>2. lru_prev[n] \in S \cup {LruHead}
    BY <1>1, <2>1, PrevOnList
  <2>3. lru_next[lru_prev[n]] = n /\ lru_prev[n] # n /\ ~Awaited(n)
    BY <1>1, <2>1, PrevOnList
  <2> QED BY <2>2, <2>3
<1>4. ~Awaited(d)
  <2> SUFFICES ASSUME NEW u \in Threads, pc[u] \in {"link_back", "bulk_back"}, cnext[u] = d
               PROVE  FALSE
    BY DEF Awaited
  <2>1. pc[u] = "link_back"
    <3>1. pc[u] = "bulk_back" => u = t
      BY OneHolder DEF HoldsLru
    <3> QED BY <3>1
  <2>2. lru_next[node[u]] = d /\ node[u] \notin P
    BY <2>1 DEF ListInv, Links, Entering
  <2>3. node[u] \in S
    BY <2>1, <2>2, LinkedOnLru DEF S
  <2>4. node[u] = n
    BY <1>2, <2>2, <2>3 DEF S
  <2> QED BY <2>1, <2>4 DEF Works, Entering
<1>5. d \in S \cup {LruTail} /\ d # n /\ lru_prev[d] = n /\ lru_next[LruHead] # n
  <2>1. n \in S
    BY DEF S
  <2>2. lru_prev[d] = n
    BY <1>1, <1>4, <2>1 DEF BackInv
  <2>3. lru_next[LruHead] # n
    BY <1>2, <1>3
  <2> QED BY <1>2, <2>1, <2>2, <2>3
<1>6. d # lru_prev[n]
  <2>1. PICK N, r : N \in Nat /\ r \in [S -> 0 .. N] /\ Ranks(r, lru_next, lru_next[LruHead], LruTail, S)
    BY <1>1 DEF HasChain
  <2>2. n \in S
    BY DEF S
  <2>3. r[n] < r[lru_prev[n]] /\ (d \in S => r[d] < r[n])
    BY <1>3, <2>1, <2>2 DEF Ranks
  <2>4. \A x \in S : r[x] \in Int
    BY <2>1
  <2> QED BY <1>3, <2>2, <2>3, <2>4
<1> QED BY <1>3, <1>4, <1>5, <1>6 DEF S

(* removeNodeFromLru: what is left of the list is a list.                  *)
LEMMA CutsOut ==
  ASSUME NEW S, S \subseteq Nodes, HasChain(lru_next, lru_next[LruHead], LruTail, S), BackInv(S),
         NEW n \in S, NEW c \in S, NEW d, lru_next[c] = n, lru_next[n] = d, d # n, c # n,
         lru_next'[c] = d, lru_prev'[d] = c, ~Awaited(d),
         \A x \in (S \cup {LruHead}) \ {c, n} : lru_next'[x] = lru_next[x],
         \A x \in (S \cup {LruTail}) \ {d, n} : lru_prev'[x] = lru_prev[x],
         \A x : Awaited(x)' <=> Awaited(x)
  PROVE  /\ HasChain(lru_next', lru_next'[LruHead], LruTail, S \ {n})
         /\ BackInv(S \ {n})'
<1>1. /\ \A x \in S : lru_next[x] \in S \cup {LruTail} /\ lru_next[x] # lru_next[LruHead]
      /\ \A x, y \in S : lru_next[x] = lru_next[y] => x = y
      /\ lru_next[LruHead] \in S \cup {LruTail}
  BY ChainFacts
<1>2. lru_next'[LruHead] = lru_next[LruHead]
  BY Sentinels
<1>3. HasChain(lru_next', lru_next[LruHead], LruTail, S \ {n})
  <2>1. \A x \in S \ {c, n} : lru_next'[x] = lru_next[x]
    OBVIOUS
  <2> QED BY <2>1, CutChain
<1>4. ASSUME NEW x \in (S \ {n}) \cup {LruHead}
      PROVE  (lru_prev[lru_next[x]] = IF Awaited(lru_next[x]) THEN LruHead ELSE x)'
  <2>1. CASE x = c
    BY <2>1 DEF Awaited
  <2>2. CASE x # c
    <3>1. lru_next'[x] = lru_next[x]
      BY <1>2, <2>2
    <3>2. lru_next[x] # n /\ lru_next[x] # d /\ lru_next[x] \in S \cup {LruTail}
      BY <1>1, <2>2, Sentinels
    <3>3. lru_prev'[lru_next[x]] = lru_prev[lru_next[x]]
      BY <3>2
    <3>4. lru_prev[lru_next[x]] = IF Awaited(lru_next[x]) THEN LruHead ELSE x
      BY DEF BackInv
    <3> QED BY <3>1, <3>3, <3>4 DEF Awaited
  <2> QED BY <2>1, <2>2
<1> QED BY <1>2, <1>3, <1>4 DEF BackInv

(* What other links become is nothing to the list.                         *)
LEMMA BackSame ==
  ASSUME NEW S, S \subseteq Nodes, HasChain(lru_next, lru_next[LruHead], LruTail, S), BackInv(S),
         \A x \in S \cup {LruHead} : lru_next'[x] = lru_next[x],
         \A x \in S \cup {LruTail} : lru_prev'[x] = lru_prev[x],
         \A x : Awaited(x)' <=> Awaited(x)
  PROVE  HasChain(lru_next', lru_next'[LruHead], LruTail, S) /\ BackInv(S)'
<1>1. /\ \A x \in S : lru_next[x] \in S \cup {LruTail}
      /\ lru_next[LruHead] \in S \cup {LruTail}
  BY ChainFacts
<1>2. HasChain(lru_next', lru_next[LruHead], LruTail, S)
  BY SameChain
<1>3. ASSUME NEW x \in S \cup {LruHead}
      PROVE  (lru_prev[lru_next[x]] = IF Awaited(lru_next[x]) THEN LruHead ELSE x)'
  <2>1. lru_next'[x] = lru_next[x] /\ lru_prev'[lru_next[x]] = lru_prev[lru_next[x]]
    BY <1>1
  <2>2. lru_prev[lru_next[x]] = IF Awaited(lru_next[x]) THEN LruHead ELSE x
    BY DEF BackInv
  <2> QED BY <2>1, <2>2 DEF Awaited
<1> QED BY <1>2, <1>3 DEF BackInv

(* A thread stores the back link it owes: the old first node, or the tail, *)
(* leads back to its new neighbour.                                        *)
LEMMA BackStored ==
  ASSUME NEW S, S \subseteq Nodes, HasChain(lru_next, lru_next[LruHead], LruTail, S), BackInv(S),
         NEW l \in S, NEW d, lru_next[l] = d, UNCHANGED lru_next,
         lru_prev'[d] = l, \A x \in (S \cup {LruTail}) \ {d} : lru_prev'[x] = lru_prev[x],
         ~Awaited(d)', \A x : x # d => (Awaited(x)' <=> Awaited(x))
  PROVE  BackInv(S)'
<1>1. /\ \A x \in S : lru_next[x] \in S \cup {LruTail} /\ lru_next[x] # lru_next[LruHead]
      /\ \A x, y \in S : lru_next[x] = lru_next[y] => x = y
      /\ lru_next[LruHead] \in S \cup {LruTail}
  BY ChainFacts
<1>2. ASSUME NEW x \in S \cup {LruHead}
      PROVE  (lru_prev[lru_next[x]] = IF Awaited(lru_next[x]) THEN LruHead ELSE x)'
  <2>1. CASE x = l
    BY <2>1 DEF Awaited
  <2>2. CASE x # l
    <3>1. lru_next[x] # d /\ lru_next[x] \in S \cup {LruTail} /\ lru_next'[x] = lru_next[x]
      BY <1>1, <2>2
    <3>2. lru_prev'[lru_next[x]] = lru_prev[lru_next[x]]
      BY <3>1
    <3>3. lru_prev[lru_next[x]] = IF Awaited(lru_next[x]) THEN LruHead ELSE x
      BY DEF BackInv
    <3> QED BY <3>1, <3>2, <3>3 DEF Awaited
  <2> QED BY <2>1, <2>2
<1> QED BY <1>2 DEF BackInv

(* The head is swung to first: a list Q from first to l, whose links are   *)
(* in order, stands in front of the old one, and its last back link is     *)
(* awaited.                                                                *)
LEMMA FrontJoined ==
  ASSUME NEW S, S \subseteq Nodes, NEW Q, Q \subseteq Nodes, NEW first \in Q, NEW l \in Q,
         HasChain(lru_next, lru_next[LruHead], LruTail, S), BackInv(S), \A x \in Q : x \notin S,
         NEW h, h = lru_next[LruHead], lru_next[l] = h,
         HasChain(lru_next', first, LruTail, S \cup Q),
         lru_next'[LruHead] = first, \A x \in Nodes : lru_next'[x] = lru_next[x], UNCHANGED lru_prev,
         lru_prev[first] = LruHead, \A x \in Q \ {l} : lru_next[x] \in Q /\ lru_prev[lru_next[x]] = x,
         \A x \in Q : ~Awaited(x),
         Awaited(h)', \A x : x # h => (Awaited(x)' <=> Awaited(x))
  PROVE  BackInv(S \cup Q)'
<1>1. /\ \A x \in S : lru_next[x] \in S \cup {LruTail} /\ lru_next[x] # h
      /\ h \in S \cup {LruTail}
  BY ChainFacts
<1>2. LruHead \notin Nodes /\ LruTail \notin Nodes
  BY Sentinels
<1>3. ASSUME NEW x \in (S \cup Q) \cup {LruHead}
      PROVE  (lru_prev[lru_next[x]] = IF Awaited(lru_next[x]) THEN LruHead ELSE x)'
  <2>1. CASE x = LruHead
    <3>1. lru_next'[x] = first /\ lru_prev'[first] = LruHead
      BY <2>1
    <3> QED BY <2>1, <3>1
  <2>2. CASE x = l
    <3>1. lru_prev[h] = LruHead
      BY DEF BackInv
    <3>2. lru_next'[x] = h /\ lru_prev'[h] = LruHead
      BY <2>2, <3>1
    <3> QED BY <3>2 DEF Awaited
  <2>3. CASE x \in Q \ {l}
    <3>1. lru_next'[x] = lru_next[x] /\ lru_prev'[lru_next[x]] = x
      BY <2>3
    <3>2. ~Awaited(lru_next[x]) /\ lru_next[x] # h
      BY <1>1, <1>2, <2>3
    <3> QED BY <3>1, <3>2 DEF Awaited
  <2>4. CASE x \in S
    <3>1. lru_next'[x] = lru_next[x] /\ lru_next[x] # h
      BY <1>1, <2>4
    <3>2. lru_prev[lru_next[x]] = IF Awaited(lru_next[x]) THEN LruHead ELSE x
      BY <2>4 DEF BackInv
    <3> QED BY <3>1, <3>2 DEF Awaited
  <2> QED BY <2>1, <2>2, <2>3, <2>4
<1> QED BY <1>3 DEF BackInv

(* What the other threads know, when an inserter acts.                     *)
LEMMA InserterActs ==
  ASSUME NEW P, ListInv(P), NEW t \in Threads, Others(t), UNCHANGED last,
         pc[t] \notin Pulling \cup {"bulk_back"}, pc'[t] \notin Pulling \cup {"bulk_back"},
         OnLru \subseteq OnLru', \A n \in OnLru : Works(Entering, n)' => Works(Entering, n),
         \A n \in P \cup {TempHead} : lru_next'[n] = lru_next[n],
         \A n \in P : lru_prev'[n] = lru_prev[n],
         (\E u \in Threads : pc[u] = "bulk_back") => lru_next'[last] = lru_next[last],
         \A u \in Threads : u # t /\ pc[u] \in {"link_cas", "link_back"} =>
           lru_next'[node[u]] = lru_next[node[u]],
         \A u \in Threads : u # t /\ pc[u] = "link_cas" => lru_prev'[node[u]] = LruHead,
         Links(t, P)'
  PROVE  /\ \A u \in Threads : (Links(u, P) /\ Moving(u, P))'
         /\ (\A u \in Threads : pc'[u] \notin Pulling) => P = {}
<1>1. ASSUME NEW u \in Threads  PROVE Moving(u, P)'
  <2>1. Moving(u, P)
    BY DEF ListInv
  <2>2. CASE u = t
    BY <2>2 DEF Moving, Pulling, Slicing
  <2>3. CASE u # t
    <3>1. pc'[u] = pc[u]
      BY <2>3 DEF Others
    <3>2. ASSUME pc[u] \in Pulling, last # TempHead
          PROVE  IsSublist(P, IF pc[u] = "bulk_cas" THEN LruHead ELSE TempHead)'
      <4>1. PICK end : end = IF pc[u] = "bulk_cas" THEN LruHead ELSE TempHead
        OBVIOUS
      <4>2. /\ lru_next[TempHead] \in P /\ last \in P /\ lru_prev[lru_next[TempHead]] = end
            /\ HasChain(lru_prev, last, end, P)
            /\ \A n \in P : n # lru_next[TempHead] => lru_prev[n] \in P /\ lru_next[lru_prev[n]] = n
        BY <2>1, <3>2, <4>1 DEF Moving, IsSublist
      <4>3. HasChain(lru_prev', last, end, P)
        BY <4>2, SameChain
      <4>4. end = IF pc'[u] = "bulk_cas" THEN LruHead ELSE TempHead
        BY <3>1, <4>1
      <4> QED BY <4>2, <4>3, <4>4 DEF IsSublist
    <3> QED BY <2>1, <3>1, <3>2 DEF Moving, Pulling, Slicing
  <2> QED BY <2>2, <2>3
<1>2. ASSUME NEW u \in Threads, u # t  PROVE Links(u, P)'
  <2>1. Links(u, P) /\ Moving(u, P)
    BY DEF ListInv
  <2>2. pc'[u] = pc[u] /\ node'[u] = node[u] /\ cnext'[u] = cnext[u]
    BY <1>2 DEF Others
  <2>3. pc[u] \in {"bulk_cas", "bulk_back"} => lru_next'[last] = lru_next[last]
    <3>1. pc[u] = "bulk_cas" => last \in P
      BY <2>1 DEF Moving, Pulling, IsSublist
    <3> QED BY <3>1
  <2> QED BY <1>2, <2>1, <2>2, <2>3 DEF Links
<1>3. (\A u \in Threads : pc'[u] \notin Pulling) => P = {}
  BY DEF ListInv, Others
<1> QED BY <1>1, <1>2, <1>3

(* And when the lock holder acts.                                          *)
LEMMA HolderActs ==
  ASSUME LockInv, NEW P, ListInv(P), NEW Q, NEW t \in Threads, Others(t), pc[t] \in HoldsLru,
         \A u \in Threads : u # t /\ pc[u] \in {"link_cas", "link_back"} =>
           lru_next'[node[u]] = lru_next[node[u]],
         \A u \in Threads : u # t /\ pc[u] = "link_cas" => lru_prev'[node[u]] = LruHead,
         \A u \in Threads : u # t /\ pc[u] \in Entering => node[u] \notin Q,
         (Links(t, Q) /\ Moving(t, Q))', pc'[t] \notin Pulling => Q = {}
  PROVE  /\ \A u \in Threads : (Links(u, Q) /\ Moving(u, Q))'
         /\ (\A u \in Threads : pc'[u] \notin Pulling) => Q = {}
<1>1. ASSUME NEW u \in Threads, u # t  PROVE (Links(u, Q) /\ Moving(u, Q))'
  <2>1. Links(u, P)
    BY DEF ListInv
  <2>2. pc'[u] = pc[u] /\ node'[u] = node[u] /\ cnext'[u] = cnext[u]
    BY <1>1 DEF Others
  <2>3. pc[u] \notin HoldsLru
    BY <1>1, OneHolder
  <2>4. pc'[u] \notin {"bulk_cas", "bulk_back", "bulk", "reset_count"} \cup Pulling
    BY <2>2, <2>3 DEF HoldsLru, Pulling, Slicing
  <2> QED BY <1>1, <2>1, <2>2, <2>4 DEF Links, Moving
<1> QED BY <1>1

(* A thread that holds lru_lock_ and moves no sublist: there is none.      *)
LEMMA NoSublist ==
  ASSUME LockInv, NEW P, ListInv(P), NEW t \in Threads, pc[t] \in HoldsLru, pc[t] \notin Pulling
  PROVE  P = {} /\ \A u \in Threads : pc[u] \notin Pulling
<1>1. \A u \in Threads : pc[u] \notin Pulling
  BY OneHolder DEF Pulling, Slicing, HoldsLru
<1> QED BY <1>1 DEF ListInv

(* addSublistToLruHead by an inserter: the links of its node, which is not *)
(* on the list, change as often as it takes.                               *)
LEMMA LoadsLinks ==
  ASSUME TypeOK, LockInv, NodesAreOwned, NEW P, ListInv(P), NEW t \in Threads,
         Link(t) \/ (LinkCas(t) /\ lru_next[LruHead] # cnext[t])
  PROVE  ListInv(P)' /\ OnLru' = OnLru /\ \A m \in OnLru : lru_prev'[m] = lru_prev[m]
<1> DEFINE n == node[t]
           S == OnLru \ P
<1>1. /\ pc[t] \in {"link", "link_cas"} /\ pc'[t] = "link_cas" /\ Others(t)
      /\ UNCHANGED <<chain, node, req, cursor, last>>
      /\ cnext'[t] = lru_next[LruHead]
  BY DEF Link, LinkCas, LinkLoad, LinkSwap, Step, Goto, TypeOK, Others, table, sweep
<1>2. n \in Nodes /\ n \in Linked /\ n \notin OnLru
  BY <1>1, LinkingOffLru
<1>3. /\ lru_next'[n] = lru_next[LruHead] /\ lru_prev'[n] = LruHead
      /\ \A x \in Cells \ {n} : lru_next'[x] = lru_next[x] /\ lru_prev'[x] = lru_prev[x]
  <2>1. CASE Link(t)
    BY <1>2, <2>1 DEF Link, LinkLoad, TypeOK, Cells
  <2>2. CASE LinkCas(t) /\ lru_next[LruHead] # cnext[t]
    BY <1>2, <2>2 DEF LinkCas, LinkSwap, ListInv, Links, TypeOK, Cells
  <2> QED BY <2>1, <2>2
<1>4. OnLru' = OnLru
  BY <1>1, OnLruSame DEF Keeps
<1>5. P \subseteq OnLru /\ OnLru \subseteq Nodes /\ n \notin P /\ n \notin S
  BY <1>2 DEF ListInv, OnLru
<1>6. \A x : Awaited(x)' <=> Awaited(x)
  <2>1. \A u \in Threads : /\ pc'[u] \in {"link_back", "bulk_back"} <=> pc[u] \in {"link_back", "bulk_back"}
                           /\ pc[u] \in {"link_back", "bulk_back"} => cnext'[u] = cnext[u]
    BY <1>1 DEF Others
  <2> QED BY <2>1 DEF Awaited
<1>7. HasChain(lru_next', lru_next'[LruHead], LruTail, S) /\ BackInv(OnLru \ P)'
  <2>1. HasChain(lru_next, lru_next[LruHead], LruTail, S) /\ BackInv(S)
    BY DEF ListInv
  <2>2. S \subseteq Nodes
    BY <1>5
  <2>3. \A x \in S \cup {LruHead} : lru_next'[x] = lru_next[x]
    BY <1>2, <1>3, <1>5, Sentinels DEF Cells
  <2>4. \A x \in S \cup {LruTail} : lru_prev'[x] = lru_prev[x]
    BY <1>2, <1>3, <1>5, Sentinels DEF Cells
  <2>5. PICK T : T = S
    OBVIOUS
  <2> HIDE DEF S
  <2>6. HasChain(lru_next', lru_next'[LruHead], LruTail, T) /\ BackInv(T)'
    BY <1>6, <2>1, <2>2, <2>3, <2>4, <2>5, BackSame
  <2> QED BY <1>4, <2>5, <2>6 DEF BackInv, S
<1>8. \A u \in Threads : u # t /\ pc[u] \in Entering => node[u] \in Nodes /\ node[u] # n
  BY <1>1 DEF NodesAreOwned, OwnInv, Inserting, Entering
<1>9. /\ \A u \in Threads : (Links(u, P) /\ Moving(u, P))'
      /\ (\A u \in Threads : pc'[u] \notin Pulling) => P = {}
  <2>1. pc[t] \notin Pulling \cup {"bulk_back"} /\ pc'[t] \notin Pulling \cup {"bulk_back"}
    BY <1>1 DEF Pulling, Slicing
  <2>2. \A m : Works(Entering, m)' => Works(Entering, m)
    BY <1>1 DEF Works, Others, Entering
  <2>3. /\ \A m \in P \cup {TempHead} : lru_next'[m] = lru_next[m]
        /\ \A m \in P : lru_prev'[m] = lru_prev[m]
    BY <1>2, <1>3, <1>5, Sentinels DEF Cells
  <2>4. (\E u \in Threads : pc[u] = "bulk_back") => lru_next'[last] = lru_next[last]
    <3>1. (\E u \in Threads : pc[u] = "bulk_back") => last \in OnLru
      BY DEF ListInv, Links
    <3> QED BY <1>2, <1>3, <1>5, <3>1 DEF Cells
  <2>5. \A u \in Threads : u # t /\ pc[u] \in {"link_cas", "link_back"} =>
          lru_next'[node[u]] = lru_next[node[u]]
    BY <1>3, <1>8 DEF Entering, Cells
  <2>6. \A u \in Threads : u # t /\ pc[u] = "link_cas" => lru_prev'[node[u]] = LruHead
    BY <1>3, <1>8 DEF Entering, Cells, ListInv, Links
  <2>7. Links(t, P)'
    <3>1. lru_next[LruHead] # NULL
      BY DEF TypeOK
    <3> QED BY <1>1, <1>3, <1>5, <3>1 DEF Links
  <2> QED BY <1>1, <1>4, <2>1, <2>2, <2>3, <2>4, <2>5, <2>6, <2>7, InserterActs
<1>10. \A m \in OnLru : lru_prev'[m] = lru_prev[m]
  BY <1>2, <1>3, <1>5 DEF Cells
<1> QED BY <1>4, <1>5, <1>7, <1>9, <1>10 DEF ListInv

(* The head is swung to the node.                                          *)
LEMMA LinkCasLinks ==
  ASSUME TypeOK, LockInv, NodesAreOwned, NEW P, ListInv(P), NEW t \in Threads,
         LinkCas(t), lru_next[LruHead] = cnext[t]
  PROVE  ListInv(P)' /\ OnLru' = OnLru \cup {node[t]} /\ UNCHANGED lru_prev
<1> DEFINE n == node[t]
           S == OnLru \ P
           h == cnext[t]
<1>1. /\ pc[t] = "link_cas" /\ pc'[t] = "link_back" /\ Others(t)
      /\ UNCHANGED <<chain, node, cnext, req, cursor, last, lru_prev>>
      /\ lru_next' = [lru_next EXCEPT ![LruHead] = n]
      /\ \A u \in Threads : pc'[u] = IF u = t THEN "link_back" ELSE pc[u]
  BY DEF LinkCas, LinkSwap, Goto, TypeOK, Others, table, sweep
<1>2. n \in Nodes /\ n \in Linked /\ n \notin OnLru
  BY <1>1, LinkingOffLru
<1>3. /\ lru_next'[LruHead] = n /\ \A x \in Cells \ {LruHead} : lru_next'[x] = lru_next[x]
  BY <1>1 DEF TypeOK, Cells
<1>4. \A u \in Threads : u # t /\ pc[u] \in Inserting => node[u] \in Nodes /\ node[u] # n
  BY <1>1 DEF NodesAreOwned, OwnInv, Inserting, Entering
<1>5. OnLru' = OnLru \cup {n}
  <2>1. Linked' = Linked
    BY <1>1 DEF Linked
  <2>2. \A m \in Nodes : Works({"link", "link_cas"}, m)' <=> Works({"link", "link_cas"}, m) /\ m # n
    BY <1>1, <1>4 DEF Works, Inserting, Entering
  <2>3. \A m \in Nodes : Evicted({"unlink"}, m)' <=> Evicted({"unlink"}, m)
    BY <1>1 DEF Evicted
  <2> HIDE DEF n
  <2> QED BY <1>2, <2>1, <2>2, <2>3 DEF OnLru
<1>6. P \subseteq OnLru /\ OnLru \subseteq Nodes /\ n \notin P /\ n \notin S
  BY <1>2 DEF ListInv, OnLru
<1>7. lru_next[n] = h /\ h = lru_next[LruHead] /\ lru_prev[n] = LruHead
  BY <1>1 DEF ListInv, Links
<1>8. Awaited(h)' /\ \A x : x # h => (Awaited(x)' <=> Awaited(x))
  BY <1>1 DEF Awaited
<1>9. ~Awaited(n)
  <2> SUFFICES ASSUME NEW u \in Threads, pc[u] \in {"link_back", "bulk_back"}, cnext[u] = n
               PROVE  FALSE
    BY DEF Awaited
  <2>1. \A x \in S : lru_next[x] \in S \cup {LruTail}
    BY ChainFacts DEF ListInv
  <2>2. CASE pc[u] = "link_back"
    <3>1. node[u] \in S /\ lru_next[node[u]] = n
      BY <2>2, LinkedOnLru DEF ListInv, Links, Entering
    <3> QED BY <1>2, <1>6, <2>1, <3>1, Sentinels
  <2>3. CASE pc[u] = "bulk_back"
    <3>1. last \in S /\ lru_next[last] = n
      BY <2>3, NoSublist DEF ListInv, Links, HoldsLru, Pulling, Slicing
    <3> QED BY <1>2, <1>6, <2>1, <3>1, Sentinels
  <2> QED BY <2>2, <2>3
<1>10. HasChain(lru_next', n, LruTail, S \cup {n})
  <2>1. HasChain(lru_next, h, LruTail, S)
    BY <1>7 DEF ListInv
  <2>2. lru_next'[n] = h /\ \A x \in S : lru_next'[x] = lru_next[x]
    BY <1>2, <1>3, <1>6, <1>7, Sentinels DEF Cells
  <2>3. n \notin S /\ n # LruTail
    BY <1>2, <1>6, Sentinels
  <2> HIDE DEF S, n, h
  <2> QED BY <2>1, <2>2, <2>3, PushChain
<1>11. BackInv(OnLru \ P)'
  <2>1. PICK T, Q, l, g : T = S /\ Q = {n} /\ l = n /\ g = h
    OBVIOUS
  <2>2. T \subseteq Nodes /\ Q \subseteq Nodes /\ l \in Q /\ \A x \in Q : x \notin T
    BY <1>2, <1>6, <2>1
  <2>3. HasChain(lru_next, lru_next[LruHead], LruTail, T) /\ BackInv(T)
    BY <2>1 DEF ListInv
  <2>4. g = lru_next[LruHead] /\ lru_next[l] = g /\ lru_prev[l] = LruHead /\ lru_next'[LruHead] = l
    BY <1>3, <1>7, <2>1
  <2>5. \A x \in Nodes : lru_next'[x] = lru_next[x]
    BY <1>3, Sentinels DEF Cells
  <2>6. HasChain(lru_next', l, LruTail, T \cup Q)
    BY <1>10, <2>1
  <2>7. \A x \in Q : ~Awaited(x)
    BY <1>9, <2>1
  <2>8. Awaited(g)' /\ \A x : x # g => (Awaited(x)' <=> Awaited(x))
    BY <1>1, <2>1 DEF Awaited
  <2>9. \A x \in Q \ {l} : lru_next[x] \in Q /\ lru_prev[lru_next[x]] = x
    BY <2>1
  <2>10. BackInv(T \cup Q)'
    BY <1>1, <2>2, <2>3, <2>4, <2>5, <2>6, <2>7, <2>8, <2>9, FrontJoined
  <2>11. OnLru' \ P = T \cup Q
    BY <1>5, <1>6, <2>1
  <2> QED BY <2>10, <2>11 DEF BackInv
<1>12. /\ \A u \in Threads : (Links(u, P) /\ Moving(u, P))'
       /\ (\A u \in Threads : pc'[u] \notin Pulling) => P = {}
  <2>1. pc[t] \notin Pulling \cup {"bulk_back"} /\ pc'[t] \notin Pulling \cup {"bulk_back"}
    BY <1>1 DEF Pulling, Slicing
  <2>2. \A m : Works(Entering, m)' => Works(Entering, m)
    BY <1>1 DEF Works, Entering
  <2>3. /\ \A m \in P \cup {TempHead} : lru_next'[m] = lru_next[m]
        /\ \A m \in P : lru_prev'[m] = lru_prev[m]
    BY <1>1, <1>3, <1>6, Sentinels DEF Cells
  <2>4. (\E u \in Threads : pc[u] = "bulk_back") => lru_next'[last] = lru_next[last]
    <3>1. (\E u \in Threads : pc[u] = "bulk_back") => last \in OnLru
      BY DEF ListInv, Links
    <3> QED BY <1>3, <1>6, <3>1, Sentinels DEF Cells
  <2>5. \A u \in Threads : u # t /\ pc[u] \in {"link_cas", "link_back"} =>
          lru_next'[node[u]] = lru_next[node[u]]
    BY <1>3, <1>4, Sentinels DEF Inserting, Entering, Cells
  <2>6. \A u \in Threads : u # t /\ pc[u] = "link_cas" => lru_prev'[node[u]] = LruHead
    BY <1>1 DEF ListInv, Links
  <2>7. Links(t, P)'
    <3>1. lru_next'[n] = h
      BY <1>2, <1>3, <1>7, Sentinels DEF Cells
    <3>2. h # NULL
      BY <1>1 DEF ListInv, Links
    <3> QED BY <1>1, <1>6, <3>1, <3>2 DEF Links
  <2> QED BY <1>1, <1>5, <2>1, <2>2, <2>3, <2>4, <2>5, <2>6, <2>7, InserterActs
<1>13. P \subseteq OnLru' /\ HasChain(lru_next', lru_next'[LruHead], LruTail, OnLru' \ P)
  <2>1. OnLru' \ P = S \cup {n}
    BY <1>5, <1>6
  <2> QED BY <1>3, <1>5, <1>6, <1>10, <2>1
<1> QED BY <1>1, <1>5, <1>11, <1>12, <1>13 DEF ListInv

(* No two threads owe the back link of the same node.                      *)
LEMMA OneAwaited ==
  ASSUME LockInv, NodesAreOwned, NEW P, ListInv(P),
         NEW s \in Threads, pc[s] \in {"link_back", "bulk_back"},
         NEW t \in Threads, pc[t] \in {"link_back", "bulk_back"}, cnext[s] = cnext[t]
  PROVE  s = t
<1>1. \A x, y \in OnLru \ P : lru_next[x] = lru_next[y] => x = y
  BY ChainFacts DEF ListInv
<1>2. \A u \in Threads : pc[u] = "link_back" =>
        node[u] \in OnLru \ P /\ lru_next[node[u]] = cnext[u]
  BY LinkedOnLru DEF ListInv, Links, Entering
<1>3. \A u \in Threads : pc[u] = "bulk_back" =>
        last \in OnLru \ P /\ lru_next[last] = cnext[u] /\ ~Works(Entering, last)
  BY NoSublist DEF ListInv, Links, HoldsLru, Pulling, Slicing
<1>4. CASE pc[s] = "bulk_back" /\ pc[t] = "bulk_back"
  BY <1>4, OneHolder DEF HoldsLru
<1>5. CASE pc[s] = "link_back" /\ pc[t] = "link_back"
  <2>1. node[s] = node[t]
    BY <1>1, <1>2, <1>5
  <2> QED BY <1>5, <2>1 DEF NodesAreOwned, OwnInv, Inserting, Entering
<1>6. \A u, v \in Threads : ~(pc[u] = "link_back" /\ pc[v] = "bulk_back" /\ cnext[u] = cnext[v])
  BY <1>1, <1>2, <1>3 DEF Works, Entering
<1> QED BY <1>4, <1>5, <1>6

(* The last store of addSublistToLruHead, by an inserter or by a pull.     *)
LEMMA BackLinks ==
  ASSUME TypeOK, LockInv, NodesAreOwned, NEW P, ListInv(P), NEW t \in Threads,
         LinkBack(t) \/ BulkBack(t)
  PROVE  /\ ListInv(P)' /\ OnLru' = OnLru
         /\ \A m \in OnLru : lru_prev'[m] # lru_prev[m] => lru_prev'[m] # LruHead
<1>1. PICK T, l, d : T = OnLru \ P /\ d = cnext[t] /\ l = IF pc[t] = "link_back" THEN node[t] ELSE last
  OBVIOUS
<1>2. /\ pc[t] \in {"link_back", "bulk_back"} /\ Others(t)
      /\ UNCHANGED <<chain, node, req, cursor, last, lru_next>>
      /\ pc'[t] = IF pc[t] = "link_back" THEN "publish" ELSE "pull_done"
      /\ lru_prev' = [lru_prev EXCEPT ![d] = l]
  BY <1>1 DEF LinkBack, BulkBack, LinkPrev, Step, Goto, TypeOK, Others, table, sweep
<1>3. /\ HasChain(lru_next, lru_next[LruHead], LruTail, T) /\ BackInv(T)
      /\ T \subseteq OnLru /\ T \subseteq Nodes /\ P \subseteq OnLru /\ OnLru \subseteq Nodes
  BY <1>1 DEF ListInv, OnLru
<1>4. OnLru' = OnLru
  BY <1>2, OnLruSame DEF Keeps
<1>5. l \in T /\ lru_next[l] = d
  <2>1. CASE pc[t] = "link_back"
    BY <1>1, <2>1, LinkedOnLru DEF ListInv, Links, Entering
  <2>2. CASE pc[t] = "bulk_back"
    BY <1>1, <2>2, NoSublist DEF ListInv, Links, HoldsLru, Pulling, Slicing
  <2> QED BY <1>2, <2>1, <2>2
<1>6. d \in T \cup {LruTail}
  BY <1>3, <1>5, ChainFacts
<1>7. /\ lru_prev'[d] = l /\ \A x \in Cells : x # d => lru_prev'[x] = lru_prev[x]
  BY <1>2, <1>3, <1>6 DEF TypeOK, Cells
<1>8. ~Awaited(d)'
  <2> SUFFICES ASSUME NEW u \in Threads, pc'[u] \in {"link_back", "bulk_back"}, cnext'[u] = d
               PROVE  FALSE
    BY DEF Awaited
  <2>1. u # t
    BY <1>2
  <2>2. pc[u] \in {"link_back", "bulk_back"} /\ cnext[u] = cnext[t]
    BY <1>1, <1>2, <2>1 DEF Others
  <2> QED BY <1>2, <2>1, <2>2, OneAwaited
<1>9. \A x : x # d => (Awaited(x)' <=> Awaited(x))
  <2>1. \A u \in Threads : u # t => pc'[u] = pc[u] /\ cnext'[u] = cnext[u]
    BY <1>2 DEF Others
  <2> QED BY <1>1, <1>2, <2>1 DEF Awaited
<1>10. BackInv(T)'
  <2>1. \A x \in (T \cup {LruTail}) \ {d} : lru_prev'[x] = lru_prev[x]
    BY <1>3, <1>7 DEF Cells
  <2> QED BY <1>2, <1>3, <1>5, <1>7, <1>8, <1>9, <2>1, BackStored
<1>11. /\ \A u \in Threads : (Links(u, P) /\ Moving(u, P))'
       /\ (\A u \in Threads : pc'[u] \notin Pulling) => P = {}
  <2>1. \A u \in Threads : pc[u] = "link_cas" => lru_prev'[node[u]] = LruHead
    <3>1. \A u \in Threads : pc[u] = "link_cas" =>
            node[u] \in Nodes /\ node[u] # d /\ lru_prev[node[u]] = LruHead
      BY <1>3, <1>6, LinkingOffLru, Sentinels DEF ListInv, Links
    <3> QED BY <1>7, <3>1 DEF Cells
  <2>2. CASE pc[t] = "link_back"
    <3>1. pc[t] \notin Pulling \cup {"bulk_back"} /\ pc'[t] \notin Pulling \cup {"bulk_back"}
      BY <1>2, <2>2 DEF Pulling, Slicing
    <3>2. \A m : Works(Entering, m)' => Works(Entering, m)
      BY <1>2, <2>2 DEF Works, Others, Entering
    <3>3. \A m \in P : lru_prev'[m] = lru_prev[m]
      BY <1>1, <1>3, <1>6, <1>7, Sentinels DEF Cells
    <3>4. Links(t, P)'
      BY <1>2, <2>2 DEF Links, ListInv, Entering
    <3> QED BY <1>2, <1>4, <2>1, <3>1, <3>2, <3>3, <3>4, InserterActs
  <2>3. CASE pc[t] = "bulk_back"
    <3>1. P = {} /\ pc'[t] = "pull_done"
      BY <1>2, <2>3, NoSublist DEF HoldsLru, Pulling, Slicing
    <3>2. (Links(t, {}) /\ Moving(t, {}))' /\ pc'[t] \notin Pulling /\ pc[t] \in HoldsLru
      BY <2>3, <3>1 DEF Links, Moving, Entering, Pulling, Slicing, HoldsLru
    <3> QED BY <1>2, <2>1, <3>1, <3>2, HolderActs
  <2> QED BY <1>2, <2>2, <2>3
<1>12. \A m \in OnLru : lru_prev'[m] # lru_prev[m] => lru_prev'[m] # LruHead
  BY <1>3, <1>5, <1>7, Sentinels DEF Cells
<1>13. BackInv(OnLru \ P)'
  BY <1>1, <1>4, <1>10 DEF BackInv
<1> QED BY <1>1, <1>2, <1>3, <1>4, <1>11, <1>12, <1>13 DEF ListInv

(* addSublistToLruHead by a pull: the sublist's links to the list change   *)
(* as often as it takes.                                                   *)
LEMMA BulkLoads ==
  ASSUME TypeOK, LockInv, NodesAreOwned, NEW P, ListInv(P), NEW t \in Threads,
         Bulk(t) \/ (BulkCas(t) /\ lru_next[LruHead] # cnext[t])
  PROVE  ListInv(P)' /\ OnLru' = OnLru
<1>1. PICK T, first, l, h : /\ T = OnLru \ P /\ first = lru_next[TempHead]
                            /\ l = last /\ h = lru_next[LruHead]
  OBVIOUS
<1>2. /\ pc[t] \in {"bulk", "bulk_cas"} /\ pc'[t] = "bulk_cas" /\ Others(t)
      /\ UNCHANGED <<chain, node, req, cursor, last>>
      /\ cnext'[t] = h
  BY <1>1 DEF Bulk, BulkCas, LinkLoad, LinkSwap, Step, Goto, TypeOK, Others, table, sweep
<1>3. PICK end : end = IF pc[t] = "bulk_cas" THEN LruHead ELSE TempHead
  OBVIOUS
<1>4. /\ first \in P /\ l \in P /\ lru_prev[first] = end /\ HasChain(lru_prev, l, end, P)
      /\ \A n \in P : n # first => lru_prev[n] \in P /\ lru_next[lru_prev[n]] = n
  BY <1>1, <1>2, <1>3 DEF ListInv, Moving, IsSublist, Pulling
<1>5. /\ HasChain(lru_next, lru_next[LruHead], LruTail, T) /\ BackInv(T)
      /\ T \subseteq OnLru /\ T \subseteq Nodes /\ P \subseteq OnLru /\ OnLru \subseteq Nodes
      /\ P \subseteq Nodes /\ \A x \in P : x \notin T
  BY <1>1 DEF ListInv, OnLru
<1>6. /\ lru_next'[l] = h /\ lru_prev'[first] = LruHead
      /\ \A x \in Cells : x # l => lru_next'[x] = lru_next[x]
      /\ \A x \in Cells : x # first => lru_prev'[x] = lru_prev[x]
  <2>1. CASE Bulk(t)
    BY <1>1, <1>4, <1>5, <2>1 DEF Bulk, LinkLoad, TypeOK, Cells
  <2>2. CASE BulkCas(t) /\ lru_next[LruHead] # cnext[t]
    <3>1. end = LruHead
      BY <1>3, <2>2 DEF BulkCas
    <3> QED BY <1>1, <1>4, <1>5, <2>2, <3>1 DEF BulkCas, LinkSwap, TypeOK, Cells
  <2> QED BY <2>1, <2>2
<1>7. OnLru' = OnLru
  BY <1>2, OnLruSame DEF Keeps
<1>8. \A x : Awaited(x)' <=> Awaited(x)
  <2>1. \A u \in Threads : /\ pc'[u] \in {"link_back", "bulk_back"} <=> pc[u] \in {"link_back", "bulk_back"}
                           /\ pc[u] \in {"link_back", "bulk_back"} => cnext'[u] = cnext[u]
    BY <1>2 DEF Others
  <2> QED BY <2>1 DEF Awaited
<1>9. HasChain(lru_next', lru_next'[LruHead], LruTail, T) /\ BackInv(T)'
  <2>1. \A x \in T \cup {LruHead} : lru_next'[x] = lru_next[x]
    BY <1>4, <1>5, <1>6, Sentinels DEF Cells
  <2>2. \A x \in T \cup {LruTail} : lru_prev'[x] = lru_prev[x]
    BY <1>4, <1>5, <1>6, Sentinels DEF Cells
  <2> QED BY <1>5, <1>8, <2>1, <2>2, BackSame
<1>10. IsSublist(P, LruHead)'
  <2>1. lru_next'[TempHead] = first
    BY <1>1, <1>4, <1>5, <1>6, Sentinels DEF Cells
  <2>2. \A x \in P : x # first => lru_prev'[x] = lru_prev[x]
    BY <1>5, <1>6 DEF Cells
  <2>3. HasChain(lru_prev', l, LruHead, P)
    <3>1. LruHead \notin P
      BY <1>5, Sentinels
    <3> QED BY <1>4, <1>6, <2>2, <3>1, EndChain
  <2>4. \A x \in P : x # first => lru_prev[x] # l
    BY <1>4, ChainFacts
  <2>5. \A x \in P : x # first => lru_prev'[x] \in P /\ lru_next'[lru_prev'[x]] = x
    BY <1>4, <1>5, <1>6, <2>2, <2>4 DEF Cells
  <2> QED BY <1>1, <1>2, <1>4, <1>6, <2>1, <2>3, <2>5 DEF IsSublist
<1>11. /\ \A u \in Threads : (Links(u, P) /\ Moving(u, P))'
       /\ (\A u \in Threads : pc'[u] \notin Pulling) => P = {}
  <2>1. \A u \in Threads : pc[u] \in {"link_cas", "link_back"} =>
          node[u] \in Nodes /\ node[u] \notin P
    BY DEF NodesAreOwned, OwnInv, Inserting, ListInv, Links, Entering
  <2>2. \A u \in Threads : pc[u] \in {"link_cas", "link_back"} =>
          lru_next'[node[u]] = lru_next[node[u]]
    BY <1>4, <1>6, <2>1 DEF Cells
  <2>3. \A u \in Threads : pc[u] = "link_cas" => lru_prev'[node[u]] = LruHead
    BY <1>4, <1>6, <2>1 DEF Cells, ListInv, Links
  <2>4. \A u \in Threads : u # t /\ pc[u] \in Entering => node[u] \notin P
    BY DEF ListInv, Links
  <2>5. Links(t, P)'
    <3>1. lru_next[LruHead] # NULL
      BY DEF TypeOK
    <3> QED BY <1>1, <1>2, <1>6, <3>1 DEF Links, Entering
  <2>6. Moving(t, P)'
    <3>1. l # NULL /\ l # TempHead
      BY <1>4, <1>5, Sentinels
    <3> QED BY <1>1, <1>2, <1>10, <3>1 DEF Moving, Pulling, Slicing
  <2>7. pc[t] \in HoldsLru /\ pc'[t] \in Pulling
    BY <1>2 DEF HoldsLru, Pulling
  <2> QED BY <1>2, <2>2, <2>3, <2>4, <2>5, <2>6, <2>7, HolderActs
<1> QED BY <1>1, <1>5, <1>7, <1>9, <1>11 DEF ListInv, BackInv

(* The head is swung to the sublist.                                       *)
LEMMA BulkCasLinks ==
  ASSUME TypeOK, LockInv, NodesAreOwned, NEW P, ListInv(P), NEW t \in Threads,
         BulkCas(t), lru_next[LruHead] = cnext[t]
  PROVE  ListInv({})' /\ OnLru' = OnLru
<1>1. PICK T, first, l, h : /\ T = OnLru \ P /\ first = lru_next[TempHead]
                            /\ l = last /\ h = lru_next[LruHead]
  OBVIOUS
<1>2. /\ pc[t] = "bulk_cas" /\ pc'[t] = "bulk_back" /\ Others(t)
      /\ UNCHANGED <<chain, node, req, cursor, last, cnext, lru_prev>>
      /\ cnext[t] = h /\ lru_next' = [lru_next EXCEPT ![LruHead] = first]
  BY <1>1 DEF BulkCas, LinkSwap, Goto, TypeOK, Others, table, sweep
<1>3. /\ first \in P /\ l \in P /\ lru_prev[first] = LruHead /\ HasChain(lru_prev, l, LruHead, P)
      /\ \A n \in P : n # first => lru_prev[n] \in P /\ lru_next[lru_prev[n]] = n
      /\ lru_next[l] = h /\ h # NULL
  BY <1>1, <1>2 DEF ListInv, Moving, IsSublist, Pulling, Links
<1>4. /\ HasChain(lru_next, h, LruTail, T) /\ BackInv(T)
      /\ T \subseteq OnLru /\ T \subseteq Nodes /\ P \subseteq OnLru /\ OnLru \subseteq Nodes
      /\ P \subseteq Nodes /\ (\A x \in P : x \notin T) /\ OnLru \ {} = T \cup P
  BY <1>1 DEF ListInv, OnLru
<1>5. /\ lru_next'[LruHead] = first
      /\ \A x \in Cells : x # LruHead => lru_next'[x] = lru_next[x]
  BY <1>2, <1>3, <1>4 DEF TypeOK, Cells
<1>6. OnLru' = OnLru
  BY <1>2, OnLruSame DEF Keeps
<1>7. \A x \in P : x # l => lru_next[x] \in P /\ lru_prev[lru_next[x]] = x
  <2> SUFFICES ASSUME NEW x \in P, x # l  PROVE lru_next[x] \in P /\ lru_prev[lru_next[x]] = x
    OBVIOUS
  <2>1. PICK y \in P : lru_prev[y] = x
    BY <1>3, ChainFacts
  <2>2. y # first
    BY <1>3, <1>4, <2>1, Sentinels
  <2> QED BY <1>3, <2>1, <2>2
<1>8. HasChain(lru_next', first, LruTail, T \cup P)
  <2>1. LruTail \notin P
    BY <1>4, Sentinels
  <2>2. HasChain(lru_next, first, LruTail, T \cup P)
    BY <1>3, <1>4, <2>1, JoinChains
  <2>3. \A x \in T \cup P : lru_next'[x] = lru_next[x]
    BY <1>4, <1>5, Sentinels DEF Cells
  <2> QED BY <2>2, <2>3, SameChain
<1>9. \A x \in P : ~Awaited(x)
  <2> SUFFICES ASSUME NEW u \in Threads, pc[u] \in {"link_back", "bulk_back"}, cnext[u] \in P
               PROVE  FALSE
    BY DEF Awaited
  <2>1. pc[u] # "bulk_back"
    BY <1>2, OneHolder DEF HoldsLru
  <2>2. node[u] \in T /\ lru_next[node[u]] = cnext[u]
    BY <1>1, <2>1, LinkedOnLru DEF ListInv, Links, Entering
  <2>3. lru_next[node[u]] \in T \cup {LruTail}
    BY <1>4, <2>2, ChainFacts
  <2> QED BY <1>4, <2>2, <2>3, Sentinels
<1>10. Awaited(h)' /\ \A x : x # h => (Awaited(x)' <=> Awaited(x))
  <2>1. Awaited(h)'
    BY <1>2 DEF Awaited
  <2>2. \A x : x # h => (Awaited(x)' <=> Awaited(x))
    <3>1. \A u \in Threads : u # t => pc'[u] = pc[u] /\ cnext'[u] = cnext[u]
      BY <1>2 DEF Others
    <3> QED BY <1>2, <3>1 DEF Awaited
  <2> QED BY <2>1, <2>2
<1>11. BackInv(T \cup P)'
  <2>1. HasChain(lru_next, lru_next[LruHead], LruTail, T)
    BY <1>1, <1>4
  <2>2. \A x \in Nodes : lru_next'[x] = lru_next[x]
    BY <1>5, Sentinels DEF Cells
  <2>3. \A x \in P \ {l} : lru_next[x] \in P /\ lru_prev[lru_next[x]] = x
    BY <1>7
  <2> QED BY <1>1, <1>2, <1>3, <1>4, <1>5, <1>8, <1>9, <1>10, <2>1, <2>2, <2>3, FrontJoined
<1>12. /\ \A u \in Threads : (Links(u, {}) /\ Moving(u, {}))'
       /\ (\A u \in Threads : pc'[u] \notin Pulling) => {} = {}
  <2>1. \A u \in Threads : pc[u] \in {"link_cas", "link_back"} =>
          lru_next'[node[u]] = lru_next[node[u]]
    BY <1>5, Sentinels DEF Cells, NodesAreOwned, OwnInv, Inserting, Entering
  <2>2. \A u \in Threads : pc[u] = "link_cas" => lru_prev'[node[u]] = LruHead
    BY <1>2 DEF ListInv, Links
  <2>3. Links(t, {})'
    <3>1. lru_next'[l] = h
      BY <1>3, <1>4, <1>5, Sentinels DEF Cells
    <3>2. l \in OnLru' /\ ~Works(Entering, l)'
      <4>1. \A u \in Threads : pc[u] \in Entering => node[u] # l
        BY <1>3 DEF ListInv, Links
      <4>2. \A u \in Threads : pc'[u] \in Entering => pc[u] \in Entering /\ node'[u] = node[u]
        BY <1>2 DEF Others, Entering
      <4> QED BY <1>3, <1>4, <1>6, <4>1, <4>2 DEF Works
    <3>3. ~Works(Entering, last)'
      BY <1>1, <1>2, <3>2 DEF Works
    <3> QED BY <1>1, <1>2, <1>3, <3>1, <3>2, <3>3 DEF Links, Entering
  <2>4. Moving(t, {})' /\ pc[t] \in HoldsLru
    BY <1>2 DEF Moving, Pulling, Slicing, HoldsLru
  <2> QED BY <1>2, <2>1, <2>2, <2>3, <2>4, HolderActs
<1>13. BackInv(OnLru \ {})'
  BY <1>4, <1>6, <1>11 DEF BackInv
<1> QED BY <1>4, <1>5, <1>6, <1>8, <1>12, <1>13 DEF ListInv

(* A node that comes into the table is still to be linked, so it is not    *)
(* on the list.                                                            *)
LEMMA AddBucketLinks ==
  ASSUME TypeOK, LockInv, NodesAreOwned, NEW P, ListInv(P), NEW t \in Threads, AddBucket(t)
  PROVE  ListInv(P)' /\ OnLru' = OnLru
<1> DEFINE n == node[t]
<1>1. /\ pc[t] = "add_bucket" /\ pc'[t] \in {"drop", "link"} /\ Others(t)
      /\ UNCHANGED <<node, req, cursor, last, cnext, lru>>
      /\ \A u \in Threads : u # t => pc'[u] = pc[u]
  BY DEF AddBucket, Goto, TypeOK, Others, locals, sweep
<1>2. n \in Nodes /\ n \notin Linked /\ \A u \in Threads : u # t /\ pc[u] \in Inserting => node[u] # n
  BY <1>1 DEF NodesAreOwned, OwnInv, Inserting, Holding
<1>3. n \notin OnLru
  BY <1>1, <1>2 DEF OnLru, Evicted, NodesAreOwned, OwnInv, Holding, Evicting
<1>4. CASE Found(req[t]) # {}
  <2>1. pc'[t] = "drop" /\ UNCHANGED chain
    BY <1>4 DEF AddBucket, Goto, TypeOK
  <2>2. OnLru' = OnLru
    BY <1>1, <2>1, OnLruSame DEF Keeps
  <2>3. ListInv(P)'
    BY <1>1, <2>1, <2>2, ListQuiet DEF Entering, Pulling, Slicing
  <2> QED BY <2>2, <2>3
<1>5. CASE Found(req[t]) = {}
  <2>1. PICK b \in Buckets : chain' = [chain EXCEPT ![b] = @ \cup {n}]
    BY <1>1, <1>5, ConstantsAssumption DEF AddBucket, LockInv, KeyAsked
  <2>2. Linked' = Linked \cup {n}
    BY <2>1 DEF Linked, TypeOK
  <2>3. pc'[t] = "link"
    BY <1>5 DEF AddBucket, Goto, TypeOK
  <2>4. OnLru' = OnLru
    <3>1. \A m \in Nodes : Works({"link", "link_cas"}, m)' <=> Works({"link", "link_cas"}, m) \/ m = n
      BY <1>1, <2>3 DEF Works
    <3>2. \A m \in Nodes : Evicted({"unlink"}, m)' <=> Evicted({"unlink"}, m)
      BY <1>1, <2>3 DEF Evicted
    <3> HIDE DEF n
    <3> QED BY <1>2, <1>3, <2>2, <3>1, <3>2 DEF OnLru
  <2>5. \A x : Awaited(x)' <=> Awaited(x)
    BY <1>1, <2>3 DEF Awaited
  <2>6. \A m \in OnLru : Works(Entering, m)' => Works(Entering, m)
    BY <1>1, <1>3, <2>3 DEF Works
  <2>7. P \subseteq OnLru
    BY DEF ListInv
  <2>8. Links(t, P)'
    BY <1>1, <1>3, <2>3, <2>7 DEF Links
  <2>9. pc[t] \notin Pulling \cup {"bulk_back"} /\ pc'[t] \notin Pulling \cup {"bulk_back"}
    BY <1>1, <2>3 DEF Pulling, Slicing
  <2>10. UNCHANGED <<lru_next, lru_prev>>
    BY <1>1 DEF lru
  <2>11. /\ \A u \in Threads : (Links(u, P) /\ Moving(u, P))'
         /\ (\A u \in Threads : pc'[u] \notin Pulling) => P = {}
    <3>1. \A u \in Threads : u # t /\ pc[u] = "link_cas" => lru_prev'[node[u]] = LruHead
      BY <2>10 DEF ListInv, Links
    <3> QED BY <1>1, <2>4, <2>6, <2>8, <2>9, <2>10, <3>1, InserterActs
  <2>12. BackInv(OnLru \ P)'
    BY <2>4, <2>5, <2>10 DEF ListInv, BackInv
  <2> QED BY <2>4, <2>7, <2>10, <2>11, <2>12 DEF ListInv
<1> QED BY <1>4, <1>5

(* A node that leaves the table stays on the list till it is unlinked.     *)
LEMMA PurgeBucketLinks ==
  ASSUME TypeOK, LockInv, SweepInv, NEW P, ListInv(P), NEW t \in Threads, PurgeBucket(t)
  PROVE  ListInv(P)' /\ OnLru' = OnLru
<1>1. /\ pc[t] = "purge_bucket" /\ pc'[t] \in {"purge", "unlink"} /\ Others(t)
      /\ UNCHANGED <<node, req, last, cnext, lru>>
      /\ \A u \in Threads : u # t => pc'[u] = pc[u]
  BY DEF PurgeBucket, Goto, TypeOK, Others, locals
<1>2. \A u \in Threads : u # t => pc[u] \notin {"unlink"}
  BY <1>1, OneHolder DEF HoldsLru
<1>3. OnLru' = OnLru
  <2>1. CASE pc'[t] = "purge"
    <3>1. UNCHANGED chain
      BY <2>1 DEF PurgeBucket, Goto, TypeOK
    <3> QED BY <1>1, <1>2, <2>1, <3>1, OnLruSame DEF Keeps
  <2>2. CASE pc'[t] = "unlink"
    <3>1. PICK b : chain' = [chain EXCEPT ![b] = @ \ {cursor}] /\ cursor' = cursor
      BY <2>2 DEF PurgeBucket, Goto, TypeOK
    <3>2. \A m : m # cursor => (m \in Linked' <=> m \in Linked)
      BY <3>1 DEF Linked, TypeOK
    <3>3. cursor \in OnLru
      BY <1>1 DEF SweepInv, Sweeps
    <3>4. \A m \in Nodes : Works({"link", "link_cas"}, m)' <=> Works({"link", "link_cas"}, m)
      BY <1>1 DEF Works
    <3>5. \A m \in Nodes : Evicted({"unlink"}, m)' <=> m = cursor
      BY <1>1, <1>2, <2>2, <3>1 DEF Evicted
    <3>6. \A m \in Nodes : ~Evicted({"unlink"}, m)
      BY <1>1, <1>2 DEF Evicted
    <3> QED BY <3>2, <3>3, <3>4, <3>5, <3>6 DEF OnLru
  <2> QED BY <1>1, <2>1, <2>2
<1>4. ListInv(P)'
  BY <1>1, <1>3, ListQuiet DEF Entering, Pulling, Slicing
<1> QED BY <1>3, <1>4

(* removeNodeFromLru, on behalf of purgeOld.                               *)
LEMMA UnlinkLinks ==
  ASSUME TypeOK, LockInv, NodesAreOwned, SweepInv, NEW P, ListInv(P), NEW t \in Threads, Unlink(t)
  PROVE  ListInv(P)' /\ OnLru' = OnLru \ {cursor}
<1>1. PICK n, c, d : n = cursor /\ c = lru_prev[n] /\ d = lru_next[n]
  OBVIOUS
<1>2. /\ pc[t] = "unlink" /\ pc'[t] = "dispose" /\ Others(t)
      /\ UNCHANGED <<chain, node, req, cursor, last, cnext>>
      /\ lru_next' = [lru_next EXCEPT ![c] = d] /\ lru_prev' = [lru_prev EXCEPT ![d] = c]
      /\ \A u \in Threads : u # t => pc'[u] = pc[u]
  BY <1>1 DEF Unlink, NextWithout, PrevWithout, Step, Goto, TypeOK, Others, locals, table, sweep
<1>3. P = {}
  BY <1>2, NoSublist DEF HoldsLru, Pulling, Slicing
<1>4. /\ HasChain(lru_next, lru_next[LruHead], LruTail, OnLru) /\ BackInv(OnLru) /\ OnLru \subseteq Nodes
      /\ OnLru \ {} = OnLru
  BY <1>3 DEF ListInv, OnLru
<1>5. n \in OnLru /\ n \notin Linked /\ lru_prev[n] # LruHead /\ ~Works(Entering, n)
  BY <1>1, <1>2 DEF SweepInv, Sweeps, NodesAreOwned, OwnInv, Evicting, Works
<1>6. /\ c \in OnLru /\ lru_next[c] = n /\ c # n
      /\ d \in OnLru \cup {LruTail} /\ d # n /\ d # c
      /\ ~Awaited(n) /\ ~Awaited(d)
  <2>1. pc[t] \in HoldsLru /\ pc[t] # "bulk_back"
    BY <1>2 DEF HoldsLru
  <2> QED BY <1>1, <1>3, <1>4, <1>5, <2>1, InMiddle
<1>7. OnLru' = OnLru \ {n}
  <2>1. Linked' = Linked
    BY <1>2 DEF Linked
  <2>2. \A m \in Nodes : Works({"link", "link_cas"}, m)' <=> Works({"link", "link_cas"}, m)
    BY <1>2 DEF Works
  <2>3. \A m \in Nodes : Evicted({"unlink"}, m) <=> m = n
    BY <1>1, <1>2 DEF Evicted
  <2>4. \A m \in Nodes : ~Evicted({"unlink"}, m)'
    <3>1. \A u \in Threads : u # t => pc[u] # "unlink"
      BY <1>2, OneHolder DEF HoldsLru
    <3> QED BY <1>2, <3>1 DEF Evicted
  <2> QED BY <1>5, <2>1, <2>2, <2>3, <2>4 DEF OnLru
<1>8. \A x : Awaited(x)' <=> Awaited(x)
  BY <1>2 DEF Awaited
<1>9. /\ lru_next'[c] = d /\ lru_prev'[d] = c
      /\ \A x \in Cells : x # c => lru_next'[x] = lru_next[x]
      /\ \A x \in Cells : x # d => lru_prev'[x] = lru_prev[x]
  BY <1>2, <1>4, <1>6 DEF TypeOK, Cells
<1>10. HasChain(lru_next', lru_next'[LruHead], LruTail, OnLru \ {n}) /\ BackInv(OnLru \ {n})'
  <2>1. PICK T : T = OnLru
    OBVIOUS
  <2>2. \A x \in (T \cup {LruHead}) \ {c, n} : lru_next'[x] = lru_next[x]
    BY <1>4, <1>9, <2>1 DEF Cells
  <2>3. \A x \in (T \cup {LruTail}) \ {d, n} : lru_prev'[x] = lru_prev[x]
    BY <1>4, <1>9, <2>1 DEF Cells
  <2>4. HasChain(lru_next', lru_next'[LruHead], LruTail, T \ {n}) /\ BackInv(T \ {n})'
    BY <1>1, <1>4, <1>5, <1>6, <1>8, <1>9, <2>1, <2>2, <2>3, CutsOut
  <2>5. OnLru' \ {n} = T \ {n}
    BY <1>7, <2>1
  <2> QED BY <2>1, <2>4, <2>5 DEF BackInv
<1>11. /\ \A u \in Threads : (Links(u, {}) /\ Moving(u, {}))'
       /\ (\A u \in Threads : pc'[u] \notin Pulling) => {} = {}
  <2>1. \A u \in Threads : u # t /\ pc[u] \in {"link_cas", "link_back"} =>
          lru_next'[node[u]] = lru_next[node[u]]
    <3> SUFFICES ASSUME NEW u \in Threads, pc[u] \in {"link_cas", "link_back"}
                 PROVE  node[u] \in Nodes /\ node[u] # c
      BY <1>9 DEF Cells
    <3>1. CASE pc[u] = "link_cas"
      BY <1>6, <3>1, LinkingOffLru
    <3>2. CASE pc[u] = "link_back"
      <4>1. lru_next[node[u]] # n
        BY <1>6, <3>2 DEF Awaited, ListInv, Links
      <4>2. node[u] \in OnLru
        BY <3>2, LinkedOnLru
      <4> QED BY <1>4, <1>6, <4>1, <4>2
    <3> QED BY <3>1, <3>2
  <2>2. \A u \in Threads : pc[u] = "link_cas" => lru_prev'[node[u]] = LruHead
    <3>1. \A u \in Threads : pc[u] = "link_cas" =>
            node[u] \in Nodes /\ node[u] # d /\ lru_prev[node[u]] = LruHead
      BY <1>6, LinkingOffLru, Sentinels DEF ListInv, Links
    <3> QED BY <1>9, <3>1 DEF Cells
  <2>3. (Links(t, {}) /\ Moving(t, {}))' /\ pc[t] \in HoldsLru
    BY <1>2 DEF Links, Moving, Entering, Pulling, Slicing, HoldsLru
  <2> QED BY <1>2, <2>1, <2>2, <2>3, HolderActs
<1>12. OnLru' \ P = OnLru \ {n}
  BY <1>3, <1>7
<1>13. BackInv(OnLru \ P)'
  <2>1. OnLru' \ P = OnLru' \ {n}
    BY <1>7, <1>12
  <2> QED BY <1>10, <2>1 DEF BackInv
<1> QED BY <1>1, <1>3, <1>7, <1>10, <1>11, <1>12, <1>13 DEF ListInv

(* The lock holder leaves the links of the two lists as they are.          *)
LEMMA HolderKeeps ==
  ASSUME TypeOK, LockInv, NodesAreOwned, NEW P, ListInv(P), NEW t \in Threads, Others(t),
         pc[t] \in HoldsLru \ {"unlink", "bulk_back"},
         pc'[t] \notin {"link", "link_cas", "link_back", "unlink", "bulk_back"},
         UNCHANGED <<chain, lru_prev>>,
         \A x \in Nodes \cup {LruHead} : lru_next'[x] = lru_next[x],
         (Links(t, P) /\ Moving(t, P))', pc'[t] \notin Pulling => P = {}
  PROVE  ListInv(P)' /\ OnLru' = OnLru
<1>1. \A u \in Threads : pc[u] \notin {"unlink"}
  BY OneHolder DEF HoldsLru
<1>2. OnLru' = OnLru
  BY <1>1, OnLruSame DEF Keeps, HoldsLru
<1>3. P \subseteq OnLru /\ OnLru \subseteq Nodes
  BY DEF ListInv, OnLru
<1>4. \A x : Awaited(x)' <=> Awaited(x)
  <2>1. \A u \in Threads : /\ pc'[u] \in {"link_back", "bulk_back"} <=> pc[u] \in {"link_back", "bulk_back"}
                           /\ pc[u] \in {"link_back", "bulk_back"} => cnext'[u] = cnext[u]
    BY DEF Others, HoldsLru
  <2> QED BY <2>1 DEF Awaited
<1>5. PICK T : T = OnLru \ P
  OBVIOUS
<1>6. HasChain(lru_next', lru_next'[LruHead], LruTail, T) /\ BackInv(T)'
  <2>1. HasChain(lru_next, lru_next[LruHead], LruTail, T) /\ BackInv(T) /\ T \subseteq Nodes
    BY <1>3, <1>5 DEF ListInv
  <2> QED BY <1>3, <1>4, <1>5, <2>1, BackSame
<1>7. BackInv(OnLru \ P)'
  BY <1>2, <1>5, <1>6 DEF BackInv
<1>8. /\ \A u \in Threads : (Links(u, P) /\ Moving(u, P))'
      /\ (\A u \in Threads : pc'[u] \notin Pulling) => P = {}
  <2>1. \A u \in Threads : pc[u] \in {"link_cas", "link_back"} =>
          lru_next'[node[u]] = lru_next[node[u]]
    BY DEF NodesAreOwned, OwnInv, Inserting, Entering
  <2>2. \A u \in Threads : pc[u] = "link_cas" => lru_prev'[node[u]] = LruHead
    BY DEF ListInv, Links
  <2>3. \A u \in Threads : pc[u] \in Entering => node[u] \notin P
    BY DEF ListInv, Links
  <2> QED BY <2>1, <2>2, <2>3, HolderActs
<1> QED BY <1>2, <1>3, <1>5, <1>6, <1>7, <1>8 DEF ListInv

(* A pull starts with an empty sublist.                                    *)
LEMMA PullStartLinks ==
  ASSUME TypeOK, LockInv, NodesAreOwned, NEW P, ListInv(P), NEW t \in Threads, PullStart(t)
  PROVE  ListInv(P)' /\ OnLru' = OnLru /\ P = {}
<1>1. /\ pc[t] = "pull" /\ pc'[t] \in {"reset_count", "second_purge"} /\ Others(t)
      /\ UNCHANGED <<chain, lru_next, lru_prev>>
      /\ pc'[t] = "reset_count" => last' = TempHead
  BY DEF PullStart, Goto, TypeOK, Others, locals, table, lru
<1>2. P = {}
  BY <1>1, NoSublist DEF HoldsLru, Pulling, Slicing
<1>3. (Links(t, P) /\ Moving(t, P))'
  BY <1>1, <1>2, Sentinels DEF Links, Moving, Entering, Pulling, Slicing
<1> QED BY <1>1, <1>2, <1>3, HolderKeeps DEF HoldsLru

(* A pull that has moved nothing has no sublist to add.                    *)
LEMMA PullEndLinks ==
  ASSUME TypeOK, LockInv, NodesAreOwned, NEW P, ListInv(P), NEW t \in Threads, PullEnd(t)
  PROVE  ListInv(P)' /\ OnLru' = OnLru
<1>1. /\ pc[t] = "pull_node" /\ pc'[t] = (IF last = TempHead THEN "pull_done" ELSE "bulk") /\ Others(t)
      /\ UNCHANGED <<chain, lru_next, lru_prev, last, node, cnext>>
  BY DEF PullEnd, Goto, TypeOK, Others, locals, table, lru, shared, sweep
<1>2. Moving(t, P)
  BY DEF ListInv
<1>3. pc[t] \in Pulling /\ pc[t] # "bulk_cas"
  BY <1>1 DEF Pulling, Slicing
<1>4. last # NULL /\ (last = TempHead => P = {}) /\ (last # TempHead => IsSublist(P, TempHead))
  BY <1>2, <1>3 DEF Moving
<1>5. Links(t, P)'
  BY <1>1 DEF Links, Entering
<1>6. Moving(t, P)' /\ (pc'[t] \notin Pulling => P = {})
  <2>1. CASE last = TempHead
    BY <1>1, <1>4, <2>1 DEF Moving, Pulling, Slicing
  <2>2. CASE last # TempHead
    BY <1>1, <1>4, <2>2 DEF Moving, Pulling, Slicing, IsSublist
  <2> QED BY <2>1, <2>2
<1> QED BY <1>1, <1>5, <1>6, HolderKeeps DEF HoldsLru

(* A pull that is over forgets its list head.                              *)
LEMMA PullDoneLinks ==
  ASSUME TypeOK, LockInv, NodesAreOwned, NEW P, ListInv(P), NEW t \in Threads, PullDone(t)
  PROVE  ListInv(P)' /\ OnLru' = OnLru
<1>1. /\ pc[t] = "pull_done" /\ pc'[t] = "second_purge" /\ Others(t)
      /\ UNCHANGED <<chain, lru_prev>> /\ lru_next' = [lru_next EXCEPT ![TempHead] = NULL]
  BY DEF PullDone, Step, Goto, TypeOK, Others, locals, table
<1>2. P = {}
  BY <1>1, NoSublist DEF HoldsLru, Pulling, Slicing
<1>3. (Links(t, P) /\ Moving(t, P))'
  BY <1>1, <1>2 DEF Links, Moving, Entering, Pulling, Slicing
<1>4. \A x \in Nodes \cup {LruHead} : lru_next'[x] = lru_next[x]
  BY <1>1, Sentinels DEF TypeOK, Cells
<1> QED BY <1>1, <1>2, <1>3, <1>4, HolderKeeps DEF HoldsLru

(* A pull moves a node from the list to the end of its sublist.            *)
LEMMA PullMoveLinks ==
  ASSUME TypeOK, LockInv, NodesAreOwned, NEW R, SliceInv(R), NEW P, ListInv(P), R \cap P = {},
         NEW t \in Threads, PullMove(t)
  PROVE  /\ cursor \in OnLru \ P
         /\ \E Q \in SUBSET Nodes : Q = P \cup {cursor} /\ ListInv(Q)'
         /\ OnLru' = OnLru
<1>1. PICK n, c, d, l, T, Q : /\ n = cursor /\ c = lru_prev[n] /\ d = lru_next[n] /\ l = last
                              /\ T = OnLru \ P /\ Q = P \cup {n}
  OBVIOUS
<1>2. /\ pc[t] = "pull_node" /\ n # Dummy /\ c # LruHead /\ last' = n
      /\ UNCHANGED <<pc, chain, node, req, cnext>> /\ Others(t)
      /\ lru_next' = [[lru_next EXCEPT ![c] = d] EXCEPT ![l] = n]
      /\ lru_prev' = [[lru_prev EXCEPT ![d] = c] EXCEPT ![n] = l]
  BY <1>1 DEF PullMove, NextWithout, PrevWithout, TypeOK, Others, locals, table
<1>3. Moving(t, P) /\ pc[t] \in Pulling /\ pc[t] # "bulk_cas" /\ pc[t] \in Slicing
  BY <1>2 DEF ListInv, Pulling, Slicing
<1>4. l # NULL /\ (l = TempHead => P = {}) /\ (l # TempHead => IsSublist(P, TempHead))
  BY <1>1, <1>3 DEF Moving
<1>5. n \in R /\ n \in Linked /\ ~Works(Entering \cup {"mark"}, n)
  BY <1>1, <1>2, <1>3, SliceHead
<1>6. n \in T /\ ~Works(Entering, n)
  <2>1. n \in Nodes /\ ~Works(Entering, n) /\ ~Works({"link", "link_cas"}, n)
    BY <1>5 DEF Works, Entering, Linked, TypeOK
  <2> QED BY <1>1, <1>5, <2>1 DEF OnLru
<1>7. /\ HasChain(lru_next, lru_next[LruHead], LruTail, T) /\ BackInv(T)
      /\ T \subseteq Nodes /\ T \subseteq OnLru /\ P \subseteq OnLru /\ OnLru \subseteq Nodes
      /\ P \subseteq Nodes /\ \A x \in P : x \notin T
  BY <1>1 DEF ListInv, OnLru
<1>8. /\ c \in T /\ lru_next[c] = n /\ c # n
      /\ d \in T \cup {LruTail} /\ d # n /\ d # c
      /\ ~Awaited(n) /\ ~Awaited(d)
  <2>1. pc[t] \in HoldsLru /\ pc[t] # "bulk_back"
    BY <1>2 DEF HoldsLru
  <2> QED BY <1>1, <1>2, <1>6, <1>7, <2>1, InMiddle
<1>9. l \in P \cup {TempHead}
  BY <1>1, <1>4 DEF IsSublist
<1>10. /\ lru_next'[c] = d /\ lru_next'[l] = n /\ lru_prev'[d] = c /\ lru_prev'[n] = l
       /\ \A x \in Cells : x # c /\ x # l => lru_next'[x] = lru_next[x]
       /\ \A x \in Cells : x # d /\ x # n => lru_prev'[x] = lru_prev[x]
  BY <1>2, <1>6, <1>7, <1>8, <1>9, Sentinels DEF TypeOK, Cells
<1>11. OnLru' = OnLru
  <2>1. \A u \in Threads : pc[u] # "unlink"
    BY <1>2, OneHolder DEF HoldsLru
  <2> QED BY <1>2, <2>1, OnLruSame DEF Keeps
<1>12. \A x : Awaited(x)' <=> Awaited(x)
  BY <1>2 DEF Awaited
<1>13. HasChain(lru_next', lru_next'[LruHead], LruTail, T \ {n}) /\ BackInv(T \ {n})'
  <2>1. \A x \in (T \cup {LruHead}) \ {c, n} : lru_next'[x] = lru_next[x]
    BY <1>7, <1>9, <1>10, Sentinels DEF Cells
  <2>2. \A x \in (T \cup {LruTail}) \ {d, n} : lru_prev'[x] = lru_prev[x]
    BY <1>7, <1>10 DEF Cells
  <2> QED BY <1>1, <1>6, <1>7, <1>8, <1>10, <1>12, <2>1, <2>2, CutsOut
<1>14. /\ lru_next'[TempHead] \in Q /\ lru_prev'[lru_next'[TempHead]] = TempHead
       /\ HasChain(lru_prev', n, TempHead, Q)
       /\ \A x \in Q : x # lru_next'[TempHead] => lru_prev'[x] \in Q /\ lru_next'[lru_prev'[x]] = x
  <2>1. n \notin P /\ n # TempHead /\ TempHead \notin Nodes
    BY <1>6, <1>7, Sentinels
  <2>2. \A x \in P : lru_prev'[x] = lru_prev[x]
    BY <1>7, <1>8, <1>10, <2>1, Sentinels DEF Cells
  <2>3. CASE l = TempHead
    <3>1. P = {} /\ Q = {n} /\ lru_next'[TempHead] = n /\ lru_prev'[n] = TempHead
      BY <1>1, <1>4, <1>10, <2>3
    <3>2. HasChain(lru_prev', n, TempHead, {} \cup {n})
      BY <2>1, <3>1, EmptyChain, PushChain
    <3> QED BY <3>1, <3>2
  <2>4. CASE l # TempHead
    <3>1. PICK first : first = lru_next[TempHead]
      OBVIOUS
    <3>2. /\ first \in P /\ l \in P /\ lru_prev[first] = TempHead /\ HasChain(lru_prev, l, TempHead, P)
          /\ \A x \in P : x # first => lru_prev[x] \in P /\ lru_next[lru_prev[x]] = x
      BY <1>1, <1>4, <2>4, <3>1 DEF IsSublist
    <3>3. lru_next'[TempHead] = first
      BY <1>7, <1>8, <1>10, <2>1, <2>4, <3>1 DEF Cells
    <3>4. HasChain(lru_prev', n, TempHead, Q)
      BY <1>1, <1>10, <2>1, <2>2, <3>2, PushChain
    <3>5. \A x \in P : lru_prev[x] # l
      BY <3>2, ChainFacts
    <3>6. \A x \in P : x # first => lru_prev'[x] \in P /\ lru_next'[lru_prev'[x]] = x
      BY <1>7, <1>8, <1>10, <2>2, <3>2, <3>5 DEF Cells
    <3>7. lru_prev'[n] \in Q /\ lru_next'[lru_prev'[n]] = n
      BY <1>1, <1>10, <3>2
    <3> QED BY <1>1, <2>2, <3>2, <3>3, <3>4, <3>6, <3>7
  <2> QED BY <2>3, <2>4
<1>15. IsSublist(Q, TempHead)'
  BY <1>1, <1>2, <1>14 DEF IsSublist
<1>16. /\ \A u \in Threads : (Links(u, Q) /\ Moving(u, Q))'
       /\ (\A u \in Threads : pc'[u] \notin Pulling) => Q = {}
  <2>1. \A u \in Threads : u # t /\ pc[u] \in {"link_cas", "link_back"} =>
          lru_next'[node[u]] = lru_next[node[u]]
    <3> SUFFICES ASSUME NEW u \in Threads, pc[u] \in {"link_cas", "link_back"}
                 PROVE  node[u] \in Nodes /\ node[u] # c /\ node[u] # l
      BY <1>10 DEF Cells
    <3>1. node[u] \in Nodes /\ node[u] \notin P
      BY DEF NodesAreOwned, OwnInv, Inserting, ListInv, Links, Entering
    <3>2. node[u] # l
      BY <1>9, <3>1, Sentinels
    <3>3. CASE pc[u] = "link_cas"
      BY <1>7, <1>8, <3>1, <3>2, <3>3, LinkingOffLru
    <3>4. CASE pc[u] = "link_back"
      <4>1. lru_next[node[u]] # n
        BY <1>8, <3>4 DEF Awaited, ListInv, Links
      <4> QED BY <1>8, <3>1, <3>2, <4>1
    <3> QED BY <3>3, <3>4
  <2>2. \A u \in Threads : u # t /\ pc[u] = "link_cas" => lru_prev'[node[u]] = LruHead
    <3>1. \A u \in Threads : pc[u] = "link_cas" =>
            node[u] \in Nodes /\ node[u] # d /\ node[u] # n /\ lru_prev[node[u]] = LruHead
      BY <1>6, <1>7, <1>8, LinkingOffLru, Sentinels DEF ListInv, Links
    <3> QED BY <1>10, <3>1 DEF Cells
  <2>3. \A u \in Threads : u # t /\ pc[u] \in Entering => node[u] \notin Q
    BY <1>1, <1>6 DEF ListInv, Links, Works
  <2>4. Links(t, Q)'
    BY <1>2 DEF Links, Entering
  <2>5. Moving(t, Q)'
    <3>1. n # NULL /\ n # TempHead
      BY <1>6, <1>7, Sentinels
    <3> QED BY <1>2, <1>15, <3>1 DEF Moving, Pulling, Slicing
  <2>6. pc[t] \in HoldsLru /\ pc'[t] \in Pulling
    BY <1>2, <1>3 DEF HoldsLru
  <2> QED BY <1>2, <2>1, <2>2, <2>3, <2>4, <2>5, <2>6, HolderActs
<1>17. ListInv(Q)'
  <2>1. Q \subseteq OnLru /\ OnLru \ Q = T \ {n}
    BY <1>1, <1>6, <1>7
  <2>2. BackInv(OnLru \ Q)'
    BY <1>11, <1>13, <2>1 DEF BackInv
  <2> QED BY <1>11, <1>13, <1>16, <2>1, <2>2 DEF ListInv
<1>18. Q \in SUBSET Nodes /\ Q = P \cup {cursor}
  BY <1>1, <1>6, <1>7
<1> QED BY <1>1, <1>6, <1>11, <1>17, <1>18

(* What a step of t makes of the sublist P, and what it leaves of the      *)
(* lists to a purge.                                                       *)
ListStep(P, Q, t) ==
  /\ Q \in SUBSET Nodes /\ ListInv(Q)'
  /\ Q \subseteq P \/ (PullMove(t) /\ Q = P \cup {cursor})
  /\ pc[t] = "pull" => Q = {}
  /\ pc[t] # "unlink" => OnLru \subseteq OnLru'
  /\ pc[t] = "unlink" => OnLru' = OnLru \ {cursor}
  /\ pc[t] \notin HoldsLru =>
       \A m \in OnLru : lru_prev'[m] = LruHead => lru_prev[m] = LruHead

(* A step that has nothing to do with the lists.                           *)
LEMMA ListStays ==
  ASSUME TypeOK, LockInv, NEW P, ListInv(P), NEW t \in Threads, Others(t), UNCHANGED <<chain, lru>>,
         pc[t] \notin {"link", "link_cas", "link_back", "unlink", "pull", "bulk", "bulk_cas", "bulk_back"},
         pc'[t] \notin Entering \cup {"unlink", "bulk", "bulk_cas", "bulk_back"},
         pc'[t] \in Pulling => pc[t] \in Pulling /\ pc'[t] \in {"pull_node", "pull_skip"} /\ last' = last,
         pc[t] \in Pulling => pc'[t] \in Pulling,
         pc[t] \in HoldsLru \/ UNCHANGED <<cursor, last>>
  PROVE  ListStep(P, P, t)
<1>1. (\E u \in Threads : pc[u] = "unlink") => cursor' = cursor
  BY OneHolder DEF HoldsLru
<1>2. OnLru' = OnLru
  BY <1>1, OnLruSame DEF Keeps, Entering
<1>3. (\E u \in Threads : pc'[u] \in Pulling \cup {"bulk_back"}) => last' = last
  <2>1. ASSUME NEW u \in Threads, u # t, pc'[u] \in Pulling \cup {"bulk_back"}, pc[t] \in HoldsLru
        PROVE  FALSE
    BY <2>1, OneHolder DEF Others, HoldsLru, Pulling, Slicing
  <2> QED BY <2>1
<1>4. ListInv(P)'
  BY <1>2, <1>3, ListQuiet DEF Entering, Pulling, Slicing
<1>5. P \in SUBSET Nodes
  BY DEF ListInv, OnLru
<1> QED BY <1>2, <1>4, <1>5 DEF ListStep, lru

(* Every step keeps the two lists.                                         *)
LEMMA ListedNext ==
  ASSUME TypeOK, LockInv, NodesAreOwned, SweepInv, NEW R, SliceInv(R), NEW P, ListInv(P), R \cap P = {},
         NEW t \in Threads, Acts(t)
  PROVE  \E Q : ListStep(P, Q, t)
<1>0. P \in SUBSET Nodes /\ {} \in SUBSET Nodes
  BY DEF ListInv, OnLru
<1>1. ASSUME NEW k \in Keys, FindMiss(t, k)  PROVE ListStep(P, P, t)
  BY <1>1, ListStays DEF FindMiss, Step, Goto, Others, TypeOK, locals, table, lru, shared, sweep,
    HoldsLru, Entering, Pulling, Slicing
<1>2. ASSUME NEW k \in Keys, FindRecent(t, k)  PROVE ListStep(P, P, t)
  BY <1>2, ListStays DEF FindRecent, Step, Goto, Others, TypeOK, locals, table, lru, shared,
    sweep, HoldsLru, Entering, Pulling, Slicing
<1>3. ASSUME NEW k \in Keys, FindUnmarked(t, k)  PROVE ListStep(P, P, t)
  BY <1>3, ListStays DEF FindUnmarked, Step, Goto, Others, TypeOK, locals, table, lru, shared,
    sweep, HoldsLru, Entering, Pulling, Slicing
<1>4. CASE MarkCas(t)
  BY <1>4, ListStays DEF MarkCas, Step, Goto, Others, TypeOK, locals, table, lru, shared, sweep,
    HoldsLru, Entering, Pulling, Slicing
<1>5. CASE CountRecent(t)
  BY <1>5, ListStays DEF CountRecent, Step, Goto, Others, TypeOK, locals, table, lru, shared,
    sweep, HoldsLru, Entering, Pulling, Slicing
<1>6. CASE RequestPull(t)
  BY <1>6, ListStays DEF RequestPull, Step, Goto, Others, TypeOK, locals, table, lru, shared,
    sweep, HoldsLru, Entering, Pulling, Slicing
<1>7. CASE RequestPurge(t)
  BY <1>7, ListStays DEF RequestPurge, Step, Goto, Others, TypeOK, locals, table, lru, shared,
    sweep, HoldsLru, Entering, Pulling, Slicing
<1>8. CASE Allocate(t)
  BY <1>8, ListStays DEF Allocate, Step, Goto, Others, TypeOK, locals, table, lru, shared, sweep,
    HoldsLru, Entering, Pulling, Slicing
<1>9. CASE Take(t)
  BY <1>9, ListStays DEF Take, Step, Goto, Others, TypeOK, locals, table, lru, shared, sweep,
    HoldsLru, Entering, Pulling, Slicing
<1>10. CASE TakeFails(t)
  BY <1>10, ListStays DEF TakeFails, Step, Goto, Others, TypeOK, locals, table, lru, shared,
    sweep, HoldsLru, Entering, Pulling, Slicing
<1>11. CASE Drop(t)
  BY <1>11, ListStays DEF Drop, Step, Goto, Others, TypeOK, locals, table, lru, shared, sweep,
    HoldsLru, Entering, Pulling, Slicing
<1>12. CASE DropCas(t)
  BY <1>12, ListStays DEF DropCas, Step, Goto, Others, TypeOK, locals, table, lru, shared, sweep,
    HoldsLru, Entering, Pulling, Slicing
<1>13. CASE DropRetry(t)
  BY <1>13, ListStays DEF DropRetry, Step, Goto, Others, TypeOK, locals, table, lru, shared,
    sweep, HoldsLru, Entering, Pulling, Slicing
<1>14. CASE Publish(t)
  BY <1>14, ListStays DEF Publish, Step, Goto, Others, TypeOK, locals, table, lru, shared, sweep,
    HoldsLru, Entering, Pulling, Slicing
<1>15. CASE FirstPurge(t)
  BY <1>15, ListStays DEF FirstPurge, Step, Goto, StartPurge, Others, TypeOK, locals, table, lru,
    shared, sweep, HoldsLru, Entering, Pulling, Slicing
<1>16. CASE SecondPurge(t)
  BY <1>16, ListStays DEF SecondPurge, Step, Goto, StartPurge, Others, TypeOK, locals, table,
    lru, shared, sweep, HoldsLru, Entering, Pulling, Slicing
<1>17. CASE PurgeEnd(t)
  BY <1>17, ListStays DEF PurgeEnd, Step, Goto, Others, TypeOK, locals, table, lru, shared,
    sweep, HoldsLru, Entering, Pulling, Slicing
<1>18. CASE PurgeSkip(t)
  BY <1>18, ListStays DEF PurgeSkip, Step, Goto, Others, TypeOK, locals, table, lru, shared,
    sweep, HoldsLru, Entering, Pulling, Slicing
<1>19. CASE PurgeTry(t)
  BY <1>19, ListStays DEF PurgeTry, Step, Goto, Others, TypeOK, locals, table, lru, shared,
    sweep, HoldsLru, Entering, Pulling, Slicing
<1>20. CASE Dispose(t)
  BY <1>20, ListStays DEF Dispose, Step, Goto, Others, TypeOK, locals, table, lru, shared, sweep,
    HoldsLru, Entering, Pulling, Slicing
<1>21. CASE DisposeCas(t)
  BY <1>21, ListStays DEF DisposeCas, Step, Goto, Others, TypeOK, locals, table, lru, shared,
    sweep, HoldsLru, Entering, Pulling, Slicing
<1>22. CASE DisposeRetry(t)
  BY <1>22, ListStays DEF DisposeRetry, Step, Goto, Others, TypeOK, locals, table, lru, shared,
    sweep, HoldsLru, Entering, Pulling, Slicing
<1>23. CASE ResetCount(t)
  BY <1>23, ListStays DEF ResetCount, Step, Goto, Others, TypeOK, locals, table, lru, shared,
    sweep, HoldsLru, Entering, Pulling, Slicing
<1>24. CASE PullAtHead(t)
  BY <1>24, ListStays DEF PullAtHead, Step, Goto, Others, TypeOK, locals, table, lru, shared,
    sweep, HoldsLru, Entering, Pulling, Slicing
<1>25. CASE PullSkip(t)
  BY <1>25, ListStays DEF PullSkip, Step, Goto, Others, TypeOK, locals, table, lru, shared,
    sweep, HoldsLru, Entering, Pulling, Slicing
<1>26. CASE PurgeDone(t)
  BY <1>26, ListStays DEF PurgeDone, Step, Goto, Others, TypeOK, locals, table, lru, shared,
    sweep, HoldsLru, Entering, Pulling, Slicing
<1>27. CASE CheckThreshold(t)
  BY <1>27, ListStays DEF CheckThreshold, Step, Goto, Return, Others, TypeOK, locals, table, lru,
    shared, sweep, HoldsLru, Entering, Pulling, Slicing
<1>28. CASE TryLock(t)
  BY <1>28, ListStays DEF TryLock, Step, Goto, Return, Others, TypeOK, locals, table, lru,
    shared, sweep, HoldsLru, Entering, Pulling, Slicing
<1>29. CASE Unlock(t)
  BY <1>29, ListStays DEF Unlock, Step, Goto, Return, Others, TypeOK, locals, table, lru, shared,
    sweep, HoldsLru, Entering, Pulling, Slicing
<1>30. CASE AddBucket(t)
  <2>1. ListInv(P)' /\ OnLru' = OnLru
    BY <1>30, AddBucketLinks
  <2> QED BY <1>0, <1>30, <2>1 DEF ListStep, AddBucket, lru
<1>31. CASE PurgeBucket(t)
  <2>1. ListInv(P)' /\ OnLru' = OnLru
    BY <1>31, PurgeBucketLinks
  <2> QED BY <1>0, <1>31, <2>1 DEF ListStep, PurgeBucket, HoldsLru
<1>32. CASE Unlink(t)
  <2>1. ListInv(P)' /\ OnLru' = OnLru \ {cursor}
    BY <1>32, UnlinkLinks
  <2> QED BY <1>0, <1>32, <2>1 DEF ListStep, Unlink, Step, HoldsLru
<1>33. CASE PullStart(t)
  <2>1. ListInv(P)' /\ OnLru' = OnLru /\ P = {}
    BY <1>33, PullStartLinks
  <2> QED BY <1>0, <1>33, <2>1 DEF ListStep, PullStart, HoldsLru
<1>34. CASE PullEnd(t)
  <2>1. ListInv(P)' /\ OnLru' = OnLru
    BY <1>34, PullEndLinks
  <2> QED BY <1>0, <1>34, <2>1 DEF ListStep, PullEnd, HoldsLru
<1>35. CASE PullDone(t)
  <2>1. ListInv(P)' /\ OnLru' = OnLru
    BY <1>35, PullDoneLinks
  <2> QED BY <1>0, <1>35, <2>1 DEF ListStep, PullDone, Step, HoldsLru
<1>36. CASE PullMove(t)
  <2>1. PICK Q \in SUBSET Nodes : Q = P \cup {cursor} /\ ListInv(Q)'
    BY <1>36, PullMoveLinks
  <2>2. OnLru' = OnLru
    BY <1>36, PullMoveLinks
  <2> QED BY <1>36, <2>1, <2>2 DEF ListStep, PullMove, HoldsLru
<1>37. CASE Link(t) \/ (LinkCas(t) /\ lru_next[LruHead] # cnext[t])
  <2>1. ListInv(P)' /\ OnLru' = OnLru /\ \A m \in OnLru : lru_prev'[m] = lru_prev[m]
    BY <1>37, LoadsLinks
  <2> QED BY <1>0, <1>37, <2>1 DEF ListStep, Link, LinkCas, Step
<1>38. CASE LinkCas(t) /\ lru_next[LruHead] = cnext[t]
  <2>1. ListInv(P)' /\ OnLru' = OnLru \cup {node[t]} /\ UNCHANGED lru_prev
    BY <1>38, LinkCasLinks
  <2> QED BY <1>0, <1>38, <2>1 DEF ListStep, LinkCas
<1>39. CASE LinkBack(t) \/ BulkBack(t)
  <2>1. /\ ListInv(P)' /\ OnLru' = OnLru
        /\ \A m \in OnLru : lru_prev'[m] # lru_prev[m] => lru_prev'[m] # LruHead
    BY <1>39, BackLinks
  <2> QED BY <1>0, <1>39, <2>1 DEF ListStep, LinkBack, BulkBack, Step
<1>40. CASE Bulk(t) \/ (BulkCas(t) /\ lru_next[LruHead] # cnext[t])
  <2>1. ListInv(P)' /\ OnLru' = OnLru
    BY <1>40, BulkLoads
  <2> QED BY <1>0, <1>40, <2>1 DEF ListStep, Bulk, BulkCas, Step, HoldsLru
<1>41. CASE BulkCas(t) /\ lru_next[LruHead] = cnext[t]
  <2>1. PICK Q : Q = {}
    OBVIOUS
  <2>2. ListInv(Q)' /\ OnLru' = OnLru
    BY <1>41, <2>1, BulkCasLinks
  <2> QED BY <1>0, <1>41, <2>1, <2>2 DEF ListStep, BulkCas, HoldsLru
<1> QED BY <1>1, <1>2, <1>3, <1>4, <1>5, <1>6, <1>7, <1>8, <1>9, <1>10, <1>11, <1>12, <1>13,
  <1>14, <1>15, <1>16, <1>17, <1>18, <1>19, <1>20, <1>21, <1>22, <1>23, <1>24, <1>25, <1>26,
  <1>27, <1>28, <1>29, <1>30, <1>31, <1>32, <1>33, <1>34, <1>35, <1>36, <1>37, <1>38, <1>39,
  <1>40, <1>41, Zenon
  DEF Acts, Find, Proceed, Consolidate

---------------------------------------------------------------------------
(* The purging thread's view of the list.                                  *)

(* The steps of the threads without lru_lock_.                             *)
LEMMA SweepOthers ==
  ASSUME LockInv, SweepInv, NEW t \in Threads, Others(t), pc[t] \notin HoldsLru, UNCHANGED sweep,
         pc'[t] \notin {"purge", "purge_bucket"} \cup Evicting,
         OnLru \subseteq OnLru',
         \A m \in OnLru : lru_prev'[m] = LruHead => lru_prev[m] = LruHead
  PROVE  SweepInv'
<1> SUFFICES ASSUME NEW u \in Threads  PROVE Sweeps(u)'
  BY DEF SweepInv
<1>1. CASE u = t
  BY <1>1 DEF Sweeps, Evicting
<1>2. CASE u # t
  <2>1. pc'[u] = pc[u] /\ Sweeps(u) /\ UNCHANGED <<cursor, resume, quota>>
    BY <1>2 DEF Others, SweepInv, sweep
  <2> QED BY <2>1 DEF Sweeps
<1> QED BY <1>1, <1>2

(* And of the one that has it.                                             *)
LEMMA SweepHolder ==
  ASSUME LockInv, NEW t \in Threads, Others(t), pc[t] \in HoldsLru, Sweeps(t)'
  PROVE  SweepInv'
<1> SUFFICES ASSUME NEW u \in Threads, u # t  PROVE Sweeps(u)'
  BY DEF SweepInv
<1>1. pc'[u] = pc[u] /\ pc[u] \notin HoldsLru
  BY OneHolder DEF Others
<1> QED BY <1>1 DEF Sweeps, Evicting, HoldsLru

(* Where a purge starts, and where it goes on from a node of the list.     *)
LEMMA SweepsBack ==
  ASSUME LockInv, NEW P, ListInv(P), NEW t \in Threads, pc[t] \in HoldsLru, pc[t] \notin Pulling,
         NEW n \in OnLru \cup {LruTail}
  PROVE  lru_prev[n] \in OnLru \cup {LruHead} /\ lru_prev[n] # n
<1>1. P = {} /\ OnLru \ P = OnLru /\ OnLru \subseteq Nodes
  BY NoSublist DEF OnLru
<1>2. HasChain(lru_next, lru_next[LruHead], LruTail, OnLru) /\ BackInv(OnLru)
  BY <1>1 DEF ListInv
<1>3. lru_prev[n] \in OnLru \cup {LruHead} /\ (lru_prev[n] # LruHead => lru_prev[n] # n)
  BY <1>1, <1>2, PrevOnList
<1> QED BY <1>1, <1>3, Sentinels

(* Every step keeps the purging thread's view right.                       *)
LEMMA SweepNext ==
  ASSUME TypeOK, LockInv, NodesAreOwned, SweepInv, NEW R, SliceInv(R), NEW P, ListInv(P), R \cap P = {},
         NEW t \in Threads, Acts(t)
  PROVE  SweepInv'
<1>0. /\ pc[t] # "unlink" => OnLru \subseteq OnLru'
      /\ pc[t] = "unlink" => OnLru' = OnLru \ {cursor}
      /\ pc[t] \notin HoldsLru => \A m \in OnLru : lru_prev'[m] = LruHead => lru_prev[m] = LruHead
  BY ListedNext DEF ListStep
<1>1. ASSUME NEW k \in Keys, FindMiss(t, k)  PROVE SweepInv'
  BY <1>0, <1>1, SweepOthers DEF FindMiss, Step, Goto, Others, TypeOK, locals, shared, Sweeps,
    Evicting, HoldsLru
<1>2. ASSUME NEW k \in Keys, FindRecent(t, k)  PROVE SweepInv'
  BY <1>0, <1>2, SweepOthers DEF FindRecent, Step, Goto, Others, TypeOK, locals, shared, Sweeps,
    Evicting, HoldsLru
<1>3. ASSUME NEW k \in Keys, FindUnmarked(t, k)  PROVE SweepInv'
  BY <1>0, <1>3, SweepOthers DEF FindUnmarked, Step, Goto, Others, TypeOK, locals, shared,
    Sweeps, Evicting, HoldsLru
<1>4. CASE MarkCas(t)
  BY <1>0, <1>4, SweepOthers DEF MarkCas, Step, Goto, Others, TypeOK, locals, shared, Sweeps,
    Evicting, HoldsLru
<1>5. CASE CountRecent(t)
  BY <1>0, <1>5, SweepOthers DEF CountRecent, Step, Goto, Others, TypeOK, locals, shared, Sweeps,
    Evicting, HoldsLru
<1>6. CASE RequestPull(t)
  BY <1>0, <1>6, SweepOthers DEF RequestPull, Step, Goto, Others, TypeOK, locals, shared, Sweeps,
    Evicting, HoldsLru
<1>7. CASE RequestPurge(t)
  BY <1>0, <1>7, SweepOthers DEF RequestPurge, Step, Goto, Others, TypeOK, locals, shared,
    Sweeps, Evicting, HoldsLru
<1>8. CASE Allocate(t)
  BY <1>0, <1>8, SweepOthers DEF Allocate, Step, Goto, Others, TypeOK, locals, shared, Sweeps,
    Evicting, HoldsLru
<1>9. CASE Take(t)
  BY <1>0, <1>9, SweepOthers DEF Take, Step, Goto, Others, TypeOK, locals, shared, Sweeps,
    Evicting, HoldsLru
<1>10. CASE TakeFails(t)
  BY <1>0, <1>10, SweepOthers DEF TakeFails, Step, Goto, Others, TypeOK, locals, shared, Sweeps,
    Evicting, HoldsLru
<1>11. CASE AddBucket(t)
  BY <1>0, <1>11, SweepOthers DEF AddBucket, Step, Goto, Others, TypeOK, locals, shared, Sweeps,
    Evicting, HoldsLru
<1>12. CASE Drop(t)
  BY <1>0, <1>12, SweepOthers DEF Drop, Step, Goto, Others, TypeOK, locals, shared, Sweeps,
    Evicting, HoldsLru
<1>13. CASE DropCas(t)
  BY <1>0, <1>13, SweepOthers DEF DropCas, Step, Goto, Others, TypeOK, locals, shared, Sweeps,
    Evicting, HoldsLru
<1>14. CASE DropRetry(t)
  BY <1>0, <1>14, SweepOthers DEF DropRetry, Step, Goto, Others, TypeOK, locals, shared, Sweeps,
    Evicting, HoldsLru
<1>15. CASE Link(t)
  BY <1>0, <1>15, SweepOthers DEF Link, Step, Goto, LinkLoad, Others, TypeOK, locals, shared,
    Sweeps, Evicting, HoldsLru
<1>16. CASE LinkCas(t)
  BY <1>0, <1>16, SweepOthers DEF LinkCas, Step, Goto, LinkSwap, Others, TypeOK, locals, shared,
    Sweeps, Evicting, HoldsLru
<1>17. CASE LinkBack(t)
  BY <1>0, <1>17, SweepOthers DEF LinkBack, Step, Goto, LinkPrev, Others, TypeOK, locals, shared,
    Sweeps, Evicting, HoldsLru
<1>18. CASE Publish(t)
  BY <1>0, <1>18, SweepOthers DEF Publish, Step, Goto, Others, TypeOK, locals, shared, Sweeps,
    Evicting, HoldsLru
<1>19. CASE CheckThreshold(t)
  BY <1>0, <1>19, SweepOthers DEF CheckThreshold, Step, Goto, Return, Others, TypeOK, locals,
    shared, Sweeps, Evicting, HoldsLru
<1>20. CASE TryLock(t)
  BY <1>0, <1>20, SweepOthers DEF TryLock, Step, Goto, Return, Others, TypeOK, locals, shared,
    Sweeps, Evicting, HoldsLru
<1>21. CASE PurgeEnd(t)
  BY <1>0, <1>21, SweepHolder DEF PurgeEnd, Step, Goto, Others, TypeOK, locals, shared, Sweeps,
    Evicting, HoldsLru
<1>22. CASE PullStart(t)
  BY <1>0, <1>22, SweepHolder DEF PullStart, Step, Goto, Others, TypeOK, locals, shared, Sweeps,
    Evicting, HoldsLru
<1>23. CASE ResetCount(t)
  BY <1>0, <1>23, SweepHolder DEF ResetCount, Step, Goto, Others, TypeOK, locals, shared, Sweeps,
    Evicting, HoldsLru
<1>24. CASE PullEnd(t)
  BY <1>0, <1>24, SweepHolder DEF PullEnd, Step, Goto, Others, TypeOK, locals, shared, Sweeps,
    Evicting, HoldsLru
<1>25. CASE PullAtHead(t)
  BY <1>0, <1>25, SweepHolder DEF PullAtHead, Step, Goto, Others, TypeOK, locals, shared, Sweeps,
    Evicting, HoldsLru
<1>26. CASE PullSkip(t)
  BY <1>0, <1>26, SweepHolder DEF PullSkip, Step, Goto, Others, TypeOK, locals, shared, Sweeps,
    Evicting, HoldsLru
<1>27. CASE PullMove(t)
  BY <1>0, <1>27, SweepHolder DEF PullMove, Step, Goto, Others, TypeOK, locals, shared, Sweeps,
    Evicting, HoldsLru
<1>28. CASE Bulk(t)
  BY <1>0, <1>28, SweepHolder DEF Bulk, Step, Goto, LinkLoad, Others, TypeOK, locals, shared,
    Sweeps, Evicting, HoldsLru
<1>29. CASE BulkCas(t)
  BY <1>0, <1>29, SweepHolder DEF BulkCas, Step, Goto, LinkSwap, Others, TypeOK, locals, shared,
    Sweeps, Evicting, HoldsLru
<1>30. CASE BulkBack(t)
  BY <1>0, <1>30, SweepHolder DEF BulkBack, Step, Goto, LinkPrev, Others, TypeOK, locals, shared,
    Sweeps, Evicting, HoldsLru
<1>31. CASE PullDone(t)
  BY <1>0, <1>31, SweepHolder DEF PullDone, Step, Goto, Others, TypeOK, locals, shared, Sweeps,
    Evicting, HoldsLru
<1>32. CASE PurgeDone(t)
  BY <1>0, <1>32, SweepHolder DEF PurgeDone, Step, Goto, Others, TypeOK, locals, shared, Sweeps,
    Evicting, HoldsLru
<1>33. CASE Unlock(t)
  BY <1>0, <1>33, SweepHolder DEF Unlock, Step, Goto, Return, Others, TypeOK, locals, shared,
    Sweeps, Evicting, HoldsLru
<1>34. CASE FirstPurge(t)
  <2>1. lru_prev[LruTail] \in OnLru \cup {LruHead}
    BY <1>34, SweepsBack DEF FirstPurge, HoldsLru, Pulling, Slicing
  <2>2. pc[t] = "first_purge" /\ pc'[t] \in {"purge", "pull"} /\ Others(t)
    BY <1>34 DEF FirstPurge, Goto, TypeOK, Others, locals
  <2>3. pc'[t] = "purge" => cursor' = lru_prev[LruTail]
    BY <1>34 DEF FirstPurge, StartPurge, Goto, TypeOK
  <2> QED BY <1>0, <2>1, <2>2, <2>3, SweepHolder DEF Sweeps, Evicting, HoldsLru
<1>35. CASE SecondPurge(t)
  <2>1. lru_prev[LruTail] \in OnLru \cup {LruHead}
    BY <1>35, SweepsBack DEF SecondPurge, HoldsLru, Pulling, Slicing
  <2>2. pc[t] = "second_purge" /\ pc'[t] \in {"purge", "unlock"} /\ Others(t)
    BY <1>35 DEF SecondPurge, Goto, TypeOK, Others, locals
  <2>3. pc'[t] = "purge" => cursor' = lru_prev[LruTail]
    BY <1>35 DEF SecondPurge, StartPurge, Goto, TypeOK
  <2> QED BY <1>0, <2>1, <2>2, <2>3, SweepHolder DEF Sweeps, Evicting, HoldsLru
<1>36. CASE PurgeSkip(t)
  <2>1. /\ pc[t] = "purge" /\ pc'[t] = "purge" /\ Others(t) /\ cursor' = lru_prev[cursor]
        /\ cursor # LruHead
    BY <1>36 DEF PurgeSkip, PurgeContinues, Others, locals
  <2>2. cursor \in OnLru
    BY <2>1 DEF SweepInv, Sweeps
  <2>3. lru_prev[cursor] \in OnLru \cup {LruHead}
    BY <2>1, <2>2, SweepsBack DEF HoldsLru, Pulling, Slicing
  <2> QED BY <1>0, <2>1, <2>3, SweepHolder DEF Sweeps, Evicting, HoldsLru
<1>37. CASE PurgeTry(t)
  <2>1. /\ pc[t] = "purge" /\ pc'[t] = "purge_bucket" /\ Others(t) /\ resume' = lru_prev[cursor]
        /\ cursor # LruHead /\ lru_prev[cursor] # LruHead /\ quota > 0
        /\ UNCHANGED <<cursor, quota, lru_prev>>
    BY <1>37 DEF PurgeTry, PurgeContinues, Step, Goto, TypeOK, Others, locals, shared, lru
  <2>2. cursor \in OnLru
    BY <2>1 DEF SweepInv, Sweeps
  <2>3. lru_prev[cursor] \in OnLru /\ lru_prev[cursor] # cursor
    BY <2>1, <2>2, SweepsBack DEF HoldsLru, Pulling, Slicing
  <2> QED BY <1>0, <2>1, <2>2, <2>3, SweepHolder DEF Sweeps, Evicting, HoldsLru
<1>38. CASE PurgeBucket(t)
  <2>1. /\ pc[t] = "purge_bucket" /\ Others(t) /\ UNCHANGED <<resume, quota, lru_prev>>
        /\ \/ pc'[t] = "purge" /\ cursor' = resume
           \/ pc'[t] = "unlink" /\ cursor' = cursor
    BY <1>38 DEF PurgeBucket, Goto, TypeOK, Others, locals, lru
  <2>2. Sweeps(t)
    BY DEF SweepInv
  <2> QED BY <1>0, <2>1, <2>2, SweepHolder DEF Sweeps, Evicting, HoldsLru
<1>39. CASE Unlink(t)
  <2>1. pc[t] = "unlink" /\ pc'[t] = "dispose" /\ Others(t) /\ UNCHANGED <<cursor, resume, quota>>
    BY <1>39 DEF Unlink, Step, Goto, TypeOK, Others, locals, sweep
  <2>2. Sweeps(t)
    BY DEF SweepInv
  <2> QED BY <1>0, <2>1, <2>2, SweepHolder DEF Sweeps, Evicting, HoldsLru
<1>40. CASE Dispose(t) \/ DisposeRetry(t)
  <2>1. /\ pc[t] \in {"dispose", "dispose_cas"} /\ pc'[t] \in {"dispose", "dispose_cas"} /\ Others(t)
        /\ UNCHANGED <<cursor, resume, quota>>
    BY <1>40 DEF Dispose, DisposeRetry, Step, Goto, TypeOK, Others, locals, sweep
  <2>2. Sweeps(t)
    BY DEF SweepInv
  <2> QED BY <1>0, <2>1, <2>2, SweepHolder DEF Sweeps, Evicting, HoldsLru
<1>41. CASE DisposeCas(t)
  <2>1. pc[t] = "dispose_cas" /\ pc'[t] = "purge" /\ Others(t) /\ cursor' = resume
    BY <1>41 DEF DisposeCas, Step, Goto, TypeOK, Others, locals
  <2>2. Sweeps(t)
    BY DEF SweepInv
  <2> QED BY <1>0, <2>1, <2>2, SweepHolder DEF Sweeps, Evicting, HoldsLru
<1> QED BY <1>1, <1>2, <1>3, <1>4, <1>5, <1>6, <1>7, <1>8, <1>9, <1>10, <1>11, <1>12, <1>13,
  <1>14, <1>15, <1>16, <1>17, <1>18, <1>19, <1>20, <1>21, <1>22, <1>23, <1>24, <1>25, <1>26,
  <1>27, <1>28, <1>29, <1>30, <1>31, <1>32, <1>33, <1>34, <1>35, <1>36, <1>37, <1>38, <1>39,
  <1>40, <1>41, Zenon
  DEF Acts, Find, Proceed, Consolidate

---------------------------------------------------------------------------
(* The types, and the invariant as a whole.                                *)

(* A call that is over, or has missed, has no node.                        *)
LEMMA CallNext ==
  ASSUME TypeOK, CallInv, NEW t \in Threads, Acts(t)
  PROVE  CallInv'
<1>1. ASSUME NEW k \in Keys, FindMiss(t, k)  PROVE CallInv'
  BY <1>1 DEF FindMiss, Step, Goto, TypeOK, CallInv, shared, table, recent, locals, sweep
<1>2. ASSUME NEW k \in Keys, FindRecent(t, k)  PROVE CallInv'
  BY <1>2 DEF FindRecent, Step, Goto, TypeOK, CallInv, shared, table, recent, locals, sweep
<1>3. ASSUME NEW k \in Keys, FindUnmarked(t, k)  PROVE CallInv'
  BY <1>3 DEF FindUnmarked, Step, Goto, TypeOK, CallInv, shared, table, recent, locals, sweep
<1>4. CASE MarkCas(t)
  BY <1>4 DEF MarkCas, Step, Goto, TypeOK, CallInv, shared, table, recent, locals, sweep
<1>5. CASE CountRecent(t)
  BY <1>5 DEF CountRecent, Step, Goto, TypeOK, CallInv, shared, table, recent, locals, sweep
<1>6. CASE RequestPull(t)
  BY <1>6 DEF RequestPull, Step, Goto, TypeOK, CallInv, shared, table, recent, locals, sweep
<1>7. CASE RequestPurge(t)
  BY <1>7 DEF RequestPurge, Step, Goto, TypeOK, CallInv, shared, table, recent, locals, sweep
<1>8. CASE CheckThreshold(t)
  BY <1>8 DEF CheckThreshold, Step, Goto, Return, TypeOK, CallInv, shared, table, recent, locals,
    sweep
<1>9. CASE TryLock(t)
  BY <1>9 DEF TryLock, Step, Goto, Return, TypeOK, CallInv, shared, table, recent, locals, sweep
<1>10. CASE Allocate(t)
  BY <1>10 DEF Allocate, Step, Goto, TypeOK, CallInv, shared, table, recent, locals, sweep
<1>11. CASE Take(t)
  BY <1>11 DEF Take, Step, Goto, TypeOK, CallInv, shared, table, recent, locals, sweep
<1>12. CASE TakeFails(t)
  BY <1>12 DEF TakeFails, Step, Goto, TypeOK, CallInv, shared, table, recent, locals, sweep
<1>13. CASE AddBucket(t)
  BY <1>13 DEF AddBucket, Step, Goto, TypeOK, CallInv, shared, table, recent, locals, sweep
<1>14. CASE Drop(t)
  BY <1>14 DEF Drop, Step, Goto, DisposeLoad, TypeOK, CallInv, shared, table, recent, locals, sweep
<1>15. CASE DropCas(t)
  BY <1>15 DEF DropCas, Step, Goto, DisposePush, TypeOK, CallInv, shared, table, recent, locals,
    sweep
<1>16. CASE DropRetry(t)
  BY <1>16 DEF DropRetry, Step, Goto, TypeOK, CallInv, shared, table, recent, locals, sweep
<1>17. CASE Link(t)
  BY <1>17 DEF Link, Step, Goto, LinkLoad, TypeOK, CallInv, shared, table, recent, locals, sweep
<1>18. CASE LinkCas(t)
  BY <1>18 DEF LinkCas, Step, Goto, LinkSwap, TypeOK, CallInv, shared, table, recent, locals, sweep
<1>19. CASE LinkBack(t)
  BY <1>19 DEF LinkBack, Step, Goto, LinkPrev, TypeOK, CallInv, shared, table, recent, locals, sweep
<1>20. CASE Publish(t)
  BY <1>20 DEF Publish, Step, Goto, TypeOK, CallInv, shared, table, recent, locals, sweep
<1>21. CASE FirstPurge(t)
  BY <1>21 DEF FirstPurge, Step, Goto, StartPurge, TypeOK, CallInv, shared, table, recent,
    locals, sweep
<1>22. CASE SecondPurge(t)
  BY <1>22 DEF SecondPurge, Step, Goto, StartPurge, TypeOK, CallInv, shared, table, recent,
    locals, sweep
<1>23. CASE PurgeEnd(t)
  BY <1>23 DEF PurgeEnd, Step, Goto, TypeOK, CallInv, shared, table, recent, locals, sweep
<1>24. CASE PurgeSkip(t)
  BY <1>24 DEF PurgeSkip, Step, Goto, TypeOK, CallInv, shared, table, recent, locals, sweep
<1>25. CASE PurgeTry(t)
  BY <1>25 DEF PurgeTry, Step, Goto, TypeOK, CallInv, shared, table, recent, locals, sweep
<1>26. CASE PurgeBucket(t)
  BY <1>26 DEF PurgeBucket, Step, Goto, TypeOK, CallInv, shared, table, recent, locals, sweep
<1>27. CASE Unlink(t)
  BY <1>27 DEF Unlink, Step, Goto, NextWithout, PrevWithout, TypeOK, CallInv, shared, table,
    recent, locals, sweep
<1>28. CASE Dispose(t)
  BY <1>28 DEF Dispose, Step, Goto, DisposeLoad, TypeOK, CallInv, shared, table, recent, locals,
    sweep
<1>29. CASE DisposeCas(t)
  BY <1>29 DEF DisposeCas, Step, Goto, DisposePush, TypeOK, CallInv, shared, table, recent,
    locals, sweep
<1>30. CASE DisposeRetry(t)
  BY <1>30 DEF DisposeRetry, Step, Goto, TypeOK, CallInv, shared, table, recent, locals, sweep
<1>31. CASE PullStart(t)
  BY <1>31 DEF PullStart, Step, Goto, TypeOK, CallInv, shared, table, recent, locals, sweep
<1>32. CASE ResetCount(t)
  BY <1>32 DEF ResetCount, Step, Goto, TypeOK, CallInv, shared, table, recent, locals, sweep
<1>33. CASE PullEnd(t)
  BY <1>33 DEF PullEnd, Step, Goto, TypeOK, CallInv, shared, table, recent, locals, sweep
<1>34. CASE PullAtHead(t)
  BY <1>34 DEF PullAtHead, Step, Goto, TypeOK, CallInv, shared, table, recent, locals, sweep
<1>35. CASE PullSkip(t)
  BY <1>35 DEF PullSkip, Step, Goto, TypeOK, CallInv, shared, table, recent, locals, sweep
<1>36. CASE PullMove(t)
  BY <1>36 DEF PullMove, Step, Goto, NextWithout, PrevWithout, TypeOK, CallInv, shared, table,
    recent, locals, sweep
<1>37. CASE Bulk(t)
  BY <1>37 DEF Bulk, Step, Goto, LinkLoad, TypeOK, CallInv, shared, table, recent, locals, sweep
<1>38. CASE BulkCas(t)
  BY <1>38 DEF BulkCas, Step, Goto, LinkSwap, TypeOK, CallInv, shared, table, recent, locals, sweep
<1>39. CASE BulkBack(t)
  BY <1>39 DEF BulkBack, Step, Goto, LinkPrev, TypeOK, CallInv, shared, table, recent, locals, sweep
<1>40. CASE PullDone(t)
  BY <1>40 DEF PullDone, Step, Goto, TypeOK, CallInv, shared, table, recent, locals, sweep
<1>41. CASE PurgeDone(t)
  BY <1>41 DEF PurgeDone, Step, Goto, TypeOK, CallInv, shared, table, recent, locals, sweep
<1>42. CASE Unlock(t)
  BY <1>42 DEF Unlock, Step, Goto, Return, TypeOK, CallInv, shared, table, recent, locals, sweep
<1> QED BY <1>1, <1>2, <1>3, <1>4, <1>5, <1>6, <1>7, <1>8, <1>9, <1>10, <1>11, <1>12, <1>13,
  <1>14, <1>15, <1>16, <1>17, <1>18, <1>19, <1>20, <1>21, <1>22, <1>23, <1>24, <1>25, <1>26,
  <1>27, <1>28, <1>29, <1>30, <1>31, <1>32, <1>33, <1>34, <1>35, <1>36, <1>37, <1>38, <1>39,
  <1>40, <1>41, <1>42, Zenon
  DEF Acts, Find, Proceed, Consolidate


(* The ends of the LRU list lead into it.                                  *)
LEMMA ListEnds ==
  ASSUME NEW P, ListInv(P)'
  PROVE  lru_next'[LruHead] # NULL /\ lru_prev'[LruTail] # NULL
<1>1. PICK S : S = OnLru' \ P
  OBVIOUS
<1>2. /\ S \subseteq Nodes /\ HasChain(lru_next', lru_next'[LruHead], LruTail, S)
      /\ \A c \in S \cup {LruHead} :
           lru_prev'[lru_next'[c]] = IF Awaited(lru_next[c])' THEN LruHead ELSE c
  BY <1>1 DEF ListInv, OnLru, BackInv
<1>3. lru_next'[LruHead] \in S \cup {LruTail} /\ (lru_next'[LruHead] = LruTail => S = {})
  BY <1>2, ChainFacts
<1>4. \E c \in S \cup {LruHead} : lru_next'[c] = LruTail
  <2>1. S # {} => \E c \in S : lru_next'[c] = LruTail
    BY <1>2, ChainEnds
  <2> QED BY <1>3, <2>1
<1>5. lru_prev'[LruTail] \in S \cup {LruHead}
  BY <1>2, <1>4
<1> QED BY <1>2, <1>3, <1>5, Sentinels

(* What is a node in a state.                                              *)
LEMMA NodeTypes ==
  ASSUME TypeOK, LockInv, NodesAreOwned, HitInv, SweepInv,
         NEW R, SliceInv(R), NEW P, ListInv(P), NEW t \in Threads
  PROVE  /\ pc[t] \in {"mark", "take"} \cup Inserting => node[t] \in Nodes
         /\ pc[t] \in {"purge_bucket"} \cup Evicting => cursor \in Nodes /\ resume \in Nodes /\ quota > 0
         /\ pc[t] \in Slicing /\ cursor # Dummy => cursor \in Nodes
         /\ pc[t] = "pull_skip" => cursor # Dummy
         /\ pc[t] \in {"bulk", "bulk_cas"} => lru_next[TempHead] \in Nodes /\ last \in Nodes
         /\ pc[t] = "bulk_back" => last \in Nodes
<1>1. pc[t] \in {"mark", "take"} \cup Inserting => node[t] \in Nodes
  <2>1. pc[t] = "mark" => node[t] \in chain[BucketOf[req[t]]] /\ BucketOf[req[t]] \in Buckets
    BY ConstantsAssumption DEF HitInv, HoldsBucket, LockInv, KeyAsked
  <2> QED BY <2>1 DEF NodesAreOwned, OwnInv, TypeOK
<1>2. pc[t] \in {"purge_bucket"} \cup Evicting => cursor \in Nodes /\ resume \in Nodes /\ quota > 0
  BY DEF NodesAreOwned, OwnInv, SweepInv, Sweeps, OnLru
<1>3. pc[t] \in Slicing /\ cursor # Dummy => cursor \in Nodes
  BY SliceHead DEF Linked, TypeOK
<1>4. pc[t] = "pull_skip" => cursor # Dummy
  BY DEF SliceInv
<1>5. pc[t] \in {"bulk", "bulk_cas"} => lru_next[TempHead] \in Nodes /\ last \in Nodes
  BY DEF ListInv, Moving, IsSublist, Pulling, OnLru
<1>6. pc[t] = "bulk_back" => last \in Nodes
  BY DEF ListInv, Links, OnLru
<1> QED BY <1>1, <1>2, <1>3, <1>4, <1>5, <1>6

(* The types but for those of the locks, the labels and the keys asked for. *)
TableT == key \in [Nodes -> Keys \cup {NULL}] /\ chain \in [Buckets -> SUBSET Nodes]
LruT == /\ lru_next \in [Cells -> Nodes \cup {LruTail, NULL}]
        /\ lru_prev \in [Cells -> Nodes \cup {LruHead, TempHead, NULL}]
RecentT == /\ recent_next \in [Nodes -> Nodes \cup {Dummy, NULL}]
           /\ recent_head \in Nodes \cup {Dummy} /\ recent_count \in Nat
EmptyT == /\ empty_next \in [Nodes -> Nodes \cup {NULL}]
          /\ empty_head \in Nodes \cup {NULL} /\ empty_marked \in BOOLEAN
FlagT == pull_request \in BOOLEAN /\ purge_request \in BOOLEAN
LocalT == /\ node \in [Threads -> Nodes \cup {NULL}]
          /\ cnext \in [Threads -> Nodes \cup {LruTail, NULL}]
SweepT == /\ cursor \in Nodes \cup {LruHead, Dummy, NULL} /\ resume \in Nodes \cup {LruHead, NULL}
          /\ quota \in Nat /\ second \in BOOLEAN /\ last \in Nodes \cup {TempHead, NULL}
Parts == TableT /\ LruT /\ RecentT /\ EmptyT /\ FlagT /\ LocalT /\ SweepT

(* What does not change keeps its type.                                    *)
LEMMA PartsStay ==
  ASSUME Parts, TableT' \/ UNCHANGED <<key, chain>>, LruT' \/ UNCHANGED lru,
         RecentT' \/ UNCHANGED recent, EmptyT' \/ UNCHANGED empty, FlagT' \/ UNCHANGED requests,
         LocalT' \/ UNCHANGED <<node, cnext>>, SweepT' \/ UNCHANGED sweep
  PROVE  Parts'
<1>1. TableT'
  BY DEF Parts, TableT
<1>2. LruT'
  BY DEF Parts, LruT, lru
<1>3. RecentT'
  BY DEF Parts, RecentT, recent
<1>4. EmptyT'
  BY DEF Parts, EmptyT, empty
<1>5. FlagT'
  BY DEF Parts, FlagT, requests
<1>6. LocalT'
  BY DEF Parts, LocalT
<1>7. SweepT'
  BY DEF Parts, SweepT, sweep
<1> QED BY <1>1, <1>2, <1>3, <1>4, <1>5, <1>6, <1>7 DEF Parts

(* Every step keeps these types, action by action.                         *)
LEMMA PartsNext ==
  ASSUME TypeOK, LockInv, NodesAreOwned, HitInv, SweepInv,
         NEW R, SliceInv(R), NEW P, ListInv(P), R \cap P = {}, NEW t \in Threads, Acts(t)
  PROVE  Parts'
<1>52. /\ pc'[t] = "purge" => cursor' \in Nodes \cup {LruHead}
       /\ pc'[t] = "purge_bucket" => resume' \in Nodes
  BY SweepNext DEF SweepInv, Sweeps, OnLru
<1>53. /\ pc[t] \in {"mark", "take"} \cup Inserting => node[t] \in Nodes
       /\ pc[t] \in {"purge_bucket"} \cup Evicting => cursor \in Nodes /\ resume \in Nodes /\ quota > 0
       /\ pc[t] \in Slicing /\ cursor # Dummy => cursor \in Nodes
       /\ pc[t] = "pull_skip" => cursor # Dummy
       /\ pc[t] \in {"bulk", "bulk_cas"} => lru_next[TempHead] \in Nodes /\ last \in Nodes
       /\ pc[t] = "bulk_back" => last \in Nodes
  BY NodeTypes
<1>54. Parts
  BY DEF TypeOK, Parts, TableT, LruT, RecentT, EmptyT, FlagT, LocalT, SweepT
<1>56. pc \in [Threads -> PcValues]
  BY DEF TypeOK
<1>57. \A k \in Keys : Found(k) \subseteq Nodes
  BY ConstantsAssumption DEF Found, TypeOK
<1>58. pc[t] # "idle" => req[t] \in Keys
  BY DEF LockInv, KeyAsked
<1>59. PurgeThreshold \in Nat
  BY ConstantsAssumption
<1>1. ASSUME NEW k \in Keys, FindMiss(t, k)  PROVE Parts'
  BY <1>54, <1>1, PartsStay DEF FindMiss, shared, table, locals, lru, recent, empty, requests, sweep
<1>2. ASSUME NEW k \in Keys, FindRecent(t, k)  PROVE Parts'
  <2>1. LocalT'
    BY <1>54, <1>2, <1>57 DEF FindRecent, Step, Goto, Parts, LocalT, locals
  <2> QED BY <1>54, <1>2, <2>1, PartsStay DEF FindRecent, shared, table, locals, lru, recent,
    empty, requests, sweep
<1>3. ASSUME NEW k \in Keys, FindUnmarked(t, k)  PROVE Parts'
  <2>1. LocalT'
    BY <1>54, <1>3, <1>57 DEF FindUnmarked, Step, Goto, Parts, LocalT, locals
  <2>2. RecentT'
    BY <1>54, <1>3 DEF FindUnmarked, Parts, RecentT, recent
  <2> QED BY <1>54, <1>3, <2>1, <2>2, PartsStay DEF FindUnmarked, shared, table, locals, lru,
    recent, empty, requests, sweep
<1>4. CASE MarkCas(t)
  <2>1. RecentT'
    BY <1>54, <1>4, <1>53 DEF MarkCas, Step, Goto, Parts, RecentT, Inserting, Holding, Entering,
      Evicting, Slicing, recent
  <2> QED BY <1>54, <1>4, <2>1, PartsStay DEF MarkCas, shared, table, locals, lru, recent, empty,
    requests, sweep
<1>5. CASE CountRecent(t)
  <2>1. RecentT'
    BY <1>54, <1>5 DEF CountRecent, Parts, RecentT, recent
  <2> QED BY <1>54, <1>5, <2>1, PartsStay DEF CountRecent, shared, table, locals, lru, recent,
    empty, requests, sweep
<1>6. CASE RequestPull(t)
  <2>1. FlagT'
    BY <1>54, <1>6 DEF RequestPull, Parts, FlagT, requests
  <2> QED BY <1>54, <1>6, <2>1, PartsStay DEF RequestPull, shared, table, locals, lru, recent,
    empty, requests, sweep
<1>7. CASE RequestPurge(t)
  <2>1. FlagT'
    BY <1>54, <1>7 DEF RequestPurge, Parts, FlagT, requests
  <2> QED BY <1>54, <1>7, <2>1, PartsStay DEF RequestPurge, shared, table, locals, lru, recent,
    empty, requests, sweep
<1>8. CASE CheckThreshold(t)
  <2>1. LocalT'
    BY <1>54, <1>8 DEF CheckThreshold, Return, Parts, LocalT, locals
  <2> QED BY <1>54, <1>8, <2>1, PartsStay DEF CheckThreshold, Return, shared, table, locals, lru,
    recent, empty, requests, sweep
<1>9. CASE TryLock(t)
  <2>1. LocalT'
    BY <1>54, <1>9 DEF TryLock, Return, Parts, LocalT, locals
  <2> QED BY <1>54, <1>9, <2>1, PartsStay DEF TryLock, Return, shared, table, locals, lru,
    recent, empty, requests, sweep
<1>10. CASE Allocate(t)
  <2>1. EmptyT'
    BY <1>54, <1>10 DEF Allocate, Parts, EmptyT, empty
  <2>2. LocalT'
    BY <1>54, <1>10 DEF Allocate, Parts, LocalT, EmptyT, locals
  <2> QED BY <1>54, <1>10, <2>1, <2>2, PartsStay DEF Allocate, shared, table, locals, lru,
    recent, empty, requests, sweep
<1>11. CASE Take(t)
  <2>1. TableT'
    BY <1>54, <1>11, <1>58 DEF Take, Step, Goto, Parts, TableT
  <2>2. RecentT'
    BY <1>54, <1>11 DEF Take, Parts, RecentT, recent
  <2>3. EmptyT'
    BY <1>54, <1>11, <1>53 DEF Take, Step, Goto, Parts, EmptyT, Inserting, Holding, Entering,
      Evicting, Slicing, empty
  <2> QED BY <1>54, <1>11, <2>1, <2>2, <2>3, PartsStay DEF Take, shared, table, locals, lru,
    recent, empty, requests, sweep
<1>12. CASE TakeFails(t)
  <2>1. EmptyT'
    BY <1>54, <1>12 DEF TakeFails, Parts, EmptyT, empty
  <2>2. LocalT'
    BY <1>54, <1>12 DEF TakeFails, Parts, LocalT, locals
  <2> QED BY <1>54, <1>12, <2>1, <2>2, PartsStay DEF TakeFails, shared, table, locals, lru,
    recent, empty, requests, sweep
<1>13. CASE AddBucket(t)
  <2>1. TableT'
    BY <1>54, <1>13, <1>53 DEF AddBucket, Step, Goto, Parts, TableT, Inserting, Holding,
      Entering, Evicting, Slicing
  <2> QED BY <1>54, <1>13, <2>1, PartsStay DEF AddBucket, shared, table, locals, lru, recent,
    empty, requests, sweep
<1>14. CASE Drop(t)
  <2>1. EmptyT'
    BY <1>54, <1>14 DEF Drop, DisposeLoad, Parts, EmptyT, empty
  <2> QED BY <1>54, <1>14, <2>1, PartsStay DEF Drop, DisposeLoad, shared, table, locals, lru,
    recent, empty, requests, sweep
<1>15. CASE DropCas(t)
  <2>1. EmptyT'
    BY <1>54, <1>15, <1>53 DEF DropCas, Step, Goto, DisposePush, Parts, EmptyT, Inserting,
      Holding, Entering, Evicting, Slicing, empty
  <2>2. LocalT'
    BY <1>54, <1>15 DEF DropCas, DisposePush, Parts, LocalT, locals
  <2> QED BY <1>54, <1>15, <2>1, <2>2, PartsStay DEF DropCas, DisposePush, shared, table, locals,
    lru, recent, empty, requests, sweep
<1>16. CASE DropRetry(t)
  BY <1>54, <1>16, PartsStay DEF DropRetry, shared, table, locals, lru, recent, empty, requests,
    sweep
<1>17. CASE Link(t)
  <2>1. LruT'
    BY <1>54, <1>17, <1>53 DEF Link, Step, Goto, LinkLoad, Parts, LruT, Cells, Inserting,
      Holding, Entering, Evicting, Slicing, lru
  <2>2. LocalT'
    BY <1>54, <1>17 DEF Link, LinkLoad, Parts, LocalT, LruT, Cells, locals
  <2> QED BY <1>54, <1>17, <2>1, <2>2, PartsStay DEF Link, LinkLoad, shared, table, locals, lru,
    recent, empty, requests, sweep
<1>18. CASE LinkCas(t)
  <2>1. LruT'
    BY <1>54, <1>18, <1>53 DEF LinkCas, Step, Goto, LinkSwap, Parts, LruT, Cells, Inserting,
      Holding, Entering, Evicting, Slicing, lru
  <2>2. LocalT'
    BY <1>54, <1>18 DEF LinkCas, LinkSwap, Parts, LocalT, LruT, Cells, locals
  <2> QED BY <1>54, <1>18, <2>1, <2>2, PartsStay DEF LinkCas, LinkSwap, shared, table, locals,
    lru, recent, empty, requests, sweep
<1>19. CASE LinkBack(t)
  <2>1. LruT'
    BY <1>54, <1>19, <1>53 DEF LinkBack, Step, Goto, LinkPrev, Parts, LruT, Inserting, Holding,
      Entering, Evicting, Slicing, lru
  <2>2. LocalT'
    BY <1>54, <1>19 DEF LinkBack, LinkPrev, Parts, LocalT, locals
  <2> QED BY <1>54, <1>19, <2>1, <2>2, PartsStay DEF LinkBack, LinkPrev, shared, table, locals,
    lru, recent, empty, requests, sweep
<1>20. CASE Publish(t)
  <2>1. RecentT'
    BY <1>54, <1>20 DEF Publish, Parts, RecentT, recent
  <2>2. LocalT'
    BY <1>54, <1>20 DEF Publish, Parts, LocalT, locals
  <2> QED BY <1>54, <1>20, <2>1, <2>2, PartsStay DEF Publish, shared, table, locals, lru, recent,
    empty, requests, sweep
<1>21. CASE FirstPurge(t)
  <2>1. SweepT'
    <3>1. CASE purge_request
      <4>1. pc'[t] = "purge" /\ cursor' \in Nodes \cup {LruHead}
        BY <3>1, <1>21, <1>52, <1>56 DEF FirstPurge, Goto
      <4>2. quota' = 20 /\ second' = FALSE /\ UNCHANGED <<resume, last>>
        BY <3>1, <1>21 DEF FirstPurge, StartPurge
      <4> QED BY <4>1, <4>2, <1>54 DEF Parts, SweepT
    <3>2. CASE ~purge_request
      BY <3>2, <1>54, <1>21 DEF FirstPurge, Parts, SweepT
    <3> QED BY <3>1, <3>2
  <2> QED BY <1>54, <1>21, <2>1, PartsStay DEF FirstPurge, StartPurge, shared, table, locals,
    lru, recent, empty, requests, sweep
<1>22. CASE SecondPurge(t)
  <2>1. SweepT'
    BY <1>54, <1>22, <1>52, <1>56, <1>59 DEF SecondPurge, Step, Goto, StartPurge, Parts, SweepT,
      sweep
  <2> QED BY <1>54, <1>22, <2>1, PartsStay DEF SecondPurge, StartPurge, shared, table, locals,
    lru, recent, empty, requests, sweep
<1>23. CASE PurgeEnd(t)
  BY <1>54, <1>23, PartsStay DEF PurgeEnd, shared, table, locals, lru, recent, empty, requests,
    sweep
<1>24. CASE PurgeSkip(t)
  <2>1. SweepT'
    BY <1>54, <1>24, <1>52, <1>56 DEF PurgeSkip, Step, Goto, Parts, SweepT, sweep
  <2> QED BY <1>54, <1>24, <2>1, PartsStay DEF PurgeSkip, shared, table, locals, lru, recent,
    empty, requests, sweep
<1>25. CASE PurgeTry(t)
  <2>1. SweepT'
    BY <1>54, <1>25, <1>52, <1>56 DEF PurgeTry, Step, Goto, Parts, SweepT, sweep
  <2> QED BY <1>54, <1>25, <2>1, PartsStay DEF PurgeTry, shared, table, locals, lru, recent,
    empty, requests, sweep
<1>26. CASE PurgeBucket(t)
  <2>1. TableT'
    BY <1>54, <1>26 DEF PurgeBucket, Parts, TableT
  <2>2. SweepT'
    BY <1>54, <1>26, <1>53 DEF PurgeBucket, Step, Goto, Parts, SweepT, Inserting, Holding,
      Entering, Evicting, Slicing, sweep
  <2> QED BY <1>54, <1>26, <2>1, <2>2, PartsStay DEF PurgeBucket, shared, table, locals, lru,
    recent, empty, requests, sweep
<1>27. CASE Unlink(t)
  <2>1. LruT'
    BY <1>54, <1>27, <1>53 DEF Unlink, Step, Goto, NextWithout, PrevWithout, Parts, LruT, Cells,
      Inserting, Holding, Entering, Evicting, Slicing, lru
  <2> QED BY <1>54, <1>27, <2>1, PartsStay DEF Unlink, NextWithout, PrevWithout, shared, table,
    locals, lru, recent, empty, requests, sweep
<1>28. CASE Dispose(t)
  <2>1. EmptyT'
    BY <1>54, <1>28 DEF Dispose, DisposeLoad, Parts, EmptyT, empty
  <2> QED BY <1>54, <1>28, <2>1, PartsStay DEF Dispose, DisposeLoad, shared, table, locals, lru,
    recent, empty, requests, sweep
<1>29. CASE DisposeCas(t)
  <2>1. EmptyT'
    BY <1>54, <1>29, <1>53 DEF DisposeCas, Step, Goto, DisposePush, Parts, EmptyT, Inserting,
      Holding, Entering, Evicting, Slicing, empty
  <2>2. SweepT'
    BY <1>54, <1>29, <1>53 DEF DisposeCas, Step, Goto, DisposePush, Parts, SweepT, Inserting,
      Holding, Entering, Evicting, Slicing, sweep
  <2> QED BY <1>54, <1>29, <2>1, <2>2, PartsStay DEF DisposeCas, DisposePush, shared, table,
    locals, lru, recent, empty, requests, sweep
<1>30. CASE DisposeRetry(t)
  BY <1>54, <1>30, PartsStay DEF DisposeRetry, shared, table, locals, lru, recent, empty,
    requests, sweep
<1>31. CASE PullStart(t)
  <2>1. RecentT'
    BY <1>54, <1>31 DEF PullStart, Parts, RecentT, recent
  <2>2. SweepT'
    BY <1>54, <1>31 DEF PullStart, Step, Goto, Parts, SweepT, RecentT, sweep
  <2> QED BY <1>54, <1>31, <2>1, <2>2, PartsStay DEF PullStart, shared, table, locals, lru,
    recent, empty, requests, sweep
<1>32. CASE ResetCount(t)
  <2>1. RecentT'
    BY <1>54, <1>32 DEF ResetCount, Parts, RecentT, recent
  <2> QED BY <1>54, <1>32, <2>1, PartsStay DEF ResetCount, shared, table, locals, lru, recent,
    empty, requests, sweep
<1>33. CASE PullEnd(t)
  BY <1>54, <1>33, PartsStay DEF PullEnd, shared, table, locals, lru, recent, empty, requests, sweep
<1>34. CASE PullAtHead(t)
  BY <1>54, <1>34, PartsStay DEF PullAtHead, shared, table, locals, lru, recent, empty, requests,
    sweep
<1>35. CASE PullSkip(t)
  <2>1. RecentT'
    BY <1>54, <1>35 DEF PullSkip, Parts, RecentT, recent
  <2>2. SweepT'
    BY <1>54, <1>35, <1>53 DEF PullSkip, Step, Goto, Parts, SweepT, RecentT, Inserting, Holding,
      Entering, Evicting, Slicing, sweep
  <2> QED BY <1>54, <1>35, <2>1, <2>2, PartsStay DEF PullSkip, shared, table, locals, lru,
    recent, empty, requests, sweep
<1>36. CASE PullMove(t)
  <2>1. LruT'
    BY <1>54, <1>36, <1>53 DEF PullMove, Step, Goto, NextWithout, PrevWithout, Parts, LruT,
      Cells, SweepT, Inserting, Holding, Entering, Evicting, Slicing, lru
  <2>2. RecentT'
    BY <1>54, <1>36 DEF PullMove, NextWithout, PrevWithout, Parts, RecentT, recent
  <2>3. SweepT'
    BY <1>54, <1>36, <1>53 DEF PullMove, Step, Goto, NextWithout, PrevWithout, Parts, SweepT,
      RecentT, Inserting, Holding, Entering, Evicting, Slicing, sweep
  <2> QED BY <1>54, <1>36, <2>1, <2>2, <2>3, PartsStay DEF PullMove, NextWithout, PrevWithout,
    shared, table, locals, lru, recent, empty, requests, sweep
<1>37. CASE Bulk(t)
  <2>1. LruT'
    BY <1>54, <1>37, <1>53 DEF Bulk, Step, Goto, LinkLoad, Parts, LruT, Cells, Inserting,
      Holding, Entering, Evicting, Slicing, lru
  <2>2. LocalT'
    BY <1>54, <1>37 DEF Bulk, LinkLoad, Parts, LocalT, LruT, Cells, locals
  <2> QED BY <1>54, <1>37, <2>1, <2>2, PartsStay DEF Bulk, LinkLoad, shared, table, locals, lru,
    recent, empty, requests, sweep
<1>38. CASE BulkCas(t)
  <2>1. LruT'
    BY <1>54, <1>38, <1>53 DEF BulkCas, Step, Goto, LinkSwap, Parts, LruT, Cells, Inserting,
      Holding, Entering, Evicting, Slicing, lru
  <2>2. LocalT'
    BY <1>54, <1>38 DEF BulkCas, LinkSwap, Parts, LocalT, LruT, Cells, locals
  <2> QED BY <1>54, <1>38, <2>1, <2>2, PartsStay DEF BulkCas, LinkSwap, shared, table, locals,
    lru, recent, empty, requests, sweep
<1>39. CASE BulkBack(t)
  <2>1. LruT'
    BY <1>54, <1>39, <1>53 DEF BulkBack, Step, Goto, LinkPrev, Parts, LruT, Inserting, Holding,
      Entering, Evicting, Slicing, lru
  <2>2. LocalT'
    BY <1>54, <1>39 DEF BulkBack, LinkPrev, Parts, LocalT, locals
  <2> QED BY <1>54, <1>39, <2>1, <2>2, PartsStay DEF BulkBack, LinkPrev, shared, table, locals,
    lru, recent, empty, requests, sweep
<1>40. CASE PullDone(t)
  <2>1. LruT'
    BY <1>54, <1>40 DEF PullDone, Parts, LruT, lru
  <2>2. FlagT'
    BY <1>54, <1>40 DEF PullDone, Parts, FlagT, requests
  <2> QED BY <1>54, <1>40, <2>1, <2>2, PartsStay DEF PullDone, shared, table, locals, lru,
    recent, empty, requests, sweep
<1>41. CASE PurgeDone(t)
  <2>1. FlagT'
    BY <1>54, <1>41 DEF PurgeDone, Parts, FlagT, requests
  <2> QED BY <1>54, <1>41, <2>1, PartsStay DEF PurgeDone, shared, table, locals, lru, recent,
    empty, requests, sweep
<1>42. CASE Unlock(t)
  <2>1. LocalT'
    BY <1>54, <1>42 DEF Unlock, Return, Parts, LocalT, locals
  <2>2. SweepT'
    BY <1>54, <1>42 DEF Unlock, Step, Goto, Return, Parts, SweepT, sweep
  <2> QED BY <1>54, <1>42, <2>1, <2>2, PartsStay DEF Unlock, Return, shared, table, locals, lru,
    recent, empty, requests, sweep
<1> QED
  BY <1>1, <1>2, <1>3, <1>4, <1>5, <1>6, <1>7, <1>8, <1>9, <1>10, <1>11, <1>12, <1>13, <1>14,
    <1>15, <1>16, <1>17, <1>18, <1>19, <1>20, <1>21, <1>22, <1>23, <1>24, <1>25, <1>26, <1>27,
    <1>28, <1>29, <1>30, <1>31, <1>32, <1>33, <1>34, <1>35, <1>36, <1>37, <1>38, <1>39, <1>40,
    <1>41, <1>42, Zenon
  DEF Acts, Find, Proceed, Consolidate

(* Every step keeps the types.                                             *)
LEMMA TypeNext ==
  ASSUME TypeOK, LockInv, NodesAreOwned, HitInv, SweepInv,
         NEW R, SliceInv(R), NEW P, ListInv(P), R \cap P = {}, NEW t \in Threads, Acts(t)
  PROVE  TypeOK'
<1>1. lru_next'[LruHead] # NULL /\ lru_prev'[LruTail] # NULL
  BY ListedNext, ListEnds DEF ListStep
<1>2. Parts'
  BY PartsNext
<1>3. LockTypeOK'
  BY LockNext DEF Next, LockInv, Acts
<1> QED BY <1>1, <1>2, <1>3 DEF Parts, TableT, LruT, RecentT, EmptyT, FlagT, LocalT, SweepT,
  LockTypeOK, TypeOK

(* Every step keeps the inductive invariant.                               *)
LEMMA StructureNext == IInv /\ [Next]_vars => IInv'
<1>1. ASSUME IInv, UNCHANGED vars  PROVE IInv'
  <2> USE <1>1 DEF vars, shared, table, lru, recent, empty, requests, locals, sweep
  <2>1. TypeOK' /\ LockInv' /\ CallInv'
    <3>1. TypeOK' /\ CallInv'
      BY DEF IInv, TypeOK, CallInv
    <3>2. LockInv'
      BY LockNext DEF IInv
    <3> QED BY <3>1, <3>2
  <2>2. NodesAreOwned' /\ HitInv'
    BY DEF IInv, NodesAreOwned, TableInv, OwnInv, PoolInv, PoolSet, Linked, Works, Evicted, HitInv
  <2>3. SweepInv'
    BY DEF IInv, SweepInv, Sweeps, OnLru, Linked, Works, Evicted
  <2>4. PICK P \in SUBSET Nodes, R \in SUBSET Nodes : SliceInv(R) /\ ListInv(P) /\ R \cap P = {}
    BY DEF IInv
  <2>5. SliceInv(R)'
    BY <2>4 DEF SliceInv, Listed, Linked, Works
  <2>6. ListInv(P)'
    <3>1. OnLru' = OnLru /\ \A d : Awaited(d)' = Awaited(d)
      BY DEF OnLru, Linked, Works, Evicted, Awaited
    <3>2. BackInv(OnLru \ P)' /\ \A t \in Threads : Links(t, P)' /\ Moving(t, P)'
      BY <2>4, <3>1 DEF ListInv, BackInv, Links, Moving, IsSublist, Works
    <3> QED BY <2>4, <3>1, <3>2 DEF ListInv
  <2> QED BY <2>1, <2>2, <2>3, <2>4, <2>5, <2>6 DEF IInv
<1>2. ASSUME IInv, NEW t \in Threads, Acts(t)  PROVE IInv'
  <2>1. PICK P \in SUBSET Nodes, R \in SUBSET Nodes : SliceInv(R) /\ ListInv(P) /\ R \cap P = {}
    BY <1>2 DEF IInv
  <2>2. TypeOK /\ LockInv /\ CallInv /\ NodesAreOwned /\ HitInv /\ SweepInv
    BY <1>2 DEF IInv
  <2>3. TypeOK'
    BY <1>2, <2>1, <2>2, TypeNext
  <2>4. LockInv'
    BY <1>2, <2>2, LockNext DEF Next, Acts
  <2>5. CallInv'
    BY <1>2, <2>2, CallNext
  <2>6. NodesAreOwned'
    BY <1>2, <2>1, <2>2, OwnedNext
  <2>7. HitInv' /\ \E Q : SliceNext(R, Q, t)
    BY <1>2, <2>1, <2>2, MarkedNext
  <2>8. SweepInv'
    BY <1>2, <2>1, <2>2, SweepNext
  <2>9. \E Q : ListStep(P, Q, t)
    BY <1>2, <2>1, <2>2, ListedNext
  <2>10. PICK T : SliceNext(R, T, t)
    BY <2>7
  <2>11. PICK Q : ListStep(P, Q, t)
    BY <2>9
  <2>12. T \cap Q = {}
    BY <2>1, <2>10, <2>11 DEF SliceNext, ListStep
  <2>13. SliceInv(T)' /\ ListInv(Q)' /\ T \in SUBSET Nodes /\ Q \in SUBSET Nodes
    BY <2>10, <2>11 DEF SliceNext, ListStep
  <2> QED BY <2>3, <2>4, <2>5, <2>6, <2>7, <2>8, <2>12, <2>13 DEF IInv
<1> QED BY <1>1, <1>2 DEF Next, Acts

(* Each node has one index in nodes_.                                      *)
LEMMA IndexOfFacts ==
  /\ Cardinality(Nodes) \in Nat /\ Cardinality(Nodes) >= 1
  /\ \A n \in Nodes : IndexOf(n) \in 1 .. Cardinality(Nodes) /\ NodeAt[IndexOf(n)] = n
  /\ \A i \in 1 .. Cardinality(Nodes) : NodeAt[i] \in Nodes /\ IndexOf(NodeAt[i]) = i
<1> DEFINE C == Cardinality(Nodes)
<1>1. C \in Nat /\ C # 0
  BY ConstantsAssumption, FS_CardinalityType, FS_EmptySet
<1>2. NodeAt \in [1 .. C -> Nodes] /\ \A n \in Nodes : \E i \in 1 .. C : NodeAt[i] = n
  BY ConstantsAssumption
<1>3. NodeAt \in Surjection(1 .. C, Nodes)
  BY <1>2 DEF Surjection
<1>4. IsFiniteSet(1 .. C) /\ Cardinality(1 .. C) = C
  BY <1>1, FS_Interval
<1>5. NodeAt \in Injection(1 .. C, Nodes)
  BY <1>3, <1>4, FS_SurjSameCardinalityImpliesInj
<1>6. \A i, j \in 1 .. C : NodeAt[i] = NodeAt[j] => i = j
  BY <1>2, <1>5 DEF Injection, IsInjective
<1>7. \A n \in Nodes : IndexOf(n) \in 1 .. C /\ NodeAt[IndexOf(n)] = n
  BY <1>2 DEF IndexOf
<1> QED BY <1>1, <1>2, <1>6, <1>7

(* At first the empty list leads through nodes_ from first to last.        *)
LEMMA PoolInit == Init => HasChain(empty_next, empty_head, NULL, Nodes)
<1> SUFFICES ASSUME Init PROVE HasChain(empty_next, empty_head, NULL, Nodes)
  OBVIOUS
<1> DEFINE C == Cardinality(Nodes)
           r == [n \in Nodes |-> C - IndexOf(n)]
<1>1. /\ C \in Nat /\ C >= 1
      /\ \A n \in Nodes : IndexOf(n) \in 1 .. C /\ NodeAt[IndexOf(n)] = n
      /\ \A i \in 1 .. C : NodeAt[i] \in Nodes /\ IndexOf(NodeAt[i]) = i
  BY IndexOfFacts
<1>2. /\ empty_head = NodeAt[1]
      /\ \A n \in Nodes : empty_next[n] = IF IndexOf(n) + 1 \in 1 .. C THEN NodeAt[IndexOf(n) + 1] ELSE NULL
  BY ConstantsAssumption DEF Init
<1> HIDE DEF C
<1>3. r \in [Nodes -> 0 .. C] /\ \A n \in Nodes : r[n] = C - IndexOf(n)
  BY <1>1
<1> HIDE DEF r
<1>4. empty_head \in Nodes /\ IndexOf(empty_head) = 1
  BY <1>1, <1>2
<1>5. ASSUME NEW x \in Nodes
      PROVE  /\ empty_next[x] \in Nodes \cup {NULL} /\ empty_next[x] # empty_head
             /\ empty_next[x] \in Nodes => r[empty_next[x]] < r[x]
  <2>1. CASE IndexOf(x) + 1 \in 1 .. C
    <3>1. empty_next[x] \in Nodes /\ IndexOf(empty_next[x]) = IndexOf(x) + 1
      BY <1>1, <1>2, <2>1
    <3> QED BY <1>1, <1>3, <1>4, <3>1
  <2>2. CASE IndexOf(x) + 1 \notin 1 .. C
    BY <1>2, <1>4, <2>2, Sentinels
  <2> QED BY <2>1, <2>2
<1>6. ASSUME NEW x \in Nodes, x # empty_head  PROVE \E y \in Nodes : empty_next[y] = x
  <2>1. IndexOf(x) # 1
    BY <1>1, <1>2, <1>6
  <2>2. IndexOf(x) - 1 \in 1 .. C /\ (IndexOf(x) - 1) + 1 = IndexOf(x)
    BY <1>1, <2>1
  <2>3. empty_next[NodeAt[IndexOf(x) - 1]] = x
    BY <1>1, <1>2, <2>2
  <2> QED BY <1>1, <2>2, <2>3
<1>7. ASSUME NEW x \in Nodes, NEW y \in Nodes, empty_next[x] = empty_next[y]  PROVE x = y
  <2>1. CASE empty_next[x] = NULL
    <3>1. IndexOf(x) + 1 \notin 1 .. C /\ IndexOf(y) + 1 \notin 1 .. C
      BY <1>1, <1>2, <1>7, <2>1, Sentinels
    <3>2. IndexOf(x) = C /\ IndexOf(y) = C
      BY <1>1, <3>1
    <3> QED BY <1>1, <3>2
  <2>2. CASE empty_next[x] # NULL
    <3>1. IndexOf(x) + 1 \in 1 .. C /\ IndexOf(y) + 1 \in 1 .. C
      BY <1>2, <1>7, <2>2
    <3>2. IndexOf(x) + 1 = IndexOf(y) + 1
      BY <1>1, <1>2, <1>7, <3>1
    <3> QED BY <1>1, <3>2
  <2> QED BY <2>1, <2>2
<1>8. Ranks(r, empty_next, empty_head, NULL, Nodes)
  BY <1>4, <1>5, <1>6, <1>7, Sentinels DEF Ranks
<1> QED BY <1>1, <1>3, <1>8 DEF HasChain

(* The inductive invariant holds at the start.                             *)
LEMMA StructureInit == Init => IInv
<1> SUFFICES ASSUME Init PROVE IInv
  OBVIOUS
<1>1. TypeOK
  <2>1. empty_head \in Nodes /\ empty_next \in [Nodes -> Nodes \cup {NULL}]
    BY IndexOfFacts, ConstantsAssumption DEF Init
  <2> QED BY <2>1, ConstantsAssumption, Sentinels DEF Init, TypeOK, Cells, PcValues
<1>2. LockInv
  BY LockInit
<1>3. /\ Linked = {} /\ \A t \in Threads : pc[t] = "idle" /\ node[t] = NULL /\ cnext[t] = NULL
      /\ \A b \in Buckets : chain[b] = {}
  BY DEF Init, Linked
<1>4. CallInv
  BY <1>3 DEF CallInv
<1>5. PoolSet = Nodes
  BY <1>3 DEF PoolSet, Works, Evicted, Holding, Evicting
<1>6. NodesAreOwned
  <2>1. TableInv /\ OwnInv
    BY <1>3 DEF TableInv, OwnInv, Inserting, Holding, Entering, Evicting
  <2>2. PoolInv
    BY <1>5, PoolInit DEF PoolInv
  <2> QED BY <2>1, <2>2 DEF NodesAreOwned
<1>7. HitInv
  BY <1>3 DEF HitInv, HoldsBucket
<1>8. SweepInv
  BY <1>3 DEF SweepInv, Sweeps, Evicting
<1>9. SliceInv({})
  <2>1. Listed = {} /\ recent_head = Dummy
    BY <1>3 DEF Listed, Init
  <2>2. HasChain(recent_next, Dummy, Dummy, {})
    BY EmptyChain
  <2>3. Listed \ {} = {}
    BY <2>1
  <2> QED BY <1>3, <2>1, <2>2, <2>3 DEF SliceInv, Slicing
<1>10. ListInv({})
  <2>1. OnLru = {} /\ OnLru \ {} = {}
    BY <1>3 DEF OnLru, Evicted
  <2>2. lru_next[LruHead] = LruTail /\ lru_prev[LruTail] = LruHead
    BY Sentinels DEF Init, Cells
  <2>3. HasChain(lru_next, lru_next[LruHead], LruTail, OnLru \ {})
    BY <2>1, <2>2, EmptyChain
  <2>4. BackInv(OnLru \ {})
    BY <1>3, <2>1, <2>2 DEF BackInv, Awaited
  <2>5. \A t \in Threads : Links(t, {}) /\ Moving(t, {})
    BY <1>3 DEF Links, Moving, Entering, Pulling, Slicing
  <2> QED BY <2>1, <2>3, <2>4, <2>5 DEF ListInv
<1> QED BY <1>1, <1>2, <1>4, <1>6, <1>7, <1>8, <1>9, <1>10 DEF IInv

(* The structure of the cache is never broken.                             *)
LEMMA StructureInv == Spec => []IInv
<1> QED BY StructureInit, StructureNext, PTL DEF Spec

---------------------------------------------------------------------------
(* What the walks along the links find.                                    *)

(* A walk from the head of a chain finds its nodes, and then its end.      *)
LEMMA WalkFinds ==
  ASSUME NEW f, NEW h, NEW e, NEW S, HasChain(f, h, e, S), S \subseteq Nodes, e \notin Nodes
  PROVE  NodesFrom(f, h) = S /\ EndFrom(f, h) = e
<1> DEFINE C == Cardinality(Nodes)
           w == Walk(f, h)
<1>1. C \in Nat /\ IsFiniteSet(Nodes)
  BY ConstantsAssumption, FS_CardinalityType
<1>2. w = CHOOSE g : WalksAlong(g, Nodes, f, h, C)
  BY DEF Walk, WalksAlong
<1>3. WalksAlong(w, Nodes, f, h, C)
  <2> HIDE DEF C, w
  <2> QED BY <1>1, <1>2, WalksAlongExists
<1> HIDE DEF w
<1>4. /\ w[0] = h
      /\ \A n \in Nat : n + 1 <= C => w[n + 1] = IF w[n] \in Nodes THEN f[w[n]] ELSE w[n]
  <2> HIDE DEF C
  <2> QED BY <1>1, <1>3, WalksAlongFacts
<1>5. {w[n] : n \in 0 .. C} \cap Nodes = S /\ w[C] = e
  BY <1>1, <1>4, WalkMeetsChain
<1> QED BY <1>5 DEF NodesFrom, EndFrom, w

(* The four lists, walked.                                                 *)
LEMMA WalkedLists ==
  ASSUME IInv, NEW P \in SUBSET Nodes, NEW R \in SUBSET Nodes, SliceInv(R), ListInv(P)
  PROVE  /\ Pool = PoolSet /\ EndFrom(empty_next, empty_head) = NULL
         /\ LruList = OnLru \ P /\ EndFrom(lru_next, lru_next[LruHead]) = LruTail
         /\ NodesFrom(recent_next, recent_head) = Listed \ R
         /\ EndFrom(recent_next, recent_head) = Dummy
         /\ Slice = R /\ (Slice # {} => EndFrom(recent_next, cursor) = Dummy)
         /\ Pulled = P
<1>1. Pool = PoolSet /\ EndFrom(empty_next, empty_head) = NULL
  <2>1. PoolSet \subseteq Nodes /\ HasChain(empty_next, empty_head, NULL, PoolSet)
    BY DEF PoolSet, IInv, NodesAreOwned, PoolInv
  <2> QED BY <2>1, WalkFinds, Sentinels DEF Pool
<1>2. LruList = OnLru \ P /\ EndFrom(lru_next, lru_next[LruHead]) = LruTail
  <2>1. OnLru \ P \subseteq Nodes /\ HasChain(lru_next, lru_next[LruHead], LruTail, OnLru \ P)
    BY DEF OnLru, ListInv
  <2> QED BY <2>1, WalkFinds, Sentinels DEF LruList
<1>3. NodesFrom(recent_next, recent_head) = Listed \ R /\ EndFrom(recent_next, recent_head) = Dummy
  <2>1. Listed \ R \subseteq Nodes /\ HasChain(recent_next, recent_head, Dummy, Listed \ R)
    BY DEF Listed, Linked, SliceInv, IInv, TypeOK
  <2> QED BY <2>1, WalkFinds, Sentinels
<1>4. Slice = R /\ (Slice # {} => EndFrom(recent_next, cursor) = Dummy)
  <2>1. CASE At({"reset_count", "pull_node", "pull_skip"}) = {}
    <3>1. R = {} /\ Slice = {}
      BY <2>1 DEF SliceInv, Slicing, At, Slice
    <3> QED BY <3>1
  <2>2. CASE At({"reset_count", "pull_node", "pull_skip"}) # {}
    <3>1. HasChain(recent_next, cursor, Dummy, R)
      BY <2>2 DEF SliceInv, Slicing, At
    <3>2. NodesFrom(recent_next, cursor) = R /\ EndFrom(recent_next, cursor) = Dummy
      BY <3>1, WalkFinds, Sentinels
    <3> QED BY <2>2, <3>2 DEF Slice
  <2> QED BY <2>1, <2>2
<1>5. Pulled = P
  <2>1. CASE Pullers = {}
    <3>1. \A t \in Threads : pc[t] \notin Pulling
      BY <2>1 DEF Pullers, At, Pulling, Slicing
    <3> QED BY <2>1, <3>1 DEF Pulled, ListInv
  <2>2. CASE Pullers # {}
    <3>1. PICK t \in Threads : pc[t] \in Pulling
      BY <2>2 DEF Pullers, At, Pulling, Slicing
    <3>2. Pulled = NodesFrom(lru_prev, last)
      BY <2>2 DEF Pulled
    <3>3. Moving(t, P)
      BY DEF ListInv
    <3>4. CASE last = TempHead
      <4>1. P = {} /\ HasChain(lru_prev, last, TempHead, {})
        BY <3>1, <3>3, <3>4, EmptyChain DEF Moving
      <4> QED BY <3>2, <4>1, WalkFinds, Sentinels
    <3>5. CASE last # TempHead
      <4>1. PICK e \in {LruHead, TempHead} : HasChain(lru_prev, last, e, P)
        BY <3>1, <3>3, <3>5 DEF Moving, IsSublist
      <4> QED BY <3>2, <4>1, WalkFinds, Sentinels
    <3> QED BY <3>4, <3>5
  <2> QED BY <2>1, <2>2
<1> QED BY <1>1, <1>2, <1>3, <1>4, <1>5

---------------------------------------------------------------------------
(* The invariants that the runs check.                                     *)

(* Every node has one owner, as the walks along the lists find them.       *)
LEMMA OwnersAreDistinct == IInv => NodeConservation
<1> SUFFICES ASSUME IInv PROVE NodeConservation
  OBVIOUS
<1>1. PICK P \in SUBSET Nodes, R \in SUBSET Nodes : SliceInv(R) /\ ListInv(P) /\ R \cap P = {}
  BY DEF IInv
<1>2. Pool = PoolSet /\ EndFrom(empty_next, empty_head) = NULL
  BY <1>1, WalkedLists
<1>3. TypeOK /\ OwnInv
  BY DEF IInv, NodesAreOwned
<1> DEFINE held == NodeOf(Inserters) \ Linked
<1>4. \A n : n \in held <=> Works(Holding, n)
  <2>1. ASSUME NEW n \in held  PROVE Works(Holding, n)
    <3>1. PICK t \in Threads : pc[t] \in Inserting /\ node[t] = n
      BY <2>1 DEF NodeOf, Inserters, At, Inserting, Holding, Entering
    <3> QED BY <1>3, <2>1, <3>1 DEF OwnInv, Works, Inserting
  <2>2. ASSUME NEW n, Works(Holding, n)  PROVE n \in held
    <3>1. PICK t \in Threads : pc[t] \in Holding /\ node[t] = n
      BY <2>2 DEF Works
    <3>2. t \in Inserters
      BY <3>1 DEF Inserters, At, Holding
    <3> QED BY <1>3, <3>1, <3>2 DEF OwnInv, NodeOf
  <2> QED BY <2>1, <2>2
<1>5. \A n : n \in Purging <=> Evicted(Evicting, n)
  BY DEF Purging, Purgers, At, Evicted, Evicting
<1>6. held \subseteq Nodes /\ Linked \subseteq Nodes /\ Purging \subseteq Nodes /\ Purging \cap Linked = {}
  <2>1. \A n \in held : n \in Nodes
    BY <1>3, <1>4 DEF OwnInv, Works, Inserting
  <2>2. Linked \subseteq Nodes
    BY <1>3 DEF TypeOK, Linked
  <2>3. \A n \in Purging : n \in Nodes /\ n \notin Linked
    BY <1>3, <1>5 DEF OwnInv, Evicted
  <2> HIDE DEF held
  <2> QED BY <2>1, <2>2, <2>3
<1>7. \A n \in held : n \notin Purging
  BY <1>3, <1>4, <1>5 DEF OwnInv, Works, Evicted
<1>8. \A n \in Nodes : n \in PoolSet <=> n \notin Linked /\ n \notin held /\ n \notin Purging
  BY <1>4, <1>5 DEF PoolSet
<1>9. \A n \in NodeOf(Inserters) : n \in held \/ n \in Linked
  OBVIOUS
<1>10. PoolSet \subseteq Nodes
  BY DEF PoolSet
<1>11. \A s, t \in Inserters : node[s] = node[t] => s = t
  BY <1>3 DEF OwnInv, Inserters, At, Inserting, Holding, Entering
<1>12. \A t \in At({"take"}) : empty_marked /\ empty_head = node[t]
  BY <1>3 DEF OwnInv, At
<1> HIDE DEF held
<1>13. /\ Pool \cup held \cup Linked \cup Purging = Nodes
       /\ Pool \cap (NodeOf(Inserters) \cup Linked \cup Purging) = {}
       /\ Purging \cap (NodeOf(Inserters) \cup Linked) = {}
  BY <1>2, <1>6, <1>7, <1>8, <1>9, <1>10
<1> QED BY <1>2, <1>11, <1>12, <1>13 DEF NodeConservation, held

(* A key is in its own bucket, and there once.                             *)
LEMMA KeysAreUnique == IInv => UniqueKeys
  BY DEF IInv, NodesAreOwned, TableInv, UniqueKeys

(* The LRU list, walked, holds the table.                                  *)
LEMMA LruMatches == IInv => LruIsSound
<1> SUFFICES ASSUME IInv PROVE LruIsSound
  OBVIOUS
<1>1. PICK P \in SUBSET Nodes, R \in SUBSET Nodes : SliceInv(R) /\ ListInv(P) /\ R \cap P = {}
  BY DEF IInv
<1>2. LruList = OnLru \ P /\ EndFrom(lru_next, lru_next[LruHead]) = LruTail /\ Pulled = P
  BY <1>1, WalkedLists
<1>3. P \subseteq OnLru /\ BackInv(OnLru \ P)
  BY <1>1 DEF ListInv
<1>4. LruMatchesTable
  <2> DEFINE leaving == IF At({"unlink"}) = {} THEN {} ELSE {cursor}
  <2>1. \A n : n \in leaving <=> Evicted({"unlink"}, n)
    BY DEF At, Evicted
  <2>2. \A n : n \in NodeOf(Linkers) <=> Works({"link", "link_cas"}, n)
    BY DEF NodeOf, Linkers, At, Works
  <2>3. Linked \subseteq Nodes /\ leaving \subseteq Nodes
    <3>1. Linked \subseteq Nodes
      BY DEF IInv, TypeOK, Linked
    <3>2. \A n : Evicted({"unlink"}, n) => n \in Nodes
      BY DEF IInv, NodesAreOwned, OwnInv, Evicted, Evicting
    <3> QED BY <2>1, <3>1, <3>2
  <2> HIDE DEF leaving
  <2>4. OnLru = (Linked \ NodeOf(Linkers)) \cup leaving
    BY <2>1, <2>2, <2>3 DEF OnLru
  <2> QED BY <1>2, <1>3, <2>4 DEF LruMatchesTable, leaving
<1>5. BackLinksMirror
  <2>1. \A d : {t \in At({"link_back", "bulk_back"}) : cnext[t] = d} = {} <=> ~Awaited(d)
    BY DEF At, Awaited
  <2> QED BY <1>2, <1>3, <2>1 DEF BackLinksMirror, BackInv
<1> QED BY <1>4, <1>5 DEF LruIsSound

(* The marks are those of the recent list, and of the calls that are on    *)
(* their way to it.                                                        *)
LEMMA MarksAreRight == IInv => MarksAreSound
<1> SUFFICES ASSUME IInv PROVE MarksAreSound
  OBVIOUS
<1>1. PICK P \in SUBSET Nodes, R \in SUBSET Nodes : SliceInv(R) /\ ListInv(P) /\ R \cap P = {}
  BY DEF IInv
<1> DEFINE listed == NodesFrom(recent_next, recent_head)
           pushing == NodeOf(At({"mark"}))
           entering == NodeOf(Inserters) \cap Linked
<1>2. /\ listed = Listed \ R /\ EndFrom(recent_next, recent_head) = Dummy
      /\ Slice = R /\ (Slice # {} => EndFrom(recent_next, cursor) = Dummy)
  BY <1>1, WalkedLists
<1>3. R \subseteq Listed
  BY <1>1 DEF SliceInv
<1>4. TypeOK /\ OwnInv /\ HitInv /\ LockInv
  BY DEF IInv, NodesAreOwned
<1>5. \A n : n \in pushing <=> Works({"mark"}, n)
  BY DEF NodeOf, At, Works
<1>6. \A n : n \in entering <=> Works(Entering, n)
  <2>1. ASSUME NEW n \in entering  PROVE Works(Entering, n)
    <3>1. PICK t \in Threads : pc[t] \in Inserting /\ node[t] = n
      BY <2>1 DEF NodeOf, Inserters, At, Inserting, Holding, Entering
    <3> QED BY <1>4, <2>1, <3>1 DEF OwnInv, Works, Inserting
  <2>2. ASSUME NEW n, Works(Entering, n)  PROVE n \in entering
    <3>1. PICK t \in Threads : pc[t] \in Entering /\ node[t] = n
      BY <2>2 DEF Works
    <3>2. t \in Inserters
      BY <3>1 DEF Inserters, At, Entering
    <3> QED BY <1>4, <3>1, <3>2 DEF OwnInv, NodeOf
  <2> QED BY <2>1, <2>2
<1>7. ASSUME NEW t \in Threads, pc[t] \in HoldsBucket
      PROVE  /\ node[t] \in chain[BucketOf[req[t]]] /\ key[node[t]] = req[t]
             /\ node[t] \in Linked /\ node[t] \notin Purging
  <2>1. node[t] \in chain[BucketOf[req[t]]] /\ key[node[t]] = req[t] /\ BucketOf[req[t]] \in Buckets
    BY <1>4, <1>7, ConstantsAssumption DEF HitInv, LockInv, KeyAsked, HoldsBucket
  <2>2. node[t] \in Linked
    BY <2>1 DEF Linked
  <2>3. \A n \in Purging : n \notin Linked
    BY <1>4 DEF OwnInv, Purging, Purgers, At, Evicting
  <2> QED BY <2>1, <2>2, <2>3
<1>8. \A n \in pushing : n \in Linked /\ recent_next[n] # NULL
  BY <1>4, <1>5, <1>7 DEF HitInv, Works, HoldsBucket
<1>9. \A n \in entering : n \in Linked /\ recent_next[n] # NULL
  BY <1>4, <1>6, Sentinels DEF OwnInv, Works, Inserting
<1>10. \A n \in pushing : n \notin entering
  BY <1>4, <1>5, <1>6 DEF HitInv, Works, Entering
<1>11. \A n : n \in Listed <=> n \in Linked /\ recent_next[n] # NULL /\ n \notin pushing /\ n \notin entering
  <2>1. \A n : Works(Entering \cup {"mark"}, n) <=> Works(Entering, n) \/ Works({"mark"}, n)
    BY DEF Works
  <2> HIDE DEF pushing, entering
  <2> QED BY <1>5, <1>6, <2>1 DEF Listed
<1>12. \A n : n \in Linked \cap Marked <=> n \in Linked /\ recent_next[n] # NULL
  BY <1>4 DEF Marked, Linked, TypeOK
<1>13. \A s, t \in At({"mark"}) : node[s] = node[t] => s = t
  BY <1>4 DEF HitInv, At
<1> HIDE DEF listed, pushing, entering
<1>14. /\ Linked \cap Marked = listed \cup Slice \cup pushing \cup entering
       /\ listed \cap Slice = {} /\ pushing \cap (listed \cup Slice \cup entering) = {}
       /\ entering \cap (listed \cup Slice) = {}
  BY <1>2, <1>3, <1>8, <1>9, <1>10, <1>11, <1>12
<1>15. MarksAreListed
  BY <1>2, <1>13, <1>14 DEF MarksAreListed, listed, pushing, entering
<1>16. HitNodeStays
  BY <1>7 DEF HitNodeStays, At
<1> QED BY <1>15, <1>16 DEF MarksAreSound

(* The neighbours of a node about to be removed.                           *)
LEMMA RemovalIsPrivate == IInv => RemovalPrivate
<1> SUFFICES ASSUME IInv PROVE RemovalPrivate
  OBVIOUS
<1>1. PICK P \in SUBSET Nodes, R \in SUBSET Nodes : SliceInv(R) /\ ListInv(P) /\ R \cap P = {}
  BY DEF IInv
<1>2. TypeOK /\ LockInv /\ NodesAreOwned /\ OwnInv /\ SweepInv
  BY DEF IInv, NodesAreOwned
<1>3. ASSUME NEW t \in Threads,
             pc[t] = "unlink" \/ (pc[t] = "pull_node" /\ cursor # Dummy /\ lru_prev[cursor] # LruHead)
      PROVE  /\ lru_prev[cursor] \in Nodes /\ lru_next[lru_prev[cursor]] = cursor
             /\ lru_prev[lru_next[cursor]] = cursor
             /\ \A u \in At({"link_back", "bulk_back"}) : cnext[u] \notin {cursor, lru_next[cursor]}
  <2>1. pc[t] \in HoldsLru /\ pc[t] # "bulk_back"
    BY <1>3 DEF HoldsLru
  <2>2. cursor \in OnLru \ P /\ lru_prev[cursor] # LruHead /\ ~Works(Entering, cursor)
    <3>1. CASE pc[t] = "unlink"
      <4>1. cursor \in OnLru /\ lru_prev[cursor] # LruHead
        BY <1>2, <3>1 DEF SweepInv, Sweeps
      <4>2. P = {}
        BY <1>1, <1>2, <2>1, <3>1, NoSublist DEF Pulling, Slicing
      <4>3. cursor \notin Linked
        BY <1>2, <3>1 DEF OwnInv, Evicting
      <4> QED BY <1>2, <4>1, <4>2, <4>3 DEF OwnInv, Works
    <3>2. CASE pc[t] = "pull_node"
      <4>1. cursor \in R
        BY <1>1, <1>3, <3>2, SliceHead DEF SliceInv, Slicing
      <4>2. cursor \in Listed
        BY <1>1, <4>1 DEF SliceInv
      <4>3. cursor \in Linked /\ ~Works(Entering, cursor)
        BY <4>2 DEF Listed, Works
      <4>4. cursor \in OnLru
        BY <1>2, <4>3 DEF OnLru, Works, Entering, Linked, TypeOK
      <4> QED BY <1>1, <1>3, <3>2, <4>1, <4>3, <4>4
    <3> QED BY <1>3, <3>1, <3>2
  <2>3. /\ lru_prev[cursor] \in OnLru \ P /\ lru_next[lru_prev[cursor]] = cursor
        /\ lru_prev[lru_next[cursor]] = cursor
        /\ ~Awaited(cursor) /\ ~Awaited(lru_next[cursor])
    BY <1>1, <1>2, <2>1, <2>2, InMiddle
  <2> QED BY <2>3 DEF OnLru, Awaited, At
<1> QED BY <1>3 DEF RemovalPrivate, At

---------------------------------------------------------------------------
(* What the callers see of a step.                                         *)

(* StageOf, of a label and a node.                                         *)
StageAt(label, n) ==
  CASE label = "idle" -> "idle"
    [] label \in {"drop", "drop_cas"} -> "rejected"
    [] label \in {"link", "link_cas", "link_back", "publish"} -> "stored"
    [] label \in {"take", "add_bucket"} \/ (label # "idle" /\ n = NULL) -> "miss"
    [] OTHER -> "hit"

(* Nothing: the keys in the table, their marks and the calls are the same. *)
Silent(t) ==
  /\ Others(t) /\ UNCHANGED <<chain, req>>
  /\ StageAt(pc'[t], node'[t]) = StageAt(pc[t], node[t])
  /\ \A n \in Linked : key'[n] = key[n] /\ (recent_next'[n] = NULL <=> recent_next[n] = NULL)

(* The end of a call, but for that of a call that stored a key.            *)
Ends(t) ==
  /\ Others(t) /\ UNCHANGED <<key, chain, recent_next>>
  /\ StageAt(pc[t], node[t]) \in {"hit", "rejected"}
  /\ pc'[t] = "idle" /\ req' = [req EXCEPT ![t] = NULL]

(* The steps that do change something.                                     *)
Tells(t) ==
  \/ Find(t) \/ AddBucket(t) \/ Publish(t) \/ PurgeBucket(t) \/ PullSkip(t) \/ PullMove(t)
  \/ Ends(t)

(* The return from a hit ends its call, that from a miss nothing.          *)
LEMMA ReturnTells ==
  ASSUME TypeOK, NEW t \in Threads, Return(t), pc[t] \in {"threshold", "try_lock", "unlock"},
         UNCHANGED <<key, chain, recent_next>>
  PROVE  Silent(t) \/ Ends(t)
<1>1. CASE node[t] = NULL
  BY <1>1 DEF Return, Goto, Silent, StageAt, Others, TypeOK, locals
<1>2. CASE node[t] # NULL
  BY <1>2 DEF Return, Goto, Ends, StageAt, Others, TypeOK
<1> QED BY <1>1, <1>2

(* Every step is one of those, or shows nothing.                           *)
LEMMA StepTells ==
  ASSUME IInv, NEW t \in Threads, Acts(t)
  PROVE  Silent(t) \/ Tells(t)
<1>0. TypeOK /\ CallInv /\ OwnInv /\ PoolInv /\ HitInv
  BY DEF IInv, NodesAreOwned
<1>1. ASSUME CountRecent(t) \/ RequestPull(t) \/ RequestPurge(t)  PROVE Silent(t)
  BY <1>0, <1>1 DEF CountRecent, RequestPull, RequestPurge, Step, Goto, Silent, StageAt, Others,
    TypeOK, shared, table, recent, locals
<1>2. ASSUME Drop(t) \/ DropRetry(t) \/ Link(t) \/ LinkCas(t) \/ LinkBack(t)  PROVE Silent(t)
  BY <1>0, <1>2 DEF Drop, DropRetry, Link, LinkCas, LinkBack, LinkLoad, LinkPrev, LinkSwap, Step,
    Goto, Silent, StageAt, Others, TypeOK, shared, table, recent, locals
<1>3. ASSUME FirstPurge(t) \/ SecondPurge(t) \/ PurgeEnd(t) \/ PurgeSkip(t) \/ PurgeTry(t)  PROVE Silent(t)
  <2>1. CASE FirstPurge(t)
    BY <1>0, <2>1 DEF FirstPurge, Step, Goto, Silent, StageAt, Others, TypeOK, shared, table,
      recent, locals
  <2>2. CASE SecondPurge(t)
    BY <1>0, <2>2 DEF SecondPurge, Step, Goto, Silent, StageAt, Others, TypeOK, shared, table,
      recent, locals
  <2>3. CASE PurgeEnd(t) \/ PurgeSkip(t) \/ PurgeTry(t)
    BY <1>0, <2>3 DEF PurgeEnd, PurgeSkip, PurgeTry, Step, Goto, Silent, StageAt, Others, TypeOK,
      shared, table, recent, locals
  <2> QED BY <1>3, <2>1, <2>2, <2>3
<1>4. ASSUME Unlink(t) \/ Dispose(t) \/ DisposeCas(t) \/ DisposeRetry(t)  PROVE Silent(t)
  BY <1>0, <1>4 DEF Unlink, Dispose, DisposeCas, DisposeRetry, Step, Goto, Silent, StageAt,
    Others, TypeOK, shared, table, recent, locals
<1>5. ASSUME PullStart(t) \/ ResetCount(t) \/ PullEnd(t) \/ PullAtHead(t)  PROVE Silent(t)
  BY <1>0, <1>5 DEF PullStart, ResetCount, PullEnd, PullAtHead, Step, Goto, Silent, StageAt,
    Others, TypeOK, shared, table, recent, locals
<1>6. ASSUME Bulk(t) \/ BulkCas(t) \/ BulkBack(t) \/ PullDone(t) \/ PurgeDone(t)  PROVE Silent(t)
  BY <1>0, <1>6 DEF Bulk, BulkCas, BulkBack, PullDone, PurgeDone, LinkLoad, LinkPrev, LinkSwap,
    Step, Goto, Silent, StageAt, Others, TypeOK, shared, table, recent, locals
<1>7. ASSUME TakeFails(t)  PROVE Silent(t)
  BY <1>0, <1>7 DEF TakeFails, Step, Goto, Silent, StageAt, Others, TypeOK, shared, table,
    recent, locals
<1>8. ASSUME Allocate(t)  PROVE Silent(t)
  BY <1>0, <1>8 DEF Allocate, Step, Goto, Silent, StageAt, Others, TypeOK, shared, table, recent,
    locals, CallInv
<1>9. ASSUME Take(t)  PROVE Silent(t)
  <2>1. node[t] \notin Linked
    <3>1. node[t] \in Nodes /\ empty_head = node[t]
      BY <1>0, <1>9 DEF Take, Step, OwnInv
    <3>2. empty_head \in PoolSet \cup {NULL}
      BY <1>0, ChainFacts DEF PoolInv
    <3> QED BY <3>1, <3>2, Sentinels DEF PoolSet
  <2>2. \A m \in Linked : m \in Nodes /\ m # node[t]
    BY <1>0, <2>1 DEF TypeOK, Linked
  <2> QED BY <1>0, <1>9, <2>2 DEF Take, Step, Goto, Silent, StageAt, Others, TypeOK, shared,
    table, recent, locals
<1>10. ASSUME MarkCas(t)  PROVE Silent(t)
  <2>1. recent_next[node[t]] # NULL /\ recent_head # NULL
    BY <1>0, <1>10, Sentinels DEF MarkCas, HitInv, TypeOK
  <2> QED BY <1>0, <1>10, <2>1 DEF MarkCas, Step, Goto, Silent, StageAt, Others, TypeOK, shared,
    table, recent, locals, Linked
<1>11. ASSUME CheckThreshold(t)  PROVE Silent(t) \/ Ends(t)
  <2>1. CASE recent_count >= PullThreshold
    BY <1>0, <1>11, <2>1 DEF CheckThreshold, Step, Goto, Silent, StageAt, Others, TypeOK, shared,
      table, recent, locals
  <2>2. CASE ~(recent_count >= PullThreshold)
    BY <1>0, <1>11, <2>2, ReturnTells DEF CheckThreshold, shared, table, recent
  <2> QED BY <2>1, <2>2
<1>12. ASSUME TryLock(t)  PROVE Silent(t) \/ Ends(t)
  <2>1. CASE lru_lock = NULL
    BY <1>0, <1>12, <2>1 DEF TryLock, Step, Goto, Silent, StageAt, Others, TypeOK, shared, table,
      recent, locals
  <2>2. CASE lru_lock # NULL
    BY <1>0, <1>12, <2>2, ReturnTells DEF TryLock, table, recent
  <2> QED BY <2>1, <2>2
<1>13. ASSUME Unlock(t)  PROVE Silent(t) \/ Ends(t)
  BY <1>0, <1>13, ReturnTells DEF Unlock, table, recent
<1>14. ASSUME DropCas(t)  PROVE Ends(t)
  <2>1. pc[t] = "drop_cas" /\ pc'[t] = "idle" /\ Others(t)
    BY <1>0, <1>14 DEF DropCas, Step, Goto, Others, TypeOK
  <2>2. UNCHANGED <<key, chain, recent_next>> /\ req' = [req EXCEPT ![t] = NULL]
    BY <1>14 DEF DropCas, table, recent
  <2>3. node[t] # NULL
    BY <1>0, <2>1, Sentinels DEF OwnInv, Inserting, Holding
  <2>4. StageAt(pc[t], node[t]) = "rejected"
    BY <2>1, <2>3 DEF StageAt
  <2> QED BY <2>1, <2>2, <2>4 DEF Ends
<1> QED BY <1>1, <1>2, <1>3, <1>4, <1>5, <1>6, <1>7, <1>8, <1>9, <1>10, <1>11, <1>12, <1>13,
  <1>14, Zenon
  DEF Acts, Proceed, Consolidate, Tells

---------------------------------------------------------------------------
(* The action properties that the runs check.                              *)

(* What an eviction does, and of which node.                               *)
LEMMA EvictsInMiddle ==
  ASSUME IInv, NEW t \in Threads, PurgeBucket(t), pc'[t] # "purge"
  PROVE  /\ cursor \in Linked /\ recent_next[cursor] = NULL /\ BucketOf[key[cursor]] \in Buckets
         /\ chain' = [chain EXCEPT ![BucketOf[key[cursor]]] = @ \ {cursor}]
         /\ Linked' = Linked \ {cursor}
         /\ cursor # lru_next[LruHead] /\ Pulled = {}
         /\ resume \in Linked /\ resume # cursor
<1>1. PICK P \in SUBSET Nodes, R \in SUBSET Nodes : SliceInv(R) /\ ListInv(P) /\ R \cap P = {}
  BY DEF IInv
<1>2. TypeOK /\ LockInv /\ NodesAreOwned /\ OwnInv /\ SweepInv /\ HitInv /\ TableInv
  BY DEF IInv, NodesAreOwned
<1>3. /\ pc[t] = "purge_bucket" /\ pc'[t] = "unlink" /\ recent_next[cursor] = NULL
      /\ cursor \in chain[BucketOf[key[cursor]]]
      /\ chain' = [chain EXCEPT ![BucketOf[key[cursor]]] = @ \ {cursor}]
  BY <1>2 DEF PurgeBucket, Goto, TypeOK
<1>4. /\ cursor \in OnLru /\ lru_prev[cursor] # LruHead
      /\ resume \in OnLru /\ resume # cursor
  BY <1>2, <1>3 DEF SweepInv, Sweeps
<1>5. P = {} /\ \A u \in Threads : pc[u] \notin Pulling
  BY <1>1, <1>2, <1>3, NoSublist DEF HoldsLru, Pulling, Slicing
<1>6. \A n \in OnLru : n \in Linked
  <2>1. \A u \in Threads : pc[u] # "unlink"
    <3>1. \A u \in Threads : pc[u] = "unlink" => u = t
      BY <1>2, <1>3, OneHolder DEF HoldsLru
    <3> QED BY <1>3, <3>1
  <2> QED BY <2>1 DEF OnLru, Evicted
<1>7. BucketOf[key[cursor]] \in Buckets
  <2>1. key[cursor] \in Keys
    <3>1. PICK b \in Buckets : cursor \in chain[b]
      BY <1>4, <1>6 DEF Linked
    <3> QED BY <1>2, <3>1 DEF TableInv
  <2> QED BY <2>1, ConstantsAssumption
<1>8. Linked' = Linked \ {cursor}
  <2>1. \A b \in Buckets : \A n \in chain[b] : n = cursor => b = BucketOf[key[cursor]]
    BY <1>2 DEF TableInv
  <2>2. \A b \in Buckets : chain'[b] = chain[b] \ {cursor}
    BY <1>2, <1>3, <1>7, <2>1 DEF TypeOK
  <2> QED BY <2>2 DEF Linked
<1>9. ~Works(Entering, cursor)
  BY <1>2, <1>3, Sentinels DEF OwnInv, Works, Inserting
<1>10. lru_next[LruHead] # cursor
  <2>1. cursor \in OnLru \ P /\ pc[t] \in HoldsLru /\ pc[t] # "bulk_back"
    BY <1>3, <1>4, <1>5 DEF HoldsLru
  <2> QED BY <1>1, <1>2, <1>4, <1>9, <2>1, InMiddle
<1>11. Pulled = {}
  BY <1>1, <1>5, WalkedLists
<1> QED BY <1>3, <1>4, <1>6, <1>7, <1>8, <1>10, <1>11

(* A step takes no node off the table, but an eviction.                    *)
LEMMA EvictionIsSpare ==
  IInv /\ [Next]_vars =>
    \A n \in Linked \ Linked' : n \notin Marked /\ n # lru_next[LruHead] /\ n \notin Pulled
<1> SUFFICES ASSUME IInv, [Next]_vars, NEW n \in Linked \ Linked'
             PROVE  n \notin Marked /\ n # lru_next[LruHead] /\ n \notin Pulled
  OBVIOUS
<1>1. CASE UNCHANGED chain
  BY <1>1 DEF Linked
<1>2. CASE UNCHANGED vars
  BY <1>1, <1>2 DEF vars, shared, table
<1>3. ASSUME NEW t \in Threads, Acts(t)  PROVE n \notin Marked /\ n # lru_next[LruHead] /\ n \notin Pulled
  <2>1. CASE Silent(t) \/ Find(t) \/ Publish(t) \/ PullSkip(t) \/ PullMove(t) \/ Ends(t)
    <3>1. UNCHANGED chain
      BY <2>1 DEF Silent, Find, FindMiss, FindRecent, FindUnmarked, Publish, PullSkip, PullMove,
        Ends, shared, table
    <3> QED BY <1>1, <3>1
  <2>2. CASE AddBucket(t)
    <3>1. \A b \in Buckets : chain[b] \subseteq chain'[b]
      BY <2>2 DEF AddBucket, IInv, TypeOK
    <3> QED BY <3>1 DEF Linked
  <2>3. CASE PurgeBucket(t)
    <3>1. pc'[t] = "purge" => UNCHANGED chain
      BY <2>3 DEF PurgeBucket, Goto, IInv, TypeOK
    <3>2. CASE pc'[t] # "purge"
      BY <2>3, <3>2, EvictsInMiddle DEF Marked
    <3> QED BY <1>1, <3>1, <3>2
  <2> QED BY <1>3, <2>1, <2>2, <2>3, StepTells DEF Tells
<1> QED BY <1>2, <1>3 DEF Next, Acts

(* A node on the recent list stays marked.                                 *)
LEMMA MarkLasts ==
  IInv /\ [Next]_vars => NodesFrom(recent_next, recent_head) \subseteq Marked'
<1> SUFFICES ASSUME IInv, [Next]_vars, NEW n \in NodesFrom(recent_next, recent_head)
             PROVE  n \in Marked'
  OBVIOUS
<1>1. PICK P \in SUBSET Nodes, R \in SUBSET Nodes : SliceInv(R) /\ ListInv(P) /\ R \cap P = {}
  BY DEF IInv
<1>2. n \in Listed /\ n \notin R /\ n \in Linked /\ n \in Nodes /\ recent_next[n] # NULL
  <2>1. n \in Listed \ R
    BY <1>1, WalkedLists
  <2> QED BY <2>1 DEF Listed, Linked, IInv, TypeOK
<1>3. TypeOK
  BY DEF IInv
<1>4. CASE recent_next'[n] = recent_next[n]
  BY <1>2, <1>4 DEF Marked
<1>5. CASE UNCHANGED vars
  BY <1>4, <1>5 DEF vars, shared, recent
<1>6. ASSUME NEW t \in Threads, Acts(t)  PROVE n \in Marked'
  <2>1. CASE Silent(t)
    BY <1>2, <2>1 DEF Silent, Marked
  <2>2. CASE AddBucket(t) \/ PurgeBucket(t) \/ Ends(t)
    BY <1>4, <2>2 DEF AddBucket, PurgeBucket, Ends, recent
  <2>3. CASE Find(t)
    <3>1. ASSUME NEW k \in Keys, FindMiss(t, k) \/ FindRecent(t, k)  PROVE n \in Marked'
      BY <1>4, <3>1 DEF FindMiss, FindRecent, shared, recent
    <3>2. ASSUME NEW k \in Keys, FindUnmarked(t, k)  PROVE n \in Marked'
      <4>1. PICK m \in Found(k) :
              recent_next[m] = NULL /\ recent_next' = [recent_next EXCEPT ![m] = recent_head]
        BY <3>2 DEF FindUnmarked
      <4> QED BY <1>2, <1>4, <4>1
    <3> QED BY <2>3, <3>1, <3>2 DEF Find
  <2>4. CASE Publish(t)
    <3>1. n # node[t]
      BY <1>2, <2>4 DEF Publish, Step, Listed, Works, Entering
    <3> QED BY <1>3, <1>4, <2>4, <3>1 DEF Publish, TypeOK
  <2>5. CASE PullSkip(t) \/ PullMove(t)
    <3>1. n # cursor
      BY <1>1, <1>2, <2>5, SliceHead DEF PullSkip, PullMove, Step, Slicing, SliceInv
    <3>2. recent_next' = [recent_next EXCEPT ![cursor] = NULL]
      BY <2>5 DEF PullSkip, PullMove
    <3>3. recent_next'[n] = recent_next[n]
      BY <1>2, <1>3, <3>1, <3>2 DEF TypeOK
    <3> QED BY <1>4, <3>3
  <2> QED BY <1>6, <2>1, <2>2, <2>3, <2>4, <2>5, StepTells DEF Tells
<1> QED BY <1>5, <1>6 DEF Next, Acts

---------------------------------------------------------------------------
(* The refinement: the keys of the table, those of marked nodes, and how   *)
(* far each call has come.                                                 *)
Cached == {key[n] : n \in Linked}
Pinned == {key[n] : n \in Linked \cap Marked}
Stage == [t \in Threads |-> StageAt(pc[t], node[t])]

(* What StageAt is.                                                        *)
LEMMA StageValues ==
  ASSUME NEW label, NEW n
  PROVE  /\ label = "idle" => StageAt(label, n) = "idle"
         /\ label \in {"drop", "drop_cas"} /\ n # NULL => StageAt(label, n) = "rejected"
         /\ label \in Entering /\ n # NULL => StageAt(label, n) = "stored"
         /\ label \in {"take", "add_bucket"} => StageAt(label, n) = "miss"
         /\ label \notin {"idle", "drop", "drop_cas", "take", "add_bucket"} \cup Entering =>
              StageAt(label, n) = IF n = NULL THEN "miss" ELSE "hit"
         /\ StageAt(label, n) = "stored" => label \in Entering
<1>1. label = "idle" => StageAt(label, n) = "idle"
  BY DEF StageAt
<1>2. label \in {"drop", "drop_cas"} /\ n # NULL => StageAt(label, n) = "rejected"
  BY DEF StageAt
<1>3. label \in Entering /\ n # NULL => StageAt(label, n) = "stored"
  BY DEF StageAt, Entering
<1>4. label \in {"take", "add_bucket"} => StageAt(label, n) = "miss"
  BY DEF StageAt
<1>5. label \notin {"idle", "drop", "drop_cas", "take", "add_bucket"} \cup Entering =>
        StageAt(label, n) = IF n = NULL THEN "miss" ELSE "hit"
  BY DEF StageAt, Entering
<1>6. StageAt(label, n) = "stored" => label \in Entering
  <2> SUFFICES ASSUME label \notin Entering  PROVE StageAt(label, n) # "stored"
    OBVIOUS
  <2>1. CASE label \in {"drop", "drop_cas"} /\ n = NULL
    BY <2>1 DEF StageAt, Entering
  <2> QED BY <1>1, <1>2, <1>4, <1>5, <2>1
<1> QED BY <1>1, <1>2, <1>3, <1>4, <1>5, <1>6

(* They are the variables of CacheSpec.                                    *)
LEMMA SeenAs ==
  /\ Stage = [t \in Threads |-> StageOf(t)] /\ Stage' = [t \in Threads |-> StageOf(t)]'
  /\ Cached = {key[n] : n \in Linked} /\ Cached' = {key[n] : n \in Linked}'
  /\ Pinned = {key[n] : n \in Linked \cap Marked} /\ Pinned' = {key[n] : n \in Linked \cap Marked}'
BY DEF Stage, StageAt, StageOf, Cached, Pinned

(* The call of one thread goes on.                                         *)
LEMMA StageMoves ==
  ASSUME NEW t \in Threads, Others(t)
  PROVE  Stage' = [Stage EXCEPT ![t] = StageAt(pc'[t], node'[t])]
<1>1. \A u \in Threads : u # t => StageAt(pc'[u], node'[u]) = StageAt(pc[u], node[u])
  BY DEF Others
<1> HIDE DEF StageAt
<1> QED BY <1>1 DEF Stage

(* The keys and the marks stay when the nodes of the table keep theirs.    *)
LEMMA KeysSame ==
  ASSUME TypeOK, TypeOK', UNCHANGED chain,
         \A n \in Linked : key'[n] = key[n] /\ (recent_next'[n] = NULL <=> recent_next[n] = NULL)
  PROVE  Cached' = Cached /\ Pinned' = Pinned
<1>1. Linked' = Linked /\ Linked \subseteq Nodes
  BY DEF Linked, TypeOK
<1>2. Cached' = Cached
  BY <1>1 DEF Cached
<1>3. Linked' \cap Marked' = Linked \cap Marked
  BY <1>1 DEF Marked
<1>4. \A n \in Linked \cap Marked : key'[n] = key[n]
  OBVIOUS
<1> QED BY <1>2, <1>3, <1>4 DEF Pinned

(* A hit pins the key it found.                                            *)
LEMMA HitPins ==
  ASSUME IInv, TypeOK', NEW t \in Threads, NEW k \in Keys, FindRecent(t, k) \/ FindUnmarked(t, k)
  PROVE  Promise!Hit(t, k)
<1>1. TypeOK /\ TableInv
  BY DEF IInv, NodesAreOwned
<1>2. PICK n \in Found(k) :
        /\ node' = [node EXCEPT ![t] = n] /\ req' = [req EXCEPT ![t] = k]
        /\ UNCHANGED <<key, chain>> /\ Others(t)
        /\ pc[t] = "idle" /\ pc'[t] \in {"mark", "threshold"}
        /\ recent_next'[n] # NULL
        /\ \A m \in Nodes : m # n => recent_next'[m] = recent_next[m]
  <2>1. \A n \in Found(k) : n \in Nodes
    BY <1>1, ConstantsAssumption DEF Found, TypeOK
  <2>2. CASE FindRecent(t, k)
    BY <1>1, <2>2 DEF FindRecent, Step, Goto, Others, TypeOK, shared, table, recent
  <2>3. CASE FindUnmarked(t, k)
    <3>1. recent_head # NULL
      BY <1>1, Sentinels DEF TypeOK
    <3>2. PICK n \in Found(k) :
            /\ recent_next[n] = NULL /\ node' = [node EXCEPT ![t] = n]
            /\ recent_next' = [recent_next EXCEPT ![n] = recent_head]
      BY <2>3 DEF FindUnmarked
    <3>3. /\ req' = [req EXCEPT ![t] = k] /\ UNCHANGED <<key, chain, cnext>>
          /\ pc[t] = "idle" /\ pc' = [pc EXCEPT ![t] = "mark"]
      BY <2>3 DEF FindUnmarked, Step, Goto
    <3>4. Others(t) /\ pc'[t] = "mark"
      BY <1>1, <3>2, <3>3 DEF Others, TypeOK
    <3>5. recent_next'[n] # NULL /\ \A m \in Nodes : m # n => recent_next'[m] = recent_next[m]
      BY <1>1, <2>1, <3>1, <3>2 DEF TypeOK
    <3> QED BY <3>2, <3>3, <3>4, <3>5
  <2> QED BY <2>2, <2>3
<1>3. n \in Linked /\ n \in Nodes /\ key[n] = k /\ n # NULL
  BY <1>1, <1>2, ConstantsAssumption DEF Found, Linked, TypeOK
<1>4. Linked' = Linked /\ key' = key
  BY <1>2 DEF Linked
<1>5. Cached' = Cached /\ k \in Cached
  BY <1>3, <1>4 DEF Cached
<1>6. Pinned' = Pinned \cup {k}
  <2>1. Linked' \cap Marked' = (Linked \cap Marked) \cup {n}
    BY <1>2, <1>3, <1>4 DEF Marked
  <2> QED BY <1>3, <1>4, <2>1 DEF Pinned
<1>7. Stage[t] = "idle" /\ Stage' = [Stage EXCEPT ![t] = "hit"]
  <2>1. node'[t] = n
    BY <1>1, <1>2 DEF TypeOK
  <2>2. StageAt(pc'[t], node'[t]) = "hit" /\ StageAt(pc[t], node[t]) = "idle"
    BY <1>2, <1>3, <2>1, StageValues DEF Entering
  <2> QED BY <1>2, <2>2, StageMoves DEF Stage
<1> QED BY <1>2, <1>5, <1>6, <1>7, SeenAs, Zenon DEF Promise!Hit, Promise!Advance, Promise!Ask

(* A miss finds that the key is not there.                                 *)
LEMMA MissIsRight ==
  ASSUME IInv, TypeOK', NEW t \in Threads, NEW k \in Keys, FindMiss(t, k)
  PROVE  Promise!Miss(t, k)
<1>1. TypeOK /\ TableInv /\ CallInv
  BY DEF IInv, NodesAreOwned
<1>2. /\ Found(k) = {} /\ req' = [req EXCEPT ![t] = k] /\ UNCHANGED <<key, chain, recent_next, node>>
      /\ pc[t] = "idle" /\ pc'[t] = "threshold" /\ Others(t)
  BY <1>1 DEF FindMiss, Step, Goto, Others, TypeOK, shared, table, recent
<1>3. k \notin Cached
  <2> SUFFICES ASSUME NEW m \in Linked, key[m] = k  PROVE FALSE
    BY DEF Cached
  <2>1. m \in chain[BucketOf[k]]
    BY <1>1 DEF TableInv, Linked
  <2> QED BY <1>2, <2>1 DEF Found
<1>4. Cached' = Cached /\ Pinned' = Pinned
  BY <1>1, <1>2, KeysSame
<1>5. Stage[t] = "idle" /\ Stage' = [Stage EXCEPT ![t] = "miss"]
  <2>1. node'[t] = NULL
    BY <1>1, <1>2 DEF CallInv
  <2>2. StageAt(pc'[t], node'[t]) = "miss" /\ StageAt(pc[t], node[t]) = "idle"
    BY <1>2, <2>1, StageValues DEF Entering
  <2> QED BY <1>2, <2>2, StageMoves DEF Stage
<1> QED BY <1>2, <1>3, <1>4, <1>5, SeenAs, Zenon DEF Promise!Miss, Promise!Advance, Promise!Ask

(* CacheSpec counts as this module does.                                   *)
LEMMA SameCount == \A S : Promise!Cardinality(S) = Cardinality(S)
  BY DEF Cardinality, Promise!Cardinality

(* There are fewer keys than nodes while a node is held.                   *)
LEMMA RoomForOne ==
  ASSUME IInv, NEW n \in Nodes, n \notin Linked
  PROVE  Cardinality(Cached) < Cardinality(Nodes)
<1>1. Linked \subseteq Nodes \ {n}
  BY DEF IInv, TypeOK, Linked
<1>2. IsFiniteSet(Nodes) /\ IsFiniteSet(Nodes \ {n}) /\ Cardinality(Nodes \ {n}) = Cardinality(Nodes) - 1
  BY ConstantsAssumption, FS_RemoveElement
<1>3. IsFiniteSet(Linked) /\ Cardinality(Linked) <= Cardinality(Nodes) - 1
  BY <1>1, <1>2, FS_Subset
<1> DEFINE f == [m \in Linked |-> key[m]]
<1>4. f \in Surjection(Linked, Cached)
  BY DEF Surjection, Cached
<1>5. IsFiniteSet(Cached) /\ Cardinality(Cached) <= Cardinality(Linked)
  <2> HIDE DEF f
  <2> QED BY <1>3, <1>4, FS_Surjection
<1>6. Cardinality(Cached) \in Nat /\ Cardinality(Linked) \in Nat /\ Cardinality(Nodes) \in Nat
  BY <1>2, <1>3, <1>5, FS_CardinalityType
<1> QED BY <1>3, <1>5, <1>6

(* addNodeToBucket stores the key, or finds it stored.                     *)
LEMMA AddBucketStores ==
  ASSUME IInv, TypeOK', NEW t \in Threads, AddBucket(t)
  PROVE  Promise!Store(t) \/ Promise!Reject(t)
<1>1. TypeOK /\ TableInv /\ OwnInv /\ LockInv
  BY DEF IInv, NodesAreOwned
<1>2. /\ pc[t] = "add_bucket" /\ UNCHANGED <<key, recent_next, node, req, cnext>>
      /\ \/ Found(req[t]) # {} /\ pc'[t] = "drop" /\ chain' = chain
         \/ /\ Found(req[t]) = {} /\ pc'[t] = "link"
            /\ chain' = [chain EXCEPT ![BucketOf[req[t]]] = @ \cup {node[t]}]
  BY <1>1 DEF AddBucket, Goto, recent, locals, TypeOK
<1>3. Others(t)
  BY <1>1, <1>2 DEF AddBucket, Goto, Others, TypeOK
<1>4. /\ node[t] \in Nodes /\ key[node[t]] = req[t] /\ recent_next[node[t]] # NULL
      /\ node[t] \notin Linked /\ node[t] # NULL
  BY <1>1, <1>2, Sentinels DEF OwnInv, Inserting, Holding
<1>5. req[t] \in Keys /\ BucketOf[req[t]] \in Buckets
  BY <1>1, <1>2, ConstantsAssumption DEF LockInv, KeyAsked
<1>6. Stage[t] = "miss" /\ Stage' = [Stage EXCEPT ![t] = StageAt(pc'[t], node'[t])]
  <2>1. StageAt(pc[t], node[t]) = "miss"
    BY <1>2, StageValues
  <2> QED BY <1>3, <2>1, StageMoves DEF Stage
<1>7. CASE Found(req[t]) # {} /\ pc'[t] = "drop" /\ chain' = chain
  <2>1. Cached' = Cached /\ Pinned' = Pinned
    BY <1>1, <1>2, <1>7, KeysSame
  <2>2. req[t] \in Cached
    <3>1. PICK m \in chain[BucketOf[req[t]]] : key[m] = req[t]
      BY <1>7 DEF Found
    <3> QED BY <1>5, <3>1 DEF Cached, Linked
  <2>3. StageAt(pc'[t], node'[t]) = "rejected"
    BY <1>2, <1>4, <1>7, StageValues
  <2>4. Stage' = [Stage EXCEPT ![t] = "rejected"] /\ req' = req
    BY <1>2, <1>6, <2>3
  <2>5. Promise!Reject(t)
    BY <1>6, <2>1, <2>2, <2>4, SeenAs, Zenon DEF Promise!Reject, Promise!Advance
  <2> QED BY <2>5
<1>8. CASE /\ Found(req[t]) = {} /\ pc'[t] = "link"
           /\ chain' = [chain EXCEPT ![BucketOf[req[t]]] = @ \cup {node[t]}]
  <2>1. Linked' = Linked \cup {node[t]}
    <3>1. PICK b, n : b = BucketOf[req[t]] /\ n = node[t]
      OBVIOUS
    <3>2. b \in Buckets /\ \A c \in Buckets : chain'[c] = IF c = b THEN chain[b] \cup {n} ELSE chain[c]
      BY <1>1, <1>5, <1>8, <3>1 DEF TypeOK
    <3>3. Linked' = Linked \cup {n}
      BY <3>2 DEF Linked
    <3> QED BY <3>1, <3>3
  <2>2. Cached' = Cached \cup {req[t]}
    BY <1>2, <1>4, <2>1 DEF Cached
  <2>3. Pinned' = Pinned \cup {req[t]}
    <3>1. Linked' \cap Marked' = (Linked \cap Marked) \cup {node[t]}
      BY <1>2, <1>4, <2>1 DEF Marked
    <3> QED BY <1>2, <1>4, <3>1 DEF Pinned
  <2>4. req[t] \notin Cached
    <3> SUFFICES ASSUME NEW m \in Linked, key[m] = req[t]  PROVE FALSE
      BY DEF Cached
    <3>1. m \in chain[BucketOf[req[t]]]
      BY <1>1 DEF TableInv, Linked
    <3> QED BY <1>8, <3>1 DEF Found
  <2>5. Cardinality(Cached) < Cardinality(Nodes)
    BY <1>4, RoomForOne
  <2>6. StageAt(pc'[t], node'[t]) = "stored"
    BY <1>2, <1>4, <1>8, StageValues DEF Entering
  <2>7. Stage' = [Stage EXCEPT ![t] = "stored"] /\ req' = req
    BY <1>2, <1>6, <2>6
  <2>8. Promise!Store(t)
    <3>1. /\ Stage[t] = "miss" /\ Stage' = [Stage EXCEPT ![t] = "stored"]
          /\ req[t] \notin Cached /\ Cardinality(Cached) < Cardinality(Nodes)
          /\ Cached' = Cached \cup {req[t]} /\ Pinned' = Pinned \cup {req[t]}
          /\ UNCHANGED req
      BY <1>6, <2>2, <2>3, <2>4, <2>5, <2>7
    <3>2. Promise!Cardinality(Cached) = Cardinality(Cached)
      BY SameCount
    <3> QED BY <3>1, <3>2, SeenAs, Zenon DEF Promise!Store, Promise!Advance
  <2> QED BY <2>8
<1> QED BY <1>2, <1>7, <1>8

(* The end of a call.                                                      *)
LEMMA EndsCall ==
  ASSUME IInv, TypeOK', NEW t \in Threads, Ends(t)
  PROVE  Promise!Finish(t)
<1>1. TypeOK
  BY DEF IInv
<1>2. Cached' = Cached /\ Pinned' = Pinned
  BY <1>1, KeysSame DEF Ends
<1>3. StageAt(pc'[t], node'[t]) = "idle"
  BY StageValues DEF Ends
<1>4. Stage[t] \in {"hit", "rejected"} /\ Stage' = [Stage EXCEPT ![t] = "idle"]
  BY <1>3, StageMoves DEF Ends, Stage
<1>5. req' = [req EXCEPT ![t] = NULL]
  BY DEF Ends
<1>6. Stage[t] = "hit" \/ Stage[t] = "rejected"
  BY <1>4
<1> QED BY <1>2, <1>4, <1>5, <1>6, SeenAs, Zenon DEF Promise!Finish, Promise!Advance, Promise!Ask

(* The end of a call that stored a key: the key is no longer pinned.       *)
LEMMA PublishEndsCall ==
  ASSUME IInv, TypeOK', NEW t \in Threads, Publish(t)
  PROVE  Promise!Finish(t)
<1>1. TypeOK /\ TableInv /\ OwnInv
  BY DEF IInv, NodesAreOwned
<1>2. /\ pc[t] = "publish" /\ pc'[t] = "idle" /\ UNCHANGED <<key, chain>>
      /\ recent_next' = [recent_next EXCEPT ![node[t]] = NULL]
      /\ req' = [req EXCEPT ![t] = NULL] /\ Others(t)
  BY <1>1 DEF Publish, Step, Goto, Others, TypeOK, table
<1>3. node[t] \in Linked /\ key[node[t]] = req[t] /\ node[t] \in Nodes /\ node[t] # NULL
  BY <1>1, <1>2, Sentinels DEF OwnInv, Inserting, Entering
<1>4. Linked' = Linked /\ Cached' = Cached
  BY <1>2 DEF Linked, Cached
<1>5. Pinned' = Pinned \ {req[t]}
  <2>1. Linked' \cap Marked' = (Linked \cap Marked) \ {node[t]}
    BY <1>1, <1>2, <1>3, <1>4 DEF Marked, TypeOK
  <2>2. \A m \in Linked : key[m] = req[t] => m = node[t]
    BY <1>1, <1>3 DEF TableInv, Linked
  <2> QED BY <1>2, <1>3, <2>1, <2>2 DEF Pinned
<1>6. Stage[t] = "stored" /\ Stage' = [Stage EXCEPT ![t] = "idle"]
  <2>1. StageAt(pc[t], node[t]) = "stored" /\ StageAt(pc'[t], node'[t]) = "idle"
    BY <1>2, <1>3, StageValues DEF Entering
  <2> QED BY <1>2, <2>1, StageMoves DEF Stage
<1> QED BY <1>2, <1>4, <1>5, <1>6, SeenAs, Zenon DEF Promise!Finish, Promise!Advance, Promise!Ask

(* The pull unpins the node it is done with.                               *)
LEMMA PullUnpins ==
  ASSUME IInv, TypeOK', NEW t \in Threads, PullSkip(t) \/ PullMove(t)
  PROVE  \E k \in Keys : Promise!Unpin(k)
<1>1. TypeOK /\ TableInv /\ OwnInv
  BY DEF IInv, NodesAreOwned
<1>2. PICK P \in SUBSET Nodes, R \in SUBSET Nodes : SliceInv(R) /\ ListInv(P) /\ R \cap P = {}
  BY DEF IInv
<1>3. /\ pc[t] \in {"pull_skip", "pull_node"} /\ pc'[t] = "pull_node" /\ cursor # Dummy
      /\ UNCHANGED <<key, chain, node, req>> /\ Others(t)
      /\ recent_next' = [recent_next EXCEPT ![cursor] = NULL]
  <2>1. CASE PullSkip(t)
    BY <1>1, <1>2, <2>1 DEF PullSkip, Step, Goto, Others, TypeOK, table, locals, SliceInv
  <2>2. CASE PullMove(t)
    BY <1>1, <2>2 DEF PullMove, Others, TypeOK, table, locals
  <2> QED BY <2>1, <2>2
<1>4. PICK n : n = cursor
  OBVIOUS
<1>5. n \in Linked /\ n \in Nodes /\ recent_next[n] # NULL /\ ~Works(Entering, n)
  <2>1. cursor \in Linked /\ recent_next[cursor] # NULL /\ ~Works(Entering \cup {"mark"}, cursor)
    BY <1>2, <1>3, SliceHead DEF Slicing
  <2> QED BY <1>1, <1>4, <2>1 DEF Works, Linked, TypeOK
<1>6. key[n] \in Keys /\ \A m \in Linked : key[m] = key[n] => m = n
  BY <1>1, <1>5 DEF TableInv, Linked
<1>7. key[n] \in Pinned
  BY <1>5 DEF Pinned, Marked
<1>8. Linked' = Linked /\ Cached' = Cached
  BY <1>3 DEF Linked, Cached
<1>9. Pinned' = Pinned \ {key[n]}
  <2>1. Linked' \cap Marked' = (Linked \cap Marked) \ {n}
    BY <1>1, <1>3, <1>4, <1>5, <1>8 DEF Marked, TypeOK
  <2> QED BY <1>3, <1>5, <1>6, <2>1 DEF Pinned
<1>10. Stage' = Stage /\ req' = req
  <2>1. StageAt(pc'[t], node'[t]) = StageAt(pc[t], node[t])
    BY <1>3, StageValues DEF Entering
  <2>2. Stage' = [Stage EXCEPT ![t] = Stage[t]]
    BY <1>3, <2>1, StageMoves DEF Stage
  <2>3. Stage = [u \in Threads |-> Stage[u]]
    BY DEF Stage
  <2> QED BY <1>3, <2>2, <2>3
<1>11. key[n] \notin {req[u] : u \in {v \in Threads : Stage[v] = "stored"}}
  <2> SUFFICES ASSUME NEW u \in Threads, Stage[u] = "stored", req[u] = key[n]  PROVE FALSE
    OBVIOUS
  <2>1. pc[u] \in Entering
    BY StageValues DEF Stage
  <2>2. node[u] \in Linked /\ key[node[u]] = key[n]
    BY <1>1, <2>1 DEF OwnInv, Inserting
  <2> QED BY <1>5, <1>6, <2>1, <2>2 DEF Works
<1>12. PICK k : k = key[n]
  OBVIOUS
<1>13. Promise!Unpin(k)
  <2>1. \A i : i \in Promise!BeingStored => i \in {req[u] : u \in {v \in Threads : Stage[v] = "stored"}}
    BY SeenAs DEF Promise!BeingStored
  <2>2. k \in Pinned \ Promise!BeingStored /\ Pinned' = Pinned \ {k}
    BY <1>7, <1>9, <1>11, <1>12, <2>1, Zenon
  <2> QED BY <1>8, <1>10, <2>2, SeenAs, Zenon DEF Promise!Unpin
<1> QED BY <1>6, <1>12, <1>13

(* A step that shows nothing is none.                                      *)
LEMMA SilentIsNone ==
  ASSUME IInv, TypeOK', NEW t \in Threads, Others(t), UNCHANGED <<chain, req>>,
         StageAt(pc'[t], node'[t]) = StageAt(pc[t], node[t]),
         \A n \in Linked : key'[n] = key[n] /\ (recent_next'[n] = NULL <=> recent_next[n] = NULL)
  PROVE  UNCHANGED Promise!vars
<1>1. Cached' = Cached /\ Pinned' = Pinned
  BY KeysSame DEF IInv
<1>2. Stage' = Stage
  <2>1. Stage' = [Stage EXCEPT ![t] = Stage[t]]
    BY StageMoves DEF Stage
  <2>2. Stage = [u \in Threads |-> Stage[u]]
    BY DEF Stage
  <2> QED BY <2>1, <2>2
<1> QED BY <1>1, <1>2, SeenAs, Zenon DEF Promise!vars

(* removeNodeFromBucket evicts an unpinned key that is not the last one.   *)
LEMMA PurgeEvicts ==
  ASSUME IInv, TypeOK', NEW t \in Threads, PurgeBucket(t), pc'[t] # "purge"
  PROVE  \E k \in Keys : Promise!Evict(k)
<1>1. TypeOK /\ TableInv
  BY DEF IInv, NodesAreOwned
<1>2. /\ cursor \in Linked /\ recent_next[cursor] = NULL
      /\ Linked' = Linked \ {cursor} /\ resume \in Linked /\ resume # cursor
  BY EvictsInMiddle
<1>3. /\ pc[t] = "purge_bucket" /\ pc'[t] = "unlink" /\ Others(t)
      /\ UNCHANGED <<key, recent_next, req, node>>
  BY <1>1 DEF PurgeBucket, Goto, Others, TypeOK, recent, locals
<1>4. PICK n, m : n = cursor /\ m = resume
  OBVIOUS
<1>5. key[n] \in Keys /\ \A i \in Linked : key[i] = key[n] => i = n
  BY <1>1, <1>2, <1>4 DEF TableInv, Linked
<1>6. key[n] \in Cached /\ key[n] \notin Pinned /\ Cached # {key[n]}
  <2>1. key[m] \in Cached /\ key[m] # key[n]
    BY <1>2, <1>4, <1>5 DEF Cached
  <2>2. key[n] \notin Pinned
    BY <1>2, <1>4, <1>5 DEF Pinned, Marked
  <2> QED BY <1>2, <1>4, <2>1, <2>2 DEF Cached
<1>7. Cached' = Cached \ {key[n]} /\ Pinned' = Pinned
  <2>1. Cached' = Cached \ {key[n]}
    BY <1>2, <1>3, <1>4, <1>5 DEF Cached
  <2>2. Linked' \cap Marked' = Linked \cap Marked
    BY <1>2, <1>3 DEF Marked
  <2> QED BY <1>3, <2>1, <2>2 DEF Pinned
<1>8. Stage' = Stage /\ req' = req
  <2>1. StageAt(pc'[t], node'[t]) = StageAt(pc[t], node[t])
    BY <1>3, StageValues DEF Entering
  <2>2. Stage' = [Stage EXCEPT ![t] = Stage[t]]
    BY <1>3, <2>1, StageMoves DEF Stage
  <2>3. Stage = [u \in Threads |-> Stage[u]]
    BY DEF Stage
  <2> QED BY <1>3, <2>2, <2>3
<1>9. PICK k : k = key[n]
  OBVIOUS
<1>10. Promise!Evict(k)
  <2>1. k \in Cached \ Pinned /\ Cached # {k} /\ Cached' = Cached \ {k}
    BY <1>6, <1>7, <1>9
  <2> QED BY <2>1, <1>7, <1>8, SeenAs, Zenon DEF Promise!Evict
<1> QED BY <1>5, <1>9, <1>10

(* Every step of DeferredLRU is one of CacheSpec or a stutter.             *)
LEMMA NextKeepsPromise == IInv /\ IInv' /\ [Next]_vars => [Promise!Next]_Promise!vars
<1> SUFFICES ASSUME IInv, IInv', [Next]_vars PROVE [Promise!Next]_Promise!vars
  OBVIOUS
<1>1. TypeOK /\ TypeOK'
  BY DEF IInv
<1>2. CASE UNCHANGED vars
  <2>1. Cached' = Cached /\ Pinned' = Pinned /\ Stage' = Stage /\ req' = req
    BY <1>2 DEF vars, shared, table, recent, locals, Cached, Pinned, Stage, Linked, Marked
  <2> QED BY <2>1, SeenAs, Zenon DEF Promise!vars
<1>3. ASSUME NEW t \in Threads, Acts(t)  PROVE [Promise!Next]_Promise!vars
  <2>1. CASE Silent(t)
    BY <1>1, <2>1, SilentIsNone DEF Silent
  <2>2. ASSUME NEW k \in Keys, FindMiss(t, k)  PROVE Promise!Next
    BY <1>1, <2>2, MissIsRight, Zenon DEF Promise!Next
  <2>3. ASSUME NEW k \in Keys, FindRecent(t, k) \/ FindUnmarked(t, k)  PROVE Promise!Next
    <3>1. Promise!Hit(t, k)
      BY <1>1, <2>3, HitPins
    <3> QED BY <3>1, Zenon DEF Promise!Next
  <2>4. CASE AddBucket(t)
    <3>1. Promise!Store(t) \/ Promise!Reject(t)
      BY <1>1, <2>4, AddBucketStores
    <3> QED BY <3>1, Zenon DEF Promise!Next
  <2>5. CASE Publish(t) \/ Ends(t)
    <3>1. Promise!Finish(t)
      BY <1>1, <2>5, EndsCall, PublishEndsCall
    <3> QED BY <3>1, Zenon DEF Promise!Next
  <2>6. CASE PurgeBucket(t)
    <3>1. CASE pc'[t] = "purge"
      <4>1. /\ pc[t] = "purge_bucket" /\ Others(t) /\ UNCHANGED <<key, chain, recent_next, req, node>>
        BY <1>1, <2>6, <3>1 DEF PurgeBucket, Goto, Others, TypeOK, recent, locals
      <4>2. StageAt(pc'[t], node'[t]) = StageAt(pc[t], node[t])
        BY <3>1, <4>1, StageValues DEF Entering
      <4> QED BY <1>1, <4>1, <4>2, SilentIsNone
    <3>2. CASE pc'[t] # "purge"
      <4>1. \E k \in Keys : Promise!Evict(k)
        BY <1>1, <2>6, <3>2, PurgeEvicts
      <4> QED BY <4>1, Zenon DEF Promise!Next
    <3> QED BY <3>1, <3>2
  <2>7. CASE PullSkip(t) \/ PullMove(t)
    <3>1. \E k \in Keys : Promise!Unpin(k)
      BY <1>1, <2>7, PullUnpins
    <3> QED BY <3>1, Zenon DEF Promise!Next
  <2> QED BY <1>3, <2>1, <2>2, <2>3, <2>4, <2>5, <2>6, <2>7, StepTells DEF Tells, Find
<1> QED BY <1>2, <1>3 DEF Next, Acts

(* It starts as CacheSpec does.                                            *)
LEMMA InitKeepsPromise == Init => Promise!Init
<1> SUFFICES ASSUME Init PROVE Promise!Init
  OBVIOUS
<1>1. /\ Linked = {} /\ \A t \in Threads : pc[t] = "idle"
      /\ req = [t \in Threads |-> NULL]
  BY DEF Init, Linked
<1>2. Cached = {} /\ Pinned = {}
  BY <1>1 DEF Cached, Pinned
<1>3. Stage = [t \in Threads |-> "idle"]
  BY <1>1, StageValues DEF Stage
<1>4. Cardinality(Cached) <= Cardinality(Nodes)
  BY <1>2, FS_EmptySet, ConstantsAssumption, FS_CardinalityType
<1>5. Promise!Cardinality(Cached) = Cardinality(Cached)
  BY SameCount
<1> QED BY <1>1, <1>2, <1>3, <1>4, <1>5, SeenAs DEF Promise!Init

---------------------------------------------------------------------------
(* The theorems.                                                           *)

(* Every variable of the cache keeps its type: links lead to nodes and     *)
(* sentinels, and the LRU list's two ends always lead into the list.       *)
THEOREM TypeIsCorrect == Spec => []TypeOK
<1>1. IInv => TypeOK
  BY DEF IInv
<1> QED BY <1>1, StructureInv, PTL

(* allocateNode, insert, disposeNode and the purge never leak a node nor   *)
(* give one to two owners, and the lock-free empty list has no cycle.      *)
THEOREM NodesAreConserved == Spec => []NodeConservation
<1> QED BY OwnersAreDistinct, StructureInv, PTL

(* However many threads miss on a key at once, addNodeToBucket stores it   *)
(* in one node only, in the bucket of the key.                             *)
THEOREM KeysAreStoredOnce == Spec => []UniqueKeys
<1> QED BY KeysAreUnique, StructureInv, PTL

(* Whatever interleaves with addSublistToLruHead, the LRU list holds the   *)
(* nodes of the table, no cycle, and back links that mirror the forward    *)
(* ones but for those a thread has still to store.                         *)
THEOREM LruHoldsTheTable == Spec => []LruIsSound
<1> QED BY LruMatches, StructureInv, PTL

(* markNodeRecent loses no mark and pushes no node twice, and the node a   *)
(* hit marks is never purged under it.                                     *)
THEOREM MarksAreKept == Spec => []MarksAreSound
<1> QED BY MarksAreRight, StructureInv, PTL

(* The links that removeNodeFromLru stores to without a compare-exchange   *)
(* are written by no other thread: its four accesses may be one step.      *)
THEOREM RemovalIsAlone == Spec => []RemovalPrivate
<1> QED BY RemovalIsPrivate, StructureInv, PTL

(* purgeOld takes only nodes that are not marked and not at the head.      *)
THEOREM EvictionSparesTheMarked == Spec => EvictionSpares
<1> QED BY EvictionIsSpare, StructureInv, PTL DEF Spec, EvictionSpares

(* Once on the recent list a node is marked until a pull has taken it.     *)
THEOREM MarksLast == Spec => MarkLastsUntilPull
<1> QED BY MarkLasts, StructureInv, PTL DEF Spec, MarkLastsUntilPull

(* DeferredLRU implements CacheSpec, for any number of threads, nodes,     *)
(* keys, buckets and locks.                                                *)
THEOREM CacheIsImplemented == Spec => ImplementsCache
<1>1. IInv /\ IInv' /\ [Next]_vars => [Promise!Next]_Promise!vars
  BY NextKeepsPromise
<1> QED BY <1>1, InitKeepsPromise, StructureInv, PTL DEF Spec, ImplementsCache, Promise!Spec
=============================================================================
