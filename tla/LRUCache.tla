------------------------------ MODULE LRUCache ------------------------------
(***************************************************************************)
(* LRUCache (src/src/containers/lru.h): elements in an array, linked by    *)
(* index into doubly linked bucket chains, a doubly linked LRU list and a  *)
(* singly linked list of empty nodes, all behind one lock.                 *)
(*                                                                         *)
(* find and insert each hold lock_ from beginning to end, so each is one   *)
(* action; a call that misses lets other calls in between.  storage_ is    *)
(* allocated without initial values: a field not yet written is Garbage.   *)
(* A value is written with its key, so the key stands for both.            *)
(***************************************************************************)
EXTENDS Integers, FiniteSets

CONSTANTS
  Threads,       \* callers of consumeCachedOrCompute
  Keys,
  BucketCount,   \* bucket_count_
  BucketOf,      \* whichBucket
  MaxElements,   \* max_element_count_
  NULL,          \* no key
  Garbage        \* an index that was never written

ASSUME ConstantsAssumption ==
  /\ IsFiniteSet(Threads)
  /\ NULL \notin Keys
  /\ BucketCount \in Nat \ (0 .. 3)
  /\ MaxElements \in Nat /\ MaxElements >= BucketCount
  /\ BucketOf \in [Keys -> 0 .. BucketCount - 1]
  /\ Garbage \notin Int

Slots == 0 .. MaxElements - 1
BucketNrs == 0 .. BucketCount - 1

VARIABLES
  cache,         \* the members of the LRUCache
  missed,        \* the key each thread is about to insert
  consumer       \* the key whose value each thread was given last

vars == <<cache, missed, consumer>>

EmptyCache ==
  [count       |-> 0,                                  \* current_element_count_
   key         |-> [s \in Slots |-> NULL],
   list_prev   |-> [s \in Slots |-> Garbage],
   list_next   |-> [s \in Slots |-> IF s + 1 \in Slots THEN s + 1 ELSE -1],
   bucket_prev |-> [s \in Slots |-> Garbage],
   bucket_next |-> [s \in Slots |-> Garbage],
   bucket      |-> [b \in BucketNrs |-> -1],
   head        |-> -1,                                 \* lru_list_head_
   tail        |-> -1,                                 \* lru_list_tail_
   free        |-> 0]                                  \* empty_nodes_head_

Init ==
  /\ cache = EmptyCache
  /\ missed = [t \in Threads |-> NULL]
  /\ consumer = [t \in Threads |-> NULL]

(* The assignment f[i] = v, skipped when i is no index.                    *)
Set(f, i, v) == IF i \in DOMAIN f THEN [f EXCEPT ![i] = v] ELSE f

---------------------------------------------------------------------------
(* The indices reached from i along the links f, in order; -1 at the end.  *)
Walk(f, i) ==
  LET w[n \in 0 .. MaxElements] ==
        IF n = 0 THEN i ELSE IF w[n - 1] \in Slots THEN f[w[n - 1]] ELSE w[n - 1]
  IN  w
InWalk(f, i) == {Walk(f, i)[n] : n \in 0 .. MaxElements} \cap Slots

(* s is the element find stops at.                                         *)
Finds(c, k, s) ==
  LET chain == Walk(c.bucket_next, c.bucket[BucketOf[k]])
  IN  \E n \in 0 .. MaxElements :
        /\ chain[n] = s /\ c.key[s] = k
        /\ \A m \in 0 .. n - 1 : c.key[chain[m]] # k

(* Mutant: a hit leaves the LRU list alone.                                *)
MovedNot(c, s) == c

(* A hit moves the element to the end of the LRU list.                     *)
Moved(c, s) ==
  IF s = c.tail THEN c
  ELSE [c EXCEPT
    !.head = IF c.list_prev[s] = -1 THEN c.list_next[s] ELSE @,
    !.list_next = [Set(@, c.list_prev[s], c.list_next[s]) EXCEPT ![s] = -1, ![c.tail] = s],
    !.list_prev = [@ EXCEPT ![c.list_next[s]] = c.list_prev[s], ![s] = c.tail],
    !.tail = s]

(* Mutant: the chain's next element keeps its back link to the victim.     *)
EvictedCarelessly(c) ==
  LET victim == c.head
      before == c.bucket_prev[victim]
      after == c.bucket_next[victim]
  IN  [c EXCEPT
        !.head = c.list_next[victim],
        !.list_prev[c.list_next[victim]] = -1,
        !.list_next[victim] = c.free,
        !.free = victim,
        !.bucket = Set(@, - before - 1, after),
        !.bucket_next = Set(@, before, after),
        !.count = @ - 1]

(* evict: the head of the LRU list becomes the first empty node.  A        *)
(* negative bucket_prev names the bucket whose first element it is.        *)
Evicted(c) ==
  LET victim == c.head
      before == c.bucket_prev[victim]
      after == c.bucket_next[victim]
  IN  [c EXCEPT
        !.head = c.list_next[victim],
        !.list_prev[c.list_next[victim]] = -1,
        !.list_next[victim] = c.free,
        !.free = victim,
        !.bucket = Set(@, - before - 1, after),
        !.bucket_next = Set(@, before, after),
        !.bucket_prev = Set(@, after, before),
        !.count = @ - 1]

(* insert takes the first empty node, appends it to the LRU list and makes *)
(* it the first element of its bucket.                                     *)
Stored(c, k) ==
  LET new == c.free
      b == BucketOf[k]
  IN  [c EXCEPT
        !.count = @ + 1,
        !.free = c.list_next[new],
        !.key[new] = k,
        !.list_prev[new] = c.tail,
        !.list_next = [Set(@, c.tail, new) EXCEPT ![new] = -1],
        !.tail = new,
        !.head = IF @ = -1 THEN new ELSE @,
        !.bucket_next[new] = c.bucket[b],
        !.bucket_prev = [Set(@, c.bucket[b], new) EXCEPT ![new] = - b - 1],
        !.bucket[b] = new]

---------------------------------------------------------------------------
FindHit(t, k) ==
  /\ missed[t] = NULL
  /\ \E s \in Slots : Finds(cache, k, s) /\ cache' = Moved(cache, s)
  /\ consumer' = [consumer EXCEPT ![t] = k]
  /\ UNCHANGED missed

FindMiss(t, k) ==
  /\ missed[t] = NULL
  /\ \A s \in Slots : ~Finds(cache, k, s)
  /\ missed' = [missed EXCEPT ![t] = k]
  /\ consumer' = [consumer EXCEPT ![t] = k]
  /\ UNCHANGED cache

(* The while loop around evict runs at most once: the count never exceeds  *)
(* the limit.                                                              *)
Insert(t) ==
  /\ missed[t] # NULL
  /\ cache' = Stored(IF cache.count >= MaxElements THEN Evicted(cache) ELSE cache, missed[t])
  /\ missed' = [missed EXCEPT ![t] = NULL]
  /\ UNCHANGED consumer

Next == \E t \in Threads : Insert(t) \/ \E k \in Keys : FindHit(t, k) \/ FindMiss(t, k)

Spec == Init /\ [][Next]_vars

---------------------------------------------------------------------------
LruOrder == Walk(cache.list_next, cache.head)
Listed == InWalk(cache.list_next, cache.head)
Free == InWalk(cache.list_next, cache.free)

(* Every variable has its type.                                            *)
TypeOK ==
  /\ cache.count \in 0 .. MaxElements
  /\ {cache.head, cache.tail, cache.free} \subseteq Slots \cup {-1}
  /\ cache.key \in [Slots -> Keys \cup {NULL}]
  /\ cache.list_next \in [Slots -> Slots \cup {-1}]
  /\ cache.list_prev \in [Slots -> Slots \cup {-1, Garbage}]
  /\ cache.bucket \in [BucketNrs -> Slots \cup {-1}]
  /\ cache.bucket_next \in [Slots -> Slots \cup {-1, Garbage}]
  /\ cache.bucket_prev \in [Slots -> (- BucketCount .. MaxElements - 1) \cup {Garbage}]
  /\ missed \in [Threads -> Keys \cup {NULL}]
  /\ consumer \in [Threads -> Keys \cup {NULL}]

(* The LRU list and the list of empty nodes share the elements out, and    *)
(* the count is the length of the first: no element leaks, and an insert   *)
(* finds one whenever the count is below the limit.                        *)
ElementsConserved ==
  /\ Listed \cap Free = {} /\ Listed \cup Free = Slots
  /\ cache.count = Cardinality(Listed)
  /\ Walk(cache.list_next, cache.head)[MaxElements] = -1
  /\ Walk(cache.list_next, cache.free)[MaxElements] = -1

(* The LRU list reads the same in both directions, from head to tail.      *)
ListIsDouble ==
  /\ cache.head = -1 <=> cache.tail = -1
  /\ \A s \in Listed :
       /\ IF s = cache.head THEN cache.list_prev[s] = -1
          ELSE cache.list_prev[s] \in Listed /\ cache.list_next[cache.list_prev[s]] = s
       /\ cache.list_next[s] = -1 <=> s = cache.tail

(* The chains hold the elements of the LRU list, each in the bucket of its *)
(* key, and bucket_prev leads back, the first element's to its bucket:     *)
(* evict unlinks an element without hashing its key.                       *)
ChainsAreDouble ==
  LET chained(b) == InWalk(cache.bucket_next, cache.bucket[b])
  IN  /\ UNION {chained(b) : b \in BucketNrs} = Listed
      /\ \A b \in BucketNrs :
           /\ Walk(cache.bucket_next, cache.bucket[b])[MaxElements] = -1
           /\ \A s \in chained(b) :
                /\ BucketOf[cache.key[s]] = b
                /\ IF s = cache.bucket[b] THEN cache.bucket_prev[s] = - b - 1
                   ELSE cache.bucket_prev[s] \in Slots
                        /\ cache.bucket_next[cache.bucket_prev[s]] = s

(* All the index links of the object.                                      *)
LinksAreSound == ElementsConserved /\ ListIsDouble /\ ChainsAreDouble

(* A key is entered once, but for the threads that missed on it before its *)
(* first entry: their number bounds the copies.  A single thread keeps the *)
(* keys distinct.                                                          *)
CopiesBounded ==
  \A k \in Keys :
    Cardinality({s \in Listed : cache.key[s] = k}) + Cardinality({t \in Threads : missed[t] = k})
      <= Cardinality(Threads)

---------------------------------------------------------------------------
(* coherent(): what the debug build asserts of a cache.                    *)
Coherent(c) ==
  LET forward == InWalk(c.list_next, c.head)
      backward == InWalk(c.list_prev, c.tail)
  IN  /\ Walk(c.list_next, c.free)[MaxElements] \notin Slots
      /\ Walk(c.list_next, c.head)[MaxElements] \notin Slots
      /\ Walk(c.list_prev, c.tail)[MaxElements] \notin Slots
      /\ Cardinality(forward) = Cardinality(backward)
      /\ \A s \in forward : c.bucket_prev[s] < 0 => BucketOf[c.key[s]] = - c.bucket_prev[s] - 1
      /\ \A b \in BucketNrs :
           /\ Walk(c.bucket_next, c.bucket[b])[MaxElements] \notin Slots
           /\ \A s \in InWalk(c.bucket_next, c.bucket[b]) :
                /\ s # c.count
                /\ BucketOf[c.key[s]] = b
                /\ ~(c.bucket_next[s] = c.bucket_prev[s] /\ c.bucket_prev[s] >= 0)

(* What the assertions at the beginning and the end of insert and of find  *)
(* and at the beginning of evict say.                                      *)
CoherentBetweenCalls == Coherent(cache)

(* The object between two critical sections.                               *)
CacheIsSound == LinksAreSound /\ CopiesBounded /\ CoherentBetweenCalls

(* What the assertion at the end of evict says.                            *)
CoherentAfterEvict == cache.count >= MaxElements => Coherent(Evicted(cache))
=============================================================================
