----------------------------- MODULE Allocation -----------------------------
(***************************************************************************)
(* How a cache gets and gives back its memory, alone or as the shards of a *)
(* BucketedAdapter: ContainerBase::init, the allocateMemory and            *)
(* releaseMemory of LRUCache, ConcurrentLRU, DeferredLRU and HashFixed,    *)
(* and BucketedAdapter (src/src/containers/).  An allocated cache then     *)
(* serves calls; a shard is a queue of keys, as LRUSpec has it.            *)
(*                                                                         *)
(* Members that no constructor initialises are Garbage.  Reading one is    *)
(* undefined: it may be zero by chance, or else the stage is "undefined".  *)
(***************************************************************************)
EXTENDS Integers, FiniteSets, Sequences, SequencesExt, FiniteSetsExt

CONSTANTS
  Kinds,           \* of containers
  LogBucketCount,  \* a BucketedAdapter has 2 ^ LogBucketCount shards
  Capacities,      \* those the cache may be constructed with
  LoadFactor, ElementSize,
  Keys,
  GetBucketNr,     \* getBucketNr: the mixed bits of the key under the mask
  Garbage

ASSUME AllocationAssumption ==
  /\ Kinds \subseteq {"LRU", "Concurrent", "Deferred", "HashFixed"}
  /\ LogBucketCount \in Nat \ {0} /\ 2 ^ LogBucketCount \in Nat \ {0}
  /\ Capacities \subseteq Nat
  /\ LoadFactor \in Nat \ {0} /\ ElementSize \in Nat \ {0}
  /\ GetBucketNr \in [Keys -> 0 .. 2 ^ LogBucketCount - 1]
  /\ Garbage \notin Nat \cup {"array", "null", "set"}

VARIABLES
  kind, sharded,               \* the container, and whether an adapter is around it
  capacity, is_item_capacity,  \* the arguments of the constructor
  stage,       \* "allocate", "ready", "unwind", "destroyed" or "undefined"
  shard,       \* the next shard to allocate, or to destroy
  max_element_count, total_mem_available,   \* of each shard
  bucket_count,   \* its buckets; Garbage in an LRUCache before allocation
  storage,     \* "array", "null" or Garbage
  list_head,   \* lru_list_head_ is "set" or Garbage
  order        \* the keys of its entries, the least recent first

constructed == <<kind, sharded, capacity, is_item_capacity>>
memory == <<max_element_count, total_mem_available, bucket_count, storage, list_head>>
allocationVars == <<constructed, stage, shard, memory, order>>

Shards == IF sharded THEN 0 .. 2 ^ LogBucketCount - 1 ELSE {0}
ShardOf(k) == IF sharded THEN GetBucketNr[k] ELSE 0

(* Only LRUCache keeps plain pointers without initialisers: the vectors and *)
(* unique_ptrs of the others start empty.  HashFixed has no shards.        *)
Unset == IF kind = "LRU" THEN Garbage ELSE 0

AllocationInit ==
  /\ kind \in Kinds /\ sharded \in BOOLEAN /\ (kind = "HashFixed" => ~sharded)
  /\ capacity \in Capacities /\ is_item_capacity \in BOOLEAN
  /\ stage = "allocate"
  /\ shard = 0
  /\ max_element_count = [s \in Shards |-> 0] /\ total_mem_available = max_element_count
  /\ bucket_count = [s \in Shards |-> Unset]
  /\ storage = [s \in Shards |-> IF kind = "LRU" THEN Garbage ELSE "null"]
  /\ list_head = [s \in Shards |-> Garbage]
  /\ order = [s \in Shards |-> <<>>]

Share(s) == capacity \div Cardinality(Shards) + (IF s = 0 THEN capacity % Cardinality(Shards) ELSE 0)

ElementsFor(share) == IF is_item_capacity THEN share ELSE share \div ElementSize
MemoryFor(share) == IF is_item_capacity THEN share * ElementSize ELSE share

BucketsFor(n) ==
  IF kind \in {"LRU", "HashFixed"} THEN n \div LoadFactor ELSE (n + LoadFactor - 1) \div LoadFactor

TooSmall(n) == kind # "HashFixed" /\ BucketsFor(n) < 4

InitBase(s) ==
  /\ stage = "allocate" /\ shard = s
  /\ max_element_count' = [max_element_count EXCEPT ![s] = ElementsFor(Share(s))]
  /\ total_mem_available' = [total_mem_available EXCEPT ![s] = MemoryFor(Share(s))]
  /\ UNCHANGED <<constructed, order>>

NextShard(s) ==
  /\ shard' = IF s + 1 \in Shards THEN s + 1 ELSE s
  /\ stage' = IF s + 1 \in Shards THEN "allocate" ELSE "ready"

(* if (capacity == 0) return.  HashFixed does not ask.                     *)
AllocateNothing(s) ==
  /\ InitBase(s)
  /\ Share(s) = 0 /\ kind # "HashFixed"
  /\ NextShard(s)
  /\ UNCHANGED <<bucket_count, storage, list_head>>

Allocate(s) ==
  LET n == ElementsFor(Share(s)) IN
  /\ InitBase(s)
  /\ Share(s) # 0 \/ kind = "HashFixed"
  /\ ~TooSmall(n)
  /\ bucket_count' = [bucket_count EXCEPT ![s] = BucketsFor(n)]
  /\ storage' = [storage EXCEPT ![s] = "array"]
  /\ list_head' = [list_head EXCEPT ![s] = "set"]
  /\ NextShard(s)

(* throw std::runtime_error("Too small capacity").  The adapter's own       *)
(* constructor has ended, so its shards are destroyed, the last one first; *)
(* a cache alone is not destroyed, it was never constructed.               *)
ThrowTooSmall(s) ==
  LET n == ElementsFor(Share(s)) IN
  /\ InitBase(s)
  /\ Share(s) # 0 /\ TooSmall(n)
  /\ bucket_count' = [bucket_count EXCEPT ![s] = BucketsFor(n)]
  /\ storage' = [storage EXCEPT ![s] = IF kind = "LRU" THEN "array" ELSE @]
  /\ stage' = IF sharded THEN "unwind" ELSE "destroyed"
  /\ shard' = Cardinality(Shards) - 1
  /\ UNCHANGED list_head

Undefined == stage' = "undefined" /\ UNCHANGED <<constructed, shard, memory, order>>

(* The use of the cache has ended.                                         *)
Destroy ==
  /\ stage = "ready"
  /\ stage' = "unwind" /\ shard' = Cardinality(Shards) - 1
  /\ UNCHANGED <<constructed, memory, order>>

(* releaseMemory walks the list of a cache that has storage.               *)
ReadsGarbage(s) == storage[s] = Garbage \/ (storage[s] = "array" /\ list_head[s] = Garbage)

ReleaseMemory(s) ==
  /\ stage = "unwind" /\ shard = s
  /\ storage' = [storage EXCEPT ![s] = "null"]
  /\ bucket_count' = [bucket_count EXCEPT ![s] = 0]
  /\ order' = [order EXCEPT ![s] = <<>>]
  /\ shard' = IF s = 0 THEN 0 ELSE s - 1
  /\ stage' = IF s = 0 THEN "destroyed" ELSE "unwind"
  /\ UNCHANGED <<constructed, max_element_count, total_mem_available, list_head>>

ReleaseGarbage(s) ==
  /\ stage = "unwind" /\ shard = s /\ ReadsGarbage(s)
  /\ Undefined

---------------------------------------------------------------------------
(* A call on a shard without buckets takes a hash modulo zero or modulo    *)
(* Garbage; if that is a number, it goes on into arrays that are not there. *)
CallUnserved(k) ==
  /\ stage = "ready" /\ bucket_count[ShardOf(k)] \in {0, Garbage}
  /\ Undefined

CanServe(k) == stage = "ready" /\ bucket_count[ShardOf(k)] \notin {0, Garbage}

Hit(k) ==
  LET s == ShardOf(k) IN
  /\ CanServe(k)
  /\ \E i \in DOMAIN order[s] :
       /\ order[s][i] = k
       /\ order' = [order EXCEPT ![s] = IF kind = "HashFixed" THEN @ ELSE Append(RemoveAt(@, i), k)]
  /\ UNCHANGED <<constructed, stage, shard, memory>>

(* Mutant: the bound of the whole cache is applied to a shard.             *)
FullAsAWhole(s) == Len(order[s]) >= capacity

Full(s) == Len(order[s]) >= max_element_count[s]

Miss(k) ==
  LET s == ShardOf(k)
      kept == IF Full(s) THEN Tail(order[s]) ELSE order[s]
  IN  /\ CanServe(k)
      /\ k \notin ToSet(order[s])
      /\ order' = [order EXCEPT ![s] =
                     IF kind = "HashFixed" /\ Full(s) THEN @ ELSE Append(kept, k)]
      /\ UNCHANGED <<constructed, stage, shard, memory>>

AllocationNext ==
  \/ \E s \in Shards : AllocateNothing(s) \/ Allocate(s) \/ ThrowTooSmall(s)
                         \/ ReleaseMemory(s) \/ ReleaseGarbage(s)
  \/ \E k \in Keys : Hit(k) \/ Miss(k) \/ CallUnserved(k)
  \/ Destroy

---------------------------------------------------------------------------
(* BucketedAdapter::memStats.                                              *)
SumOver(f) == FoldSet(LAMBDA s, sum : f[s] + sum, 0, Shards)

(* The capacity, in elements or in bytes, is what the user asked for: the   *)
(* split loses no remainder.  In bytes the elements have room in it.       *)
CapacityAddsUp ==
  stage = "ready" =>
    IF is_item_capacity THEN SumOver(max_element_count) = capacity
    ELSE /\ SumOver(total_mem_available) = capacity
         /\ SumOver(max_element_count) * ElementSize <= capacity

(* However the keys are spread, the cache as a whole never holds more      *)
(* entries than memStats reports as its capacity.                          *)
EntriesFit == SumOver([s \in Shards |-> Len(order[s])]) <= SumOver(max_element_count)

(* A capacity that leaves no shard below the minimum: from its allocation  *)
(* to its end such a cache reads no member that was never written, serves  *)
(* every key, and keeps to the capacity.                                   *)
Adequate == \A s \in Shards : BucketsFor(ElementsFor(Share(s))) >= 4
AdequateIsServed == Adequate => stage # "undefined"

(* The three of them: the split over the shards neither loses nor invents  *)
(* room, and a capacity that suffices is served (allocateMemory).          *)
AllocationIsSound == CapacityAddsUp /\ EntriesFit /\ AdequateIsServed
=============================================================================
