------------------------------- MODULE HhvmLRU -------------------------------
(***************************************************************************)
(* hhvm_lru.h: consumeCachedOrCompute over ThreadSafeScalableCache, which  *)
(* is external: find holds the entry it finds with an accessor, insert     *)
(* leaves an entry that is there alone, and otherwise makes one and may    *)
(* evict any entry that no accessor holds.                                 *)
(***************************************************************************)
EXTENDS WrappedCache

VARIABLES
  cached,     \* key -> its value, or Unset when it is not in the cache
  accessors   \* key -> the threads whose accessor ac is on its entry

hhvmVars == <<cached, accessors>>

HhvmInit ==
  /\ cached = [k \in Keys |-> Unset]
  /\ accessors = [k \in Keys |-> {}]

HhvmFindMiss(t) ==
  /\ pc[t] = "find" /\ cached[key[t]] = Unset
  /\ Goto(t, "miss")
  /\ UNCHANGED <<key, consumer, calls, find, insert, hits, cached, accessors>>

HhvmFindHit(t) ==
  /\ pc[t] = "find" /\ cached[key[t]] # Unset
  /\ accessors' = [accessors EXCEPT ![key[t]] = @ \cup {t}]
  /\ Goto(t, "read")
  /\ UNCHANGED <<key, consumer, calls, find, insert, hits, cached>>

(* consumer = *ac; return true                                             *)
HhvmReadHit(t) ==
  /\ pc[t] = "read"
  /\ Consume(t, cached[key[t]])
  /\ accessors' = [accessors EXCEPT ![key[t]] = @ \ {t}]
  /\ hits' = hits + 1
  /\ Goto(t, "idle")
  /\ UNCHANGED <<key, calls, find, insert, cached>>

(* The producer runs, and insert is counted after it.                      *)
HhvmProduce(t) ==
  /\ pc[t] = "miss"
  /\ insert' = insert + 1
  /\ Goto(t, "insert")
  /\ UNCHANGED <<key, consumer, calls, find, hits, cached, accessors>>

Evictable(k) == {{}} \cup {{o} : o \in {o \in Keys \ {k} : cached[o] # Unset /\ accessors[o] = {}}}
Full == Cardinality({k \in Keys : cached[k] # Unset}) >= Capacity

(* impl_->insert(key, x); consumer = x; return false                       *)
HhvmInsert(t) ==
  /\ pc[t] = "insert"
  /\ IF cached[key[t]] # Unset
     THEN UNCHANGED cached
     ELSE \E out \in (IF Full THEN Evictable(key[t]) ELSE {{}}) :
            cached' = [k \in Keys |-> IF k = key[t] THEN Produced(t)
                                      ELSE IF k \in out THEN Unset ELSE cached[k]]
  /\ Consume(t, Produced(t))
  /\ Goto(t, "idle")
  /\ UNCHANGED <<key, calls, find, insert, hits, accessors>>

HhvmStep(t) == HhvmFindMiss(t) \/ HhvmFindHit(t) \/ HhvmReadHit(t) \/ HhvmProduce(t) \/ HhvmInsert(t)

HhvmNext ==
  \/ \E t \in Threads : HhvmStep(t)
  \/ CallOrReset /\ UNCHANGED hhvmVars
=============================================================================
