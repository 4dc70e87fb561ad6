----------------------------- MODULE CacheSpec -----------------------------
(***************************************************************************)
(* What DeferredLRU promises the callers of consumeCachedOrCompute, with   *)
(* no nodes, lists or locks: a set of at most Capacity keys, in which a    *)
(* key that was hit, or is still being stored, is pinned and cannot be     *)
(* evicted before a consolidation unpins it.                               *)
(***************************************************************************)
EXTENDS Naturals, FiniteSets

CONSTANTS Threads, Keys, Capacity, NULL

VARIABLES
  cached,    \* keys a lookup would find
  pinned,    \* those that may not be evicted
  stage,     \* how far the call of each thread has come
  asked      \* the key it asks for

vars == <<cached, pinned, stage, asked>>

Stages == {"idle", "hit", "miss", "stored", "rejected"}

(* A cache may start warm: with what earlier calls have left in it.        *)
Init ==
  /\ cached \in SUBSET Keys /\ Cardinality(cached) <= Capacity
  /\ pinned = {}
  /\ stage = [t \in Threads |-> "idle"]
  /\ asked = [t \in Threads |-> NULL]

Advance(t, from, to) == stage[t] = from /\ stage' = [stage EXCEPT ![t] = to]
Ask(t, k) == asked' = [asked EXCEPT ![t] = k]

Hit(t, k) ==
  /\ Advance(t, "idle", "hit") /\ Ask(t, k)
  /\ k \in cached
  /\ pinned' = pinned \cup {k}
  /\ UNCHANGED cached

Miss(t, k) ==
  /\ Advance(t, "idle", "miss") /\ Ask(t, k)
  /\ k \notin cached
  /\ UNCHANGED <<cached, pinned>>

Store(t) ==
  /\ Advance(t, "miss", "stored")
  /\ asked[t] \notin cached /\ Cardinality(cached) < Capacity
  /\ cached' = cached \cup {asked[t]}
  /\ pinned' = pinned \cup {asked[t]}
  /\ UNCHANGED asked

(* Another thread has stored the key first.                                *)
Reject(t) ==
  /\ Advance(t, "miss", "rejected")
  /\ asked[t] \in cached
  /\ UNCHANGED <<cached, pinned, asked>>

Finish(t) ==
  /\ Ask(t, NULL)
  /\ \/ /\ Advance(t, "hit", "idle") \/ Advance(t, "rejected", "idle")
        /\ UNCHANGED pinned
     \/ /\ Advance(t, "stored", "idle")
        /\ pinned' = pinned \ {asked[t]}
  /\ UNCHANGED cached

BeingStored == {asked[t] : t \in {u \in Threads : stage[u] = "stored"}}

Unpin(k) ==
  /\ k \in pinned \ BeingStored
  /\ pinned' = pinned \ {k}
  /\ UNCHANGED <<cached, stage, asked>>

(* The last key stays: some node is always next to the list head.          *)
Evict(k) ==
  /\ k \in cached \ pinned /\ cached # {k}
  /\ cached' = cached \ {k}
  /\ UNCHANGED <<pinned, stage, asked>>

Next ==
  \/ \E t \in Threads : Store(t) \/ Reject(t) \/ Finish(t)
  \/ \E t \in Threads, k \in Keys : Hit(t, k) \/ Miss(t, k)
  \/ \E k \in Keys : Unpin(k) \/ Evict(k)

Spec == Init /\ [][Next]_vars
=============================================================================
