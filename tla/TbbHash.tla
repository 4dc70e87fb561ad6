------------------------------- MODULE TbbHash -------------------------------
(***************************************************************************)
(* tbb_hash.h: consumeCachedOrCompute over tbb::concurrent_hash_map.  The  *)
(* map is external: a const_accessor holds an entry for reading, an        *)
(* accessor for writing, and insert makes an entry with a value of its     *)
(* own that the caller then assigns under the accessor.  Nothing is ever   *)
(* taken out of this map, whatever the capacity.                           *)
(***************************************************************************)
EXTENDS WrappedCache

VARIABLES
  storage,    \* key -> its value, Unset before it was assigned
  present,    \* the keys that have an entry
  readers,    \* key -> the threads whose const_accessor is on its entry
  writer      \* key -> the threads whose accessor is on its entry, at most one

tbbHashVars == <<storage, present, readers, writer>>

TbbHashInit ==
  /\ storage = [k \in Keys |-> Unset]
  /\ present = {}
  /\ readers = [k \in Keys |-> {}]
  /\ writer = [k \in Keys |-> {}]

(* storage_.find(ac, key)                                                  *)
FindMiss(t) ==
  /\ pc[t] = "find" /\ key[t] \notin present
  /\ Goto(t, "miss")
  /\ UNCHANGED <<key, consumer, calls, find, insert, hits, storage, present, readers, writer>>

FindHit(t) ==
  /\ pc[t] = "find" /\ key[t] \in present /\ writer[key[t]] = {}
  /\ readers' = [readers EXCEPT ![key[t]] = @ \cup {t}]
  /\ Goto(t, "read")
  /\ UNCHANGED <<key, consumer, calls, find, insert, hits, storage, present, writer>>

(* consumer = ac->second; ac.release(); return true                        *)
ReadHit(t) ==
  /\ pc[t] = "read"
  /\ Consume(t, storage[key[t]])
  /\ readers' = [readers EXCEPT ![key[t]] = @ \ {t}]
  /\ hits' = hits + 1
  /\ Goto(t, "idle")
  /\ UNCHANGED <<key, calls, find, insert, storage, present, writer>>

(* Mutant: only a miss that makes an entry is counted.                     *)
CountMissOfAbsent(t) ==
  /\ pc[t] = "miss"
  /\ insert' = insert + (IF key[t] \in present THEN 0 ELSE 1)
  /\ Consume(t, Produced(t))
  /\ Goto(t, "insert")
  /\ UNCHANGED <<key, calls, find, hits, storage, present, readers, writer>>
(* profile_stats_.insert++, then the producer runs.                        *)
Produce(t) ==
  /\ pc[t] = "miss"
  /\ insert' = insert + 1
  /\ Consume(t, Produced(t))
  /\ Goto(t, "insert")
  /\ UNCHANGED <<key, calls, find, hits, storage, present, readers, writer>>

(* Mutant: without the accessor on a new entry.                            *)
InsertNewUnheld(t) ==
  /\ pc[t] = "insert" /\ key[t] \notin present
  /\ present' = present \cup {key[t]}
  /\ Goto(t, "assign")
  /\ UNCHANGED <<key, consumer, calls, find, insert, hits, storage, readers, writer>>
(* storage_.insert(ac, key) makes the entry and holds it.                  *)
InsertNew(t) ==
  /\ pc[t] = "insert" /\ key[t] \notin present
  /\ present' = present \cup {key[t]}
  /\ writer' = [writer EXCEPT ![key[t]] = {t}]
  /\ Goto(t, "assign")
  /\ UNCHANGED <<key, consumer, calls, find, insert, hits, storage, readers>>

(* It finds another thread's entry, and holds that one, once it may.       *)
InsertFound(t) ==
  /\ pc[t] = "insert" /\ key[t] \in present
  /\ readers[key[t]] = {} /\ writer[key[t]] = {}
  /\ writer' = [writer EXCEPT ![key[t]] = {t}]
  /\ Goto(t, "leave")
  /\ UNCHANGED <<key, consumer, calls, find, insert, hits, storage, present, readers>>

(* ac->second = x; ac.release()                                            *)
Assign(t) ==
  /\ pc[t] = "assign"
  /\ storage' = [storage EXCEPT ![key[t]] = consumer[t]]
  /\ writer' = [writer EXCEPT ![key[t]] = @ \ {t}]
  /\ Goto(t, "idle")
  /\ UNCHANGED <<key, consumer, calls, find, insert, hits, present, readers>>

(* The accessor on the entry that was found goes with the call.            *)
Leave(t) ==
  /\ pc[t] = "leave"
  /\ writer' = [writer EXCEPT ![key[t]] = @ \ {t}]
  /\ Goto(t, "idle")
  /\ UNCHANGED <<key, consumer, calls, find, insert, hits, storage, present, readers>>

TbbHashStep(t) == FindMiss(t) \/ FindHit(t) \/ ReadHit(t) \/ Produce(t)
           \/ InsertNew(t) \/ InsertFound(t) \/ Assign(t) \/ Leave(t)

TbbHashNext ==
  \/ \E t \in Threads : TbbHashStep(t)
  \/ CallOrReset /\ UNCHANGED tbbHashVars

=============================================================================
