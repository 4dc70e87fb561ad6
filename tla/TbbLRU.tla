------------------------------- MODULE TbbLRU -------------------------------
(***************************************************************************)
(* tbb_lru.h: consumeCachedOrCompute over tbb::concurrent_lru_cache, whose *)
(* getOrCalculate is external.  It gives back a handle: an entry with a    *)
(* handle on it is in use and stays; the one that makes an entry calls the *)
(* producer, and the others wait for its value; of the entries not in use  *)
(* it keeps as many as the capacity.  The wrapper learns from its own      *)
(* producer whether the call was a miss.                                   *)
(***************************************************************************)
EXTENDS WrappedCache

VARIABLES
  entries,    \* the keys with an entry
  value,      \* key -> the value of its entry, Unset before it is calculated
  handles,    \* key -> the threads with a handle on its entry
  miss        \* thread -> the local variable miss

tbbLRUVars == <<entries, value, handles, miss>>

TbbLRUInit ==
  /\ entries = {}
  /\ value = [k \in Keys |-> Unset]
  /\ handles = [k \in Keys |-> {}]
  /\ miss = [t \in Threads |-> FALSE]

(* The first half of getOrCalculate: a handle on the entry, new or not.    *)
Lookup(t) ==
  /\ pc[t] = "find"
  /\ handles' = [handles EXCEPT ![key[t]] = @ \cup {t}]
  /\ miss' = [miss EXCEPT ![t] = FALSE]
  /\ IF key[t] \in entries
     THEN Goto(t, "await") /\ UNCHANGED <<entries, value>>
     ELSE /\ Goto(t, "calculate")
          /\ entries' = entries \cup {key[t]}
          /\ value' = [value EXCEPT ![key[t]] = Unset]
  /\ UNCHANGED <<key, consumer, calls, find, insert, hits>>

(* proxied_producer, called by the library.                                *)
Calculate(t) ==
  /\ pc[t] = "calculate"
  /\ insert' = insert + 1
  /\ miss' = [miss EXCEPT ![t] = TRUE]
  /\ value' = [value EXCEPT ![key[t]] = Produced(t)]
  /\ Goto(t, "handle")
  /\ UNCHANGED <<key, consumer, calls, find, hits, entries, handles>>

Await(t) ==
  /\ pc[t] = "await" /\ value[key[t]] # Unset
  /\ Goto(t, "handle")
  /\ UNCHANGED <<key, consumer, calls, find, insert, hits, entries, value, handles, miss>>

(* What is no longer in use may be dropped, down to the capacity.          *)
Unused(hs) == {k \in entries : hs[k] = {}}
Dropped(hs) == {d \in SUBSET Unused(hs) :
                  Cardinality(d) = IF Cardinality(Unused(hs)) > Capacity
                                   THEN Cardinality(Unused(hs)) - Capacity ELSE 0}

(* consumer = handler.value(); return !miss, and the handle goes.          *)
Answer(t) ==
  /\ pc[t] = "handle"
  /\ Consume(t, value[key[t]])
  /\ hits' = hits + (IF miss[t] THEN 0 ELSE 1)
  /\ handles' = [handles EXCEPT ![key[t]] = @ \ {t}]
  /\ \E d \in Dropped(handles') :
       /\ entries' = entries \ d
       /\ value' = [k \in Keys |-> IF k \in d THEN Unset ELSE value[k]]
  /\ Goto(t, "idle")
  /\ UNCHANGED <<key, calls, find, insert, miss>>

TbbLRUStep(t) == Lookup(t) \/ Calculate(t) \/ Await(t) \/ Answer(t)

TbbLRUNext ==
  \/ \E t \in Threads : TbbLRUStep(t)
  \/ CallOrReset /\ UNCHANGED tbbLRUVars
=============================================================================
