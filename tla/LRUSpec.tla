------------------------------ MODULE LRUSpec ------------------------------
(***************************************************************************)
(* What LRUCache promises: its entries form a queue of at most Capacity    *)
(* keys; a hit moves an entry of the key to the back, and a miss puts a    *)
(* new entry there, which pushes the front one out of a full cache.  Two   *)
(* threads that miss on one key at the same time both enter it.            *)
(***************************************************************************)
EXTENDS Naturals, Sequences, SequencesExt

CONSTANTS Threads, Keys, Capacity, NULL

VARIABLES
  order,     \* the keys of the entries, the least recently used first
  missed,    \* the key each thread has to enter, or NULL
  consumer   \* the key whose value each thread was given last

vars == <<order, missed, consumer>>

Init ==
  /\ order = <<>>
  /\ missed = [t \in Threads |-> NULL]
  /\ consumer = [t \in Threads |-> NULL]

Give(t, k) == consumer' = [consumer EXCEPT ![t] = k]

Hit(t, k) ==
  /\ missed[t] = NULL
  /\ \E i \in DOMAIN order :
       /\ order[i] = k
       /\ order' = Append(RemoveAt(order, i), k)
  /\ Give(t, k)
  /\ UNCHANGED missed

Miss(t, k) ==
  /\ missed[t] = NULL
  /\ k \notin ToSet(order)
  /\ missed' = [missed EXCEPT ![t] = k]
  /\ Give(t, k)
  /\ UNCHANGED order

Enter(t) ==
  /\ missed[t] # NULL
  /\ LET kept == IF Len(order) = Capacity THEN Tail(order) ELSE order
     IN  order' = Append(kept, missed[t])
  /\ missed' = [missed EXCEPT ![t] = NULL]
  /\ UNCHANGED consumer

Next == \E t \in Threads : Enter(t) \/ \E k \in Keys : Hit(t, k) \/ Miss(t, k)

Spec == Init /\ [][Next]_vars
=============================================================================
