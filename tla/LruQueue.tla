------------------------------ MODULE LruQueue ------------------------------
(***************************************************************************)
(* What the hand over hand locking of ConcurrentLRU is for: the LRU list   *)
(* is a queue whose operations take effect at once.  A new element comes   *)
(* from the unused ones in their order or from the front of the queue; a   *)
(* hit takes an element out of the middle; both put it back at the end.    *)
(***************************************************************************)
EXTENDS Naturals, Sequences

CONSTANTS Threads, Nodes, NULL

VARIABLES
  queue,    \* the elements in use, the least recent first
  unused,   \* those never used, in the order they will be
  hand,     \* the element each thread has taken, or NULL
  hit       \* the threads whose call is a hit

vars == <<queue, unused, hand, hit>>

(* A cache may start warm.                                                 *)
Init ==
  /\ queue \in Seq(Nodes) /\ unused \in Seq(Nodes)
  /\ LET all == queue \o unused
     IN  /\ \A n \in Nodes : \E i \in DOMAIN all : all[i] = n
         /\ \A i, j \in DOMAIN all : all[i] = all[j] => i = j
  /\ hand = [t \in Threads |-> NULL]
  /\ hit = [t \in Threads |-> FALSE]

Take(t, n) == hand[t] = NULL /\ hand' = [hand EXCEPT ![t] = n]

Hit(t) ==
  /\ hand[t] = NULL /\ ~hit[t]
  /\ hit' = [hit EXCEPT ![t] = TRUE]
  /\ UNCHANGED <<queue, unused, hand>>

Unuse(t) ==
  /\ ~hit[t]
  /\ unused # <<>> /\ Take(t, Head(unused))
  /\ unused' = Tail(unused)
  /\ UNCHANGED <<queue, hit>>

(* Nothing is evicted before every element is in use.                      *)
EvictFront(t) ==
  /\ ~hit[t]
  /\ unused = <<>> /\ queue # <<>> /\ Take(t, Head(queue))
  /\ queue' = Tail(queue)
  /\ UNCHANGED <<unused, hit>>

TakeOut(t) ==
  /\ hit[t]
  /\ \E i \in DOMAIN queue :
       /\ Take(t, queue[i])
       /\ queue' = SubSeq(queue, 1, i - 1) \o SubSeq(queue, i + 1, Len(queue))
  /\ UNCHANGED <<unused, hit>>

PutBack(t) ==
  /\ hand[t] # NULL
  /\ queue' = Append(queue, hand[t])
  /\ hand' = [hand EXCEPT ![t] = NULL]
  /\ hit' = [hit EXCEPT ![t] = FALSE]
  /\ UNCHANGED unused

Next == \E t \in Threads : Hit(t) \/ Unuse(t) \/ EvictFront(t) \/ TakeOut(t) \/ PutBack(t)

Spec == Init /\ [][Next]_vars
=============================================================================
