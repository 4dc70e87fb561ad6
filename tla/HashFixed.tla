----------------------------- MODULE HashFixed -----------------------------
(***************************************************************************)
(* HashFixed (src/src/containers/hash_fixed.h): a table of fixed size that *)
(* many threads fill without locks and that never gives an element back.   *)
(* A call looks its key up and, when it is absent, stores it in the next   *)
(* free slot, which is pushed on the chain of its bucket.                  *)
(*                                                                         *)
(* Grain: one access to memory other threads may be writing per action.  A *)
(* lookup is one action, its load of the head of the chain: what follows   *)
(* the head does not change any more (ChainsOnlyGrow).  A value is written *)
(* with its key, so the key stands for both.                               *)
(***************************************************************************)
EXTENDS Integers, FiniteSets

CONSTANTS
  Threads,       \* callers of consumeCachedOrCompute
  Keys,
  Buckets,       \* the indices of bucket_
  BucketOf,      \* whichBucket
  MaxElements,   \* max_element_count_
  NULL           \* no key

ASSUME ConstantsAssumption ==
  /\ IsFiniteSet(Threads)
  /\ NULL \notin Keys
  /\ BucketOf \in [Keys -> Buckets]
  /\ MaxElements \in Nat

VARIABLES
  count,         \* current_element_count_
  key,           \* the key of each element of storage_, NULL if never written
  next,          \* bucket_next of each element
  bucket,        \* bucket_
  pc,
  req,           \* the key each thread asks for
  elem           \* find: the element returned; insert: newelem

storage == <<key, next>>
vars == <<count, storage, bucket, pc, req, elem>>

Slots == 0 .. MaxElements - 1
End == -1

Init ==
  /\ count = 0
  /\ key = [s \in Slots |-> NULL]
  /\ next = [s \in Slots |-> End]
  /\ bucket = [b \in Buckets |-> End]
  /\ pc = [t \in Threads |-> "idle"]
  /\ req = [t \in Threads |-> NULL]
  /\ elem = [t \in Threads |-> End]

Goto(t, label) == pc' = [pc EXCEPT ![t] = label]
Step(t, from, to) == pc[t] = from /\ Goto(t, to)
Return(t) == Goto(t, "idle") /\ req' = [req EXCEPT ![t] = NULL] /\ elem' = [elem EXCEPT ![t] = End]

---------------------------------------------------------------------------
(* The elements find visits from the head of bucket b.                     *)
Chain(b) ==
  LET walk[i \in 0 .. MaxElements] ==
        IF i = 0 THEN bucket[b]
        ELSE IF walk[i - 1] = End THEN End ELSE next[walk[i - 1]]
  IN  walk

(* s is the first element of its chain with key k.                         *)
Finds(k, s) ==
  /\ key[s] = k
  /\ \E i \in 0 .. MaxElements :
       /\ Chain(BucketOf[k])[i] = s
       /\ \A j \in 0 .. i - 1 : key[Chain(BucketOf[k])[j]] # k

FindHit(t, k) ==
  /\ Step(t, "idle", "copy")
  /\ \E s \in Slots : Finds(k, s) /\ elem' = [elem EXCEPT ![t] = s]
  /\ req' = [req EXCEPT ![t] = k]
  /\ UNCHANGED <<count, storage, bucket>>

FindMiss(t, k) ==
  /\ Step(t, "idle", "check")
  /\ \A s \in Slots : ~Finds(k, s)
  /\ req' = [req EXCEPT ![t] = k]
  /\ UNCHANGED <<count, storage, bucket, elem>>

(* The caller copies the value out of the element find returned.           *)
Copy(t) ==
  /\ pc[t] = "copy" /\ Return(t)
  /\ UNCHANGED <<count, storage, bucket>>

---------------------------------------------------------------------------
(* insert                                                                  *)

(* Mutant: the early return gives back an element it never took.           *)
CheckFullRollsBack(t) ==
  /\ pc[t] = "check"
  /\ IF count >= MaxElements
     THEN Return(t) /\ count' = count - 1
     ELSE Goto(t, "take") /\ UNCHANGED <<count, req, elem>>
  /\ UNCHANGED <<storage, bucket>>

(* A full table drops what it is given.                                    *)
CheckFull(t) ==
  /\ pc[t] = "check"
  /\ IF count >= MaxElements
     THEN Return(t)
     ELSE Goto(t, "take") /\ UNCHANGED <<req, elem>>
  /\ UNCHANGED <<count, storage, bucket>>

(* The atomic increment: its result is the index of the new element, or    *)
(* shows that other threads have filled the table since the check.         *)
Take(t) ==
  /\ Step(t, "take", IF count >= MaxElements THEN "roll_back" ELSE "fill")
  /\ elem' = [elem EXCEPT ![t] = count]
  /\ count' = count + 1
  /\ UNCHANGED <<storage, bucket, req>>

(* Mutant: the increment is not taken back.                                *)
RollBackNot(t) ==
  /\ pc[t] = "roll_back" /\ Return(t)
  /\ UNCHANGED <<count, storage, bucket>>

RollBack(t) ==
  /\ pc[t] = "roll_back" /\ Return(t)
  /\ count' = count - 1
  /\ UNCHANGED <<storage, bucket>>

(* The element is written, and linked to the head of its bucket as read.   *)
Fill(t) ==
  /\ Step(t, "fill", "push")
  /\ key' = [key EXCEPT ![elem[t]] = req[t]]
  /\ next' = [next EXCEPT ![elem[t]] = bucket[BucketOf[req[t]]]]
  /\ UNCHANGED <<count, bucket, req, elem>>

(* Mutant: a plain store in place of the compare-exchange.                 *)
PushStores(t) ==
  /\ pc[t] = "push"
  /\ bucket' = [bucket EXCEPT ![BucketOf[req[t]]] = elem[t]]
  /\ Return(t)
  /\ UNCHANGED <<count, storage>>

(* Mutant: a failed compare-exchange does not refresh what it expects.     *)
PushRetriesStale(t) ==
  /\ pc[t] = "push" /\ bucket[BucketOf[req[t]]] = next[elem[t]]
  /\ bucket' = [bucket EXCEPT ![BucketOf[req[t]]] = elem[t]]
  /\ Return(t)
  /\ UNCHANGED <<count, storage>>

(* The compare-exchange that makes the element visible.                    *)
Push(t) ==
  /\ pc[t] = "push"
  /\ LET b == BucketOf[req[t]]
     IN  IF bucket[b] = next[elem[t]]
         THEN /\ bucket' = [bucket EXCEPT ![b] = elem[t]]
              /\ Return(t)
              /\ UNCHANGED next
         ELSE /\ next' = [next EXCEPT ![elem[t]] = bucket[b]]
              /\ UNCHANGED <<bucket, pc, req, elem>>
  /\ UNCHANGED <<count, key>>

---------------------------------------------------------------------------
Find(t) == \E k \in Keys : FindHit(t, k) \/ FindMiss(t, k)

Proceed(t) ==
  Copy(t) \/ CheckFull(t) \/ Take(t) \/ RollBack(t) \/ Fill(t) \/ Push(t)

Next == \E t \in Threads : Find(t) \/ Proceed(t)

Spec == Init /\ [][Next]_vars

(* Every thread runs, and none has to call again.                          *)
FairSpec == Spec /\ \A t \in Threads : WF_vars(Proceed(t))

---------------------------------------------------------------------------
At(labels) == {t \in Threads : pc[t] \in labels}
Used == {s \in Slots : key[s] # NULL}
Filling == {elem[t] : t \in At({"fill"})}
Taken == Used \cup Filling
InChain(b) == {Chain(b)[i] : i \in 0 .. MaxElements} \ {End}

(* Every variable has its type.                                            *)
TypeOK ==
  /\ count \in Nat
  /\ key \in [Slots -> Keys \cup {NULL}]
  /\ next \in [Slots -> Slots \cup {End}]
  /\ bucket \in [Buckets -> Slots \cup {End}]
  /\ pc \in [Threads -> {"idle", "copy", "check", "take", "roll_back", "fill", "push"}]
  /\ req \in [Threads -> Keys \cup {NULL}]
  /\ elem \in [Threads -> Nat \cup {End}]
  /\ \A t \in Threads : pc[t] # "idle" => req[t] \in Keys
  /\ \A t \in Threads : pc[t] \in {"copy", "fill", "push"} => elem[t] \in Slots

(* current_element_count_ counts the slots given out and the threads about *)
(* to take their increment back; there are such threads only when every    *)
(* slot is given out, so taking back never frees one.                      *)
CountIsExact ==
  \E m \in 0 .. MaxElements :
    /\ Taken = 0 .. m - 1
    /\ count = m + Cardinality(At({"roll_back"}))
    /\ At({"roll_back"}) # {} => m = MaxElements

(* No two inserts write one slot, and none writes a slot that was written  *)
(* before or that a reader can reach.                                      *)
SlotsAreOwned ==
  /\ \A s, t \in At({"fill", "push"}) : elem[s] = elem[t] => s = t
  /\ \A t \in At({"fill"}) : elem[t] \notin Used
  /\ \A t \in At({"fill", "push"}) :
       /\ \A s \in Slots : next[s] # elem[t]
       /\ \A b \in Buckets : bucket[b] # elem[t]

(* The chains hold every element that was written and pushed, each in the  *)
(* bucket of its key, and none of them loops.                              *)
ChainsAreComplete ==
  /\ \A b \in Buckets :
       /\ Chain(b)[MaxElements] = End
       /\ \A s \in InChain(b) : key[s] \in Keys /\ BucketOf[key[s]] = b
  /\ UNION {InChain(b) : b \in Buckets} = Used \ {elem[t] : t \in At({"push"})}

(* find returns a pointer, and insert never invalidates one ("never        *)
(* invalidate iterators"): the caller copies the value of the key it asked *)
(* for.                                                                    *)
FoundElementKept == \A t \in At({"copy"}) : key[elem[t]] = req[t]

(* What find walks through stays as it is: a chain only grows at its head, *)
(* so a key that was stored is found from then on.                         *)
ChainsOnlyGrow ==
  [][\A b \in Buckets : \A s \in InChain(b) :
       s \in InChain(b)' /\ next'[s] = next[s] /\ key'[s] = key[s]]_vars

(* Every call returns: the compare-exchange fails only when another thread *)
(* has pushed, which it does once for each slot.                           *)
CallReturns == \A t \in Threads : pc[t] # "idle" ~> pc[t] = "idle"
=============================================================================
