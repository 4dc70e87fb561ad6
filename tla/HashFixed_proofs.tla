-------------------------- MODULE HashFixed_proofs --------------------------
(***************************************************************************)
(* HashFixed for any number of threads, keys, buckets and elements: no two *)
(* inserts ever share a slot, the element counter is exact, a pointer find *)
(* has returned stays good, and the chains hold every element that was     *)
(* pushed, whatever inserts are under way.                                 *)
(***************************************************************************)
EXTENDS HashFixed, ListLemmas, FiniteSetTheorems, TLAPS

USE ConstantsAssumption

(* Every link leads to an element that was written, and what a thread is   *)
(* about to push it has written.                                           *)
LinksAreWritten ==
  /\ \A s \in Slots : next[s] \in Used \cup {End}
  /\ \A b \in Buckets : bucket[b] \in Used \cup {End}
  /\ \A t \in At({"push"}) : elem[t] \in Used

Inv == TypeOK /\ CountIsExact /\ SlotsAreOwned /\ LinksAreWritten /\ FoundElementKept

Overshooting == At({"roll_back"})

---------------------------------------------------------------------------
(* The threads that went over the limit and have not come back are        *)
(* finitely many.                                                          *)
LEMMA OvershootingFinite ==
  /\ IsFiniteSet(Overshooting)
  /\ Cardinality(Overshooting) \in Nat
  /\ Overshooting = {} => Cardinality(Overshooting) = 0
BY FS_Subset, FS_CardinalityType, FS_EmptySet DEF Overshooting, At

(* The invariant holds of an empty table,                                  *)
LEMMA InitInv == Init => Inv
<1> SUFFICES ASSUME Init PROVE Inv
  OBVIOUS
<1>1. TypeOK
  BY DEF Init, TypeOK, Slots, End
<1>2. Used = {} /\ Filling = {} /\ Overshooting = {}
  BY DEF Init, Used, Filling, Overshooting, At
<1>3. CountIsExact
  <2>1. Taken = 0 .. 0 - 1 /\ count = 0 + Cardinality(Overshooting)
    BY <1>2, OvershootingFinite DEF Init, Taken
  <2> QED
    BY <2>1, <1>2 DEF CountIsExact, Overshooting
<1>4. SlotsAreOwned /\ LinksAreWritten /\ FoundElementKept
  BY DEF Init, SlotsAreOwned, LinksAreWritten, FoundElementKept, At, Slots
<1> QED
  BY <1>1, <1>3, <1>4 DEF Inv

(* Where a thread goes says which sets of threads it joins and leaves.     *)
LEMMA AtGoto ==
  ASSUME TypeOK, NEW t \in Threads, NEW label, Goto(t, label), NEW L
  PROVE  At(L)' = IF label \in L THEN At(L) \cup {t} ELSE At(L) \ {t}
BY DEF At, Goto, TypeOK

---------------------------------------------------------------------------
(* Every step keeps the types.                                             *)
LEMMA TypeStep == Inv /\ [Next]_vars => TypeOK'
<1> SUFFICES ASSUME Inv, [Next]_vars PROVE TypeOK'
  OBVIOUS
<1> USE DEF Inv, TypeOK
<1>1. ASSUME NEW t \in Threads, NEW k \in Keys, FindHit(t, k) PROVE TypeOK'
  BY <1>1 DEF FindHit, Step, Goto, storage, Slots
<1>2. ASSUME NEW t \in Threads, NEW k \in Keys, FindMiss(t, k) PROVE TypeOK'
  BY <1>2 DEF FindMiss, Step, Goto, storage
<1>3. ASSUME NEW t \in Threads, Copy(t) PROVE TypeOK'
  BY <1>3 DEF Copy, Return, Goto, storage
<1>4. ASSUME NEW t \in Threads, CheckFull(t) PROVE TypeOK'
  BY <1>4 DEF CheckFull, Return, Goto, storage
<1>5. ASSUME NEW t \in Threads, Take(t) PROVE TypeOK'
  BY <1>5 DEF Take, Step, Goto, storage, Slots
<1>6. ASSUME NEW t \in Threads, RollBack(t) PROVE TypeOK'
  <2>1. t \in Overshooting
    BY <1>6 DEF RollBack, Overshooting, At
  <2>2. Cardinality(Overshooting) # 0
    BY <2>1, OvershootingFinite, FS_EmptySet
  <2>3. count - 1 \in Nat
    BY <2>2, OvershootingFinite DEF CountIsExact, Overshooting
  <2> QED
    BY <1>6, <2>3 DEF RollBack, Return, Goto, storage
<1>7. ASSUME NEW t \in Threads, Fill(t) PROVE TypeOK'
  BY <1>7 DEF Fill, Step, Goto, storage
<1>8. ASSUME NEW t \in Threads, Push(t) PROVE TypeOK'
  BY <1>8 DEF Push, Return, Goto, storage
<1>9. CASE UNCHANGED vars
  BY <1>9 DEF vars, storage
<1> QED
  BY <1>1, <1>2, <1>3, <1>4, <1>5, <1>6, <1>7, <1>8, <1>9 DEF Next, Find, Proceed

(* A step that gives out no slot and takes no increment back.              *)
LEMMA CountStays ==
  ASSUME CountIsExact, UNCHANGED count, Taken' = Taken, Overshooting' = Overshooting
  PROVE  CountIsExact'
BY DEF CountIsExact, Overshooting

(* Every step keeps size_ equal to what the table holds or is about to.    *)
LEMMA CountStep == Inv /\ [Next]_vars => CountIsExact'
<1> SUFFICES ASSUME Inv, [Next]_vars PROVE CountIsExact'
  OBVIOUS
<1> USE DEF Inv
<1> DEFINE Quiet(t) ==
      /\ \E l \in {"idle", "copy", "check", "take", "push"} : Goto(t, l)
      /\ pc[t] \notin {"roll_back", "fill"}
      /\ UNCHANGED <<count, key>>
      /\ \A u \in Threads \ {t} : elem'[u] = elem[u]
<1>1. ASSUME NEW t \in Threads, Quiet(t) PROVE CountIsExact'
  <2>1. At({"roll_back"})' = At({"roll_back"}) /\ At({"fill"})' = At({"fill"})
    <3>1. t \notin At({"roll_back"}) /\ t \notin At({"fill"})
      BY <1>1 DEF At
    <3> QED
      BY <1>1, <3>1, AtGoto
  <2>2. Filling' = Filling
    BY <1>1, <2>1 DEF Filling, At
  <2>3. Used' = Used
    BY <1>1 DEF Used
  <2> QED
    BY <1>1, <2>1, <2>2, <2>3, CountStays DEF Taken, Overshooting
<1>2. ASSUME NEW t \in Threads, NEW k \in Keys, FindHit(t, k) \/ FindMiss(t, k) PROVE Quiet(t)
  BY <1>2 DEF FindHit, FindMiss, Step, storage, TypeOK
<1>3. ASSUME NEW t \in Threads, Copy(t) \/ CheckFull(t) PROVE Quiet(t)
  BY <1>3 DEF Copy, CheckFull, Return, storage, TypeOK
<1>4. ASSUME NEW t \in Threads, Push(t), pc'[t] = "idle" PROVE Quiet(t)
  BY <1>4 DEF Push, Return, storage, TypeOK
<1>5. ASSUME NEW t \in Threads, Push(t), pc'[t] # "idle" PROVE CountIsExact'
  <2>1. UNCHANGED <<pc, elem, key, count>>
    BY <1>5 DEF Push, Return, Goto, TypeOK
  <2> QED
    BY <2>1, CountStays DEF Taken, Used, Filling, Overshooting, At
<1>6. ASSUME NEW t \in Threads, Take(t) PROVE CountIsExact'
  <2>1. PICK m \in 0 .. MaxElements :
          /\ Taken = 0 .. m - 1
          /\ count = m + Cardinality(Overshooting)
          /\ Overshooting # {} => m = MaxElements
    BY DEF CountIsExact, Overshooting
  <2>2. Used' = Used /\ count' = count + 1 /\ t \notin Overshooting /\ t \notin At({"fill"})
    BY <1>6 DEF Take, Step, storage, Used, Overshooting, At
  <2>3. CASE count >= MaxElements
    <3>1. m = MaxElements
      BY <2>1, <2>3, OvershootingFinite
    <3>2. Goto(t, "roll_back")
      BY <1>6, <2>3 DEF Take, Step
    <3>3. Overshooting' = Overshooting \cup {t}
      BY <3>2, AtGoto DEF Overshooting
    <3>4. Cardinality(Overshooting') = Cardinality(Overshooting) + 1
      BY <2>2, <3>3, OvershootingFinite, FS_AddElement
    <3>5. At({"fill"})' = At({"fill"})
      BY <2>2, <3>2, AtGoto
    <3>6. Taken' = Taken
      BY <1>6, <2>2, <3>5 DEF Taken, Filling, Take, TypeOK, At
    <3> QED
      BY <2>1, <2>2, <3>1, <3>4, <3>6, OvershootingFinite DEF CountIsExact, Overshooting
  <2>4. CASE count < MaxElements
    <3>1. Overshooting = {} /\ count = m
      BY <2>1, <2>4, OvershootingFinite
    <3>2. Goto(t, "fill")
      BY <1>6, <2>4 DEF Take, Step, TypeOK
    <3>3. Overshooting' = {}
      BY <3>1, <3>2, AtGoto DEF Overshooting
    <3>4. At({"fill"})' = At({"fill"}) \cup {t}
      BY <3>2, AtGoto
    <3>5. Filling' = Filling \cup {m}
      BY <1>6, <2>2, <3>1, <3>4 DEF Filling, Take, TypeOK, At
    <3>6. Taken' = 0 .. (m + 1) - 1
      BY <2>1, <2>2, <3>5 DEF Taken
    <3>7. Cardinality(Overshooting') = 0
      BY <3>3, FS_EmptySet
    <3>8. m + 1 \in 0 .. MaxElements /\ count' = (m + 1) + Cardinality(Overshooting')
      BY <2>2, <2>4, <3>1, <3>7
    <3> QED
      BY <3>3, <3>6, <3>8 DEF CountIsExact, Overshooting
  <2> QED
    BY <2>3, <2>4 DEF TypeOK
<1>7. ASSUME NEW t \in Threads, RollBack(t) PROVE CountIsExact'
  <2>1. PICK m \in 0 .. MaxElements :
          /\ Taken = 0 .. m - 1
          /\ count = m + Cardinality(Overshooting)
          /\ Overshooting # {} => m = MaxElements
    BY DEF CountIsExact, Overshooting
  <2>2. /\ t \in Overshooting /\ t \notin At({"fill"})
        /\ Goto(t, "idle") /\ count' = count - 1 /\ Used' = Used
    BY <1>7 DEF RollBack, Return, storage, Used, Overshooting, At
  <2>3. Overshooting' = Overshooting \ {t} /\ At({"fill"})' = At({"fill"})
    BY <2>2, AtGoto DEF Overshooting
  <2>4. Cardinality(Overshooting') = Cardinality(Overshooting) - 1
    BY <2>2, <2>3, OvershootingFinite, FS_RemoveElement
  <2>5. Taken' = Taken
    BY <1>7, <2>2, <2>3 DEF Taken, Filling, RollBack, Return, TypeOK, At
  <2> QED
    BY <2>1, <2>2, <2>4, <2>5, OvershootingFinite DEF CountIsExact, Overshooting
<1>8. ASSUME NEW t \in Threads, Fill(t) PROVE CountIsExact'
  <2>1. t \in At({"fill"}) /\ t \notin Overshooting /\ Goto(t, "push") /\ elem' = elem /\ elem[t] \in Slots
    BY <1>8 DEF Fill, Step, At, TypeOK, Overshooting
  <2>2. At({"fill"})' = At({"fill"}) \ {t} /\ Overshooting' = Overshooting
    <3>1. At({"fill"})' = At({"fill"}) \ {t}
      BY <2>1, AtGoto
    <3>2. At({"roll_back"})' = At({"roll_back"}) \ {t}
      BY <2>1, AtGoto
    <3> QED
      BY <2>1, <3>1, <3>2 DEF Overshooting
  <2>3. Used' = Used \cup {elem[t]}
    BY <1>8, <2>1 DEF Used, Fill, Step, TypeOK
  <2>4. Filling' \cup {elem[t]} = Filling
    BY <2>1, <2>2 DEF Filling
  <2>5. Taken' = Taken
    BY <2>3, <2>4 DEF Taken
  <2> QED
    BY <1>8, <2>2, <2>5, CountStays DEF Fill
<1>9. CASE UNCHANGED vars
  BY <1>9, CountStays DEF vars, storage, Taken, Used, Filling, Overshooting, At
<1> QED
  BY <1>1, <1>2, <1>3, <1>4, <1>5, <1>6, <1>7, <1>8, <1>9 DEF Next, Find, Proceed

---------------------------------------------------------------------------
(* The slot an insert gets is in nobody's hands yet.                       *)
LEMMA NextSlotIsFree ==
  ASSUME Inv, count < MaxElements
  PROVE  count \in Slots /\ count \notin Taken
<1>1. Overshooting = {}
  BY OvershootingFinite DEF Inv, TypeOK, CountIsExact, Overshooting
<1> QED
  BY <1>1, OvershootingFinite DEF Inv, TypeOK, CountIsExact, Overshooting, Slots

(* Every step leaves the slots in use to one owner each.                   *)
LEMMA OwnedStep == Inv /\ [Next]_vars => SlotsAreOwned' /\ LinksAreWritten' /\ FoundElementKept'
<1> DEFINE Owned == SlotsAreOwned /\ LinksAreWritten /\ FoundElementKept
<1> SUFFICES ASSUME Inv, [Next]_vars PROVE Owned'
  OBVIOUS
<1> USE DEF SlotsAreOwned, LinksAreWritten, FoundElementKept, At, Used
<1>1. ASSUME NEW t \in Threads, NEW k \in Keys, FindHit(t, k) PROVE Owned'
  BY <1>1 DEF FindHit, Finds, Step, Goto, storage, Inv, TypeOK
<1>2. ASSUME NEW t \in Threads, NEW k \in Keys, FindMiss(t, k) PROVE Owned'
  BY <1>2 DEF FindMiss, Step, Goto, storage, Inv, TypeOK
<1>3. ASSUME NEW t \in Threads, Copy(t) PROVE Owned'
  BY <1>3 DEF Copy, Return, Goto, storage, Inv, TypeOK
<1>4. ASSUME NEW t \in Threads, CheckFull(t) PROVE Owned'
  BY <1>4 DEF CheckFull, Return, Goto, storage, Inv, TypeOK
<1>5. ASSUME NEW t \in Threads, Take(t) PROVE Owned'
  <2>1. CASE count >= MaxElements
    BY <1>5, <2>1 DEF Take, Step, Goto, storage, Inv, TypeOK
  <2>2. CASE count < MaxElements
    <3>1. count \in Slots /\ count \notin Taken /\ count # End
      BY <2>2, NextSlotIsFree DEF Slots, End
    <3> QED
      BY <1>5, <2>2, <3>1 DEF Take, Step, Goto, storage, Inv, TypeOK, Taken, Filling
  <2> QED
    BY <2>1, <2>2 DEF Inv, TypeOK
<1>6. ASSUME NEW t \in Threads, RollBack(t) PROVE Owned'
  BY <1>6 DEF RollBack, Return, Goto, storage, Inv, TypeOK
<1>7. ASSUME NEW t \in Threads, Fill(t) PROVE Owned'
  <2>1. elem' = elem /\ bucket' = bucket /\ req' = req /\ elem[t] \in Slots
    BY <1>7 DEF Fill, Step, Inv, TypeOK
  <2>2. /\ key' = [key EXCEPT ![elem[t]] = req[t]] /\ req[t] \in Keys
        /\ next' = [next EXCEPT ![elem[t]] = bucket[BucketOf[req[t]]]]
        /\ pc[t] = "fill" /\ pc' = [pc EXCEPT ![t] = "push"]
        /\ BucketOf[req[t]] \in Buckets
    BY <1>7 DEF Fill, Step, Goto, Inv, TypeOK
  <2>3. SlotsAreOwned'
    BY <2>1, <2>2 DEF Inv, TypeOK
  <2>4. LinksAreWritten'
    BY <2>1, <2>2 DEF Inv, TypeOK
  <2>5. FoundElementKept'
    BY <2>1, <2>2 DEF Inv, TypeOK
  <2> QED
    BY <2>3, <2>4, <2>5
<1>8. ASSUME NEW t \in Threads, Push(t) PROVE Owned'
  <2>1. req[t] \in Keys /\ BucketOf[req[t]] \in Buckets /\ elem[t] \in Slots /\ pc[t] = "push"
    BY <1>8 DEF Push, Inv, TypeOK
  <2>2. CASE bucket[BucketOf[req[t]]] = next[elem[t]]
    BY <1>8, <2>1, <2>2 DEF Push, Return, Goto, Inv, TypeOK
  <2>3. CASE bucket[BucketOf[req[t]]] # next[elem[t]]
    BY <1>8, <2>1, <2>3 DEF Push, Inv, TypeOK
  <2> QED
    BY <2>2, <2>3
<1>9. CASE UNCHANGED vars
  BY <1>9 DEF vars, storage, Inv
<1> QED
  BY <1>1, <1>2, <1>3, <1>4, <1>5, <1>6, <1>7, <1>8, <1>9 DEF Next, Find, Proceed

(* The invariant holds in every reachable state.                           *)
LEMMA Invariance == Spec => []Inv
<1>1. Inv /\ [Next]_vars => Inv'
  BY TypeStep, CountStep, OwnedStep DEF Inv
<1> QED
  BY InitInv, <1>1, PTL DEF Spec

---------------------------------------------------------------------------
(* Each variable keeps its type; the counter, in particular, never goes    *)
(* below zero and no thread writes outside storage_.                       *)
THEOREM TypeIsCorrect == Spec => []TypeOK
BY Invariance, PTL DEF Inv

(* The counter is the number of slots given out and of the increments that *)
(* are about to be taken back.                                             *)
THEOREM CounterIsExact == Spec => []CountIsExact
BY Invariance, PTL DEF Inv

(* However many inserts run, each has a slot of its own until it is pushed *)
(* and writes it only before a reader can reach it.                        *)
THEOREM SlotsAreNeverShared == Spec => []SlotsAreOwned
BY Invariance, PTL DEF Inv

(* The element find returned holds the key asked for until the caller has  *)
(* copied it, whatever other threads insert.                               *)
THEOREM FoundElementsStay == Spec => []FoundElementKept
BY Invariance, PTL DEF Inv

---------------------------------------------------------------------------
(* What the chains hold.  An element about to be pushed is in use and in   *)
(* no chain yet.                                                           *)
Pushing == {elem[t] : t \in At({"push"})}
Stored(b) == {s \in Used \ Pushing : BucketOf[key[s]] = b}

(* An element about to be pushed holds the key it is stored for.           *)
PushesItsKey == \A t \in At({"push"}) : key[elem[t]] = req[t]

(* Every chain holds what is stored in its bucket.                         *)
ChainsHoldTheStored == \A b \in Buckets : HasChain(next, bucket[b], End, Stored(b))

ChainInv == Inv /\ PushesItsKey /\ ChainsHoldTheStored

(* What a step may do to the chains: they keep what they hold.             *)
ChainsKeep ==
  \A b \in Buckets : \A s \in Stored(b) : s \in Stored(b)' /\ next'[s] = next[s] /\ key'[s] = key[s]

(* All chains are empty at first.                                          *)
LEMMA InitChains == Init => ChainInv
<1> SUFFICES ASSUME Init PROVE ChainInv
  OBVIOUS
<1>1. ASSUME NEW b \in Buckets  PROVE HasChain(next, bucket[b], End, Stored(b))
  <2>1. bucket[b] = End /\ Stored(b) = {}
    BY DEF Init, Stored, Used
  <2>2. HasChain(next, End, End, {})
    BY EmptyChain
  <2> QED BY <2>1, <2>2
<1>2. PushesItsKey
  BY DEF Init, PushesItsKey, At
<1> QED BY <1>1, <1>2, InitInv DEF ChainInv, ChainsHoldTheStored

(* A step that leaves alone what the chains are made of.                   *)
LEMMA ChainsStay ==
  ASSUME ChainInv, UNCHANGED <<key, next, bucket>>, Pushing' = Pushing, PushesItsKey'
  PROVE  PushesItsKey' /\ ChainsHoldTheStored' /\ ChainsKeep
<1>1. \A b \in Buckets : Stored(b)' = Stored(b)
  BY DEF Stored, Used
<1> QED BY <1>1 DEF ChainInv, ChainsHoldTheStored, ChainsKeep

(* Every step keeps the chains and what they hold.                         *)
LEMMA ChainStep == ChainInv /\ [Next]_vars => PushesItsKey' /\ ChainsHoldTheStored' /\ ChainsKeep
<1> DEFINE Goal == PushesItsKey' /\ ChainsHoldTheStored' /\ ChainsKeep
<1> SUFFICES ASSUME ChainInv, [Next]_vars PROVE Goal
  OBVIOUS
<1>t. TypeOK /\ Inv
  BY DEF ChainInv, Inv
<1> DEFINE Quiet(t) ==
      /\ \E l \in {"idle", "copy", "check", "take", "roll_back", "fill"} : Goto(t, l)
      /\ pc[t] # "push"
      /\ UNCHANGED <<key, next, bucket>>
      /\ \A u \in Threads \ {t} : elem'[u] = elem[u] /\ req'[u] = req[u]
<1>1. ASSUME NEW t \in Threads, Quiet(t) PROVE Goal
  <2>1. At({"push"})' = At({"push"})
    <3>1. t \notin At({"push"})
      BY <1>1 DEF At
    <3>2. PICK l : l # "push" /\ Goto(t, l)
      BY <1>1
    <3>3. At({"push"})' = At({"push"}) \ {t}
      BY <3>2, <1>t, AtGoto
    <3> QED BY <3>1, <3>3
  <2>2. t \notin At({"push"}) /\ At({"push"}) \subseteq Threads
    BY <1>1 DEF At
  <2>3. Pushing' = Pushing /\ PushesItsKey'
    BY <1>1, <2>1, <2>2 DEF Pushing, PushesItsKey, ChainInv
  <2> QED BY <1>1, <2>3, ChainsStay
<1>2. ASSUME NEW t \in Threads, NEW k \in Keys, FindHit(t, k) \/ FindMiss(t, k) PROVE Quiet(t)
  BY <1>2, <1>t DEF FindHit, FindMiss, Step, storage, TypeOK
<1>3. ASSUME NEW t \in Threads, Copy(t) \/ CheckFull(t) \/ RollBack(t) PROVE Quiet(t)
  BY <1>3, <1>t DEF Copy, CheckFull, RollBack, Return, storage, TypeOK
<1>4. ASSUME NEW t \in Threads, Take(t) PROVE Quiet(t)
  BY <1>4, <1>t DEF Take, Step, storage, TypeOK
<1>5. ASSUME NEW t \in Threads, Fill(t) PROVE Goal
  <2>1. PICK s, k : s = elem[t] /\ k = req[t]
    OBVIOUS
  <2>2. /\ s \in Slots /\ k \in Keys /\ k # NULL /\ s \notin Used /\ t \in At({"fill"})
        /\ Goto(t, "push") /\ UNCHANGED <<bucket, req, elem>>
        /\ key' = [key EXCEPT ![s] = k]
        /\ \A x \in Slots : x # s => key'[x] = key[x] /\ next'[x] = next[x]
    BY <1>5, <1>t, <2>1 DEF Fill, Step, At, Inv, TypeOK, SlotsAreOwned
  <2>3. At({"push"})' = At({"push"}) \cup {t}
    BY <2>2, <1>t, AtGoto
  <2>4. Pushing' = Pushing \cup {s}
    BY <2>1, <2>2, <2>3 DEF Pushing
  <2>5. key'[s] = k
    BY <2>2, <1>t DEF TypeOK
  <2>6. PushesItsKey'
    <3>1. ASSUME NEW u \in At({"push"})  PROVE key'[elem[u]] = req[u]
      <4>1. elem[u] \in Used /\ elem[u] \in Slots
        BY <1>t DEF Inv, LinksAreWritten, Used
      <4>2. key[elem[u]] = req[u]
        BY DEF ChainInv, PushesItsKey
      <4> QED BY <4>1, <4>2, <2>2
    <3> QED BY <3>1, <2>1, <2>2, <2>3, <2>5 DEF PushesItsKey
  <2>7. Used' = Used \cup {s} /\ \A x \in Used : x # s /\ x \in Slots /\ key'[x] = key[x]
    BY <2>2, <2>5 DEF Used
  <2>8. ASSUME NEW b \in Buckets
        PROVE  /\ Stored(b)' = Stored(b) /\ HasChain(next, bucket[b], End, Stored(b))'
               /\ \A x \in Stored(b) : x \in Slots /\ x # s
    <3>1. Stored(b)' = Stored(b)
      BY <2>4, <2>7 DEF Stored
    <3>2. \A x \in Stored(b) : x \in Slots /\ x # s
      BY <2>7 DEF Stored
    <3>3. HasChain(next, bucket[b], End, Stored(b))
      BY DEF ChainInv, ChainsHoldTheStored
    <3>4. HasChain(next', bucket[b], End, Stored(b))
      BY <2>2, <3>2, <3>3, SameChain
    <3> QED BY <3>1, <3>2, <3>4, <2>2
  <2> QED BY <2>2, <2>6, <2>8 DEF ChainsHoldTheStored, ChainsKeep
<1>6. ASSUME NEW t \in Threads, Push(t) PROVE Goal
  <2>1. PICK s, k, h : s = elem[t] /\ k = req[t] /\ h = BucketOf[k]
    OBVIOUS
  <2>2. s \in Slots /\ k \in Keys /\ h \in Buckets /\ t \in At({"push"}) /\ key' = key /\ pc[t] = "push"
    BY <1>6, <1>t, <2>1 DEF Push, At, TypeOK
  <2>3. s \in Used /\ s \in Pushing /\ key[s] = k
    BY <2>1, <2>2, <1>t DEF Pushing, ChainInv, PushesItsKey, Inv, LinksAreWritten
  <2>4. \A b \in Buckets : s \notin Stored(b) /\ Stored(b) \subseteq Slots
    BY <2>3 DEF Stored, Used
  <2>5. Used' = Used
    BY <2>2 DEF Used
  <2>6. CASE bucket[h] = next[s]
    <3>1. /\ bucket' = [bucket EXCEPT ![h] = s] /\ next' = next
          /\ Goto(t, "idle") /\ \A u \in Threads \ {t} : elem'[u] = elem[u] /\ req'[u] = req[u]
      BY <1>6, <2>1, <2>6, <1>t DEF Push, Return, TypeOK
    <3>2. At({"push"})' = At({"push"}) \ {t}
      BY <3>1, <1>t, AtGoto
    <3>3. At({"push"}) \subseteq Threads /\ \A u \in At({"push"}) : elem[u] = s => u = t
      BY <2>1, <2>2, <1>t DEF At, Inv, SlotsAreOwned
    <3>4. Pushing' = Pushing \ {s}
      BY <2>1, <3>1, <3>2, <3>3 DEF Pushing
    <3>5. PushesItsKey'
      BY <2>2, <3>1, <3>2, <3>3 DEF ChainInv, PushesItsKey
    <3>6. ASSUME NEW b \in Buckets
          PROVE  /\ HasChain(next, bucket[b], End, Stored(b))'
                 /\ Stored(b) \subseteq Stored(b)'
      <4>1. HasChain(next, bucket[b], End, Stored(b))
        BY DEF ChainInv, ChainsHoldTheStored
      <4>2. CASE b = h
        <5>1. Stored(b)' = Stored(b) \cup {s}
          BY <2>1, <2>2, <2>3, <2>5, <3>4, <4>2 DEF Stored
        <5>2. bucket'[b] = s /\ next[s] = bucket[b] /\ s # End
          BY <2>2, <2>6, <3>1, <4>2, <1>t DEF TypeOK, Slots, End
        <5>3. HasChain(next, s, End, Stored(b) \cup {s})
          BY <2>4, <4>1, <5>2, PushChain
        <5> QED BY <3>1, <5>1, <5>2, <5>3 DEF End
      <4>3. CASE b # h
        <5>1. Stored(b)' = Stored(b)
          BY <2>1, <2>2, <2>3, <2>5, <3>4, <4>3 DEF Stored
        <5>2. bucket'[b] = bucket[b]
          BY <3>1, <4>3, <1>t DEF TypeOK
        <5> QED BY <3>1, <4>1, <5>1, <5>2 DEF End
      <4> QED BY <4>2, <4>3
    <3> QED BY <2>2, <3>1, <3>5, <3>6 DEF ChainsHoldTheStored, ChainsKeep
  <2>7. CASE bucket[h] # next[s]
    <3>1. UNCHANGED <<bucket, pc, req, elem>> /\ \A x \in Slots : x # s => next'[x] = next[x]
      BY <1>6, <2>1, <2>7, <1>t DEF Push, TypeOK
    <3>2. Pushing' = Pushing /\ PushesItsKey'
      BY <2>2, <3>1 DEF Pushing, PushesItsKey, At, ChainInv
    <3>3. ASSUME NEW b \in Buckets
          PROVE  Stored(b)' = Stored(b) /\ HasChain(next, bucket[b], End, Stored(b))'
      <4>1. Stored(b)' = Stored(b)
        BY <2>2, <2>5, <3>2 DEF Stored
      <4>2. HasChain(next, bucket[b], End, Stored(b))
        BY DEF ChainInv, ChainsHoldTheStored
      <4>3. \A x \in Stored(b) : next'[x] = next[x]
        BY <2>4, <3>1
      <4>4. HasChain(next', bucket[b], End, Stored(b))
        BY <4>2, <4>3, SameChain
      <4> QED BY <3>1, <4>1, <4>4 DEF End
    <3>4. \A b \in Buckets : \A x \in Stored(b) : next'[x] = next[x]
      BY <2>4, <3>1
    <3> QED BY <2>2, <3>2, <3>3, <3>4 DEF ChainsHoldTheStored, ChainsKeep
  <2> QED BY <2>6, <2>7
<1>7. CASE UNCHANGED vars
  <2>1. UNCHANGED <<key, next, bucket>> /\ Pushing' = Pushing /\ PushesItsKey'
    BY <1>7 DEF vars, storage, Pushing, PushesItsKey, At, ChainInv
  <2> QED BY <2>1, ChainsStay
<1> QED
  BY <1>1, <1>2, <1>3, <1>4, <1>5, <1>6, <1>7 DEF Next, Find, Proceed

---------------------------------------------------------------------------
(* find's walk through a bucket meets what is stored there, and its end.   *)
LEMMA ChainMeetsStored ==
  ASSUME ChainInv, NEW b \in Buckets
  PROVE  InChain(b) = Stored(b) /\ Chain(b)[MaxElements] = End
<1>t. TypeOK
  BY DEF ChainInv, Inv
<1>1. PICK h, w : h = bucket[b] /\ w = Chain(b)
  OBVIOUS
<1>2. IsFiniteSet(Slots) /\ MaxElements = Cardinality(Slots) /\ End \notin Slots
  BY FS_Interval DEF Slots, End
<1>3. h \in Slots \cup {End} /\ \A s \in Slots : next[s] \in Slots \cup {End}
  BY <1>t, <1>1 DEF TypeOK
<1>4. \E v : IsWalkTo(v, next, h, End, MaxElements)
  BY <1>2, <1>3, WalkExists
<1>5. w = CHOOSE v : IsWalkTo(v, next, h, End, MaxElements)
  BY <1>1 DEF Chain, IsWalkTo
<1>6. IsWalkTo(w, next, h, End, MaxElements)
  BY <1>4, <1>5
<1>7. HasChain(next, h, End, Stored(b)) /\ Stored(b) \subseteq Slots
  BY <1>1 DEF ChainInv, ChainsHoldTheStored, Stored, Used
<1>8. {w[i] : i \in 0 .. MaxElements} \ {End} = Stored(b) /\ w[MaxElements] = End
  BY <1>2, <1>3, <1>6, <1>7, WalkToTheEnd
<1> QED BY <1>1, <1>8 DEF InChain

(* The invariant with the chains holds in every reachable state.           *)
LEMMA ChainInvariance == Spec => []ChainInv
<1>1. ChainInv /\ [Next]_vars => ChainInv'
  BY TypeStep, CountStep, OwnedStep, ChainStep DEF ChainInv, Inv
<1> QED BY InitChains, <1>1, PTL DEF Spec

(* What the chains hold.                                                   *)
LEMMA StoredIsComplete == ChainInv => ChainsAreComplete
<1> SUFFICES ASSUME ChainInv PROVE ChainsAreComplete
  OBVIOUS
<1>1. \A b \in Buckets : InChain(b) = Stored(b) /\ Chain(b)[MaxElements] = End
  BY ChainMeetsStored
<1>2. \A s \in Used : key[s] \in Keys /\ BucketOf[key[s]] \in Buckets
  BY DEF ChainInv, Inv, TypeOK, Used
<1>3. \A b \in Buckets : \A s \in InChain(b) : key[s] \in Keys /\ BucketOf[key[s]] = b
  BY <1>1, <1>2 DEF Stored
<1>4. UNION {InChain(b) : b \in Buckets} = UNION {Stored(b) : b \in Buckets}
  <2> HIDE DEF InChain, Stored
  <2> QED BY <1>1, Zenon
<1>5. UNION {Stored(b) : b \in Buckets} = Used \ Pushing
  BY <1>2 DEF Stored
<1> QED BY <1>1, <1>3, <1>4, <1>5 DEF ChainsAreComplete, Pushing

(* find sees every element that was pushed, in the bucket of its key, and  *)
(* its walk ends, whatever inserts are under way.                          *)
THEOREM ChainsHoldAll == Spec => []ChainsAreComplete
BY ChainInvariance, StoredIsComplete, PTL

(* No insert, finished or half done, changes what a lookup walks through.  *)
THEOREM ChainsGrow == Spec => ChainsOnlyGrow
<1> DEFINE Grow == \A b \in Buckets : \A s \in InChain(b) :
                     s \in InChain(b)' /\ next'[s] = next[s] /\ key'[s] = key[s]
<1> DEFINE Seen == \A b \in Buckets : InChain(b) = Stored(b)
<1>1. ChainInv => Seen
  BY ChainMeetsStored
<1>2. ASSUME ChainInv, Seen, Seen', [Next]_vars  PROVE [Grow]_vars
  <2>1. ASSUME NEW b \in Buckets, NEW s \in InChain(b)
        PROVE  s \in InChain(b)' /\ next'[s] = next[s] /\ key'[s] = key[s]
    <3>1. InChain(b) = Stored(b) /\ InChain(b)' = Stored(b)'
      BY <1>2
    <3>2. ChainsKeep
      BY <1>2, ChainStep
    <3> QED BY <2>1, <3>1, <3>2 DEF ChainsKeep
  <2> QED BY <2>1
<1> HIDE DEF Grow, Seen
<1>3. Spec => [][Grow]_vars
  BY <1>1, <1>2, ChainInvariance, PTL DEF Spec
<1> QED BY <1>3 DEF ChainsOnlyGrow, Grow
=============================================================================
