------------------------- MODULE BucketChain_proofs -------------------------
(***************************************************************************)
(* BucketChain for any number of threads, nodes, keys, buckets and locks:  *)
(* a chain whose lock is free is sorted and holds exactly the stored nodes *)
(* of its bucket, and what every call answers is right.                    *)
(*                                                                         *)
(* The invariant follows each chain as a set of nodes that the links lead  *)
(* through by rising keys.  Between the two stores of an addition the      *)
(* chain ends in a stale link; what is kept then is the chain as it was,   *)
(* with the first store undone.                                            *)
(***************************************************************************)
EXTENDS BucketChain, ListLemmas

USE ConstantsAssumption

---------------------------------------------------------------------------
(* The invariant.                                                          *)
StoredIn(b) == {n \in stored : BucketOf[key[n]] = b}
Holds(t) == pc[t] \in {"walk", "link_next"}

(* Every call is about a key; an addition has a node of its own that       *)
(* nobody else can see, a removal one that stays stored for it.            *)
CallsAreSound ==
  /\ \A t \in Threads : pc[t] = "idle" => op[t] = Idle
  /\ \A t \in Threads : pc[t] # "idle" => op[t].kind # "none" /\ op[t].key \in Keys
  /\ \A t \in Threads : op[t].kind \in {"add", "remove"} =>
       op[t].node \in Nodes /\ key[op[t].node] = op[t].key
  /\ \A t \in Threads : op[t].kind = "add" => op[t].node \notin stored
  /\ \A t, u \in Threads : op[t].kind = "add" /\ op[u].kind = "add" /\ op[t].node = op[u].node => t = u
  /\ \A t \in Threads : op[t].kind = "remove" => op[t].node \in stored
  /\ \A t, u \in Threads : op[t].kind = "remove" /\ op[u].kind = "remove" => t = u

LocksAreHeld == \A t \in Threads : Holds(t) => lock[LockOf[BucketOfCall(t)]] = t

(* A walk is at a place of its chain that the key of the call comes after; *)
(* an addition found where the key belongs.                                *)
OnItsWay(t) ==
  /\ current[t] \in StoredIn(BucketOfCall(t)) \cup {BucketOfCall(t)}
  /\ current[t] \in Nodes => key[current[t]] < op[t].key
  /\ pc[t] = "walk" => next[t] = bucket_next[current[t]]
  /\ pc[t] = "link_next" => /\ op[t].kind = "add"
                            /\ next[t] \in StoredIn(BucketOfCall(t)) \cup {NULL}
                            /\ next[t] # NULL => op[t].key < key[next[t]]
                            /\ bucket_next[current[t]] = op[t].node
WalksAreOnTheirWay == \A t \in Threads : Holds(t) => OnItsWay(t)

(* The links as they were before an addition between its two stores.       *)
Undone(t) == [bucket_next EXCEPT ![current[t]] = next[t]]

(* Every chain leads through the nodes stored in its bucket, by rising     *)
(* keys, once that addition is left out.                                   *)
ChainsAreSorted ==
  /\ \A b \in Buckets : (\A t \in Threads : pc[t] = "link_next" => BucketOfCall(t) # b) =>
       Sorted(bucket_next, key, b, NULL, StoredIn(b))
  /\ \A t \in Threads : pc[t] = "link_next" =>
       Sorted(Undone(t), key, BucketOfCall(t), NULL, StoredIn(BucketOfCall(t)))

KeysAreUnique == \A m, n \in stored : key[m] = key[n] => m = n

Inv ==
  /\ TypeOK /\ CallsAreSound /\ LocksAreHeld /\ WalksAreOnTheirWay
  /\ ChainsAreSorted /\ KeysAreUnique

(* It holds of empty buckets.                                              *)
LEMMA InitInv == Init => Inv
<1> SUFFICES ASSUME Init PROVE Inv
  OBVIOUS
<1>1. TypeOK
  BY DEF Init, TypeOK, Idle
<1>2. CallsAreSound /\ LocksAreHeld /\ WalksAreOnTheirWay /\ KeysAreUnique
  BY DEF Init, CallsAreSound, LocksAreHeld, WalksAreOnTheirWay, KeysAreUnique, Idle, Holds
<1>3. ASSUME NEW b \in Buckets  PROVE Sorted(bucket_next, key, b, NULL, StoredIn(b))
  <2>1. bucket_next[b] = NULL /\ StoredIn(b) = {}
    BY DEF Init, StoredIn
  <2>2. HasChain(bucket_next, NULL, NULL, {})
    BY EmptyChain
  <2> QED BY <2>1, <2>2 DEF Sorted
<1>4. ChainsAreSorted
  BY <1>3 DEF ChainsAreSorted, Init
<1> QED BY <1>1, <1>2, <1>4 DEF Inv

---------------------------------------------------------------------------
(* The bucket of a call is a bucket and no node.                           *)
LEMMA CallFacts ==
  ASSUME Inv, NEW t \in Threads, pc[t] # "idle"
  PROVE  /\ BucketOfCall(t) \in Buckets /\ op[t].key \in Keys /\ op[t].key \in Nat
         /\ BucketOfCall(t) \notin Nodes /\ op[t].kind \in {"search", "add", "remove"}
         /\ LockOf[BucketOfCall(t)] \in Locks
BY DEF Inv, TypeOK, CallsAreSound, BucketOfCall

(* The nodes of a bucket.                                                  *)
LEMMA StoredFacts ==
  ASSUME Inv, NEW b \in Buckets
  PROVE  /\ StoredIn(b) \subseteq Nodes /\ StoredIn(b) \subseteq stored /\ b \notin StoredIn(b)
         /\ NULL \notin StoredIn(b) /\ b # NULL /\ b \notin Nodes
         /\ \A x \in StoredIn(b) : key[x] \in Keys /\ key[x] \in Nat /\ BucketOf[key[x]] = b
         /\ \A x, y \in StoredIn(b) : key[x] = key[y] => x = y
         /\ \A c \in Buckets : c # b => \A x \in StoredIn(b) : x \notin StoredIn(c)
BY DEF Inv, TypeOK, StoredIn, KeysAreUnique

(* Of the threads in one bucket only one is past the lock.                 *)
LEMMA HolderIsAlone ==
  ASSUME Inv, NEW t \in Threads, NEW u \in Threads, Holds(t), Holds(u),
         LockOf[BucketOfCall(t)] = LockOf[BucketOfCall(u)]
  PROVE  t = u
BY DEF Inv, LocksAreHeld

(* A walk sees a sorted chain.                                             *)
LEMMA WalkSees ==
  ASSUME Inv, NEW t \in Threads, pc[t] = "walk"
  PROVE  /\ Sorted(bucket_next, key, BucketOfCall(t), NULL, StoredIn(BucketOfCall(t)))
         /\ current[t] \in StoredIn(BucketOfCall(t)) \cup {BucketOfCall(t)}
         /\ current[t] \in StoredIn(BucketOfCall(t)) => key[current[t]] < op[t].key
         /\ next[t] = bucket_next[current[t]]
         /\ next[t] \in StoredIn(BucketOfCall(t)) \cup {NULL}
<1>1. PICK b : b = BucketOfCall(t)
  OBVIOUS
<1>2. b \in Buckets /\ Holds(t)
  BY <1>1, CallFacts DEF Holds
<1>3. ASSUME NEW u \in Threads, pc[u] = "link_next"  PROVE BucketOfCall(u) # b
  <2>1. Holds(u) /\ u # t
    BY <1>3 DEF Holds
  <2> QED BY <1>1, <1>2, <2>1, HolderIsAlone
<1>4. Sorted(bucket_next, key, b, NULL, StoredIn(b))
  BY <1>2, <1>3 DEF Inv, ChainsAreSorted
<1>5. /\ current[t] \in StoredIn(b) \cup {b} /\ next[t] = bucket_next[current[t]]
      /\ current[t] \in Nodes => key[current[t]] < op[t].key
  BY <1>1, <1>2 DEF Inv, WalksAreOnTheirWay, OnItsWay
<1>6. \A x \in StoredIn(b) \cup {b} : bucket_next[x] \in StoredIn(b) \cup {NULL}
  <2>1. HasChain(bucket_next, bucket_next[b], NULL, StoredIn(b))
    BY <1>4 DEF Sorted
  <2> QED BY <2>1, ChainFacts
<1>7. StoredIn(b) \subseteq Nodes
  BY <1>2, StoredFacts
<1> QED BY <1>1, <1>4, <1>5, <1>6, <1>7

(* A node whose key is not passed yet lies ahead of the walk.              *)
LEMMA WalkPassesNone ==
  ASSUME Inv, NEW t \in Threads, pc[t] = "walk",
         NEW m \in stored, op[t].key = key[m]
  PROVE  /\ m \in StoredIn(BucketOfCall(t)) /\ next[t] \in StoredIn(BucketOfCall(t))
         /\ key[next[t]] <= op[t].key
<1>1. PICK b, c : b = BucketOfCall(t) /\ c = current[t]
  OBVIOUS
<1>2. b \in Buckets /\ op[t].key \in Nat
  BY <1>1, CallFacts
<1>3. m \in StoredIn(b)
  BY <1>1 DEF StoredIn, BucketOfCall
<1>4. /\ b \notin StoredIn(b) /\ \A x \in StoredIn(b) : key[x] \in Nat
      /\ \A x, y \in StoredIn(b) : key[x] = key[y] => x = y
  BY <1>2, StoredFacts
<1>5. /\ Sorted(bucket_next, key, b, NULL, StoredIn(b)) /\ c \in StoredIn(b) \cup {b}
      /\ c \in StoredIn(b) => key[c] < op[t].key
      /\ next[t] = bucket_next[c]
  BY <1>1, WalkSees
<1>6. bucket_next[c] \in StoredIn(b) /\ key[bucket_next[c]] <= key[m]
  BY <1>3, <1>4, <1>5, SortedHasNoGap
<1> QED BY <1>1, <1>3, <1>5, <1>6

---------------------------------------------------------------------------
(* What a step of t leaves alone when only bucket h may change.            *)
Local(t, h) ==
  /\ pc[t] = "link_next" => BucketOfCall(t) = h
  /\ \A u \in Threads \ {t} :
       /\ pc'[u] = pc[u] /\ op'[u] = op[u] /\ current'[u] = current[u] /\ next'[u] = next[u]
       /\ Holds(u) => BucketOfCall(u) # h
  /\ \A b \in Buckets \ {h} :
       /\ StoredIn(b)' = StoredIn(b)
       /\ \A x \in StoredIn(b) \cup {b} : bucket_next'[x] = bucket_next[x]
       /\ \A x \in StoredIn(b) : key'[x] = key[x]

(* The other threads walk on and the other chains stay sorted.             *)
LEMMA LocalStep ==
  ASSUME Inv, TypeOK', NEW t \in Threads, NEW h, Local(t, h),
         Holds(t)' => OnItsWay(t)',
         h \in Buckets => ((\A u \in Threads : pc'[u] = "link_next" => BucketOfCall(u)' # h)
                              => Sorted(bucket_next', key', h, NULL, StoredIn(h)')),
         pc'[t] = "link_next" => Sorted(Undone(t)', key', BucketOfCall(t)', NULL, StoredIn(BucketOfCall(t))')
  PROVE  WalksAreOnTheirWay' /\ ChainsAreSorted'
<1>1. ASSUME NEW u \in Threads \ {t}, Holds(u)
      PROVE  /\ BucketOfCall(u) \in Buckets \ {h} /\ BucketOfCall(u)' = BucketOfCall(u)
             /\ pc'[u] = pc[u] /\ op'[u] = op[u] /\ current'[u] = current[u] /\ next'[u] = next[u]
  <2>1. pc[u] # "idle" /\ op'[u] = op[u]
    BY <1>1 DEF Holds, Local
  <2>2. BucketOfCall(u)' = BucketOfCall(u)
    BY <2>1 DEF BucketOfCall
  <2> QED BY <1>1, <2>1, <2>2, CallFacts DEF Local
<1>2. ASSUME NEW u \in Threads \ {t}, Holds(u)'  PROVE OnItsWay(u)'
  <2>1. Holds(u)
    BY <1>2 DEF Holds, Local
  <2>2. PICK b, c, n : b = BucketOfCall(u) /\ c = current[u] /\ n = next[u]
    OBVIOUS
  <2>3. /\ b \in Buckets \ {h} /\ BucketOfCall(u)' = b
        /\ pc'[u] = pc[u] /\ op'[u] = op[u] /\ current'[u] = c /\ next'[u] = n
    BY <1>1, <2>1, <2>2
  <2>4. /\ c \in StoredIn(b) \cup {b}
        /\ c \in Nodes => key[c] < op[u].key
        /\ pc[u] = "walk" => n = bucket_next[c]
        /\ pc[u] = "link_next" => /\ op[u].kind = "add"
                                  /\ n \in StoredIn(b) \cup {NULL}
                                  /\ n # NULL => op[u].key < key[n]
                                  /\ bucket_next[c] = op[u].node
    BY <2>1, <2>2 DEF Inv, WalksAreOnTheirWay, OnItsWay
  <2>5. /\ StoredIn(b)' = StoredIn(b) /\ b \notin Nodes
        /\ \A x \in StoredIn(b) \cup {b} : bucket_next'[x] = bucket_next[x]
        /\ \A x \in StoredIn(b) : key'[x] = key[x]
    BY <2>3, StoredFacts DEF Local
  <2>6. StoredIn(BucketOfCall(u))' = StoredIn(b)
    BY <2>3, <2>5 DEF StoredIn
  <2>7. c \in Nodes => key'[c] < op'[u].key
    BY <2>3, <2>4, <2>5
  <2>8. bucket_next'[c] = bucket_next[c]
    BY <2>4, <2>5
  <2>9. n \in StoredIn(b) => key'[n] = key[n]
    BY <2>5
  <2>10. pc'[u] = "link_next" => /\ op'[u].kind = "add"
                                 /\ n \in StoredIn(b) \cup {NULL}
                                 /\ n # NULL => op'[u].key < key'[n]
                                 /\ bucket_next'[c] = op'[u].node
    BY <2>3, <2>4, <2>8, <2>9
  <2> HIDE DEF BucketOfCall, StoredIn
  <2> QED BY <2>3, <2>4, <2>6, <2>7, <2>8, <2>10 DEF OnItsWay
<1>3. WalksAreOnTheirWay'
  BY <1>2 DEF WalksAreOnTheirWay
<1>4. ASSUME NEW b \in Buckets \ {h}, \A u \in Threads : pc'[u] = "link_next" => BucketOfCall(u)' # b
      PROVE  Sorted(bucket_next', key', b, NULL, StoredIn(b)')
  <2>1. ASSUME NEW u \in Threads, pc[u] = "link_next"  PROVE BucketOfCall(u) # b
    <3>1. CASE u = t
      BY <2>1, <3>1 DEF Local
    <3>2. CASE u # t
      <4>1. Holds(u)
        BY <2>1 DEF Holds
      <4> QED BY <1>1, <1>4, <2>1, <3>2, <4>1
    <3> QED BY <3>1, <3>2
  <2>2. Sorted(bucket_next, key, b, NULL, StoredIn(b))
    BY <2>1 DEF Inv, ChainsAreSorted
  <2>3. /\ StoredIn(b)' = StoredIn(b) /\ bucket_next'[b] = bucket_next[b]
        /\ \A x \in StoredIn(b) : bucket_next'[x] = bucket_next[x] /\ key'[x] = key[x]
    BY <1>4 DEF Local
  <2>4. Sorted(bucket_next', key', b, NULL, StoredIn(b))
    BY <2>2, <2>3, SameSorted
  <2> QED BY <2>3, <2>4
<1>5. ASSUME NEW u \in Threads \ {t}, pc'[u] = "link_next"
      PROVE  Sorted(Undone(u)', key', BucketOfCall(u)', NULL, StoredIn(BucketOfCall(u))')
  <2>1. Holds(u) /\ pc[u] = "link_next"
    BY <1>5 DEF Holds, Local
  <2>2. PICK b, c, n : b = BucketOfCall(u) /\ c = current[u] /\ n = next[u]
    OBVIOUS
  <2>3. b \in Buckets \ {h} /\ BucketOfCall(u)' = b /\ current'[u] = c /\ next'[u] = n
    BY <1>1, <2>1, <2>2
  <2>4. c \in StoredIn(b) \cup {b}
    BY <2>1, <2>2 DEF Inv, WalksAreOnTheirWay, OnItsWay
  <2>5. /\ StoredIn(b)' = StoredIn(b)
        /\ \A x \in StoredIn(b) \cup {b} : bucket_next'[x] = bucket_next[x]
        /\ \A x \in StoredIn(b) : key'[x] = key[x]
    BY <2>3 DEF Local
  <2>6. PICK f, g : f = Undone(u) /\ g = [bucket_next' EXCEPT ![c] = n]
    OBVIOUS
  <2>7. Undone(u)' = g
    BY <2>3, <2>6 DEF Undone
  <2>8. Sorted(f, key, b, NULL, StoredIn(b))
    BY <2>1, <2>2, <2>6 DEF Inv, ChainsAreSorted
  <2>9. \A x \in StoredIn(b) \cup {b} : g[x] = f[x]
    <3>1. StoredIn(b) \cup {b} \subseteq Nodes \cup Buckets
      BY <2>3, StoredFacts
    <3> QED BY <2>2, <2>5, <2>6, <3>1 DEF Inv, TypeOK, Undone
  <2>10. Sorted(g, key', b, NULL, StoredIn(b))
    BY <2>5, <2>8, <2>9, SameSorted
  <2>11. StoredIn(BucketOfCall(u))' = StoredIn(b)
    BY <2>3, <2>5 DEF StoredIn
  <2> QED BY <2>3, <2>7, <2>10, <2>11
<1>6. ChainsAreSorted'
  <2>1. ASSUME NEW b \in Buckets, \A u \in Threads : pc'[u] = "link_next" => BucketOfCall(u)' # b
        PROVE  Sorted(bucket_next', key', b, NULL, StoredIn(b)')
    <3>1. CASE b = h
      BY <2>1, <3>1
    <3>2. CASE b # h
      BY <1>4, <2>1, <3>2
    <3> QED BY <3>1, <3>2
  <2>2. ASSUME NEW u \in Threads, pc'[u] = "link_next"
        PROVE  Sorted(Undone(u)', key', BucketOfCall(u)', NULL, StoredIn(BucketOfCall(u))')
    BY <1>5, <2>2
  <2> QED BY <2>1, <2>2 DEF ChainsAreSorted
<1> QED BY <1>3, <1>6

---------------------------------------------------------------------------
(* The steps.                                                              *)

(* A call begins.                                                          *)
LEMMA BeginStep == ASSUME Inv, NEW t \in Threads, Call(t)  PROVE Inv'
<1>1. PICK kind \in {"search", "add", "remove"}, k \in Keys, n \in Nodes \cup {NULL} :
        /\ Begin(t, kind, k, n)
        /\ kind = "add" => n \in Nodes /\ n \notin InUse /\ key' = [key EXCEPT ![n] = k]
        /\ kind # "add" => key' = key
        /\ kind = "remove" => n \in stored /\ key[n] = k /\ \A u \in Threads : op[u].kind # "remove"
  BY DEF Call, Search, Add, RemoveNode, Inv, TypeOK
<1>2. /\ pc[t] = "idle" /\ pc' = [pc EXCEPT ![t] = "lock"]
      /\ op' = [op EXCEPT ![t] = [kind |-> kind, key |-> k, node |-> n]]
      /\ UNCHANGED <<bucket_next, lock, stored, current, next>>
      /\ answer' = [answer EXCEPT ![t] = NULL]
  BY <1>1 DEF Begin
<1>3. TypeOK'
  BY <1>1, <1>2 DEF Inv, TypeOK
<1>4. \A x \in Nodes : key'[x] # key[x] => x \notin stored /\ \A u \in Threads : x # op[u].node
  BY <1>1 DEF InUse, Inv, TypeOK
<1>5. /\ op'[t] = [kind |-> kind, key |-> k, node |-> n] /\ pc'[t] = "lock"
      /\ \A u \in Threads : u # t => op'[u] = op[u] /\ pc'[u] = pc[u]
  BY <1>2 DEF Inv, TypeOK
<1>6. CallsAreSound'
  <2>1. \A u \in Threads : u # t /\ op[u].kind \in {"add", "remove"} => key'[op[u].node] = key[op[u].node]
    BY <1>4 DEF Inv, CallsAreSound
  <2>2. kind \in {"add", "remove"} => n \in Nodes /\ key'[n] = k
    BY <1>1 DEF Inv, TypeOK
  <2>3. kind = "add" => n \notin stored /\ \A u \in Threads : op[u].node # n
    BY <1>1 DEF InUse
  <2>4. /\ \A u \in Threads : pc'[u] = "idle" => op'[u] = Idle
        /\ \A u \in Threads : pc'[u] # "idle" => op'[u].kind # "none" /\ op'[u].key \in Keys
    BY <1>5 DEF Inv, CallsAreSound
  <2>5. \A u \in Threads : op'[u].kind \in {"add", "remove"} =>
          op'[u].node \in Nodes /\ key'[op'[u].node] = op'[u].key
    BY <1>5, <2>1, <2>2 DEF Inv, CallsAreSound
  <2>6. /\ \A u \in Threads : op'[u].kind = "add" => op'[u].node \notin stored
        /\ \A u, v \in Threads : op'[u].kind = "add" /\ op'[v].kind = "add" /\ op'[u].node = op'[v].node => u = v
    BY <1>5, <2>3 DEF Inv, CallsAreSound
  <2>7. /\ \A u \in Threads : op'[u].kind = "remove" => op'[u].node \in stored
        /\ \A u, v \in Threads : op'[u].kind = "remove" /\ op'[v].kind = "remove" => u = v
    BY <1>1, <1>5 DEF Inv, CallsAreSound
  <2> QED BY <1>2, <2>4, <2>5, <2>6, <2>7 DEF CallsAreSound
<1>7. LocksAreHeld'
  BY <1>2, <1>5 DEF Inv, LocksAreHeld, Holds, BucketOfCall
<1>8. KeysAreUnique'
  BY <1>2, <1>4 DEF Inv, KeysAreUnique, TypeOK
<1>9. Local(t, NULL)
  <2>1. \A x \in stored : key'[x] = key[x]
    BY <1>4 DEF Inv, TypeOK
  <2>2. \A b \in Buckets : StoredIn(b)' = StoredIn(b)
    BY <1>2, <2>1 DEF StoredIn
  <2>3. \A u \in Threads : Holds(u) => BucketOfCall(u) # NULL
    BY CallFacts DEF Holds
  <2> QED BY <1>2, <1>5, <2>1, <2>2, <2>3 DEF Local, StoredIn
<1>10. WalksAreOnTheirWay' /\ ChainsAreSorted'
  <2>1. ~Holds(t)' /\ pc'[t] # "link_next" /\ NULL \notin Buckets
    BY <1>5 DEF Holds
  <2> QED BY <1>3, <1>9, <2>1, LocalStep
<1> QED BY <1>3, <1>6, <1>7, <1>8, <1>10 DEF Inv

(* A step within a call changes no key.                                    *)
SameCalls(t) == UNCHANGED <<key, op, stored>> /\ \A u \in Threads : pc'[u] = "idle" <=> pc[u] = "idle"

(* One that neither begins nor ends one.                                   *)
LEMMA CallsGoOn ==
  ASSUME Inv, NEW t \in Threads, SameCalls(t)
  PROVE  CallsAreSound' /\ KeysAreUnique'
BY DEF Inv, CallsAreSound, KeysAreUnique, SameCalls

(* The bucket of t is locked and its walk starts at the head.              *)
LEMMA LockStep == ASSUME Inv, NEW t \in Threads, Lock(t)  PROVE Inv'
<1>1. PICK b, l : b = BucketOfCall(t) /\ l = LockOf[b]
  OBVIOUS
<1>2. /\ pc[t] = "lock" /\ lock[l] = NULL
      /\ lock' = [lock EXCEPT ![l] = t] /\ pc' = [pc EXCEPT ![t] = "walk"]
      /\ current' = [current EXCEPT ![t] = b] /\ next' = [next EXCEPT ![t] = bucket_next[b]]
      /\ UNCHANGED <<key, bucket_next, stored, op, answer>>
  BY <1>1 DEF Lock
<1>3. b \in Buckets /\ l \in Locks /\ b \notin Nodes
  BY <1>1, <1>2, CallFacts
<1>4. TypeOK'
  BY <1>2, <1>3 DEF Inv, TypeOK
<1>5. CallsAreSound' /\ KeysAreUnique'
  <2>1. SameCalls(t)
    BY <1>2 DEF SameCalls, Inv, TypeOK
  <2> QED BY <2>1, CallsGoOn
<1>6. LocksAreHeld'
  <2>1. ASSUME NEW u \in Threads, Holds(u)'  PROVE lock'[LockOf[BucketOfCall(u)']] = u
    <3>1. BucketOfCall(u)' = BucketOfCall(u)
      BY <1>2 DEF BucketOfCall
    <3>2. CASE u = t
      BY <1>1, <1>2, <1>3, <3>1, <3>2 DEF Inv, TypeOK
    <3>3. CASE u # t
      <4>1. Holds(u) /\ pc[u] # "idle"
        BY <1>2, <2>1, <3>3 DEF Holds, Inv, TypeOK
      <4>2. lock[LockOf[BucketOfCall(u)]] = u /\ LockOf[BucketOfCall(u)] \in Locks
        BY <4>1, CallFacts DEF Inv, LocksAreHeld
      <4> QED BY <1>2, <3>1, <4>2 DEF Inv, TypeOK
    <3> QED BY <3>2, <3>3
  <2> QED BY <2>1 DEF LocksAreHeld
<1>7. Local(t, NULL)
  <2>1. \A c \in Buckets : StoredIn(c)' = StoredIn(c)
    BY <1>2 DEF StoredIn
  <2>2. \A u \in Threads : Holds(u) => BucketOfCall(u) # NULL
    BY CallFacts DEF Holds
  <2> QED BY <1>2, <2>1, <2>2 DEF Local, Inv, TypeOK
<1>8. OnItsWay(t)'
  <2>1. BucketOfCall(t)' = b /\ current'[t] = b /\ next'[t] = bucket_next'[b] /\ pc'[t] = "walk"
    BY <1>1, <1>2 DEF BucketOfCall, Inv, TypeOK
  <2> QED BY <1>3, <2>1 DEF OnItsWay
<1>9. WalksAreOnTheirWay' /\ ChainsAreSorted'
  <2>1. pc'[t] # "link_next" /\ NULL \notin Buckets
    BY <1>2 DEF Inv, TypeOK
  <2> QED BY <1>4, <1>7, <1>8, <2>1, LocalStep
<1> QED BY <1>4, <1>5, <1>6, <1>9 DEF Inv

(* The walk goes on to a node whose key comes before that of the call.     *)
LEMMA WalkStep == ASSUME Inv, NEW t \in Threads, Walk(t)  PROVE Inv'
<1>1. PICK b, c, n : b = BucketOfCall(t) /\ c = current[t] /\ n = next[t]
  OBVIOUS
<1>2. /\ pc[t] = "walk" /\ n # NULL /\ GoesOn(t)
      /\ current' = [current EXCEPT ![t] = n] /\ next' = [next EXCEPT ![t] = bucket_next[n]]
      /\ UNCHANGED <<key, bucket_next, lock, stored, pc, op, answer>>
  BY <1>1 DEF Walk, GoesOn
<1>3. b \in Buckets /\ b \notin Nodes /\ op[t].key \in Nat /\ op[t].kind \in {"search", "add", "remove"}
  BY <1>1, <1>2, CallFacts
<1>4. n \in StoredIn(b)
  BY <1>1, <1>2, WalkSees
<1>5. /\ n \in Nodes /\ n \in stored /\ key[n] \in Nat
      /\ \A x \in stored : key[x] = key[n] => x = n
  BY <1>3, <1>4, StoredFacts DEF Inv, KeysAreUnique
<1>6. key[n] < op[t].key
  <2>1. CASE op[t].kind \in {"search", "add"}
    <3>1. op[t].key > key[n]
      BY <1>1, <1>2, <2>1 DEF GoesOn
    <3> QED BY <1>3, <1>5, <3>1
  <2>2. CASE op[t].kind = "remove"
    <3>1. op[t].node # n
      BY <1>1, <1>2, <2>2 DEF GoesOn
    <3>2. op[t].node \in stored /\ op[t].key = key[op[t].node]
      BY <2>2 DEF Inv, CallsAreSound
    <3>3. PICK m : m = op[t].node
      OBVIOUS
    <3>4. m \in stored /\ op[t].key = key[m]
      BY <3>2, <3>3
    <3>5. key[next[t]] <= op[t].key
      BY <1>2, <3>4, WalkPassesNone
    <3>6. key[m] # key[n]
      BY <1>5, <3>1, <3>3, <3>4
    <3> QED BY <1>1, <1>3, <1>5, <3>4, <3>5, <3>6
  <2> QED BY <1>3, <2>1, <2>2
<1>7. TypeOK'
  BY <1>2, <1>5 DEF Inv, TypeOK
<1>8. CallsAreSound' /\ KeysAreUnique'
  <2>1. SameCalls(t)
    BY <1>2 DEF SameCalls
  <2> QED BY <2>1, CallsGoOn
<1>9. LocksAreHeld'
  BY <1>2 DEF Inv, LocksAreHeld, Holds, BucketOfCall
<1>10. Local(t, NULL)
  <2>1. \A d \in Buckets : StoredIn(d)' = StoredIn(d)
    BY <1>2 DEF StoredIn
  <2>2. \A u \in Threads : Holds(u) => BucketOfCall(u) # NULL
    BY CallFacts DEF Holds
  <2> QED BY <1>2, <2>1, <2>2 DEF Local, Inv, TypeOK
<1>11. OnItsWay(t)'
  <2>1. /\ BucketOfCall(t)' = b /\ current'[t] = n /\ next'[t] = bucket_next'[n] /\ pc'[t] = "walk"
        /\ StoredIn(b)' = StoredIn(b) /\ op'[t] = op[t] /\ key' = key
    BY <1>1, <1>2 DEF BucketOfCall, StoredIn, Inv, TypeOK
  <2>2. StoredIn(BucketOfCall(t))' = StoredIn(b)
    BY <2>1 DEF StoredIn
  <2> HIDE DEF BucketOfCall, StoredIn
  <2> QED BY <1>4, <1>6, <2>1, <2>2 DEF OnItsWay
<1>12. WalksAreOnTheirWay' /\ ChainsAreSorted'
  <2>1. pc'[t] # "link_next" /\ NULL \notin Buckets
    BY <1>2
  <2> QED BY <1>7, <1>10, <1>11, <2>1, LocalStep
<1> QED BY <1>7, <1>8, <1>9, <1>12 DEF Inv

(* Where the walk stopped, the key of the call belongs.                    *)
LEMMA WalkStops ==
  ASSUME Inv, NEW t \in Threads, pc[t] = "walk", ~GoesOn(t), next[t] # NULL
  PROVE  /\ op[t].kind \in {"search", "add"} => op[t].key <= key[next[t]]
         /\ op[t].kind = "remove" => op[t].node = next[t]
<1>1. op[t].kind \in {"search", "add", "remove"} /\ op[t].key \in Nat
  BY CallFacts
<1>2. next[t] \in StoredIn(BucketOfCall(t)) /\ BucketOfCall(t) \in Buckets
  BY WalkSees, CallFacts
<1>3. key[next[t]] \in Nat
  BY <1>2, StoredFacts
<1>4. CASE op[t].kind \in {"search", "add"}
  <2>1. ~(op[t].key > key[next[t]])
    BY <1>4 DEF GoesOn
  <2> QED BY <1>1, <1>3, <1>4, <2>1
<1>5. CASE op[t].kind = "remove"
  BY <1>5 DEF GoesOn
<1> QED BY <1>1, <1>4, <1>5

(* The node is hung on the place found; the chain ends there for now.      *)
LEMMA LinkPrevStep == ASSUME Inv, NEW t \in Threads, LinkPrev(t)  PROVE Inv'
<1>1. PICK b, c, n, m : b = BucketOfCall(t) /\ c = current[t] /\ n = next[t] /\ m = op[t].node
  OBVIOUS
<1>2. /\ pc[t] = "walk" /\ ~GoesOn(t) /\ op[t].kind = "add" /\ ~Reached(t)
      /\ bucket_next' = [bucket_next EXCEPT ![c] = m] /\ pc' = [pc EXCEPT ![t] = "link_next"]
      /\ UNCHANGED <<key, lock, stored, op, current, next, answer>>
  BY <1>1 DEF LinkPrev, SetNext
<1>3. b \in Buckets /\ b \notin Nodes /\ op[t].key \in Nat
  BY <1>1, <1>2, CallFacts
<1>4. /\ Sorted(bucket_next, key, b, NULL, StoredIn(b))
      /\ c \in StoredIn(b) \cup {b}
      /\ c \in StoredIn(b) => key[c] < op[t].key
      /\ n = bucket_next[c] /\ n \in StoredIn(b) \cup {NULL}
  BY <1>1, <1>2, WalkSees
<1>5. StoredIn(b) \subseteq Nodes /\ \A x \in StoredIn(b) : key[x] \in Nat
  BY <1>3, StoredFacts
<1>6. n # NULL => op[t].key < key[n]
  <2>1. n # NULL => op[t].key <= key[n] /\ op[t].key # key[n]
    BY <1>1, <1>2, WalkStops DEF Reached
  <2> QED BY <1>3, <1>4, <1>5, <2>1
<1>7. m \in Nodes /\ m \notin stored
  BY <1>1, <1>2 DEF Inv, CallsAreSound
<1>8. TypeOK'
  BY <1>2, <1>7 DEF Inv, TypeOK
<1>9. CallsAreSound' /\ KeysAreUnique'
  <2>1. SameCalls(t)
    BY <1>2 DEF SameCalls, Inv, TypeOK
  <2> QED BY <2>1, CallsGoOn
<1>10. LocksAreHeld'
  BY <1>2 DEF Inv, LocksAreHeld, Holds, BucketOfCall, TypeOK
<1>11. \A d : StoredIn(d)' = StoredIn(d)
  BY <1>2 DEF StoredIn
<1>12. Local(t, b)
  <2>1. ASSUME NEW u \in Threads \ {t}, Holds(u)  PROVE BucketOfCall(u) # b
    BY <1>1, <1>2, <2>1, HolderIsAlone DEF Holds
  <2>2. ASSUME NEW d \in Buckets \ {b}, NEW x \in StoredIn(d) \cup {d}  PROVE bucket_next'[x] = bucket_next[x]
    <3>1. x # c
      BY <1>3, <1>4, <1>5, <2>2, StoredFacts
    <3> QED BY <1>2, <3>1 DEF Inv, TypeOK
  <2>3. \A u \in Threads \ {t} : pc'[u] = pc[u] /\ op'[u] = op[u] /\ current'[u] = current[u] /\ next'[u] = next[u]
    BY <1>2 DEF Inv, TypeOK
  <2> HIDE DEF StoredIn, BucketOfCall
  <2> QED BY <1>2, <1>11, <2>1, <2>2, <2>3 DEF Local
<1>13. BucketOfCall(t)' = b /\ pc'[t] = "link_next" /\ StoredIn(BucketOfCall(t))' = StoredIn(b)
  BY <1>1, <1>2 DEF BucketOfCall, StoredIn, Inv, TypeOK
<1>14. OnItsWay(t)'
  <2>1. bucket_next'[c] = m
    BY <1>2, <1>3, <1>4, <1>5 DEF Inv, TypeOK
  <2> HIDE DEF BucketOfCall, StoredIn
  <2> QED BY <1>1, <1>2, <1>3, <1>4, <1>6, <1>13, <2>1 DEF OnItsWay
<1>15. Sorted(Undone(t)', key', BucketOfCall(t)', NULL, StoredIn(BucketOfCall(t))')
  <2>1. PICK g : g = [bucket_next' EXCEPT ![c] = n]
    OBVIOUS
  <2>2. Undone(t)' = g
    BY <1>1, <1>2, <2>1 DEF Undone
  <2>3. g = bucket_next
    BY <1>2, <1>3, <1>4, <1>5, <2>1 DEF Inv, TypeOK
  <2> HIDE DEF BucketOfCall, StoredIn, Undone
  <2> QED BY <1>2, <1>4, <1>13, <2>2, <2>3
<1>16. WalksAreOnTheirWay' /\ ChainsAreSorted'
  <2>1. ~(\A u \in Threads : pc'[u] = "link_next" => BucketOfCall(u)' # b)
    BY <1>13
  <2> QED BY <1>8, <1>12, <1>14, <1>15, <2>1, LocalStep
<1> QED BY <1>8, <1>9, <1>10, <1>16 DEF Inv

---------------------------------------------------------------------------
(* Returns.                                                                *)

(* nodes may be what t leaves stored: no other call needs a node of it.    *)
MayLeave(t, nodes) ==
  /\ nodes \in SUBSET Nodes
  /\ \A u \in Threads \ {t} : op[u].kind = "remove" => op[u].node \in nodes
  /\ \A u \in Threads \ {t} : op[u].kind = "add" => op[u].node \notin nodes
  /\ \A m, n \in nodes : key[m] = key[n] => m = n

(* t is out of its call, the others are where they were.                   *)
Out(t) ==
  /\ pc'[t] = "idle"
  /\ \A u \in Threads \ {t} :
       /\ pc'[u] = pc[u] /\ op'[u] = op[u] /\ current'[u] = current[u] /\ next'[u] = next[u]
       /\ Holds(u) => BucketOfCall(u) # BucketOfCall(t)

(* What a return does, whatever nodes it leaves stored.                    *)
LEMMA ReturnStep ==
  ASSUME Inv, NEW t \in Threads, Holds(t), NEW value \in Nodes \cup {NULL} \cup BOOLEAN,
         NEW nodes, MayLeave(t, nodes), Return(t, value, nodes),
         bucket_next' \in [Nodes \cup Buckets -> Nodes \cup {NULL}]
  PROVE  /\ TypeOK' /\ CallsAreSound' /\ LocksAreHeld' /\ KeysAreUnique'
         /\ stored' = nodes /\ key' = key /\ Out(t)
<1>0. /\ nodes \in SUBSET Nodes
      /\ \A u \in Threads \ {t} : op[u].kind = "remove" => op[u].node \in nodes
      /\ \A u \in Threads \ {t} : op[u].kind = "add" => op[u].node \notin nodes
      /\ \A m, n \in nodes : key[m] = key[n] => m = n
  BY DEF MayLeave
<1>1. PICK b, l : b = BucketOfCall(t) /\ l = LockOf[b]
  OBVIOUS
<1>2. /\ lock' = [lock EXCEPT ![l] = NULL] /\ pc' = [pc EXCEPT ![t] = "idle"]
      /\ op' = [op EXCEPT ![t] = Idle]
      /\ current' = [current EXCEPT ![t] = NULL] /\ next' = [next EXCEPT ![t] = NULL]
      /\ answer' = [answer EXCEPT ![t] = value] /\ stored' = nodes /\ key' = key
  BY <1>1 DEF Return
<1>3. TypeOK'
  BY <1>0, <1>2 DEF Inv, TypeOK, Idle
<1>4. /\ pc'[t] = "idle" /\ op'[t] = Idle /\ answer'[t] = value
      /\ \A u \in Threads \ {t} :
              /\ pc'[u] = pc[u] /\ op'[u] = op[u] /\ current'[u] = current[u] /\ next'[u] = next[u]
  BY <1>2 DEF Inv, TypeOK
<1>5. CallsAreSound'
  <2>1. Idle.kind = "none"
    BY DEF Idle
  <2> QED BY <1>0, <1>2, <1>4, <2>1 DEF Inv, CallsAreSound
<1>6. LocksAreHeld'
  <2>1. ASSUME NEW u \in Threads, Holds(u)'  PROVE lock'[LockOf[BucketOfCall(u)']] = u
    <3>1. u # t /\ Holds(u) /\ pc[u] # "idle" /\ BucketOfCall(u)' = BucketOfCall(u)
      BY <1>4, <2>1 DEF Holds, BucketOfCall
    <3>2. LockOf[BucketOfCall(u)] # l
      BY <1>1, <3>1, HolderIsAlone
    <3>3. LockOf[BucketOfCall(u)] \in Locks
      BY <3>1, CallFacts
    <3> QED BY <1>2, <3>1, <3>2, <3>3 DEF Inv, LocksAreHeld, TypeOK
  <2> QED BY <2>1 DEF LocksAreHeld
<1>7. KeysAreUnique'
  BY <1>0, <1>2 DEF KeysAreUnique
<1>8. \A u \in Threads \ {t} : Holds(u) => BucketOfCall(u) # BucketOfCall(t)
  BY HolderIsAlone
<1>9. Out(t)
  BY <1>4, <1>8 DEF Out
<1> QED BY <1>2, <1>3, <1>5, <1>6, <1>7, <1>9

(* A search, or an update there is no need or no room for.                 *)
LEMMA ReturnEarlyStep == ASSUME Inv, NEW t \in Threads, ReturnEarly(t)  PROVE Inv'
<1>1. pc[t] = "walk" /\ Holds(t) /\ bucket_next' = bucket_next
  BY DEF ReturnEarly, Holds
<1>2. PICK value \in Nodes \cup {NULL} \cup BOOLEAN : Return(t, value, stored)
  BY DEF ReturnEarly, Inv, TypeOK
<1>3. MayLeave(t, stored) /\ bucket_next' \in [Nodes \cup Buckets -> Nodes \cup {NULL}]
  BY <1>1 DEF Inv, TypeOK, CallsAreSound, KeysAreUnique, MayLeave
<1>4. /\ TypeOK' /\ CallsAreSound' /\ LocksAreHeld' /\ KeysAreUnique'
      /\ pc'[t] = "idle" /\ stored' = stored /\ key' = key
      /\ \A u \in Threads \ {t} :
           pc'[u] = pc[u] /\ op'[u] = op[u] /\ current'[u] = current[u] /\ next'[u] = next[u]
  <2>1. /\ TypeOK' /\ CallsAreSound' /\ LocksAreHeld' /\ KeysAreUnique'
        /\ stored' = stored /\ key' = key /\ Out(t)
    BY <1>1, <1>2, <1>3, ReturnStep
  <2> QED BY <2>1 DEF Out
<1>5. Local(t, NULL)
  <2>1. \A d \in Buckets : StoredIn(d)' = StoredIn(d)
    BY <1>4 DEF StoredIn
  <2>2. \A u \in Threads : Holds(u) => BucketOfCall(u) # NULL
    BY CallFacts DEF Holds
  <2> HIDE DEF StoredIn, BucketOfCall
  <2> QED BY <1>1, <1>4, <2>1, <2>2 DEF Local
<1>6. WalksAreOnTheirWay' /\ ChainsAreSorted'
  <2>1. ~Holds(t)' /\ pc'[t] # "link_next" /\ NULL \notin Buckets
    BY <1>4 DEF Holds
  <2> QED BY <1>4, <1>5, <2>1, LocalStep
<1> QED BY <1>4, <1>6 DEF Inv

(* An addition between its stores: what it knows of its place.             *)
LEMMA LinkFacts ==
  ASSUME Inv, NEW t \in Threads, pc[t] = "link_next"
  PROVE  /\ Sorted(Undone(t), key, BucketOfCall(t), NULL, StoredIn(BucketOfCall(t)))
         /\ current[t] \in StoredIn(BucketOfCall(t)) \cup {BucketOfCall(t)}
         /\ current[t] \in StoredIn(BucketOfCall(t)) => key[current[t]] < op[t].key
         /\ op[t].kind = "add" /\ next[t] \in StoredIn(BucketOfCall(t)) \cup {NULL}
         /\ next[t] # NULL => op[t].key < key[next[t]]
         /\ bucket_next[current[t]] = op[t].node
         /\ op[t].node \in Nodes /\ op[t].node \notin stored /\ key[op[t].node] = op[t].key
<1>1. Holds(t) /\ BucketOfCall(t) \in Buckets
  BY CallFacts DEF Holds
<1>2. StoredIn(BucketOfCall(t)) \subseteq Nodes
  BY <1>1, StoredFacts
<1>3. Sorted(Undone(t), key, BucketOfCall(t), NULL, StoredIn(BucketOfCall(t)))
  BY DEF Inv, ChainsAreSorted
<1>4. OnItsWay(t) /\ op[t].kind = "add"
  BY <1>1 DEF Inv, WalksAreOnTheirWay, OnItsWay
<1>5. op[t].node \in Nodes /\ op[t].node \notin stored /\ key[op[t].node] = op[t].key
  BY <1>4 DEF Inv, CallsAreSound
<1> HIDE DEF StoredIn, BucketOfCall
<1> QED BY <1>2, <1>3, <1>4, <1>5 DEF OnItsWay

(* No stored node has the key that is being added.                         *)
LEMMA LinkIsNew ==
  ASSUME Inv, NEW t \in Threads, pc[t] = "link_next", NEW m \in stored
  PROVE  key[m] # op[t].key
<1>1. PICK b, c, n, f : b = BucketOfCall(t) /\ c = current[t] /\ n = next[t] /\ f = Undone(t)
  OBVIOUS
<1>2. b \in Buckets /\ op[t].key \in Nat /\ key[m] \in Nat
  BY <1>1, CallFacts DEF Inv, TypeOK
<1>3. /\ b \notin StoredIn(b) /\ \A x \in StoredIn(b) : key[x] \in Nat /\ x \in Nodes
      /\ \A x, y \in StoredIn(b) : key[x] = key[y] => x = y
      /\ NULL \notin StoredIn(b)
  BY <1>2, StoredFacts
<1>4. /\ Sorted(f, key, b, NULL, StoredIn(b)) /\ c \in StoredIn(b) \cup {b}
      /\ n \in StoredIn(b) \cup {NULL}
  BY <1>1, LinkFacts
<1>5. c \in StoredIn(b) => key[c] < op[t].key
  BY <1>1, LinkFacts
<1>6. n # NULL => op[t].key < key[n]
  BY <1>1, LinkFacts
<1>7. f[c] = n
  BY <1>1, <1>2, <1>3, <1>4 DEF Undone, Inv, TypeOK
<1>8. ASSUME key[m] = op[t].key  PROVE FALSE
  <2>1. m \in StoredIn(b)
    BY <1>1, <1>8 DEF StoredIn, BucketOfCall
  <2>2. c \in StoredIn(b) => key[c] < key[m]
    BY <1>5, <1>8
  <2>3. f[c] \in StoredIn(b) /\ key[f[c]] <= key[m]
    BY <1>3, <1>4, <2>1, <2>2, SortedHasNoGap
  <2> QED BY <1>2, <1>3, <1>6, <1>7, <1>8, <2>3
<1> QED BY <1>8

(* The chain is closed again, and the node is in it.                       *)
LEMMA LinkNextStep == ASSUME Inv, NEW t \in Threads, LinkNext(t)  PROVE Inv'
<1>1. PICK b, c, n, m, f, g : /\ b = BucketOfCall(t) /\ c = current[t] /\ n = next[t] /\ m = op[t].node
                              /\ f = Undone(t) /\ g = bucket_next'
  OBVIOUS
<1>2. /\ pc[t] = "link_next" /\ Holds(t)
      /\ g = [bucket_next EXCEPT ![m] = n]
      /\ Return(t, TRUE, stored \cup {m})
  BY <1>1 DEF LinkNext, Holds
<1>3. b \in Buckets /\ b \notin Nodes
  BY <1>1, <1>2, CallFacts
<1>4. /\ b \notin StoredIn(b) /\ \A x \in StoredIn(b) : x \in Nodes /\ x \in stored
      /\ NULL \notin StoredIn(b)
  BY <1>3, StoredFacts
<1>5. /\ Sorted(f, key, b, NULL, StoredIn(b)) /\ c \in StoredIn(b) \cup {b}
      /\ n \in StoredIn(b) \cup {NULL} /\ op[t].kind = "add"
      /\ m \in Nodes /\ m \notin stored /\ bucket_next[c] = m
  BY <1>1, <1>2, LinkFacts
<1>6. key[m] = op[t].key
  BY <1>1, <1>2, LinkFacts
<1>7. c \in StoredIn(b) => key[c] < key[m]
  BY <1>1, <1>2, <1>6, LinkFacts
<1>8. n # NULL => key[m] < key[n]
  BY <1>1, <1>2, <1>6, LinkFacts
<1>9. stored \cup {m} \in SUBSET Nodes /\ bucket_next' \in [Nodes \cup Buckets -> Nodes \cup {NULL}]
  BY <1>1, <1>2, <1>4, <1>5 DEF Inv, TypeOK
<1>10. /\ \A u \in Threads \ {t} : op[u].kind = "remove" => op[u].node \in stored \cup {m}
       /\ \A u \in Threads \ {t} : op[u].kind = "add" => op[u].node \notin stored \cup {m}
  BY <1>1, <1>5 DEF Inv, CallsAreSound
<1>11. \A x \in stored : key[x] # key[m]
  BY <1>2, <1>6, LinkIsNew
<1>12. \A x, y \in stored \cup {m} : key[x] = key[y] => x = y
  BY <1>11 DEF Inv, KeysAreUnique
<1>13. /\ TypeOK' /\ CallsAreSound' /\ LocksAreHeld' /\ KeysAreUnique'
       /\ pc'[t] = "idle" /\ stored' = stored \cup {m} /\ key' = key
       /\ \A u \in Threads \ {t} :
            /\ pc'[u] = pc[u] /\ op'[u] = op[u] /\ current'[u] = current[u] /\ next'[u] = next[u]
            /\ Holds(u) => BucketOfCall(u) # b
  <2>1. TRUE \in Nodes \cup {NULL} \cup BOOLEAN
    OBVIOUS
  <2>2. PICK nodes : nodes = stored \cup {m}
    OBVIOUS
  <2>3. MayLeave(t, nodes) /\ Return(t, TRUE, nodes)
    BY <1>2, <1>9, <1>10, <1>12, <2>2 DEF MayLeave
  <2>4. bucket_next' \in [Nodes \cup Buckets -> Nodes \cup {NULL}] /\ Holds(t)
    BY <1>2, <1>9
  <2>5. /\ TypeOK' /\ CallsAreSound' /\ LocksAreHeld' /\ KeysAreUnique'
        /\ stored' = nodes /\ key' = key /\ Out(t)
    BY <2>1, <2>3, <2>4, ReturnStep
  <2> HIDE DEF BucketOfCall
  <2> QED BY <1>1, <2>2, <2>5 DEF Out
<1>14. BucketOf[key[m]] = b
  BY <1>1, <1>6 DEF BucketOfCall
<1>15. StoredIn(b)' = StoredIn(b) \cup {m} /\ \A d \in Buckets \ {b} : StoredIn(d)' = StoredIn(d)
  BY <1>13, <1>14 DEF StoredIn
<1>16. Local(t, b)
  <2>1. ASSUME NEW d \in Buckets \ {b}, NEW x \in StoredIn(d) \cup {d}  PROVE bucket_next'[x] = bucket_next[x]
    <3>1. x # m /\ x \in Nodes \cup Buckets
      BY <1>5, <2>1, StoredFacts
    <3> QED BY <1>1, <1>2, <3>1 DEF Inv, TypeOK
  <2> HIDE DEF StoredIn, BucketOfCall
  <2> QED BY <1>1, <1>13, <1>15, <2>1 DEF Local
<1>17. Sorted(g, key, b, NULL, StoredIn(b) \cup {m})
  <2>1. f[c] = n /\ \A x \in (StoredIn(b) \cup {b}) \ {c} : f[x] = bucket_next[x]
    BY <1>1, <1>3, <1>4, <1>5 DEF Undone, Inv, TypeOK
  <2>2. g[m] = n /\ \A x \in StoredIn(b) \cup {b} : g[x] = bucket_next[x]
    BY <1>2, <1>3, <1>4, <1>5 DEF Inv, TypeOK
  <2>3. g[c] = m /\ g[m] = f[c] /\ \A x \in (StoredIn(b) \cup {b}) \ {c} : g[x] = f[x]
    BY <1>5, <2>1, <2>2
  <2>4. m \notin StoredIn(b) /\ m # NULL /\ m # b
    BY <1>3, <1>4, <1>5
  <2>5. f[c] \in StoredIn(b) => key[m] < key[f[c]]
    BY <1>4, <1>8, <2>1
  <2> QED BY <1>4, <1>5, <1>7, <2>3, <2>4, <2>5, InsertSorted
<1>18. WalksAreOnTheirWay' /\ ChainsAreSorted'
  <2>1. ~Holds(t)' /\ pc'[t] # "link_next"
    BY <1>13 DEF Holds
  <2>2. Sorted(bucket_next', key', b, NULL, StoredIn(b)')
    BY <1>1, <1>13, <1>15, <1>17
  <2> QED BY <1>13, <1>16, <2>1, <2>2, LocalStep
<1> QED BY <1>13, <1>18 DEF Inv

(* The node is out of its chain.                                           *)
LEMMA UnlinkStep == ASSUME Inv, NEW t \in Threads, Unlink(t)  PROVE Inv'
<1>1. PICK b, c, m, g : b = BucketOfCall(t) /\ c = current[t] /\ m = op[t].node /\ g = bucket_next'
  OBVIOUS
<1>2. /\ pc[t] = "walk" /\ Holds(t) /\ op[t].kind = "remove" /\ next[t] = m /\ m # NULL
      /\ g = [bucket_next EXCEPT ![c] = bucket_next[m]]
      /\ Return(t, TRUE, stored \ {m})
  BY <1>1 DEF Unlink, Holds, Reached
<1>3. b \in Buckets /\ b \notin Nodes
  BY <1>1, <1>2, CallFacts
<1>4. /\ b \notin StoredIn(b) /\ \A x \in StoredIn(b) : x \in Nodes /\ x \in stored /\ key[x] \in Nat
      /\ NULL \notin StoredIn(b)
  BY <1>3, StoredFacts
<1>5. /\ Sorted(bucket_next, key, b, NULL, StoredIn(b)) /\ c \in StoredIn(b) \cup {b}
      /\ bucket_next[c] = m /\ m \in StoredIn(b)
  BY <1>1, <1>2, WalkSees
<1>6. stored \ {m} \in SUBSET Nodes /\ bucket_next' \in [Nodes \cup Buckets -> Nodes \cup {NULL}]
  BY <1>1, <1>2, <1>3, <1>4, <1>5 DEF Inv, TypeOK
<1>7. /\ \A u \in Threads \ {t} : op[u].kind = "remove" => op[u].node \in stored \ {m}
      /\ \A u \in Threads \ {t} : op[u].kind = "add" => op[u].node \notin stored \ {m}
  BY <1>2 DEF Inv, CallsAreSound
<1>8. \A x, y \in stored \ {m} : key[x] = key[y] => x = y
  BY DEF Inv, KeysAreUnique
<1>9. /\ TypeOK' /\ CallsAreSound' /\ LocksAreHeld' /\ KeysAreUnique'
      /\ pc'[t] = "idle" /\ stored' = stored \ {m} /\ key' = key
      /\ \A u \in Threads \ {t} :
           /\ pc'[u] = pc[u] /\ op'[u] = op[u] /\ current'[u] = current[u] /\ next'[u] = next[u]
           /\ Holds(u) => BucketOfCall(u) # b
  <2>1. TRUE \in Nodes \cup {NULL} \cup BOOLEAN
    OBVIOUS
  <2>2. PICK nodes : nodes = stored \ {m}
    OBVIOUS
  <2>3. MayLeave(t, nodes) /\ Return(t, TRUE, nodes)
    BY <1>2, <1>6, <1>7, <1>8, <2>2 DEF MayLeave
  <2>4. bucket_next' \in [Nodes \cup Buckets -> Nodes \cup {NULL}] /\ Holds(t)
    BY <1>2, <1>6
  <2>5. /\ TypeOK' /\ CallsAreSound' /\ LocksAreHeld' /\ KeysAreUnique'
        /\ stored' = nodes /\ key' = key /\ Out(t)
    BY <2>1, <2>3, <2>4, ReturnStep
  <2> HIDE DEF BucketOfCall
  <2> QED BY <1>1, <2>2, <2>5 DEF Out
<1>10. BucketOf[key[m]] = b
  BY <1>5 DEF StoredIn
<1>11. StoredIn(b)' = StoredIn(b) \ {m} /\ \A d \in Buckets \ {b} : StoredIn(d)' = StoredIn(d)
  BY <1>9, <1>10 DEF StoredIn
<1>12. Local(t, b)
  <2>1. ASSUME NEW d \in Buckets \ {b}, NEW x \in StoredIn(d) \cup {d}  PROVE bucket_next'[x] = bucket_next[x]
    <3>1. x # c /\ x \in Nodes \cup Buckets
      BY <1>3, <1>4, <1>5, <2>1, StoredFacts
    <3> QED BY <1>1, <1>2, <3>1 DEF Inv, TypeOK
  <2> HIDE DEF StoredIn, BucketOfCall
  <2> QED BY <1>1, <1>2, <1>9, <1>11, <2>1 DEF Local
<1>13. Sorted(g, key, b, NULL, StoredIn(b) \ {m})
  <2>1. g[c] = bucket_next[m] /\ \A x \in (StoredIn(b) \cup {b}) \ {c} : g[x] = bucket_next[x]
    BY <1>2, <1>3, <1>4, <1>5 DEF Inv, TypeOK
  <2> QED BY <1>4, <1>5, <2>1, CutSorted
<1>14. WalksAreOnTheirWay' /\ ChainsAreSorted'
  <2>1. ~Holds(t)' /\ pc'[t] # "link_next"
    BY <1>9 DEF Holds
  <2>2. Sorted(bucket_next', key', b, NULL, StoredIn(b)')
    BY <1>1, <1>9, <1>11, <1>13
  <2> QED BY <1>9, <1>12, <2>1, <2>2, LocalStep
<1> QED BY <1>9, <1>14 DEF Inv

(* Every step keeps the invariant.                                         *)
LEMMA Invariance == Spec => []Inv
<1>1. Inv /\ [Next]_vars => Inv'
  <2> SUFFICES ASSUME Inv, [Next]_vars PROVE Inv'
    OBVIOUS
  <2>1. CASE UNCHANGED vars
    <3>1. TypeOK' /\ CallsAreSound' /\ KeysAreUnique'
      BY <2>1 DEF vars, Inv, TypeOK, CallsAreSound, KeysAreUnique
    <3>2. /\ \A t : BucketOfCall(t)' = BucketOfCall(t) /\ Holds(t)' = Holds(t) /\ Undone(t)' = Undone(t)
          /\ \A b : StoredIn(b)' = StoredIn(b)
          /\ UNCHANGED <<bucket_next, key, pc, lock, op, current, next>>
      BY <2>1 DEF vars, BucketOfCall, Holds, Undone, StoredIn
    <3>3. \A t : StoredIn(BucketOfCall(t))' = StoredIn(BucketOfCall(t))
      BY <2>1 DEF vars, BucketOfCall, StoredIn
    <3> HIDE DEF BucketOfCall, Holds, Undone, StoredIn
    <3>4. LocksAreHeld'
      BY <3>2 DEF Inv, LocksAreHeld
    <3>5. \A t : OnItsWay(t)' = OnItsWay(t)
      BY <3>2, <3>3 DEF OnItsWay
    <3>6. WalksAreOnTheirWay'
      BY <3>2, <3>5 DEF Inv, WalksAreOnTheirWay
    <3>7. ChainsAreSorted'
      BY <3>2, <3>3 DEF Inv, ChainsAreSorted
    <3> QED BY <3>1, <3>4, <3>6, <3>7 DEF Inv
  <2>2. ASSUME NEW t \in Threads, Call(t) \/ Proceed(t)  PROVE Inv'
    BY <2>2, BeginStep, LockStep, WalkStep, ReturnEarlyStep, LinkPrevStep, LinkNextStep, UnlinkStep
       DEF Proceed
  <2> QED BY <2>1, <2>2 DEF Next
<1> QED BY InitInv, <1>1, PTL DEF Spec

---------------------------------------------------------------------------
(* What the chains hold while nobody has their lock.                       *)
LEMMA UnlockedChain ==
  ASSUME Inv, NEW b \in Buckets, lock[LockOf[b]] = NULL
  PROVE  Sorted(bucket_next, key, b, NULL, StoredIn(b)) /\ Chain(b) = StoredIn(b)
<1>1. \A t \in Threads : pc[t] = "link_next" => BucketOfCall(t) # b
  BY DEF Inv, LocksAreHeld, Holds
<1>2. Sorted(bucket_next, key, b, NULL, StoredIn(b))
  BY <1>1 DEF Inv, ChainsAreSorted
<1>3. PICK h, C : h = bucket_next[b] /\ C = Cardinality(Nodes)
  OBVIOUS
<1>4. HasChain(bucket_next, h, NULL, StoredIn(b)) /\ StoredIn(b) \subseteq Nodes
  BY <1>2, <1>3, StoredFacts DEF Sorted
<1>5. /\ C \in Nat /\ NULL \notin Nodes /\ h \in Nodes \cup {NULL}
      /\ \A x \in Nodes : bucket_next[x] \in Nodes \cup {NULL}
  BY <1>3, FS_CardinalityType DEF Inv, TypeOK
<1>6. PICK w : w = CHOOSE v : IsWalkTo(v, bucket_next, h, NULL, C)
  OBVIOUS
<1>7. IsWalkTo(w, bucket_next, h, NULL, C)
  BY <1>5, <1>6, WalkExists
<1>8. {w[i] : i \in 0 .. C} \ {NULL} = StoredIn(b)
  BY <1>3, <1>4, <1>5, <1>7, WalkToTheEnd
<1>9. Chain(b) = {w[i] : i \in 0 .. C} \ {NULL}
  BY <1>3, <1>6 DEF Chain, IsWalkTo
<1> QED BY <1>2, <1>8, <1>9

(* The chains of DeferredLRU are what its model takes them for: sorted,    *)
(* and, once the lock is given back, exactly the stored nodes of their     *)
(* bucket, for any number of threads, nodes, buckets and shared locks.     *)
THEOREM ChainsAreKept == Spec => []ChainsAreSound
<1>1. Inv => ChainsAreSound
  <2> SUFFICES ASSUME Inv, NEW b \in Buckets, lock[LockOf[b]] = NULL
               PROVE  /\ Chain(b) = {n \in stored : BucketOf[key[n]] = b}
                      /\ \A n \in Chain(b) : bucket_next[n] # NULL => key[n] < key[bucket_next[n]]
    BY DEF ChainsAreSound, ChainIsStored, ChainIsSorted
  <2>1. Sorted(bucket_next, key, b, NULL, StoredIn(b)) /\ Chain(b) = StoredIn(b)
    BY UnlockedChain
  <2>2. HasChain(bucket_next, bucket_next[b], NULL, StoredIn(b))
    BY <2>1 DEF Sorted
  <2>3. \A n \in StoredIn(b) : bucket_next[n] \in StoredIn(b) \cup {NULL}
    BY <2>2, ChainFacts
  <2> HIDE DEF Chain
  <2> QED BY <2>1, <2>3 DEF Sorted, StoredIn
<1> QED BY <1>1, Invariance, PTL

(* Each variable keeps its type.                                           *)
THEOREM TypeIsCorrect == Spec => []TypeOK
BY Invariance, PTL DEF Inv

(* The walk of a call stopped at the node of its key if there is one.      *)
LEMMA StopsAtTheKey ==
  ASSUME Inv, NEW t \in Threads, pc[t] = "walk", ~GoesOn(t), op[t].kind \in {"search", "add"}
  PROVE  /\ Reached(t) => next[t] \in WithKey(op[t].key)
         /\ ~Reached(t) => WithKey(op[t].key) = {}
<1>1. BucketOfCall(t) \in Buckets /\ op[t].key \in Nat
  BY CallFacts
<1>2. next[t] \in StoredIn(BucketOfCall(t)) \cup {NULL}
  BY WalkSees
<1>3. NULL \notin StoredIn(BucketOfCall(t)) /\ \A x \in StoredIn(BucketOfCall(t)) : x \in stored /\ key[x] \in Nat
  BY <1>1, StoredFacts
<1>4. Reached(t) <=> next[t] # NULL /\ op[t].key = key[next[t]]
  BY DEF Reached
<1>5. ASSUME NEW m \in stored, key[m] = op[t].key  PROVE Reached(t)
  <2>1. next[t] \in StoredIn(BucketOfCall(t)) /\ key[next[t]] <= op[t].key
    BY <1>5, WalkPassesNone
  <2>2. next[t] # NULL /\ key[next[t]] \in Nat
    BY <1>3, <2>1
  <2>3. op[t].key <= key[next[t]]
    BY <2>2, WalkStops
  <2> QED BY <1>1, <1>4, <2>1, <2>2, <2>3
<1>6. Reached(t) => next[t] \in stored /\ key[next[t]] = op[t].key
  BY <1>2, <1>3, <1>4
<1> QED BY <1>5, <1>6 DEF WithKey

(* The walk of a removal stopped at its node.                              *)
LEMMA StopsAtTheNode ==
  ASSUME Inv, NEW t \in Threads, pc[t] = "walk", ~GoesOn(t), op[t].kind = "remove"
  PROVE  Reached(t) /\ op[t].node \in stored
<1>1. PICK m : m = op[t].node
  OBVIOUS
<1>2. m \in stored /\ op[t].key = key[m]
  BY <1>1 DEF Inv, CallsAreSound
<1>3. next[t] \in StoredIn(BucketOfCall(t)) /\ BucketOfCall(t) \in Buckets
  BY <1>2, WalkPassesNone, CallFacts
<1>4. next[t] # NULL
  BY <1>3, StoredFacts
<1>5. op[t].node = next[t]
  BY <1>4, WalkStops
<1> QED BY <1>1, <1>2, <1>4, <1>5 DEF Reached

(* What a call returns is right when it gives the lock back, although it   *)
(* walked the chain link by link, stopped at the first key that is not     *)
(* less, and shares the lock with other buckets.                           *)
THEOREM AnswersAreRight == Spec => AnswersAreExact
<1> DEFINE Right(t) ==
      CASE op[t].kind = "search" ->
             IF WithKey(op[t].key) = {} THEN answer'[t] = NULL ELSE answer'[t] \in WithKey(op[t].key)
        [] op[t].kind = "add"    -> answer'[t] = (WithKey(op[t].key) = {})
        [] op[t].kind = "remove" -> answer'[t] = (op[t].node \in stored)
           AllRight == \A t \in Threads : pc[t] # "idle" /\ pc'[t] = "idle" => Right(t)
<1>1. ASSUME Inv, NEW t \in Threads, ReturnEarly(t)  PROVE Right(t)
  <2>1. pc[t] = "walk" /\ ~GoesOn(t) /\ t \in DOMAIN answer
    BY <1>1 DEF ReturnEarly, Inv, TypeOK
  <2>2. CASE op[t].kind = "search"
    <3>1. answer'[t] = IF Reached(t) THEN next[t] ELSE NULL
      BY <1>1, <2>1, <2>2 DEF ReturnEarly, Return
    <3>2. /\ Reached(t) => next[t] \in WithKey(op[t].key)
          /\ ~Reached(t) => WithKey(op[t].key) = {}
      BY <1>1, <2>1, <2>2, StopsAtTheKey
    <3> HIDE DEF WithKey, Reached
    <3> QED BY <2>2, <3>1, <3>2
  <2>3. CASE op[t].kind = "add"
    <3>1. answer'[t] = FALSE /\ Reached(t)
      BY <1>1, <2>1, <2>3 DEF ReturnEarly, Return
    <3>2. next[t] \in WithKey(op[t].key)
      BY <1>1, <2>1, <2>3, <3>1, StopsAtTheKey
    <3>3. (WithKey(op[t].key) = {}) = FALSE
      BY <3>2
    <3> QED BY <2>3, <3>1, <3>3
  <2>4. CASE op[t].kind = "remove"
    <3>1. ~Reached(t)
      BY <1>1, <2>1, <2>4 DEF ReturnEarly, Return
    <3> QED BY <1>1, <2>1, <2>4, <3>1, StopsAtTheNode
  <2>5. op[t].kind \in {"search", "add", "remove"}
    BY <1>1, <2>1, CallFacts
  <2> HIDE DEF Right
  <2> QED BY <2>2, <2>3, <2>4, <2>5
<1>2. ASSUME Inv, NEW t \in Threads, LinkNext(t)  PROVE Right(t)
  <2>1. pc[t] = "link_next" /\ answer'[t] = TRUE
    BY <1>2 DEF LinkNext, Return, Inv, TypeOK
  <2>2. op[t].kind = "add"
    BY <1>2, <2>1, LinkFacts
  <2>3. \A m \in stored : key[m] # op[t].key
    BY <1>2, <2>1, LinkIsNew
  <2>4. (WithKey(op[t].key) = {}) = TRUE
    BY <2>3 DEF WithKey
  <2> QED BY <2>1, <2>2, <2>4
<1>3. ASSUME Inv, NEW t \in Threads, Unlink(t)  PROVE Right(t)
  <2>1. pc[t] = "walk" /\ ~GoesOn(t) /\ op[t].kind = "remove" /\ answer'[t] = TRUE
    BY <1>3 DEF Unlink, Return, Inv, TypeOK
  <2>2. (op[t].node \in stored) = TRUE
    BY <1>3, <2>1, StopsAtTheNode
  <2> QED BY <2>1, <2>2
<1>4. ASSUME Inv, NEW t \in Threads, Call(t) \/ Lock(t) \/ Walk(t) \/ LinkPrev(t)
      PROVE  pc[t] = "idle" \/ pc'[t] # "idle"
  BY <1>4 DEF Call, Search, Add, RemoveNode, Begin, Lock, Walk, LinkPrev, SetNext, Inv, TypeOK
<1>5. ASSUME Inv, NEW u \in Threads, Call(u) \/ Proceed(u), NEW t \in Threads \ {u}
      PROVE  pc'[t] = pc[t]
  BY <1>5 DEF Call, Search, Add, RemoveNode, Begin, Proceed, Lock, Walk, ReturnEarly, LinkPrev,
    SetNext,
              LinkNext, Unlink, Return, Inv, TypeOK
<1> HIDE DEF Right
<1>6. ASSUME Inv, [Next]_vars  PROVE [AllRight]_vars
  <2>1. ASSUME NEW u \in Threads, Call(u) \/ Proceed(u)  PROVE AllRight
    BY <1>1, <1>2, <1>3, <1>4, <1>5, <1>6, <2>1 DEF Proceed
  <2> QED BY <1>6, <2>1 DEF Next
<1> HIDE DEF AllRight
<1>7. Spec => [][AllRight]_vars
  BY <1>6, Invariance, PTL DEF Spec
<1> QED BY <1>7 DEF AnswersAreExact, AllRight, Right
=============================================================================
