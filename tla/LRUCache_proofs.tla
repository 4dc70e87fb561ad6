--------------------------- MODULE LRUCache_proofs ---------------------------
(***************************************************************************)
(* Proofs about LRUCache: its links always read as sequences.              *)
(***************************************************************************)
EXTENDS LRUCacheRefinement, ListLemmas

OneToOne(q) == \A i, j \in 1 .. Len(q) : q[i] = q[j] => i = j
Covers(q, U) == \A s \in Slots : s \in U <=> \E i \in 1 .. Len(q) : q[i] = s
Elem(q, i) == IF i \in 1 .. Len(q) THEN q[i] ELSE -1

(* The doubly linked list of the elements U, in the order of q.            *)
LinksRead(nx, pv, hd, tl, q) ==
  /\ hd = Elem(q, 1) /\ tl = Elem(q, Len(q))
  /\ \A i \in 1 .. Len(q) : nx[q[i]] = Elem(q, i + 1) /\ pv[q[i]] = Elem(q, i - 1)
LruReads(c, q, U) ==
  /\ q \in Seq(Slots) /\ OneToOne(q) /\ Covers(q, U)
  /\ LinksRead(c.list_next, c.list_prev, c.head, c.tail, q)

(* The chain of bucket b, in the order of its links.                       *)
ChainReads(nx, pv, hd, b, q) ==
  /\ hd = Elem(q, 1)
  /\ \A i \in 1 .. Len(q) : /\ nx[q[i]] = Elem(q, i + 1)
                            /\ pv[q[i]] = IF i = 1 THEN - b - 1 ELSE q[i - 1]
OfBucket(c, b, U) == {s \in U : BucketOf[c.key[s]] = b}
ChainsRead(c, ch, U) ==
  \A b \in BucketNrs :
    /\ ch[b] \in Seq(Slots) /\ OneToOne(ch[b]) /\ Covers(ch[b], OfBucket(c, b, U))
    /\ ChainReads(c.bucket_next, c.bucket_prev, c.bucket[b], b, ch[b])

(* The elements in use are the first of the array; the others wait in      *)
(* their order.                                                            *)
Used(c) == 0 .. c.count - 1
FreeReads(c) ==
  /\ c.free = IF c.count < MaxElements THEN c.count ELSE -1
  /\ \A s \in Slots : s >= c.count => c.list_next[s] = IF s + 1 < MaxElements THEN s + 1 ELSE -1

CacheType ==
  [count       : 0 .. MaxElements,
   key         : [Slots -> Keys \cup {NULL}],
   list_prev   : [Slots -> Slots \cup {-1, Garbage}],
   list_next   : [Slots -> Slots \cup {-1}],
   bucket_prev : [Slots -> (- BucketCount .. MaxElements - 1) \cup {Garbage}],
   bucket_next : [Slots -> Slots \cup {-1, Garbage}],
   bucket      : [BucketNrs -> Slots \cup {-1}],
   head        : Slots \cup {-1},
   tail        : Slots \cup {-1},
   free        : Slots \cup {-1}]

(* The links read as sequences of the elements U.                          *)
Good(c, U) ==
  /\ c \in CacheType
  /\ \A s \in U : c.key[s] \in Keys
  /\ \E q \in Seq(Slots) : Len(q) = c.count /\ LruReads(c, q, U)
  /\ \E ch \in [BucketNrs -> Seq(Slots)] : ChainsRead(c, ch, U)

Reads(c) == Good(c, Used(c)) /\ FreeReads(c)

(* q is the LRU list of c.                                                 *)
Orders(c, q) == q \in Seq(Slots) /\ Len(q) = c.count /\ LruReads(c, q, Used(c))

IInv ==
  /\ Reads(cache)
  /\ missed \in [Threads -> Keys \cup {NULL}]
  /\ consumer \in [Threads -> Keys \cup {NULL}]

---------------------------------------------------------------------------
(* Sequences with an element moved to the end, or without their first.     *)
Rotated(r, q, k) ==
  \A i \in 1 .. Len(q) : r[i] = IF i < k THEN q[i] ELSE IF i < Len(q) THEN q[i + 1] ELSE q[k]

(* Moving the k-th element to the end loses no element and adds none.      *)
LEMMA MovedSequence ==
  ASSUME NEW q \in Seq(Slots), OneToOne(q), NEW U, Covers(q, U), NEW k \in 1 .. Len(q)
  PROVE  LET r == Append(RemoveAt(q, k), q[k])
         IN  /\ r \in Seq(Slots) /\ Len(r) = Len(q) /\ OneToOne(r) /\ Covers(r, U)
             /\ Rotated(r, q, k)
<1> DEFINE a == RemoveAt(q, k)
           r == Append(a, q[k])
<1>1. /\ a \in Seq(Slots) /\ Len(a) = Len(q) - 1
      /\ \A i \in 1 .. Len(q) - 1 : a[i] = IF i < k THEN q[i] ELSE q[i + 1]
  BY RemoveAtFacts
<1> HIDE DEF a
<1>2. /\ Len(q) \in Nat /\ q[k] \in Slots /\ Len(q) - 1 \in Nat
      /\ \A i \in 1 .. Len(q) : q[i] \in Slots
  OBVIOUS
<1>3. /\ r \in Seq(Slots) /\ Len(r) = Len(q)
      /\ \A i \in 1 .. Len(q) : r[i] = IF i = Len(q) THEN q[k] ELSE a[i]
  BY <1>1, <1>2
<1>4. \A i \in 1 .. Len(q) : r[i] = IF i < k THEN q[i] ELSE IF i < Len(q) THEN q[i + 1] ELSE q[k]
  BY <1>1, <1>2, <1>3
<1> HIDE DEF r
<1> DEFINE From(i) == IF i < k THEN i ELSE IF i < Len(q) THEN i + 1 ELSE k
<1>5. \A i \in 1 .. Len(q) : From(i) \in 1 .. Len(q) /\ r[i] = q[From(i)]
  BY <1>2, <1>4
<1>6. \A i, j \in 1 .. Len(q) : From(i) = From(j) => i = j
  BY <1>2
<1>7. \A j \in 1 .. Len(q) : \E i \in 1 .. Len(q) : From(i) = j
  <2> TAKE j \in 1 .. Len(q)
  <2>1. CASE j < k
    BY <2>1
  <2>2. CASE j = k
    <3>1. Len(q) \in 1 .. Len(q) /\ From(Len(q)) = k
      BY <1>2
    <3> QED BY <2>2, <3>1
  <2>3. CASE j > k
    <3>1. j - 1 \in 1 .. Len(q) /\ From(j - 1) = j
      BY <1>2, <2>3
    <3> QED BY <3>1
  <2> QED BY <1>2, <2>1, <2>2, <2>3
<1> HIDE DEF From
<1>8. OneToOne(r)
  BY <1>3, <1>5, <1>6, SMTT(40) DEF OneToOne
<1>9. Covers(r, U)
  <2>1. ASSUME NEW s \in Slots
        PROVE  (\E i \in 1 .. Len(q) : q[i] = s) <=> \E i \in 1 .. Len(q) : r[i] = s
    BY <1>5, <1>7
  <2> QED BY <1>3, <2>1 DEF Covers
<1> QED BY <1>3, <1>4, <1>8, <1>9 DEF a, r, Rotated

(* A hit: the links after an element has been moved to the end.            *)
LinksMoved(nx, pv, hd, tl, s, r) ==
  LinksRead([Set(nx, pv[s], nx[s]) EXCEPT ![s] = -1, ![tl] = s],
            [pv EXCEPT ![nx[s]] = pv[s], ![s] = tl],
            IF pv[s] = -1 THEN nx[s] ELSE hd, s, r)

(* The writes of a hit relink the list into the moved sequence.            *)
LEMMA MovedLinks ==
  ASSUME NEW nx \in [Slots -> Slots \cup {-1}], NEW pv \in [Slots -> Slots \cup {-1, Garbage}],
         NEW hd, NEW tl, NEW q \in Seq(Slots), OneToOne(q), LinksRead(nx, pv, hd, tl, q),
         NEW k \in 1 .. Len(q), k # Len(q), NEW s, s = q[k],
         NEW r \in Seq(Slots), Len(r) = Len(q),
         Rotated(r, q, k)
  PROVE  LinksMoved(nx, pv, hd, tl, s, r)
<1> DEFINE N == Len(q)
           nx2 == [Set(nx, pv[s], nx[s]) EXCEPT ![s] = -1, ![tl] = s]
           pv2 == [pv EXCEPT ![nx[s]] = pv[s], ![s] = tl]
           hd2 == IF pv[s] = -1 THEN nx[s] ELSE hd
<1>1. /\ N \in Nat /\ k \in 1 .. N - 1 /\ k + 1 \in 1 .. N /\ N \in 1 .. N /\ 1 \in 1 .. N
      /\ \A i \in 1 .. N : q[i] \in Slots
      /\ -1 \notin Slots
  <2>1. -1 \notin Slots
    BY ConstantsAssumption DEF Slots
  <2> QED BY <2>1
<1>2. /\ tl = q[N] /\ hd = q[1] /\ nx[s] = q[k + 1]
      /\ pv[s] = IF k = 1 THEN -1 ELSE q[k - 1]
      /\ \A i \in 1 .. N : nx[q[i]] = IF i = N THEN -1 ELSE q[i + 1]
      /\ \A i \in 1 .. N : pv[q[i]] = IF i = 1 THEN -1 ELSE q[i - 1]
  <2>1. \A i \in 1 .. N : i + 1 \in 1 .. N <=> i # N
    BY <1>1
  <2>2. \A i \in 1 .. N : i - 1 \in 1 .. N <=> i # 1
    BY <1>1
  <2> QED BY <1>1, <2>1, <2>2 DEF LinksRead, Elem
<1>3. \A i, j \in 1 .. N : q[i] = q[j] => i = j
  BY DEF OneToOne
<1>4. /\ DOMAIN nx2 = Slots /\ DOMAIN pv2 = Slots
      /\ nx2[s] = -1 /\ nx2[q[N]] = s
      /\ k # 1 => nx2[q[k - 1]] = q[k + 1]
      /\ \A i \in 1 .. N : i # k /\ i # N /\ i + 1 # k => nx2[q[i]] = q[i + 1]
  <2>1. DOMAIN nx = Slots /\ Slots = DOMAIN pv
    OBVIOUS
  <2>2. CASE k = 1
    BY <1>1, <1>2, <1>3, <2>1, <2>2 DEF Set
  <2>3. CASE k # 1
    <3>1. k - 1 \in 1 .. N /\ pv[s] = q[k - 1] /\ q[k - 1] \in Slots
      BY <1>1, <1>2, <2>3
    <3>2. q[k - 1] # s /\ q[k - 1] # q[N]
      BY <1>1, <1>3, <3>1
    <3> QED BY <1>1, <1>2, <1>3, <2>1, <2>3, <3>1, <3>2 DEF Set
  <2> QED BY <2>2, <2>3
<1>5. /\ pv2[s] = q[N] /\ pv2[q[k + 1]] = IF k = 1 THEN -1 ELSE q[k - 1]
      /\ \A i \in 1 .. N : i # k /\ i # 1 /\ i # k + 1 => pv2[q[i]] = q[i - 1]
      /\ k # 1 => pv2[q[1]] = -1
  BY <1>1, <1>2, <1>3
<1> HIDE DEF nx2, pv2, N
<1>6. /\ \A i \in 1 .. N : r[i] = IF i < k THEN q[i] ELSE IF i < N THEN q[i + 1] ELSE s
      /\ \A i \in 1 .. N : Elem(r, i + 1) = IF i = N THEN -1 ELSE r[i + 1]
      /\ \A i \in 1 .. N : Elem(r, i - 1) = IF i = 1 THEN -1 ELSE r[i - 1]
      /\ Elem(r, 1) = r[1] /\ Elem(r, N) = r[N]
  BY <1>1 DEF Elem, N, Rotated
<1>7. ASSUME NEW i \in 1 .. N  PROVE nx2[r[i]] = Elem(r, i + 1)
  <2>1. CASE i < k
    <3>1. r[i] = q[i] /\ i # k /\ i # N /\ i + 1 \in 1 .. N
      BY <1>1, <1>6, <2>1
    <3>2. CASE i + 1 = k
      <4>1. nx2[q[i]] = q[k + 1] /\ r[i + 1] = q[k + 1]
        BY <1>1, <1>4, <1>6, <2>1, <3>1, <3>2
      <4> QED BY <1>6, <3>1, <4>1
    <3>3. CASE i + 1 # k
      <4>1. nx2[q[i]] = q[i + 1] /\ r[i + 1] = q[i + 1]
        BY <1>1, <1>4, <1>6, <2>1, <3>1, <3>3
      <4> QED BY <1>6, <3>1, <4>1
    <3> QED BY <3>2, <3>3
  <2>2. CASE ~(i < k) /\ i < N
    <3>1. /\ r[i] = q[i + 1] /\ i + 1 \in 1 .. N /\ i + 1 # k /\ (i + 1) + 1 # k /\ i # N
          /\ ~(i + 1 < k)
      BY <1>1, <1>6, <2>2
    <3>2. CASE i + 1 = N
      <4>1. nx2[q[i + 1]] = s
        BY <1>4, <3>2
      <4>2. r[i + 1] = s
        <5>1. ~(N < N) /\ N \in 1 .. N
          BY <1>1
        <5> QED BY <1>6, <3>1, <3>2, <5>1
      <4> QED BY <1>6, <3>1, <4>1, <4>2
    <3>3. CASE i + 1 # N
      <4>1. nx2[q[i + 1]] = q[(i + 1) + 1]
        BY <1>4, <3>1, <3>3
      <4>2. r[i + 1] = q[(i + 1) + 1]
        BY <1>1, <1>6, <3>1, <3>3
      <4> QED BY <1>6, <3>1, <4>1, <4>2
    <3> QED BY <3>2, <3>3
  <2>3. CASE i = N
    BY <1>1, <1>4, <1>6, <2>3
  <2> QED BY <1>1, <2>1, <2>2, <2>3
<1>8. ASSUME NEW i \in 1 .. N  PROVE pv2[r[i]] = Elem(r, i - 1)
  <2>1. CASE i < k
    BY <1>1, <1>5, <1>6, <2>1
  <2>2. CASE i = k
    <3>1. r[i] = q[k + 1] /\ (k # 1 => r[i - 1] = q[k - 1])
      BY <1>1, <1>6, <2>2
    <3> QED BY <1>5, <1>6, <2>2, <3>1
  <2>3. CASE i > k /\ i # N
    <3>1. /\ r[i] = q[i + 1] /\ i + 1 \in 1 .. N /\ i + 1 # k /\ i + 1 # 1 /\ i + 1 # k + 1
          /\ (i + 1) - 1 = i /\ i # 1 /\ i - 1 \in 1 .. N /\ ~(i - 1 < k) /\ i - 1 < N /\ (i - 1) + 1 = i
      BY <1>1, <1>6, <2>3
    <3>2. pv2[q[i + 1]] = q[i] /\ r[i - 1] = q[i]
      BY <1>5, <1>6, <3>1
    <3> QED BY <1>6, <3>1, <3>2
  <2>4. CASE i = N
    <3>1. /\ r[i] = s /\ i # 1 /\ i - 1 \in 1 .. N /\ ~(i - 1 < k) /\ i - 1 < N /\ (i - 1) + 1 = N
      BY <1>1, <1>6, <2>4
    <3>2. r[i - 1] = q[N]
      BY <1>6, <3>1
    <3> QED BY <1>5, <1>6, <3>1, <3>2
  <2> QED BY <1>1, <2>1, <2>2, <2>3, <2>4
<1>9. hd2 = Elem(r, 1) /\ s = Elem(r, N)
  BY <1>1, <1>2, <1>6
<1>10. Len(r) = N
  BY DEF N
<1> QED BY <1>7, <1>8, <1>9, <1>10 DEF LinksRead, LinksMoved, nx2, pv2

(* The neighbours of an element, those of the first and the last included. *)
LEMMA ElemIs ==
  ASSUME NEW q \in Seq(Slots)
  PROVE  /\ \A i \in 1 .. Len(q) : Elem(q, i + 1) = IF i = Len(q) THEN -1 ELSE q[i + 1]
         /\ \A i \in 1 .. Len(q) : Elem(q, i - 1) = IF i = 1 THEN -1 ELSE q[i - 1]
         /\ Elem(q, 1) = IF Len(q) = 0 THEN -1 ELSE q[1]
         /\ Elem(q, Len(q)) = IF Len(q) = 0 THEN -1 ELSE q[Len(q)]
         /\ Len(q) \in Nat /\ \A i \in 1 .. Len(q) : q[i] \in Slots
<1>1. Len(q) \in Nat /\ \A i \in 1 .. Len(q) : q[i] \in Slots
  OBVIOUS
<1>2. \A i \in 1 .. Len(q) : i + 1 \in 1 .. Len(q) <=> i # Len(q)
  BY <1>1
<1>3. \A i \in 1 .. Len(q) : i - 1 \in 1 .. Len(q) <=> i # 1
  BY <1>1
<1>4. 1 \in 1 .. Len(q) <=> Len(q) # 0
  BY <1>1
<1>5. Len(q) \in 1 .. Len(q) <=> Len(q) # 0
  BY <1>1
<1> QED BY <1>1, <1>2, <1>3, <1>4, <1>5 DEF Elem

(* -1, which ends a list, is no slot.                                      *)
LEMMA SlotNumbers == -1 \notin Slots /\ \A s \in Slots : s \in Int /\ s >= 0 /\ s < MaxElements
BY ConstantsAssumption DEF Slots

(* An eviction: the list without its first element.                        *)
LEMMA EvictedLinks ==
  ASSUME NEW nx \in [Slots -> Slots \cup {-1}], NEW pv \in [Slots -> Slots \cup {-1, Garbage}],
         NEW hd, NEW tl, NEW q \in Seq(Slots), OneToOne(q), LinksRead(nx, pv, hd, tl, q),
         Len(q) >= 2, NEW f, NEW U, Covers(q, U)
  PROVE  LET r == Tail(q)
         IN  /\ hd = q[1] /\ hd \in Slots /\ nx[hd] = q[2] /\ nx[hd] \in Slots
             /\ r \in Seq(Slots) /\ Len(r) = Len(q) - 1
             /\ OneToOne(r) /\ Covers(r, U \ {hd})
             /\ LinksRead([nx EXCEPT ![hd] = f], [pv EXCEPT ![nx[hd]] = -1], nx[hd], tl, r)
<1> DEFINE N == Len(q)
           r == Tail(q)
           nx2 == [nx EXCEPT ![hd] = f]
           pv2 == [pv EXCEPT ![nx[hd]] = -1]
<1>1. /\ N \in Nat /\ \A i \in 1 .. N : q[i] \in Slots
      /\ 1 \in 1 .. N /\ 2 \in 1 .. N /\ N \in 1 .. N /\ N # 1 /\ N # 0
  <2>1. N \in Nat /\ \A i \in 1 .. N : q[i] \in Slots
    OBVIOUS
  <2>2. N \in Nat /\ N >= 2
    BY <2>1
  <2> HIDE DEF N
  <2>3. 1 \in 1 .. N /\ 2 \in 1 .. N /\ N \in 1 .. N /\ N # 1 /\ N # 0
    BY <2>2
  <2> QED BY <2>1, <2>3
<1>2. r \in Seq(Slots) /\ Len(r) = N - 1 /\ \A i \in 1 .. N - 1 : r[i] = q[i + 1]
  OBVIOUS
<1>3. \A i, j \in 1 .. N : q[i] = q[j] => i = j
  BY DEF OneToOne
<1>4. /\ hd = q[1] /\ tl = q[N] /\ nx[q[1]] = q[2]
      /\ \A i \in 1 .. N : nx[q[i]] = IF i = N THEN -1 ELSE q[i + 1]
      /\ \A i \in 1 .. N : pv[q[i]] = IF i = 1 THEN -1 ELSE q[i - 1]
  BY <1>1, ElemIs DEF LinksRead
<1> HIDE DEF r, N
<1>5. /\ \A i \in 1 .. N : i # 1 => nx2[q[i]] = IF i = N THEN -1 ELSE q[i + 1]
      /\ \A i \in 1 .. N : i # 1 => pv2[q[i]] = IF i = 2 THEN -1 ELSE q[i - 1]
  BY <1>1, <1>3, <1>4
<1> HIDE DEF nx2, pv2
<1>6. /\ \A i \in 1 .. Len(r) : Elem(r, i + 1) = IF i = Len(r) THEN -1 ELSE r[i + 1]
      /\ \A i \in 1 .. Len(r) : Elem(r, i - 1) = IF i = 1 THEN -1 ELSE r[i - 1]
      /\ Elem(r, 1) = r[1] /\ Elem(r, Len(r)) = r[Len(r)]
  <2>1. Len(r) # 0
    BY <1>1, <1>2 DEF N
  <2> QED BY <1>2, <2>1, ElemIs
<1>7. ASSUME NEW i \in 1 .. Len(r)
      PROVE  nx2[r[i]] = Elem(r, i + 1) /\ pv2[r[i]] = Elem(r, i - 1)
  <2>1. /\ i + 1 \in 1 .. N /\ i + 1 # 1 /\ r[i] = q[i + 1] /\ (i + 1) - 1 = i
        /\ i = Len(r) <=> i + 1 = N
        /\ i + 1 = 2 <=> i = 1
    BY <1>1, <1>2
  <2>2. i # Len(r) => r[i + 1] = q[(i + 1) + 1]
    BY <1>1, <1>2
  <2>3. i # 1 => r[i - 1] = q[i]
    <3>1. i # 1 => i - 1 \in 1 .. N - 1 /\ (i - 1) + 1 = i
      BY <1>1, <1>2
    <3> QED BY <1>2, <3>1
  <2> QED BY <1>5, <1>6, <2>1, <2>2, <2>3
<1>8. nx[hd] = r[1] /\ tl = r[Len(r)] /\ nx[hd] \in Slots
  <2>1. 1 \in 1 .. N - 1 /\ 1 + 1 = 2 /\ N - 1 \in 1 .. N - 1 /\ (N - 1) + 1 = N
    BY <1>1 DEF N
  <2> QED BY <1>1, <1>2, <1>4, <2>1
<1>9. LinksRead(nx2, pv2, nx[hd], tl, r)
  BY <1>6, <1>7, <1>8 DEF LinksRead
<1>10. OneToOne(r)
  <2>1. \A i \in 1 .. Len(r) : i + 1 \in 1 .. N /\ r[i] = q[i + 1] /\ i \in Int
    BY <1>1, <1>2
  <2>2. \A i, j \in 1 .. Len(r) : r[i] = r[j] => i + 1 = j + 1
    BY <1>3, <2>1
  <2> QED BY <2>1, <2>2 DEF OneToOne
<1>11. Covers(r, U \ {hd})
  <2> SUFFICES ASSUME NEW s \in Slots
               PROVE  s \in U \ {hd} <=> \E i \in 1 .. Len(r) : r[i] = s
    BY DEF Covers
  <2>1. s \in U <=> \E i \in 1 .. N : q[i] = s
    BY DEF Covers, N
  <2>2. ASSUME NEW i \in 1 .. N, q[i] = s, s # hd  PROVE \E j \in 1 .. Len(r) : r[j] = s
    <3>1. i # 1
      BY <1>4, <2>2
    <3>2. i - 1 \in 1 .. N - 1 /\ (i - 1) + 1 = i
      BY <1>1, <3>1
    <3> QED BY <1>2, <2>2, <3>2
  <2>3. ASSUME NEW i \in 1 .. Len(r), r[i] = s
        PROVE  s # hd /\ \E j \in 1 .. N : q[j] = s
    <3>1. i + 1 \in 1 .. N /\ i + 1 # 1 /\ r[i] = q[i + 1]
      BY <1>1, <1>2
    <3> QED BY <1>1, <1>3, <1>4, <2>3, <3>1
  <2> QED BY <2>1, <2>2, <2>3
<1> QED BY <1>1, <1>2, <1>4, <1>8, <1>9, <1>10, <1>11 DEF nx2, pv2, r, N

(* An insert: the list with another element at its end.                    *)
LinksAppended(nx, pv, hd, tl, new, r) ==
  LinksRead([Set(nx, tl, new) EXCEPT ![new] = -1], [pv EXCEPT ![new] = tl],
            IF hd = -1 THEN new ELSE hd, new, r)

(* An insert: the writes that link a free element in after the tail.       *)
LEMMA AppendedLinks ==
  ASSUME NEW nx \in [Slots -> Slots \cup {-1}], NEW pv \in [Slots -> Slots \cup {-1, Garbage}],
         NEW hd, NEW tl, NEW q \in Seq(Slots), OneToOne(q), LinksRead(nx, pv, hd, tl, q),
         NEW U, Covers(q, U), NEW new \in Slots \ U
  PROVE  LET r == Append(q, new)
         IN  /\ r \in Seq(Slots) /\ Len(r) = Len(q) + 1
             /\ OneToOne(r) /\ Covers(r, U \cup {new})
             /\ LinksAppended(nx, pv, hd, tl, new, r)
<1> DEFINE N == Len(q)
           r == Append(q, new)
           nx2 == [Set(nx, tl, new) EXCEPT ![new] = -1]
           pv2 == [pv EXCEPT ![new] = tl]
           hd2 == IF hd = -1 THEN new ELSE hd
<1>1. N \in Nat /\ \A i \in 1 .. N : q[i] \in Slots
  OBVIOUS
<1>2. /\ r \in Seq(Slots) /\ Len(r) = N + 1
      /\ \A i \in 1 .. N : r[i] = q[i]
      /\ r[N + 1] = new
  OBVIOUS
<1>3. \A i, j \in 1 .. N : q[i] = q[j] => i = j
  BY DEF OneToOne
<1>4. \A i \in 1 .. N : q[i] # new
  BY <1>1 DEF Covers
<1>5. /\ hd = IF N = 0 THEN -1 ELSE q[1]
      /\ tl = IF N = 0 THEN -1 ELSE q[N]
      /\ \A i \in 1 .. N : nx[q[i]] = IF i = N THEN -1 ELSE q[i + 1]
      /\ \A i \in 1 .. N : pv[q[i]] = IF i = 1 THEN -1 ELSE q[i - 1]
  BY ElemIs DEF LinksRead
<1> HIDE DEF r, N
<1>6. /\ nx2[new] = -1 /\ pv2[new] = tl
      /\ \A i \in 1 .. N : nx2[q[i]] = IF i = N THEN new ELSE q[i + 1]
      /\ \A i \in 1 .. N : pv2[q[i]] = IF i = 1 THEN -1 ELSE q[i - 1]
  <2>1. DOMAIN nx = Slots /\ DOMAIN Set(nx, tl, new) = Slots /\ DOMAIN pv = Slots
    BY DEF Set
  <2>2. \A i \in 1 .. N : Set(nx, tl, new)[q[i]] = IF i = N THEN new ELSE q[i + 1]
    <3>1. CASE N = 0
      BY <3>1
    <3>2. CASE N # 0
      <4>1. N \in 1 .. N /\ tl = q[N] /\ tl \in Slots
        BY <1>1, <1>5, <3>2
      <4> QED BY <1>1, <1>3, <1>5, <4>1 DEF Set
    <3> QED BY <3>1, <3>2
  <2> QED BY <1>1, <1>4, <1>5, <2>1, <2>2
<1> HIDE DEF nx2, pv2
<1>7. /\ \A i \in 1 .. Len(r) : Elem(r, i + 1) = IF i = Len(r) THEN -1 ELSE r[i + 1]
      /\ \A i \in 1 .. Len(r) : Elem(r, i - 1) = IF i = 1 THEN -1 ELSE r[i - 1]
      /\ Elem(r, 1) = r[1] /\ Elem(r, Len(r)) = r[Len(r)]
  <2>1. Len(r) # 0
    BY <1>1, <1>2
  <2> QED BY <1>2, <2>1, ElemIs
<1>8. ASSUME NEW i \in 1 .. Len(r)
      PROVE  nx2[r[i]] = Elem(r, i + 1) /\ pv2[r[i]] = Elem(r, i - 1)
  <2>1. CASE i = N + 1
    <3>1. nx2[r[i]] = -1 /\ pv2[r[i]] = tl /\ Elem(r, i + 1) = -1
      BY <1>2, <1>6, <1>7, <2>1
    <3>2. CASE N = 0
      BY <1>5, <1>7, <2>1, <3>1, <3>2
    <3>3. CASE N # 0
      <4>1. i # 1 /\ i - 1 = N /\ N \in 1 .. N
        BY <1>1, <2>1, <3>3
      <4> QED BY <1>2, <1>5, <1>7, <3>1, <3>3, <4>1
    <3> QED BY <3>2, <3>3
  <2>2. CASE i # N + 1
    <3>1. i \in 1 .. N /\ i # Len(r) /\ r[i] = q[i]
      BY <1>1, <1>2, <2>2
    <3>2. r[i + 1] = IF i = N THEN new ELSE q[i + 1]
      BY <1>1, <1>2, <3>1
    <3>3. i # 1 => r[i - 1] = q[i - 1]
      BY <1>1, <1>2, <3>1
    <3> QED BY <1>6, <1>7, <3>1, <3>2, <3>3
  <2> QED BY <2>1, <2>2
<1>9. hd2 = r[1] /\ new = r[Len(r)]
  <2>1. CASE N = 0
    BY <1>2, <1>5, <2>1
  <2>2. CASE N # 0
    <3>1. 1 \in 1 .. N
      BY <1>1, <2>2
    <3>2. hd = q[1] /\ hd # -1
      BY <1>1, <1>5, <2>2, <3>1, SlotNumbers
    <3> QED BY <1>2, <3>1, <3>2
  <2> QED BY <2>1, <2>2
<1>10. LinksRead(nx2, pv2, hd2, new, r)
  BY <1>7, <1>8, <1>9 DEF LinksRead
<1>11. OneToOne(r)
  <2>1. \A i \in 1 .. Len(r) : IF i = N + 1 THEN r[i] = new ELSE i \in 1 .. N /\ r[i] = q[i]
    BY <1>1, <1>2
  <2> QED BY <1>3, <1>4, <2>1 DEF OneToOne
<1>12. Covers(r, U \cup {new})
  <2> SUFFICES ASSUME NEW s \in Slots
               PROVE  s \in U \cup {new} <=> \E i \in 1 .. Len(r) : r[i] = s
    BY DEF Covers
  <2>1. s \in U <=> \E i \in 1 .. N : q[i] = s
    BY DEF Covers, N
  <2>2. /\ N + 1 \in 1 .. Len(r) /\ r[N + 1] = new
        /\ \A i \in 1 .. N : i \in 1 .. Len(r) /\ r[i] = q[i]
        /\ \A i \in 1 .. Len(r) : i = N + 1 \/ i \in 1 .. N
    BY <1>1, <1>2
  <2> QED BY <2>1, <2>2
<1> QED BY <1>2, <1>10, <1>11, <1>12 DEF LinksAppended, nx2, pv2, hd2, r, N

---------------------------------------------------------------------------
(* The bucket chains.                                                      *)
NextType == [Slots -> Slots \cup {-1, Garbage}]
BackType == [Slots -> (- BucketCount .. MaxElements - 1) \cup {Garbage}]
HeadType == [BucketNrs -> Slots \cup {-1}]

(* What an eviction writes around the victim s, the k-th of its chain.     *)
AroundIs(nx, pv, bk, b, q, k, s) ==
  /\ Set(nx, pv[s], nx[s]) = IF k = 1 THEN nx
                             ELSE [nx EXCEPT ![q[k - 1]] = IF k = Len(q) THEN -1 ELSE q[k + 1]]
  /\ Set(pv, nx[s], pv[s]) = IF k = Len(q) THEN pv
                             ELSE [pv EXCEPT ![q[k + 1]] = IF k = 1 THEN - b - 1 ELSE q[k - 1]]
  /\ Set(bk, - pv[s] - 1, nx[s]) = IF k = 1
                                   THEN [bk EXCEPT ![b] = IF k = Len(q) THEN -1 ELSE q[k + 1]]
                                   ELSE bk

(* What the chain links around an element of a chain say, before it is     *)
(* taken out.                                                              *)
LEMMA AroundVictim ==
  ASSUME NEW nx \in NextType, NEW pv \in BackType, NEW bk \in HeadType,
         NEW b \in BucketNrs, NEW q \in Seq(Slots), OneToOne(q), ChainReads(nx, pv, bk[b], b, q),
         NEW k \in 1 .. Len(q), NEW s, s = q[k]
  PROVE  AroundIs(nx, pv, bk, b, q, k, s)
<1>1. /\ DOMAIN nx = Slots /\ DOMAIN pv = Slots /\ DOMAIN bk = BucketNrs
      /\ b \in Int /\ b >= 0 /\ Len(q) \in Nat /\ k \in Int
      /\ \A i \in 1 .. Len(q) : q[i] \in Slots
  BY ElemIs, ConstantsAssumption DEF NextType, BackType, HeadType, BucketNrs
<1>2. /\ nx[s] = IF k = Len(q) THEN -1 ELSE q[k + 1]
      /\ pv[s] = IF k = 1 THEN - b - 1 ELSE q[k - 1]
  BY ElemIs DEF ChainReads
<1>3. CASE k = 1
  <2>1. - b - 1 \notin Slots /\ -(- b - 1) - 1 = b
    BY <1>1, SlotNumbers
  <2>2. k # Len(q) => nx[s] \in Slots
    BY <1>1, <1>2
  <2> QED BY <1>1, <1>2, <1>3, <2>1, <2>2, SlotNumbers DEF Set, AroundIs
<1>4. CASE k # 1
  <2>1. k - 1 \in 1 .. Len(q) /\ pv[s] \in Slots
    BY <1>1, <1>2, <1>4
  <2>2. - pv[s] - 1 \notin BucketNrs
    <3>1. pv[s] \in Int /\ pv[s] >= 0
      BY <2>1, SlotNumbers
    <3> QED BY <3>1, ConstantsAssumption DEF BucketNrs
  <2>3. k # Len(q) => nx[s] \in Slots
    BY <1>1, <1>2
  <2> QED BY <1>1, <1>2, <1>4, <2>1, <2>2, <2>3, SlotNumbers DEF Set, AroundIs
<1> QED BY <1>3, <1>4 DEF AroundIs

(* The victim's chain is left without it,                                  *)
LEMMA VictimLeavesChain ==
  ASSUME NEW nx \in NextType, NEW pv \in BackType, NEW bk \in HeadType,
         NEW b \in BucketNrs, NEW q \in Seq(Slots), OneToOne(q), ChainReads(nx, pv, bk[b], b, q),
         NEW k \in 1 .. Len(q), NEW s, s = q[k], NEW U, Covers(q, U)
  PROVE  LET r == RemoveAt(q, k)
         IN  /\ r \in Seq(Slots) /\ OneToOne(r) /\ Covers(r, U \ {s})
             /\ ChainReads(Set(nx, pv[s], nx[s]), Set(pv, nx[s], pv[s]),
                           Set(bk, - pv[s] - 1, nx[s])[b], b, r)
<1> DEFINE N == Len(q)
           r == RemoveAt(q, k)
           nx2 == Set(nx, pv[s], nx[s])
           pv2 == Set(pv, nx[s], pv[s])
           hd2 == Set(bk, - pv[s] - 1, nx[s])[b]
<1>1. /\ r \in Seq(Slots) /\ Len(r) = N - 1
      /\ \A i \in 1 .. N - 1 : r[i] = IF i < k THEN q[i] ELSE q[i + 1]
  BY RemoveAtFacts
<1>2. /\ N \in Nat /\ k \in 1 .. N /\ \A i \in 1 .. N : q[i] \in Slots
      /\ N - 1 \in Nat
  OBVIOUS
<1>3. \A i, j \in 1 .. N : q[i] = q[j] => i = j
  BY DEF OneToOne
<1>4. /\ bk[b] = IF N = 0 THEN -1 ELSE q[1]
      /\ \A i \in 1 .. N : nx[q[i]] = IF i = N THEN -1 ELSE q[i + 1]
      /\ \A i \in 1 .. N : pv[q[i]] = IF i = 1 THEN - b - 1 ELSE q[i - 1]
  BY ElemIs DEF ChainReads
<1>5. /\ nx2 = IF k = 1 THEN nx ELSE [nx EXCEPT ![q[k - 1]] = IF k = N THEN -1 ELSE q[k + 1]]
      /\ pv2 = IF k = N THEN pv ELSE [pv EXCEPT ![q[k + 1]] = IF k = 1 THEN - b - 1 ELSE q[k - 1]]
      /\ hd2 = IF k = 1 THEN (IF k = N THEN -1 ELSE q[k + 1]) ELSE bk[b]
  <2>1. /\ nx2 = IF k = 1 THEN nx ELSE [nx EXCEPT ![q[k - 1]] = IF k = N THEN -1 ELSE q[k + 1]]
        /\ pv2 = IF k = N THEN pv ELSE [pv EXCEPT ![q[k + 1]] = IF k = 1 THEN - b - 1 ELSE q[k - 1]]
        /\ Set(bk, - pv[s] - 1, nx[s]) = IF k = 1
                                         THEN [bk EXCEPT ![b] = IF k = N THEN -1 ELSE q[k + 1]]
                                         ELSE bk
    <3>1. AroundIs(nx, pv, bk, b, q, k, s)
      BY AroundVictim
    <3> QED BY <3>1 DEF AroundIs
  <2>2. DOMAIN bk = BucketNrs
    BY DEF HeadType
  <2> QED BY <2>1, <2>2
<1> HIDE DEF nx2, pv2, hd2, r, N
<1>6. \A i \in 1 .. N : i # k =>
        nx2[q[i]] = IF i + 1 = k THEN (IF k = N THEN -1 ELSE q[k + 1]) ELSE nx[q[i]]
  <2>1. k # 1 => k - 1 \in 1 .. N /\ (k - 1) + 1 = k
    BY <1>2
  <2>2. DOMAIN nx = Slots
    BY DEF NextType
  <2>3. \A i \in 1 .. N : i + 1 = k <=> (k # 1 /\ i = k - 1)
    BY <1>2
  <2> QED BY <1>2, <1>3, <1>5, <2>1, <2>2, <2>3
<1>7. \A i \in 1 .. N : i # k =>
        pv2[q[i]] = IF i = k + 1 THEN (IF k = 1 THEN - b - 1 ELSE q[k - 1]) ELSE pv[q[i]]
  <2>1. k # N => k + 1 \in 1 .. N
    BY <1>2
  <2>2. DOMAIN pv = Slots
    BY DEF BackType
  <2>3. \A i \in 1 .. N : i = k + 1 => k # N
    BY <1>2
  <2> QED BY <1>2, <1>3, <1>5, <2>1, <2>2, <2>3
<1>8. ASSUME NEW i \in 1 .. Len(r)
      PROVE  /\ nx2[r[i]] = IF i = Len(r) THEN -1 ELSE r[i + 1]
             /\ pv2[r[i]] = IF i = 1 THEN - b - 1 ELSE r[i - 1]
  <2>1. i \in 1 .. N - 1 /\ i \in 1 .. N /\ i + 1 \in 1 .. N /\ i # N /\ i + 1 # 1 /\ (i + 1) - 1 = i
    BY <1>1, <1>2
  <2>2. CASE i < k
    <3>1. r[i] = q[i] /\ i # k /\ i # k + 1
      BY <1>1, <1>2, <2>1, <2>2
    <3>2. i # 1 => r[i - 1] = q[i - 1]
      BY <1>1, <1>2, <2>1, <2>2
    <3>3. pv2[r[i]] = IF i = 1 THEN - b - 1 ELSE r[i - 1]
      BY <1>4, <1>7, <2>1, <3>1, <3>2
    <3>4. CASE i + 1 = k
      <4>1. i = Len(r) <=> k = N
        BY <1>1, <1>2, <2>1, <3>4
      <4>2. i # Len(r) => r[i + 1] = q[k + 1]
        BY <1>1, <1>2, <2>1, <3>4
      <4> QED BY <1>6, <2>1, <3>1, <3>3, <3>4, <4>1, <4>2
    <3>5. CASE i + 1 # k
      <4>1. i # Len(r) /\ r[i + 1] = q[i + 1]
        BY <1>1, <1>2, <2>1, <2>2, <3>5
      <4> QED BY <1>4, <1>6, <2>1, <3>1, <3>3, <3>5, <4>1
    <3> QED BY <3>4, <3>5
  <2>3. CASE ~(i < k)
    <3>1. r[i] = q[i + 1] /\ i + 1 # k /\ (i + 1) + 1 # k
      BY <1>1, <1>2, <2>1, <2>3
    <3>2. i = Len(r) <=> i + 1 = N
      BY <1>1, <1>2, <2>1
    <3>3. i # Len(r) => r[i + 1] = q[(i + 1) + 1]
      BY <1>1, <1>2, <2>1, <2>3
    <3>4. nx2[r[i]] = IF i = Len(r) THEN -1 ELSE r[i + 1]
      BY <1>4, <1>6, <2>1, <3>1, <3>2, <3>3
    <3>5. CASE i = k
      <4>1. i # 1 => r[i - 1] = q[k - 1]
        BY <1>1, <1>2, <2>1, <3>5
      <4> QED BY <1>7, <2>1, <3>1, <3>4, <3>5, <4>1
    <3>6. CASE i # k
      <4>1. i # 1 /\ i - 1 \in 1 .. N - 1 /\ ~(i - 1 < k) /\ (i - 1) + 1 = i /\ i + 1 # k + 1
        BY <1>2, <2>1, <2>3, <3>6
      <4>2. r[i - 1] = q[i]
        BY <1>1, <4>1
      <4> QED BY <1>4, <1>7, <2>1, <3>1, <3>4, <4>1, <4>2
    <3> QED BY <3>5, <3>6
  <2> QED BY <2>2, <2>3
<1>9. hd2 = IF Len(r) = 0 THEN -1 ELSE r[1]
  <2>1. CASE k = 1
    <3>1. Len(r) = 0 <=> k = N
      BY <1>1, <1>2, <2>1
    <3>2. Len(r) # 0 => r[1] = q[k + 1]
      BY <1>1, <1>2, <2>1
    <3> QED BY <1>5, <2>1, <3>1, <3>2
  <2>2. CASE k # 1
    <3>1. Len(r) # 0 /\ N # 0 /\ 1 \in 1 .. N - 1 /\ 1 < k
      BY <1>1, <1>2, <2>2
    <3> QED BY <1>1, <1>4, <1>5, <2>2, <3>1
  <2> QED BY <2>1, <2>2
<1>10. ChainReads(nx2, pv2, hd2, b, r)
  <2>1. /\ \A i \in 1 .. Len(r) : Elem(r, i + 1) = IF i = Len(r) THEN -1 ELSE r[i + 1]
        /\ Elem(r, 1) = IF Len(r) = 0 THEN -1 ELSE r[1]
    BY <1>1, ElemIs
  <2> QED BY <1>8, <1>9, <2>1 DEF ChainReads
<1>11. OneToOne(r)
  <2> DEFINE From(i) == IF i < k THEN i ELSE i + 1
  <2>1. \A i \in 1 .. Len(r) : From(i) \in 1 .. N /\ r[i] = q[From(i)]
    BY <1>1, <1>2
  <2>2. \A i, j \in 1 .. Len(r) : From(i) = From(j) => i = j
    BY <1>1, <1>2
  <2> HIDE DEF From
  <2> QED BY <1>3, <2>1, <2>2 DEF OneToOne
<1>12. Covers(r, U \ {s})
  <2> SUFFICES ASSUME NEW x \in Slots
               PROVE  x \in U \ {s} <=> \E i \in 1 .. Len(r) : r[i] = x
    BY DEF Covers
  <2>1. (\E i \in 1 .. Len(r) : r[i] = x) <=> \E i \in 1 .. N : i # k /\ q[i] = x
    <3>1. (\E i \in 1 .. Len(q) - 1 : RemoveAt(q, k)[i] = x)
            <=> \E i \in 1 .. Len(q) : i # k /\ q[i] = x
      BY RemoveAtKeepsOthers, SMTT(40)
    <3> QED BY <1>1, <3>1 DEF r, N
  <2>2. x \in U <=> \E i \in 1 .. N : q[i] = x
    BY DEF Covers, N
  <2> QED BY <1>2, <1>3, <2>1, <2>2
<1> QED BY <1>1, <1>10, <1>11, <1>12 DEF nx2, pv2, hd2, r

(* and the other chains read as before.                                    *)
LEMMA VictimLeavesOthers ==
  ASSUME NEW nx \in NextType, NEW pv \in BackType, NEW bk \in HeadType,
         NEW b \in BucketNrs, NEW q \in Seq(Slots), OneToOne(q), ChainReads(nx, pv, bk[b], b, q),
         NEW k \in 1 .. Len(q), NEW s, s = q[k],
         NEW c \in BucketNrs \ {b}, NEW p \in Seq(Slots), ChainReads(nx, pv, bk[c], c, p),
         \A i \in 1 .. Len(p), j \in 1 .. Len(q) : p[i] # q[j]
  PROVE  ChainReads(Set(nx, pv[s], nx[s]), Set(pv, nx[s], pv[s]),
                    Set(bk, - pv[s] - 1, nx[s])[c], c, p)
<1>1. Len(q) \in Nat /\ k \in Int
  OBVIOUS
<1>2. k # 1 => k - 1 \in 1 .. Len(q)
  BY <1>1
<1>3. k # Len(q) => k + 1 \in 1 .. Len(q)
  BY <1>1
<1>4. /\ \A i \in 1 .. Len(p) : Set(nx, pv[s], nx[s])[p[i]] = nx[p[i]]
      /\ \A i \in 1 .. Len(p) : Set(pv, nx[s], pv[s])[p[i]] = pv[p[i]]
      /\ Set(bk, - pv[s] - 1, nx[s])[c] = bk[c]
  <2>1. /\ Set(nx, pv[s], nx[s]) = IF k = 1 THEN nx
                                   ELSE [nx EXCEPT ![q[k - 1]] = IF k = Len(q) THEN -1 ELSE q[k + 1]]
        /\ Set(pv, nx[s], pv[s]) = IF k = Len(q) THEN pv
                                   ELSE [pv EXCEPT ![q[k + 1]] = IF k = 1 THEN - b - 1 ELSE q[k - 1]]
        /\ Set(bk, - pv[s] - 1, nx[s]) = IF k = 1
                                         THEN [bk EXCEPT ![b] = IF k = Len(q) THEN -1 ELSE q[k + 1]]
                                         ELSE bk
    <3>1. AroundIs(nx, pv, bk, b, q, k, s)
      BY AroundVictim
    <3> QED BY <3>1 DEF AroundIs
  <2>2. DOMAIN nx = Slots /\ DOMAIN pv = Slots /\ DOMAIN bk = BucketNrs
    BY DEF NextType, BackType, HeadType
  <2>3. \A i \in 1 .. Len(p) : p[i] \in Slots
    OBVIOUS
  <2>4. \A i \in 1 .. Len(p) : Set(nx, pv[s], nx[s])[p[i]] = nx[p[i]]
    BY <1>2, <2>1, <2>2, <2>3
  <2>5. \A i \in 1 .. Len(p) : Set(pv, nx[s], pv[s])[p[i]] = pv[p[i]]
    BY <1>3, <2>1, <2>2, <2>3
  <2>6. Set(bk, - pv[s] - 1, nx[s])[c] = bk[c]
    BY <2>1, <2>2
  <2> QED BY <2>4, <2>5, <2>6
<1> QED BY <1>4 DEF ChainReads

(* An insert: a new first element of a chain,                              *)
LEMMA NewInChain ==
  ASSUME NEW nx \in NextType, NEW pv \in BackType, NEW bk \in HeadType,
         NEW b \in BucketNrs, NEW q \in Seq(Slots), OneToOne(q), ChainReads(nx, pv, bk[b], b, q),
         NEW U, Covers(q, U), NEW new \in Slots \ U
  PROVE  LET r == <<new>> \o q
         IN  /\ r \in Seq(Slots) /\ OneToOne(r) /\ Covers(r, U \cup {new})
             /\ ChainReads([nx EXCEPT ![new] = bk[b]],
                           [Set(pv, bk[b], new) EXCEPT ![new] = - b - 1], new, b, r)
<1> DEFINE N == Len(q)
           r == <<new>> \o q
           nx2 == [nx EXCEPT ![new] = bk[b]]
           pv2 == [Set(pv, bk[b], new) EXCEPT ![new] = - b - 1]
<1>1. N \in Nat /\ \A i \in 1 .. N : q[i] \in Slots
  OBVIOUS
<1>2. /\ r \in Seq(Slots) /\ Len(r) = N + 1 /\ r[1] = new
      /\ \A i \in 1 .. N : r[i + 1] = q[i]
  OBVIOUS
<1>3. \A i, j \in 1 .. N : q[i] = q[j] => i = j
  BY DEF OneToOne
<1>4. \A i \in 1 .. N : q[i] # new
  BY <1>1 DEF Covers
<1>5. /\ bk[b] = IF N = 0 THEN -1 ELSE q[1]
      /\ \A i \in 1 .. N : nx[q[i]] = IF i = N THEN -1 ELSE q[i + 1]
      /\ \A i \in 1 .. N : pv[q[i]] = IF i = 1 THEN - b - 1 ELSE q[i - 1]
  BY ElemIs DEF ChainReads
<1> HIDE DEF r, N
<1>6. /\ DOMAIN nx = Slots /\ DOMAIN pv = Slots /\ DOMAIN Set(pv, bk[b], new) = Slots
  BY DEF NextType, BackType, Set
<1>7. /\ nx2[new] = bk[b] /\ pv2[new] = - b - 1
      /\ \A i \in 1 .. N : nx2[q[i]] = IF i = N THEN -1 ELSE q[i + 1]
  BY <1>1, <1>4, <1>5, <1>6
<1>8. \A i \in 1 .. N : pv2[q[i]] = IF i = 1 THEN new ELSE q[i - 1]
  <2>1. \A i \in 1 .. N : Set(pv, bk[b], new)[q[i]] = IF i = 1 THEN new ELSE q[i - 1]
    <3>1. CASE N = 0
      BY <3>1
    <3>2. CASE N # 0
      <4>1. 1 \in 1 .. N /\ bk[b] = q[1] /\ bk[b] \in Slots
        BY <1>1, <1>5, <3>2
      <4> QED BY <1>1, <1>3, <1>5, <1>6, <4>1 DEF Set
    <3> QED BY <3>1, <3>2
  <2> QED BY <1>1, <1>4, <1>6, <2>1
<1> HIDE DEF nx2, pv2
<1>9. \A i \in 1 .. Len(r) : \/ i = 1
                             \/ i - 1 \in 1 .. N /\ i # 1 /\ (i - 1) + 1 = i /\ r[i] = q[i - 1]
  <2>1. \A i \in 1 .. Len(r) : i = 1 \/ (i - 1 \in 1 .. N /\ i # 1 /\ (i - 1) + 1 = i)
    BY <1>1, <1>2
  <2> QED BY <1>2, <2>1
<1>10. /\ \A i \in 1 .. Len(r) : Elem(r, i + 1) = IF i = Len(r) THEN -1 ELSE r[i + 1]
       /\ Elem(r, 1) = new
  <2>1. Len(r) # 0
    BY <1>1, <1>2
  <2> QED BY <1>2, <2>1, ElemIs
<1>11. ASSUME NEW i \in 1 .. Len(r)
       PROVE  /\ nx2[r[i]] = Elem(r, i + 1)
              /\ pv2[r[i]] = IF i = 1 THEN - b - 1 ELSE r[i - 1]
  <2>1. CASE i = 1
    <3>1. CASE N = 0
      BY <1>2, <1>5, <1>7, <1>10, <2>1, <3>1
    <3>2. CASE N # 0
      <4>1. i # Len(r) /\ r[i + 1] = q[1]
        BY <1>1, <1>2, <2>1, <3>2
      <4> QED BY <1>2, <1>5, <1>7, <1>10, <2>1, <3>2, <4>1
    <3> QED BY <3>1, <3>2
  <2>2. CASE i # 1
    <3>1. i - 1 \in 1 .. N /\ r[i] = q[i - 1] /\ (i - 1) + 1 = i
      BY <1>9, <2>2
    <3>2. i = Len(r) <=> i - 1 = N
      BY <1>1, <1>2
    <3>3. i # Len(r) => r[i + 1] = q[i]
      BY <1>1, <1>2, <3>1
    <3>4. r[i - 1] = IF i - 1 = 1 THEN new ELSE q[(i - 1) - 1]
      <4>1. i - 1 # 1 => (i - 1) - 1 \in 1 .. N /\ ((i - 1) - 1) + 1 = i - 1
        BY <1>1, <3>1
      <4> QED BY <1>2, <4>1
    <3> QED BY <1>7, <1>8, <1>10, <2>2, <3>1, <3>2, <3>3, <3>4
  <2> QED BY <2>1, <2>2
<1>12. ChainReads(nx2, pv2, new, b, r)
  BY <1>10, <1>11 DEF ChainReads
<1>13. OneToOne(r)
  <2> SUFFICES ASSUME NEW i \in 1 .. Len(r), NEW j \in 1 .. Len(r), r[i] = r[j]  PROVE i = j
    BY DEF OneToOne
  <2>1. i # 1 /\ j # 1 => i - 1 = j - 1
    BY <1>3, <1>9
  <2>2. i = 1 => j = 1
    BY <1>2, <1>4, <1>9
  <2>3. j = 1 => i = 1
    BY <1>2, <1>4, <1>9
  <2>4. i \in Int /\ j \in Int
    OBVIOUS
  <2> QED BY <2>1, <2>2, <2>3, <2>4
<1>14. Covers(r, U \cup {new})
  <2> SUFFICES ASSUME NEW s \in Slots
               PROVE  s \in U \cup {new} <=> \E i \in 1 .. Len(r) : r[i] = s
    BY DEF Covers
  <2>1. s \in U <=> \E i \in 1 .. N : q[i] = s
    BY DEF Covers, N
  <2>2. /\ 1 \in 1 .. Len(r) /\ r[1] = new
        /\ \A i \in 1 .. N : i + 1 \in 1 .. Len(r) /\ r[i + 1] = q[i]
    BY <1>1, <1>2
  <2> QED BY <1>9, <2>1, <2>2
<1> QED BY <1>2, <1>12, <1>13, <1>14 DEF nx2, pv2, r

(* and the other chains as before.                                         *)
LEMMA NewNotInOthers ==
  ASSUME NEW nx \in NextType, NEW pv \in BackType, NEW bk \in HeadType,
         NEW b \in BucketNrs, NEW q \in Seq(Slots), ChainReads(nx, pv, bk[b], b, q),
         NEW new \in Slots, NEW c \in BucketNrs \ {b}, NEW p \in Seq(Slots),
         ChainReads(nx, pv, bk[c], c, p),
         \A i \in 1 .. Len(p) : p[i] # new /\ \A j \in 1 .. Len(q) : p[i] # q[j]
  PROVE  ChainReads([nx EXCEPT ![new] = bk[b]], [Set(pv, bk[b], new) EXCEPT ![new] = - b - 1],
                    bk[c], c, p)
<1>1. DOMAIN nx = Slots /\ DOMAIN pv = Slots /\ DOMAIN Set(pv, bk[b], new) = Slots
  BY DEF NextType, BackType, Set
<1>2. \A i \in 1 .. Len(p) : p[i] # bk[b] \/ bk[b] \notin Slots
  <2>1. bk[b] = IF Len(q) = 0 THEN -1 ELSE q[1]
    BY ElemIs DEF ChainReads
  <2>2. Len(q) # 0 => 1 \in 1 .. Len(q)
    OBVIOUS
  <2> QED BY <2>1, <2>2, SlotNumbers
<1>3. \A i \in 1 .. Len(p) : p[i] \in Slots
  OBVIOUS
<1>4. \A i \in 1 .. Len(p) : [nx EXCEPT ![new] = bk[b]][p[i]] = nx[p[i]]
  BY <1>1, <1>3
<1>5. \A i \in 1 .. Len(p) : [Set(pv, bk[b], new) EXCEPT ![new] = - b - 1][p[i]] = pv[p[i]]
  <2>1. \A i \in 1 .. Len(p) : Set(pv, bk[b], new)[p[i]] = pv[p[i]]
    BY <1>1, <1>2, <1>3 DEF Set
  <2> QED BY <1>1, <1>3, <2>1
<1> QED BY <1>4, <1>5 DEF ChainReads

---------------------------------------------------------------------------
(* The operations on the object.                                           *)
LEMMA CacheFields ==
  ASSUME NEW c \in CacheType
  PROVE  /\ c.count \in 0 .. MaxElements /\ c.key \in [Slots -> Keys \cup {NULL}]
         /\ c.list_prev \in [Slots -> Slots \cup {-1, Garbage}]
         /\ c.list_next \in [Slots -> Slots \cup {-1}]
         /\ c.bucket_prev \in BackType /\ c.bucket_next \in NextType /\ c.bucket \in HeadType
         /\ c.head \in Slots \cup {-1} /\ c.tail \in Slots \cup {-1} /\ c.free \in Slots \cup {-1}
BY DEF CacheType, BackType, NextType, HeadType

(* The chains depend on keys and chain links only.                         *)
LEMMA ChainsStay ==
  ASSUME NEW c, NEW d, d.key = c.key, d.bucket = c.bucket,
         d.bucket_next = c.bucket_next, d.bucket_prev = c.bucket_prev,
         NEW ch, NEW U, ChainsRead(c, ch, U)
  PROVE  ChainsRead(d, ch, U)
BY DEF ChainsRead, OfBucket

MovedTo(c, s, d) ==
  /\ d \in CacheType
  /\ d.count = c.count /\ d.key = c.key /\ d.free = c.free
  /\ d.bucket_prev = c.bucket_prev /\ d.bucket_next = c.bucket_next /\ d.bucket = c.bucket
  /\ d.head = (IF c.list_prev[s] = -1 THEN c.list_next[s] ELSE c.head)
  /\ d.tail = s
  /\ d.list_next = [Set(c.list_next, c.list_prev[s], c.list_next[s])
                      EXCEPT ![s] = -1, ![c.tail] = s]
  /\ d.list_prev = [c.list_prev EXCEPT ![c.list_next[s]] = c.list_prev[s], ![s] = c.tail]

(* The fields of a cache after a hit,                                      *)
LEMMA MovedFields ==
  ASSUME NEW c \in CacheType, NEW s \in Slots, s # c.tail, NEW d, d = Moved(c, s)
  PROVE  MovedTo(c, s, d)
<1> DEFINE nx == [Set(c.list_next, c.list_prev[s], c.list_next[s]) EXCEPT ![s] = -1, ![c.tail] = s]
           pv == [c.list_prev EXCEPT ![c.list_next[s]] = c.list_prev[s], ![s] = c.tail]
           hd == IF c.list_prev[s] = -1 THEN c.list_next[s] ELSE c.head
<1>1. d = [c EXCEPT !.head = hd, !.list_next = nx, !.list_prev = pv, !.tail = s]
  BY DEF Moved
<1>2. nx \in [Slots -> Slots \cup {-1}]
  <2>1. Set(c.list_next, c.list_prev[s], c.list_next[s]) \in [Slots -> Slots \cup {-1}]
    BY CacheFields DEF Set
  <2> QED BY <2>1
<1>3. pv \in [Slots -> Slots \cup {-1, Garbage}]
  BY CacheFields
<1>4. hd \in Slots \cup {-1}
  BY CacheFields
<1> HIDE DEF nx, pv, hd
<1>5. d \in CacheType
  BY <1>1, <1>2, <1>3, <1>4 DEF CacheType
<1>6. /\ d.count = c.count /\ d.key = c.key /\ d.free = c.free
      /\ d.bucket_prev = c.bucket_prev /\ d.bucket_next = c.bucket_next /\ d.bucket = c.bucket
      /\ d.head = hd /\ d.tail = s /\ d.list_next = nx /\ d.list_prev = pv
  BY <1>1 DEF CacheType
<1> QED BY <1>5, <1>6 DEF MovedTo, nx, pv, hd

EvictedTo(c, d) ==
  /\ d \in CacheType
  /\ d.count = c.count - 1 /\ d.key = c.key /\ d.free = c.head
  /\ d.head = c.list_next[c.head] /\ d.tail = c.tail
  /\ d.list_next = [c.list_next EXCEPT ![c.head] = c.free]
  /\ d.list_prev = [c.list_prev EXCEPT ![c.list_next[c.head]] = -1]
  /\ d.bucket = Set(c.bucket, - c.bucket_prev[c.head] - 1, c.bucket_next[c.head])
  /\ d.bucket_next = Set(c.bucket_next, c.bucket_prev[c.head], c.bucket_next[c.head])
  /\ d.bucket_prev = Set(c.bucket_prev, c.bucket_next[c.head], c.bucket_prev[c.head])

(* after an eviction,                                                      *)
LEMMA EvictedFields ==
  ASSUME NEW c \in CacheType, c.head \in Slots, c.list_next[c.head] \in Slots, c.count # 0,
         c.bucket_next[c.head] \in Slots \cup {-1},
         c.bucket_prev[c.head] \in - BucketCount .. MaxElements - 1,
         NEW d, d = Evicted(c)
  PROVE  EvictedTo(c, d)
<1> DEFINE v == c.head
           nx == [c.list_next EXCEPT ![v] = c.free]
           pv == [c.list_prev EXCEPT ![c.list_next[v]] = -1]
           bk == Set(c.bucket, - c.bucket_prev[v] - 1, c.bucket_next[v])
           bn == Set(c.bucket_next, c.bucket_prev[v], c.bucket_next[v])
           bp == Set(c.bucket_prev, c.bucket_next[v], c.bucket_prev[v])
<1>1. d = [c EXCEPT !.head = c.list_next[v], !.list_prev = pv, !.list_next = nx, !.free = v,
                    !.bucket = bk, !.bucket_next = bn, !.bucket_prev = bp, !.count = c.count - 1]
  BY DEF Evicted
<1>2. nx \in [Slots -> Slots \cup {-1}] /\ pv \in [Slots -> Slots \cup {-1, Garbage}]
  BY CacheFields
<1>3. bk \in HeadType /\ bn \in NextType /\ bp \in BackType
  BY CacheFields DEF HeadType, NextType, BackType, Set
<1>4. c.count - 1 \in 0 .. MaxElements
  BY CacheFields, ConstantsAssumption
<1> HIDE DEF nx, pv, bk, bn, bp
<1>5. d \in CacheType
  <2> DEFINE new == [count |-> c.count - 1, key |-> c.key, list_prev |-> pv, list_next |-> nx,
                     bucket_prev |-> bp, bucket_next |-> bn, bucket |-> bk,
                     head |-> c.list_next[v], tail |-> c.tail, free |-> v]
  <2>1. new \in CacheType
    BY <1>2, <1>3, <1>4, CacheFields DEF CacheType, HeadType, NextType, BackType
  <2>2. d = new
    BY <1>1 DEF CacheType
  <2> QED BY <2>1, <2>2
<1>6. /\ d.count = c.count - 1 /\ d.key = c.key /\ d.free = v
      /\ d.head = c.list_next[v] /\ d.tail = c.tail
      /\ d.list_next = nx /\ d.list_prev = pv
      /\ d.bucket = bk /\ d.bucket_next = bn /\ d.bucket_prev = bp
  BY <1>1 DEF CacheType
<1> QED BY <1>5, <1>6 DEF EvictedTo, nx, pv, bk, bn, bp

StoredTo(c, k, d) ==
  /\ d \in CacheType
  /\ d.count = c.count + 1 /\ d.key = [c.key EXCEPT ![c.free] = k]
  /\ d.free = c.list_next[c.free]
  /\ d.head = (IF c.head = -1 THEN c.free ELSE c.head) /\ d.tail = c.free
  /\ d.list_next = [Set(c.list_next, c.tail, c.free) EXCEPT ![c.free] = -1]
  /\ d.list_prev = [c.list_prev EXCEPT ![c.free] = c.tail]
  /\ d.bucket = [c.bucket EXCEPT ![BucketOf[k]] = c.free]
  /\ d.bucket_next = [c.bucket_next EXCEPT ![c.free] = c.bucket[BucketOf[k]]]
  /\ d.bucket_prev = [Set(c.bucket_prev, c.bucket[BucketOf[k]], c.free)
                        EXCEPT ![c.free] = - BucketOf[k] - 1]
  /\ BucketOf[k] \in BucketNrs

(* and after an insert, as equations on each field.                        *)
LEMMA StoredFields ==
  ASSUME NEW c \in CacheType, c.free \in Slots, c.count # MaxElements, NEW k \in Keys,
         NEW d, d = Stored(c, k)
  PROVE  StoredTo(c, k, d)
<1> DEFINE new == c.free
           b == BucketOf[k]
           nx == [Set(c.list_next, c.tail, new) EXCEPT ![new] = -1]
           pv == [c.list_prev EXCEPT ![new] = c.tail]
           hd == IF c.head = -1 THEN new ELSE c.head
           ks == [c.key EXCEPT ![new] = k]
           bk == [c.bucket EXCEPT ![b] = new]
           bn == [c.bucket_next EXCEPT ![new] = c.bucket[b]]
           bp == [Set(c.bucket_prev, c.bucket[b], new) EXCEPT ![new] = - b - 1]
<1>1. d = [c EXCEPT !.count = c.count + 1, !.free = c.list_next[new], !.key = ks,
                    !.list_prev = pv, !.list_next = nx, !.tail = new, !.head = hd,
                    !.bucket_next = bn, !.bucket_prev = bp, !.bucket = bk]
  BY DEF Stored
<1>2. b \in BucketNrs
  BY ConstantsAssumption DEF BucketNrs
<1>3. nx \in [Slots -> Slots \cup {-1}] /\ pv \in [Slots -> Slots \cup {-1, Garbage}]
  <2>1. Set(c.list_next, c.tail, new) \in [Slots -> Slots \cup {-1}]
    BY CacheFields DEF Set
  <2> QED BY <2>1, CacheFields
<1>4. hd \in Slots \cup {-1} /\ ks \in [Slots -> Keys \cup {NULL}]
  BY CacheFields
<1>5. bk \in HeadType /\ bn \in NextType
  BY <1>2, CacheFields DEF HeadType, NextType
<1>6. bp \in BackType
  <2>1. - b - 1 \in - BucketCount .. MaxElements - 1
    BY <1>2, ConstantsAssumption DEF BucketNrs
  <2>2. new \in - BucketCount .. MaxElements - 1
    BY ConstantsAssumption DEF Slots
  <2>3. Set(c.bucket_prev, c.bucket[b], new) \in BackType
    BY <2>2, CacheFields DEF BackType, Set
  <2> HIDE DEF b, new
  <2> QED BY <2>1, <2>2, <2>3 DEF BackType
<1>7. c.count + 1 \in 0 .. MaxElements /\ c.list_next[new] \in Slots \cup {-1}
  BY CacheFields, ConstantsAssumption
<1> HIDE DEF nx, pv, hd, ks, bk, bn, bp
<1>8. d \in CacheType
  <2> DEFINE r == [count |-> c.count + 1, key |-> ks, list_prev |-> pv, list_next |-> nx,
                   bucket_prev |-> bp, bucket_next |-> bn, bucket |-> bk,
                   head |-> hd, tail |-> new, free |-> c.list_next[new]]
  <2>1. r \in CacheType
    BY <1>3, <1>4, <1>5, <1>6, <1>7, CacheFields DEF CacheType, HeadType, NextType, BackType
  <2>2. d = r
    BY <1>1 DEF CacheType
  <2> QED BY <2>1, <2>2
<1>9. /\ d.count = c.count + 1 /\ d.key = ks /\ d.free = c.list_next[new]
      /\ d.head = hd /\ d.tail = new /\ d.list_next = nx /\ d.list_prev = pv
      /\ d.bucket = bk /\ d.bucket_next = bn /\ d.bucket_prev = bp
  BY <1>1 DEF CacheType
<1> QED BY <1>2, <1>8, <1>9 DEF StoredTo, nx, pv, hd, ks, bk, bn, bp

(* A hit leaves the links readable; only its own list changes.             *)
LEMMA MovedReads ==
  ASSUME NEW c, Reads(c), NEW q \in Seq(Slots), Orders(c, q), NEW k \in 1 .. Len(q),
         NEW s \in Used(c), s = q[k]
  PROVE  LET d == Moved(c, s)
         IN  /\ Reads(d) /\ Orders(d, Append(RemoveAt(q, k), q[k]))
             /\ d.key = c.key /\ d.count = c.count
<1>1. /\ c \in CacheType /\ FreeReads(c) /\ \A x \in Used(c) : c.key[x] \in Keys
      /\ Len(q) = c.count /\ LruReads(c, q, Used(c))
      /\ \E ch \in [BucketNrs -> Seq(Slots)] : ChainsRead(c, ch, Used(c))
  BY DEF Reads, Good, Orders
<1>2. CASE s = c.tail
  <2>1. PICK r \in Seq(Slots) : /\ r = Append(RemoveAt(q, k), q[k])
                                /\ Len(r) = Len(q) /\ Rotated(r, q, k)
    BY <1>1, MovedSequence DEF LruReads
  <2>2. k = Len(q)
    <3>1. c.tail = q[Len(q)] /\ Len(q) \in 1 .. Len(q)
      BY <1>1, ElemIs DEF LruReads, LinksRead
    <3>2. q[k] = q[Len(q)]
      BY <1>2, <3>1
    <3> QED BY <1>1, <3>1, <3>2 DEF LruReads, OneToOne
  <2>3. \A i \in 1 .. Len(q) : r[i] = q[i]
    <3>1. \A i \in 1 .. Len(q) : i < k \/ i = k
      BY <2>2
    <3> QED BY <2>1, <2>2, <3>1 DEF Rotated
  <2>4. r = q
    BY <2>1, <2>3
  <2> QED BY <1>2, <2>1, <2>4 DEF Moved
<1>3. CASE s # c.tail
  <2>1. Len(q) = c.count /\ LruReads(c, q, Used(c))
    BY <1>1
  <2>2. PICK ch \in [BucketNrs -> Seq(Slots)] : ChainsRead(c, ch, Used(c))
    BY <1>1
  <2>3. PICK d : d = Moved(c, s)
    OBVIOUS
  <2>4. s \in Slots
    BY <1>1, CacheFields, ConstantsAssumption DEF Used, Slots
  <2>5. /\ d \in CacheType
        /\ d.count = c.count /\ d.key = c.key /\ d.free = c.free
        /\ d.bucket_prev = c.bucket_prev /\ d.bucket_next = c.bucket_next /\ d.bucket = c.bucket
        /\ d.head = IF c.list_prev[s] = -1 THEN c.list_next[s] ELSE c.head
        /\ d.tail = s
        /\ d.list_next = [Set(c.list_next, c.list_prev[s], c.list_next[s])
                            EXCEPT ![s] = -1, ![c.tail] = s]
        /\ d.list_prev = [c.list_prev EXCEPT ![c.list_next[s]] = c.list_prev[s], ![s] = c.tail]
    <3>1. MovedTo(c, s, d)
      BY <1>1, <1>3, <2>3, <2>4, MovedFields
    <3> QED BY <3>1 DEF MovedTo
  <2>6. /\ OneToOne(q) /\ Covers(q, Used(c))
        /\ LinksRead(c.list_next, c.list_prev, c.head, c.tail, q)
    BY <2>1 DEF LruReads
  <2>7. q[k] = s
    OBVIOUS
  <2>8. /\ c.tail = q[Len(q)] /\ Len(q) \in 1 .. Len(q)
        /\ c.list_prev[s] = IF k = 1 THEN -1 ELSE q[k - 1]
        /\ k # 1 => k - 1 \in 1 .. Len(q)
    BY <2>6, <2>7, ElemIs DEF LinksRead
  <2>9. k # Len(q)
    BY <1>3, <2>7, <2>8
  <2>10. PICK r \in Seq(Slots) : r = Append(RemoveAt(q, k), q[k])
    <3>1. Append(RemoveAt(q, k), q[k]) \in Seq(Slots)
      BY <2>6, MovedSequence
    <3> QED BY <3>1
  <2>11. /\ Len(r) = Len(q) /\ OneToOne(r) /\ Covers(r, Used(c))
         /\ Rotated(r, q, k)
    BY <2>6, <2>10, MovedSequence
  <2>12. LinksRead([Set(c.list_next, c.list_prev[s], c.list_next[s]) EXCEPT ![s] = -1, ![c.tail] = s],
                   [c.list_prev EXCEPT ![c.list_next[s]] = c.list_prev[s], ![s] = c.tail],
                   IF c.list_prev[s] = -1 THEN c.list_next[s] ELSE c.head, s, r)
    <3>1. PICK nx \in [Slots -> Slots \cup {-1}] : nx = c.list_next
      BY <1>1, CacheFields
    <3>2. PICK pv \in [Slots -> Slots \cup {-1, Garbage}] : pv = c.list_prev
      BY <1>1, CacheFields
    <3>3. PICK hd, tl : hd = c.head /\ tl = c.tail
      OBVIOUS
    <3>4. LinksRead(nx, pv, hd, tl, q)
      BY <2>6, <3>1, <3>2, <3>3
    <3>5. LinksMoved(nx, pv, hd, tl, s, r)
      BY <2>6, <2>7, <2>9, <2>11, <3>4, MovedLinks
    <3> QED BY <3>1, <3>2, <3>3, <3>5 DEF LinksMoved
  <2>13. Used(d) = Used(c)
    BY <2>5 DEF Used
  <2>14. LruReads(d, r, Used(d)) /\ Len(r) = d.count
    BY <2>1, <2>5, <2>11, <2>12, <2>13 DEF LruReads
  <2>15. ChainsRead(d, ch, Used(d))
    BY <2>2, <2>5, <2>13, ChainsStay
  <2>16. FreeReads(d)
    <3>1. \A x \in Slots : x >= c.count => \A i \in 1 .. Len(q) : q[i] # x
      <4>1. \A x \in Slots : x >= c.count => x \notin Used(c)
        BY <1>1, CacheFields, SlotNumbers DEF Used
      <4> QED BY <2>6, <4>1 DEF Covers
    <3>2. \A x \in Slots : x >= c.count => x # s /\ x # c.tail /\ x # c.list_prev[s]
      BY <2>7, <2>8, <3>1, SlotNumbers
    <3>3. \A x \in Slots : x >= c.count => d.list_next[x] = c.list_next[x]
      BY <1>1, <2>5, <3>2, CacheFields DEF Set
    <3> QED BY <1>1, <2>5, <3>3 DEF FreeReads
  <2>17. \A x \in Used(d) : d.key[x] \in Keys
    BY <1>1, <2>5, <2>13
  <2>18. Reads(d)
    BY <2>5, <2>14, <2>15, <2>16, <2>17 DEF Reads, Good
  <2>19. Orders(d, r)
    BY <2>14 DEF Orders
  <2> QED BY <2>3, <2>5, <2>10, <2>18, <2>19
<1> QED BY <1>2, <1>3

(* An element is in the chain of its key and in no other.                  *)
LEMMA ChainsApart ==
  ASSUME NEW c, NEW ch \in [BucketNrs -> Seq(Slots)], NEW U, ChainsRead(c, ch, U),
         NEW a \in BucketNrs, NEW b \in BucketNrs \ {a},
         NEW i \in 1 .. Len(ch[a]), NEW j \in 1 .. Len(ch[b])
  PROVE  ch[a][i] # ch[b][j]
<1>1. ch[a] \in Seq(Slots) /\ ch[b] \in Seq(Slots)
  OBVIOUS
<1>2. ch[a][i] \in Slots /\ ch[b][j] \in Slots
  BY <1>1, ElemIs
<1> QED BY <1>2 DEF ChainsRead, Covers, OfBucket

(* An eviction leaves the links of the others readable.                    *)
LEMMA EvictedGood ==
  ASSUME NEW c, NEW U \in SUBSET Slots, Good(c, U), c.count >= 2,
         NEW q \in Seq(Slots), Len(q) = c.count, LruReads(c, q, U)
  PROVE  LET d == Evicted(c)
         IN  /\ c.head = q[1] /\ c.head \in U /\ Good(d, U \ {c.head})
             /\ d.count = c.count - 1 /\ d.free = c.head /\ d.list_next[d.free] = c.free
             /\ d.key = c.key /\ LruReads(d, Tail(q), U \ {c.head})
<1>1. c \in CacheType /\ \A x \in U : c.key[x] \in Keys
  BY DEF Good
<1>2. Len(q) = c.count /\ LruReads(c, q, U)
  OBVIOUS
<1>3. PICK ch \in [BucketNrs -> Seq(Slots)] : ChainsRead(c, ch, U)
  BY DEF Good
<1>4. PICK v : v = c.head
  OBVIOUS
<1>5. PICK r \in Seq(Slots) :
        /\ v \in Slots /\ c.list_next[v] \in Slots /\ v = q[1]
        /\ r = Tail(q) /\ Len(r) = Len(q) - 1 /\ OneToOne(r) /\ Covers(r, U \ {v})
        /\ LinksRead([c.list_next EXCEPT ![v] = c.free],
                     [c.list_prev EXCEPT ![c.list_next[v]] = -1], c.list_next[v], c.tail, r)
  <2>1. /\ OneToOne(q) /\ Covers(q, U)
        /\ LinksRead(c.list_next, c.list_prev, c.head, c.tail, q)
        /\ c.list_next \in [Slots -> Slots \cup {-1}]
        /\ c.list_prev \in [Slots -> Slots \cup {-1, Garbage}]
    BY <1>1, <1>2, CacheFields DEF LruReads
  <2>2. PICK nx \in [Slots -> Slots \cup {-1}] : nx = c.list_next
    BY <2>1
  <2>3. PICK pv \in [Slots -> Slots \cup {-1, Garbage}] : pv = c.list_prev
    BY <2>1
  <2>4. PICK tl, f : tl = c.tail /\ f = c.free
    OBVIOUS
  <2>5. LinksRead(nx, pv, v, tl, q) /\ Len(q) >= 2
    BY <1>2, <1>4, <2>1, <2>2, <2>3, <2>4
  <2>6. LET t == Tail(q)
        IN  /\ v = q[1] /\ v \in Slots /\ nx[v] = q[2] /\ nx[v] \in Slots
            /\ t \in Seq(Slots) /\ Len(t) = Len(q) - 1
            /\ OneToOne(t) /\ Covers(t, U \ {v})
            /\ LinksRead([nx EXCEPT ![v] = f], [pv EXCEPT ![nx[v]] = -1], nx[v], tl, t)
    BY <2>1, <2>5, EvictedLinks
  <2> QED BY <2>2, <2>3, <2>4, <2>6
<1>6. v \in U
  <2>1. 1 \in 1 .. Len(q)
    BY <1>1, <1>2, CacheFields
  <2> QED BY <1>2, <1>5, <2>1 DEF LruReads, Covers
<1> DEFINE b == BucketOf[c.key[v]]
           nx == Set(c.bucket_next, c.bucket_prev[v], c.bucket_next[v])
           pv == Set(c.bucket_prev, c.bucket_next[v], c.bucket_prev[v])
           bk == Set(c.bucket, - c.bucket_prev[v] - 1, c.bucket_next[v])
<1>7. b \in BucketNrs /\ c.key[v] \in Keys
  BY <1>1, <1>6, ConstantsAssumption DEF BucketNrs
<1>8. /\ c.bucket_prev \in BackType /\ c.bucket_next \in NextType /\ c.bucket \in HeadType
  BY <1>1, CacheFields
<1>9. \A a \in BucketNrs :
        /\ ch[a] \in Seq(Slots) /\ OneToOne(ch[a]) /\ Covers(ch[a], OfBucket(c, a, U))
        /\ ChainReads(c.bucket_next, c.bucket_prev, c.bucket[a], a, ch[a])
  BY <1>3 DEF ChainsRead
<1>10. PICK k \in 1 .. Len(ch[b]) : ch[b][k] = v
  <2>1. v \in OfBucket(c, b, U)
    BY <1>6 DEF OfBucket
  <2>2. ch[b] \in Seq(Slots) /\ Covers(ch[b], OfBucket(c, b, U))
    BY <1>7, <1>9
  <2> HIDE DEF b
  <2> QED BY <1>5, <2>1, <2>2 DEF Covers
<1> HIDE DEF b
<1>11. /\ c.bucket_next[v] \in Slots \cup {-1}
       /\ c.bucket_prev[v] \in - BucketCount .. MaxElements - 1
  <2>1. ch[b] \in Seq(Slots) /\ ChainReads(c.bucket_next, c.bucket_prev, c.bucket[b], b, ch[b])
    BY <1>7, <1>9
  <2>2. /\ c.bucket_next[v] = IF k = Len(ch[b]) THEN -1 ELSE ch[b][k + 1]
        /\ c.bucket_prev[v] = IF k = 1 THEN - b - 1 ELSE ch[b][k - 1]
    BY <1>10, <2>1, ElemIs, SMTT(40) DEF ChainReads
  <2>3. k # Len(ch[b]) => k + 1 \in 1 .. Len(ch[b])
    BY <2>1
  <2>4. k # 1 => k - 1 \in 1 .. Len(ch[b])
    BY <2>1
  <2>5. - b - 1 \in - BucketCount .. MaxElements - 1
    BY <1>7, ConstantsAssumption DEF BucketNrs
  <2>6. \A x \in Slots : x \in - BucketCount .. MaxElements - 1
    BY ConstantsAssumption DEF Slots
  <2> QED BY <2>1, <2>2, <2>3, <2>4, <2>5, <2>6, ElemIs
<1> DEFINE ch2 == [a \in BucketNrs |-> IF a = b THEN RemoveAt(ch[b], k) ELSE ch[a]]
<1>12. PICK d : d = Evicted(c)
  OBVIOUS
<1>13. /\ d \in CacheType
       /\ d.count = c.count - 1 /\ d.key = c.key /\ d.free = v
       /\ d.head = c.list_next[v] /\ d.tail = c.tail
       /\ d.list_next = [c.list_next EXCEPT ![v] = c.free]
       /\ d.list_prev = [c.list_prev EXCEPT ![c.list_next[v]] = -1]
       /\ d.bucket = bk /\ d.bucket_next = nx /\ d.bucket_prev = pv
  <2>1. EvictedTo(c, d)
    <3>1. c.count # 0
      BY <1>1, CacheFields
    <3> QED BY <1>1, <1>4, <1>5, <1>11, <1>12, <3>1, EvictedFields
  <2> QED BY <1>4, <2>1 DEF EvictedTo
<1>14. ASSUME NEW a \in BucketNrs
       PROVE  /\ ch2[a] \in Seq(Slots) /\ OneToOne(ch2[a])
              /\ Covers(ch2[a], OfBucket(d, a, U \ {v}))
              /\ ChainReads(nx, pv, bk[a], a, ch2[a])
  <2>1. CASE a = b
    <3>1. OfBucket(d, b, U \ {v}) = OfBucket(c, b, U) \ {v}
      BY <1>13 DEF OfBucket
    <3>2. /\ ch[b] \in Seq(Slots) /\ OneToOne(ch[b]) /\ Covers(ch[b], OfBucket(c, b, U))
          /\ ChainReads(c.bucket_next, c.bucket_prev, c.bucket[b], b, ch[b])
      BY <1>7, <1>9
    <3>3. PICK r2 : r2 = RemoveAt(ch[b], k)
      OBVIOUS
    <3>4. /\ r2 \in Seq(Slots) /\ OneToOne(r2) /\ Covers(r2, OfBucket(c, b, U) \ {v})
          /\ ChainReads(nx, pv, bk[b], b, r2)
      BY <1>7, <1>8, <1>10, <3>2, <3>3, VictimLeavesChain
    <3>5. ch2[a] = r2
      BY <2>1, <3>3
    <3> HIDE DEF nx, pv, bk, ch2
    <3> QED BY <2>1, <3>1, <3>4, <3>5
  <2>2. CASE a # b
    <3>1. OfBucket(d, a, U \ {v}) = OfBucket(c, a, U)
      BY <1>13, <2>2 DEF OfBucket, b
    <3>2. /\ ch[b] \in Seq(Slots) /\ OneToOne(ch[b])
          /\ ChainReads(c.bucket_next, c.bucket_prev, c.bucket[b], b, ch[b])
      BY <1>7, <1>9
    <3>3. /\ ch[a] \in Seq(Slots) /\ OneToOne(ch[a]) /\ Covers(ch[a], OfBucket(c, a, U))
          /\ ChainReads(c.bucket_next, c.bucket_prev, c.bucket[a], a, ch[a])
      BY <1>9
    <3>4. \A i \in 1 .. Len(ch[a]), j \in 1 .. Len(ch[b]) : ch[a][i] # ch[b][j]
      BY <1>3, <1>7, <2>2, ChainsApart
    <3>5. a \in BucketNrs \ {b}
      BY <2>2
    <3>6. PICK p \in Seq(Slots) : p = ch[a]
      BY <3>3
    <3>7. PICK w \in Seq(Slots) : w = ch[b]
      BY <3>2
    <3>8. ChainReads(nx, pv, bk[a], a, p)
      <4>1. PICK bn \in NextType : bn = c.bucket_next
        BY <1>8
      <4>2. PICK bp \in BackType : bp = c.bucket_prev
        BY <1>8
      <4>3. PICK hs \in HeadType : hs = c.bucket
        BY <1>8
      <4>4. /\ OneToOne(w) /\ ChainReads(bn, bp, hs[b], b, w) /\ ChainReads(bn, bp, hs[a], a, p)
            /\ k \in 1 .. Len(w) /\ v = w[k]
            /\ \A i \in 1 .. Len(p), j \in 1 .. Len(w) : p[i] # w[j]
        BY <1>10, <3>2, <3>3, <3>4, <3>6, <3>7, <4>1, <4>2, <4>3
      <4>5. ChainReads(Set(bn, bp[v], bn[v]), Set(bp, bn[v], bp[v]),
                       Set(hs, - bp[v] - 1, bn[v])[a], a, p)
        BY <1>7, <3>5, <4>4, VictimLeavesOthers, ZenonT(60)
      <4> QED BY <4>1, <4>2, <4>3, <4>5
    <3>9. ch2[a] = p
      BY <2>2, <3>6
    <3> HIDE DEF nx, pv, bk, ch2
    <3> QED BY <3>1, <3>3, <3>6, <3>8, <3>9
  <2> QED BY <2>1, <2>2
<1>15. ch2 \in [BucketNrs -> Seq(Slots)]
  BY <1>14
<1> HIDE DEF nx, pv, bk, ch2
<1>16. ChainsRead(d, ch2, U \ {v})
  BY <1>13, <1>14 DEF ChainsRead
<1>17. Len(r) = d.count /\ LruReads(d, r, U \ {v})
  BY <1>2, <1>5, <1>13 DEF LruReads
<1>18. \A x \in U \ {v} : d.key[x] \in Keys
  BY <1>1, <1>13
<1>19. d.list_next[d.free] = c.free
  BY <1>1, <1>5, <1>13, CacheFields
<1>20. Good(d, U \ {v})
  BY <1>13, <1>15, <1>16, <1>17, <1>18 DEF Good
<1> QED BY <1>4, <1>5, <1>6, <1>12, <1>13, <1>17, <1>19, <1>20

(* An insert makes the links of one element more readable.                 *)
Grown(c, U, k, q, d) ==
  /\ Good(d, U \cup {c.free})
  /\ d.key = [c.key EXCEPT ![c.free] = k]
  /\ LruReads(d, Append(q, c.free), U \cup {c.free})
  /\ d.count = c.count + 1 /\ d.free = c.list_next[c.free]
  /\ \A x \in Slots : x \notin U /\ x # c.free => d.list_next[x] = c.list_next[x]

(* Storing a key puts a free element at the end of the list and at the     *)
(* front of its chain.                                                     *)
LEMMA StoredGood ==
  ASSUME NEW c, NEW U \in SUBSET Slots, Good(c, U), c.count # MaxElements,
         c.free \in Slots \ U, NEW k \in Keys,
         NEW q \in Seq(Slots), Len(q) = c.count, LruReads(c, q, U)
  PROVE  Grown(c, U, k, q, Stored(c, k))
<1>1. c \in CacheType /\ \A x \in U : c.key[x] \in Keys
  BY DEF Good
<1>2. Len(q) = c.count /\ LruReads(c, q, U)
  OBVIOUS
<1>3. PICK ch \in [BucketNrs -> Seq(Slots)] : ChainsRead(c, ch, U)
  BY DEF Good
<1>4. PICK new \in Slots \ U : new = c.free
  OBVIOUS
<1>5. PICK d : d = Stored(c, k)
  OBVIOUS
<1>6. PICK b \in BucketNrs : b = BucketOf[k]
  BY ConstantsAssumption DEF BucketNrs
<1>7. /\ d \in CacheType
      /\ d.count = c.count + 1 /\ d.key = [c.key EXCEPT ![new] = k]
      /\ d.free = c.list_next[new]
      /\ d.head = (IF c.head = -1 THEN new ELSE c.head) /\ d.tail = new
      /\ d.list_next = [Set(c.list_next, c.tail, new) EXCEPT ![new] = -1]
      /\ d.list_prev = [c.list_prev EXCEPT ![new] = c.tail]
      /\ d.bucket = [c.bucket EXCEPT ![b] = new]
      /\ d.bucket_next = [c.bucket_next EXCEPT ![new] = c.bucket[b]]
      /\ d.bucket_prev = [Set(c.bucket_prev, c.bucket[b], new) EXCEPT ![new] = - b - 1]
  <2>1. StoredTo(c, k, d)
    BY <1>1, <1>5, StoredFields
  <2> QED BY <1>4, <1>6, <2>1 DEF StoredTo
<1>8. PICK r \in Seq(Slots) : /\ r = Append(q, new)
                              /\ Len(r) = d.count /\ LruReads(d, r, U \cup {new})
  <2>1. PICK nx \in [Slots -> Slots \cup {-1}] : nx = c.list_next
    BY <1>1, CacheFields
  <2>2. PICK pv \in [Slots -> Slots \cup {-1, Garbage}] : pv = c.list_prev
    BY <1>1, CacheFields
  <2>3. PICK hd, tl : hd = c.head /\ tl = c.tail
    OBVIOUS
  <2>4. OneToOne(q) /\ Covers(q, U) /\ LinksRead(nx, pv, hd, tl, q)
    BY <1>2, <2>1, <2>2, <2>3 DEF LruReads
  <2>5. LET t == Append(q, new)
        IN  /\ t \in Seq(Slots) /\ Len(t) = Len(q) + 1
            /\ OneToOne(t) /\ Covers(t, U \cup {new})
            /\ LinksAppended(nx, pv, hd, tl, new, t)
    BY <2>4, AppendedLinks
  <2>6. PICK t \in Seq(Slots) :
          /\ t = Append(q, new) /\ Len(t) = Len(q) + 1 /\ OneToOne(t) /\ Covers(t, U \cup {new})
          /\ LinksAppended(nx, pv, hd, tl, new, t)
    BY <2>5
  <2>7. LinksRead(d.list_next, d.list_prev, d.head, d.tail, t)
    BY <1>7, <2>1, <2>2, <2>3, <2>6 DEF LinksAppended
  <2>8. Len(t) = d.count /\ LruReads(d, t, U \cup {new})
    BY <1>2, <1>7, <2>6, <2>7 DEF LruReads
  <2> QED BY <2>6, <2>8
<1>9. PICK bn \in NextType : bn = c.bucket_next
  BY <1>1, CacheFields
<1>10. PICK bp \in BackType : bp = c.bucket_prev
  BY <1>1, CacheFields
<1>11. PICK hs \in HeadType : hs = c.bucket
  BY <1>1, CacheFields
<1>12. \A a \in BucketNrs :
         /\ ch[a] \in Seq(Slots) /\ OneToOne(ch[a]) /\ Covers(ch[a], OfBucket(c, a, U))
         /\ ChainReads(bn, bp, hs[a], a, ch[a])
  BY <1>3, <1>9, <1>10, <1>11 DEF ChainsRead
<1> DEFINE nx == [bn EXCEPT ![new] = hs[b]]
           pv == [Set(bp, hs[b], new) EXCEPT ![new] = - b - 1]
           bk == [hs EXCEPT ![b] = new]
           ch2 == [a \in BucketNrs |-> IF a = b THEN <<new>> \o ch[b] ELSE ch[a]]
<1>13. d.key[new] = k /\ \A x \in U : d.key[x] = c.key[x]
  BY <1>1, <1>7, CacheFields
<1>14. PICK w \in Seq(Slots) : w = ch[b]
  BY <1>12
<1>15. OneToOne(w) /\ Covers(w, OfBucket(c, b, U)) /\ ChainReads(bn, bp, hs[b], b, w)
  BY <1>12, <1>14
<1>16. ASSUME NEW a \in BucketNrs
       PROVE  /\ ch2[a] \in Seq(Slots) /\ OneToOne(ch2[a])
              /\ Covers(ch2[a], OfBucket(d, a, U \cup {new}))
              /\ ChainReads(nx, pv, bk[a], a, ch2[a])
  <2>1. DOMAIN hs = BucketNrs
    BY DEF HeadType
  <2>2. CASE a = b
    <3>1. OfBucket(d, b, U \cup {new}) = OfBucket(c, b, U) \cup {new}
      BY <1>6, <1>13 DEF OfBucket
    <3>2. new \in Slots \ OfBucket(c, b, U)
      BY DEF OfBucket
    <3>3. PICK r2 : r2 = <<new>> \o w
      OBVIOUS
    <3>4. /\ r2 \in Seq(Slots) /\ OneToOne(r2) /\ Covers(r2, OfBucket(c, b, U) \cup {new})
          /\ ChainReads(nx, pv, new, b, r2)
      BY <1>15, <3>2, <3>3, NewInChain
    <3>5. ch2[a] = r2 /\ bk[a] = new
      BY <1>14, <2>1, <2>2, <3>3
    <3> HIDE DEF nx, pv, bk, ch2
    <3> QED BY <2>2, <3>1, <3>4, <3>5
  <2>3. CASE a # b
    <3>1. OfBucket(d, a, U \cup {new}) = OfBucket(c, a, U)
      BY <1>6, <1>13, <2>3 DEF OfBucket
    <3>2. PICK p \in Seq(Slots) : p = ch[a]
      BY <1>12
    <3>3. OneToOne(p) /\ Covers(p, OfBucket(c, a, U)) /\ ChainReads(bn, bp, hs[a], a, p)
      BY <1>12, <3>2
    <3>4. \A i \in 1 .. Len(p) : p[i] # new /\ \A j \in 1 .. Len(w) : p[i] # w[j]
      <4>1. \A i \in 1 .. Len(p) : p[i] \in Slots
        OBVIOUS
      <4>2. \A i \in 1 .. Len(p) : p[i] # new
        BY <3>3, <4>1 DEF Covers, OfBucket
      <4>3. \A i \in 1 .. Len(p), j \in 1 .. Len(w) : p[i] # w[j]
        <5>1. \A i \in 1 .. Len(ch[a]), j \in 1 .. Len(ch[b]) : ch[a][i] # ch[b][j]
          BY <1>3, <2>3, ChainsApart
        <5> QED BY <1>14, <3>2, <5>1
      <4> QED BY <4>2, <4>3
    <3>5. ChainReads(nx, pv, hs[a], a, p)
      BY <1>15, <2>3, <3>3, <3>4, NewNotInOthers
    <3>6. ch2[a] = p /\ bk[a] = hs[a]
      BY <2>1, <2>3, <3>2
    <3> HIDE DEF nx, pv, bk, ch2
    <3> QED BY <3>1, <3>3, <3>5, <3>6
  <2> QED BY <2>2, <2>3
<1>17. ch2 \in [BucketNrs -> Seq(Slots)]
  BY <1>16
<1>18. d.bucket = bk /\ d.bucket_next = nx /\ d.bucket_prev = pv
  BY <1>7, <1>9, <1>10, <1>11
<1> HIDE DEF nx, pv, bk, ch2
<1>19. ChainsRead(d, ch2, U \cup {new})
  BY <1>16, <1>18 DEF ChainsRead
<1>20. \A x \in U \cup {new} : d.key[x] \in Keys
  BY <1>1, <1>13
<1>21. Good(d, U \cup {new})
  BY <1>7, <1>8, <1>17, <1>19, <1>20 DEF Good
<1>22. \A x \in Slots : x \notin U /\ x # new => d.list_next[x] = c.list_next[x]
  <2>1. c.tail \in U \cup {-1}
    <3>1. c.tail = IF Len(q) = 0 THEN -1 ELSE q[Len(q)]
      BY <1>2, ElemIs DEF LruReads, LinksRead
    <3>2. Len(q) # 0 => Len(q) \in 1 .. Len(q) /\ q[Len(q)] \in Slots
      OBVIOUS
    <3>3. \A i \in 1 .. Len(q) : q[i] \in Slots => q[i] \in U
      BY <1>2 DEF LruReads, Covers
    <3> QED BY <3>1, <3>2, <3>3
  <2>2. c.list_next \in [Slots -> Slots \cup {-1}]
    BY <1>1, CacheFields
  <2> QED BY <1>7, <2>1, <2>2, SlotNumbers DEF Set
<1> QED BY <1>4, <1>5, <1>7, <1>8, <1>21, <1>22 DEF Grown

(* Inserts into a cache with room left, and into a full one: what the key  *)
(* is written to, and what becomes of the order.                           *)
LEMMA StoredReads ==
  ASSUME NEW c, Reads(c), c.count # MaxElements, NEW k \in Keys,
         NEW q \in Seq(Slots), Orders(c, q)
  PROVE  LET d == Stored(c, k)
         IN  /\ Reads(d) /\ Orders(d, Append(q, c.free))
             /\ d.key = [c.key EXCEPT ![c.free] = k]
             /\ c.free \in Slots \ Used(c) /\ Used(d) = Used(c) \cup {c.free}
<1>1. /\ Good(c, Used(c)) /\ FreeReads(c) /\ c \in CacheType
      /\ Len(q) = c.count /\ LruReads(c, q, Used(c))
  BY DEF Reads, Good, Orders
<1>2. c.count \in 0 .. MaxElements - 1 /\ c.free = c.count /\ c.free \in Slots \ Used(c)
  <2>1. c.count \in 0 .. MaxElements
    BY <1>1, CacheFields
  <2> QED BY <1>1, <2>1, ConstantsAssumption DEF FreeReads, Slots, Used
<1>3. Used(c) \in SUBSET Slots
  BY <1>2, ConstantsAssumption DEF Used, Slots
<1>4. PICK d : d = Stored(c, k)
  OBVIOUS
<1>5. /\ Good(d, Used(c) \cup {c.free})
      /\ d.key = [c.key EXCEPT ![c.free] = k]
      /\ LruReads(d, Append(q, c.free), Used(c) \cup {c.free})
      /\ d.count = c.count + 1 /\ d.free = c.list_next[c.free]
      /\ \A x \in Slots : x \notin Used(c) /\ x # c.free => d.list_next[x] = c.list_next[x]
  <2>1. PICK U \in SUBSET Slots : U = Used(c)
    BY <1>3
  <2>2. /\ Good(c, U) /\ c.count # MaxElements /\ c.free \in Slots \ U
        /\ Len(q) = c.count /\ LruReads(c, q, U)
    BY <1>1, <1>2, <2>1
  <2>3. Grown(c, U, k, q, Stored(c, k))
    BY <2>2, StoredGood
  <2> QED BY <1>4, <2>1, <2>3 DEF Grown
<1>6. Used(c) \cup {c.free} = Used(d)
  BY <1>2, <1>5 DEF Used
<1>7. FreeReads(d)
  <2>1. d.free = IF d.count < MaxElements THEN d.count ELSE -1
    BY <1>1, <1>2, <1>5, ConstantsAssumption DEF FreeReads
  <2>2. \A x \in Slots : x >= d.count => x >= c.count /\ x \notin Used(c) /\ x # c.free
    BY <1>2, <1>5, SlotNumbers DEF Used
  <2>3. \A x \in Slots : x >= d.count => d.list_next[x] = IF x + 1 < MaxElements THEN x + 1 ELSE -1
    BY <1>1, <1>5, <2>2 DEF FreeReads
  <2> QED BY <2>1, <2>3 DEF FreeReads
<1>8. Orders(d, Append(q, c.free))
  <2>1. Append(q, c.free) \in Seq(Slots) /\ Len(Append(q, c.free)) = Len(q) + 1
    BY <1>2
  <2> QED BY <1>1, <1>5, <1>6, <2>1 DEF Orders
<1>9. Reads(d)
  BY <1>5, <1>6, <1>7 DEF Reads
<1> QED BY <1>2, <1>4, <1>5, <1>6, <1>8, <1>9

(* In a full cache an insert is an eviction and a store in the same        *)
(* element.                                                                *)
LEMMA ReplacedReads ==
  ASSUME NEW c, Reads(c), c.count = MaxElements, NEW k \in Keys,
         NEW q \in Seq(Slots), Orders(c, q)
  PROVE  LET d == Stored(Evicted(c), k)
         IN  /\ Reads(d) /\ Orders(d, Append(Tail(q), q[1]))
             /\ d.key = [c.key EXCEPT ![q[1]] = k]
             /\ q[1] \in Slots /\ Used(d) = Used(c) /\ Used(c) = Slots
<1>1. /\ Good(c, Used(c)) /\ FreeReads(c) /\ c \in CacheType
      /\ Len(q) = c.count /\ LruReads(c, q, Used(c))
  BY DEF Reads, Good, Orders
<1>2. Used(c) = Slots /\ c.count >= 2 /\ c.free = -1
  BY <1>1, ConstantsAssumption DEF FreeReads, Used, Slots
<1>3. PICK d : d = Evicted(c)
  OBVIOUS
<1>4. PICK v : v = c.head
  OBVIOUS
<1>5. /\ v \in Slots /\ v = q[1] /\ Good(d, Slots \ {v}) /\ d.count = MaxElements - 1
      /\ d.free = v /\ d.list_next[d.free] = -1
      /\ d.key = c.key /\ LruReads(d, Tail(q), Slots \ {v})
  BY <1>1, <1>2, <1>3, <1>4, EvictedGood
<1>6. PICK e : e = Stored(d, k)
  OBVIOUS
<1>7. PICK p \in Seq(Slots) : p = Tail(q) /\ Len(p) = d.count
  <2>1. Len(q) \in Nat /\ Len(q) >= 2 /\ Len(q) = MaxElements
    BY <1>1, <1>2 DEF Used, Slots
  <2>2. Tail(q) \in Seq(Slots) /\ Len(Tail(q)) = Len(q) - 1
    BY <2>1
  <2> QED BY <1>5, <2>1, <2>2
<1>8. /\ Good(e, (Slots \ {v}) \cup {v}) /\ e.count = MaxElements /\ e.free = -1
      /\ e.key = [c.key EXCEPT ![v] = k]
      /\ LruReads(e, Append(p, v), (Slots \ {v}) \cup {v})
  <2>1. d.count # MaxElements /\ d.free \in Slots \ (Slots \ {v})
        /\ (Slots \ {v}) \in SUBSET Slots /\ (MaxElements - 1) + 1 = MaxElements
    BY <1>5, ConstantsAssumption
  <2>2. /\ Good(e, (Slots \ {v}) \cup {d.free}) /\ e.count = d.count + 1
        /\ e.free = d.list_next[d.free]
        /\ e.key = [d.key EXCEPT ![d.free] = k]
        /\ LruReads(e, Append(p, d.free), (Slots \ {v}) \cup {d.free})
    <3>1. PICK U \in SUBSET Slots : U = Slots \ {v}
      BY <2>1
    <3>2. /\ Good(d, U) /\ d.count # MaxElements /\ d.free \in Slots \ U
          /\ Len(p) = d.count /\ LruReads(d, p, U)
      BY <1>5, <1>7, <2>1, <3>1
    <3>3. Grown(d, U, k, p, Stored(d, k))
      BY <3>2, StoredGood
    <3> QED BY <1>6, <3>1, <3>3 DEF Grown
  <2> QED BY <1>5, <2>1, <2>2
<1>9. Used(e) = Slots /\ (Slots \ {v}) \cup {v} = Slots
  BY <1>5, <1>8 DEF Used, Slots
<1>10. FreeReads(e)
  BY <1>8, ConstantsAssumption, SlotNumbers DEF FreeReads
<1>11. Reads(e)
  BY <1>8, <1>9, <1>10 DEF Reads
<1>12. Orders(e, Append(p, v))
  <2>1. Append(p, v) \in Seq(Slots) /\ Len(Append(p, v)) = MaxElements
    BY <1>5, <1>7, ConstantsAssumption
  <2> QED BY <1>8, <1>9, <2>1 DEF Orders
<1> QED BY <1>2, <1>3, <1>5, <1>6, <1>7, <1>8, <1>9, <1>11, <1>12

(* The cache as it is constructed.                                         *)
LEMMA EmptyReads == Reads(EmptyCache)
<1>1. EmptyCache \in CacheType
  <2>1. 0 \in 0 .. MaxElements /\ 0 \in Slots \cup {-1}
    BY ConstantsAssumption DEF Slots
  <2> QED BY <2>1 DEF EmptyCache, CacheType
<1>2. Used(EmptyCache) = {} /\ EmptyCache.count = 0
  BY DEF Used, EmptyCache
<1>3. << >> \in Seq(Slots) /\ Len(<< >>) = 0
  OBVIOUS
<1>4. LruReads(EmptyCache, << >>, {})
  <2>1. 1 .. Len(<< >>) = {}
    BY <1>3
  <2>2. EmptyCache.head = -1 /\ EmptyCache.tail = -1
    BY DEF EmptyCache
  <2>3. LinksRead(EmptyCache.list_next, EmptyCache.list_prev, EmptyCache.head, EmptyCache.tail, << >>)
    BY <2>1, <2>2 DEF LinksRead, Elem
  <2> QED BY <1>3, <2>1, <2>3, Zenon DEF LruReads, OneToOne, Covers
<1>5. ChainsRead(EmptyCache, [b \in BucketNrs |-> << >>], {})
  BY <1>3 DEF ChainsRead, ChainReads, OneToOne, Covers, OfBucket, Elem, EmptyCache
<1>6. FreeReads(EmptyCache)
  <2>1. \A s \in Slots : s + 1 \in Slots <=> s + 1 < MaxElements
    BY ConstantsAssumption DEF Slots
  <2>2. /\ EmptyCache.free = 0 /\ EmptyCache.count = 0 /\ 0 < MaxElements
        /\ \A s \in Slots : EmptyCache.list_next[s] = IF s + 1 \in Slots THEN s + 1 ELSE -1
    BY ConstantsAssumption DEF EmptyCache
  <2> QED BY <2>1, <2>2 DEF FreeReads
<1>7. [b \in BucketNrs |-> << >>] \in [BucketNrs -> Seq(Slots)]
  BY <1>3
<1> QED BY <1>1, <1>2, <1>3, <1>4, <1>5, <1>6, <1>7, ZenonT(40) DEF Reads, Good

---------------------------------------------------------------------------
(* What the walks along the links read.                                    *)
IsWalk(w, f, i) ==
  w = [n \in 0 .. MaxElements |->
         IF n = 0 THEN i ELSE IF w[n - 1] \in Slots THEN f[w[n - 1]] ELSE w[n - 1]]

(* A walk is a function that starts at i and follows f.                    *)
LEMMA WalkStep ==
  ASSUME NEW f, NEW i, NEW w, IsWalk(w, f, i)
  PROVE  /\ w[0] = i /\ w = [n \in 0 .. MaxElements |-> w[n]]
         /\ \A n \in Nat : n + 1 <= MaxElements =>
              w[n + 1] = IF w[n] \in Slots THEN f[w[n]] ELSE w[n]
<1>1. /\ w = [n \in 0 .. MaxElements |-> w[n]]
      /\ \A n \in 0 .. MaxElements :
           w[n] = IF n = 0 THEN i ELSE IF w[n - 1] \in Slots THEN f[w[n - 1]] ELSE w[n - 1]
  BY DEF IsWalk
<1>2. 0 \in 0 .. MaxElements
  BY ConstantsAssumption
<1>3. \A n \in Nat : n + 1 <= MaxElements =>
        n + 1 \in 0 .. MaxElements /\ n + 1 # 0 /\ (n + 1) - 1 = n
  BY ConstantsAssumption
<1> QED BY <1>1, <1>2, <1>3

(* Every such function is the walk from i: so the walk is one.             *)
LEMMA WalkIs ==
  ASSUME NEW f, NEW i, NEW g, IsWalk(g, f, i)
  PROVE  Walk(f, i) = g
<1>1. ASSUME NEW w, IsWalk(w, f, i)  PROVE w = g
  <2> DEFINE S == {n \in Nat : n <= MaxElements => w[n] = g[n]}
  <2>1. 0 \in S
    BY <1>1, WalkStep
  <2>2. ASSUME NEW n \in Nat, n \in S  PROVE n + 1 \in S
    <3>1. n + 1 <= MaxElements => n <= MaxElements
      BY ConstantsAssumption
    <3>2. n + 1 <= MaxElements =>
            /\ w[n + 1] = IF w[n] \in Slots THEN f[w[n]] ELSE w[n]
            /\ g[n + 1] = IF g[n] \in Slots THEN f[g[n]] ELSE g[n]
      BY <1>1, WalkStep
    <3> QED BY <2>2, <3>1, <3>2
  <2> HIDE DEF S
  <2>3. Nat \subseteq S
    BY <2>1, <2>2, NatSetInduction
  <2>4. \A n \in 0 .. MaxElements : w[n] = g[n]
    BY <2>3 DEF S
  <2>5. w = [n \in 0 .. MaxElements |-> w[n]] /\ g = [n \in 0 .. MaxElements |-> g[n]]
    BY <1>1, WalkStep
  <2> QED BY <2>4, <2>5
<1>2. Walk(f, i) = CHOOSE w : IsWalk(w, f, i)
  BY DEF Walk, IsWalk
<1> QED BY <1>1, <1>2

(* A walk along links that read as q reads q, and stays at -1 after it.    *)
LEMMA WalkReads ==
  ASSUME NEW f, NEW i, NEW q \in Seq(Slots), i = Elem(q, 1),
         \A j \in 1 .. Len(q) : f[q[j]] = Elem(q, j + 1)
  PROVE  \A n \in 0 .. MaxElements : Walk(f, i)[n] = Elem(q, n + 1)
<1> DEFINE g == [n \in 0 .. MaxElements |-> Elem(q, n + 1)]
<1>1. ASSUME NEW n \in 0 .. MaxElements
      PROVE  g[n] = IF n = 0 THEN i ELSE IF g[n - 1] \in Slots THEN f[g[n - 1]] ELSE g[n - 1]
  <2>1. CASE n = 0
    BY <2>1
  <2>2. CASE n # 0
    <3>1. n - 1 \in 0 .. MaxElements /\ (n - 1) + 1 = n
      BY <2>2, ConstantsAssumption
    <3>2. g[n - 1] = Elem(q, n) /\ g[n] = Elem(q, n + 1)
      BY <3>1
    <3>3. n \in 1 .. Len(q) <=> n <= Len(q)
      BY <2>2
    <3>4. CASE n \in 1 .. Len(q)
      <4>1. Elem(q, n) = q[n] /\ q[n] \in Slots
        BY <3>4 DEF Elem
      <4> QED BY <2>2, <3>2, <3>4, <4>1
    <3>5. CASE n \notin 1 .. Len(q)
      <4>1. n + 1 \notin 1 .. Len(q)
        BY <2>2, <3>5
      <4>2. Elem(q, n) = -1 /\ Elem(q, n + 1) = -1
        BY <3>5, <4>1 DEF Elem
      <4> QED BY <2>2, <3>2, <4>2, SlotNumbers
    <3> QED BY <3>4, <3>5
  <2> QED BY <2>1, <2>2
<1>2. IsWalk(g, f, i)
  <2>1. g = [n \in 0 .. MaxElements |-> g[n]]
    OBVIOUS
  <2> HIDE DEF g
  <2> QED BY <1>1, <2>1 DEF IsWalk
<1>3. Walk(f, i) = g
  BY <1>2, WalkIs
<1> QED BY <1>3

(* There are as many slots as max_elements_.                               *)
LEMMA SlotsAreFinite == IsFiniteSet(Slots) /\ Cardinality(Slots) = MaxElements
<1>1. 0 \in Int /\ MaxElements - 1 \in Int /\ MaxElements \in Nat /\ MaxElements > 0
  BY ConstantsAssumption
<1>2. /\ IsFiniteSet(0 .. MaxElements - 1)
      /\ Cardinality(0 .. MaxElements - 1) = IF 0 > MaxElements - 1 THEN 0 ELSE MaxElements - 1 - 0 + 1
  BY <1>1, FS_Interval
<1> QED BY <1>1, <1>2 DEF Slots

(* A walk along a list meets its elements, each once, and ends.            *)
LEMMA WalkMeets ==
  ASSUME NEW f, NEW i, NEW q \in Seq(Slots), i = Elem(q, 1),
         \A j \in 1 .. Len(q) : f[q[j]] = Elem(q, j + 1),
         OneToOne(q), NEW U \in SUBSET Slots, Covers(q, U)
  PROVE  /\ InWalk(f, i) = U /\ Walk(f, i)[MaxElements] = -1
         /\ Cardinality(U) = Len(q) /\ Len(q) <= MaxElements
<1>1. \A n \in 0 .. MaxElements : Walk(f, i)[n] = Elem(q, n + 1)
  BY WalkReads
<1>2. /\ \A j, k \in 1 .. Len(q) : q[j] = q[k] => j = k
      /\ \A x : x \in U <=> \E j \in 1 .. Len(q) : q[j] = x
      /\ \A j \in 1 .. Len(q) : q[j] \in Slots
  BY DEF OneToOne, Covers
<1>3. Cardinality(U) = Len(q) /\ Len(q) <= Cardinality(Slots)
  BY <1>2, SlotsAreFinite, DistinctElements
<1>4. Len(q) \in Nat /\ Len(q) <= MaxElements /\ MaxElements \in 0 .. MaxElements
      /\ MaxElements \in Nat
  BY <1>3, SlotsAreFinite, ConstantsAssumption
<1>5. Walk(f, i)[MaxElements] = -1
  <2>1. MaxElements + 1 \notin 1 .. Len(q)
    BY <1>4
  <2> QED BY <1>1, <1>4, <2>1 DEF Elem
<1>6. ASSUME NEW x \in U  PROVE x \in InWalk(f, i)
  <2>1. PICK j \in 1 .. Len(q) : q[j] = x
    BY <1>2
  <2>2. j - 1 \in 0 .. MaxElements /\ (j - 1) + 1 = j
    BY <1>4
  <2>3. Walk(f, i)[j - 1] = x
    BY <1>1, <2>1, <2>2 DEF Elem
  <2> QED BY <2>2, <2>3 DEF InWalk
<1>7. ASSUME NEW x \in InWalk(f, i)  PROVE x \in U
  <2>1. PICK n \in 0 .. MaxElements : Walk(f, i)[n] = x /\ x \in Slots
    BY <1>7 DEF InWalk
  <2>2. x = Elem(q, n + 1)
    BY <1>1, <2>1
  <2> QED BY <1>2, <2>1, <2>2, SlotNumbers DEF Elem
<1> QED BY <1>3, <1>4, <1>5, <1>6, <1>7

(* find stops at an element in use that has the key, and finds one         *)
(* whenever there is one.                                                  *)
LEMMA FoundIsUsed ==
  ASSUME NEW c, Reads(c), NEW k \in Keys
  PROVE  /\ \A s \in Slots : Finds(c, k, s) => s \in Used(c) /\ c.key[s] = k
         /\ (\E s \in Used(c) : c.key[s] = k) => \E s \in Slots : Finds(c, k, s)
<1>1. PICK b \in BucketNrs : b = BucketOf[k]
  BY ConstantsAssumption DEF BucketNrs
<1>2. c \in CacheType /\ Used(c) \in SUBSET Slots
  <2>1. c \in CacheType
    BY DEF Reads, Good
  <2> QED BY <2>1, CacheFields, ConstantsAssumption DEF Used, Slots
<1>3. PICK q \in Seq(Slots) :
        /\ OneToOne(q) /\ Covers(q, OfBucket(c, b, Used(c)))
        /\ c.bucket[b] = Elem(q, 1)
        /\ \A j \in 1 .. Len(q) : c.bucket_next[q[j]] = Elem(q, j + 1)
  BY DEF Reads, Good, ChainsRead, ChainReads
<1>4. OfBucket(c, b, Used(c)) \in SUBSET Slots
  BY <1>2 DEF OfBucket
<1> DEFINE w == Walk(c.bucket_next, c.bucket[b])
<1>5. Len(q) <= MaxElements
  BY <1>3, <1>4, WalkMeets
<1>6. \A n \in 0 .. MaxElements : w[n] = Elem(q, n + 1)
  BY <1>3, WalkReads
<1>7. \A s : Finds(c, k, s) <=> \E n \in 0 .. MaxElements :
                                  /\ w[n] = s /\ c.key[s] = k
                                  /\ \A m \in 0 .. n - 1 : c.key[w[m]] # k
  BY <1>1 DEF Finds
<1> HIDE DEF w
<1>8. \A i \in 1 .. Len(q) : q[i] \in Slots
  OBVIOUS
<1>9. ASSUME NEW s \in Slots, Finds(c, k, s)  PROVE s \in Used(c) /\ c.key[s] = k
  <2>1. PICK n \in 0 .. MaxElements : w[n] = s /\ c.key[s] = k
    BY <1>7, <1>9
  <2>2. \E i \in 1 .. Len(q) : q[i] = s
    BY <1>6, <2>1, SlotNumbers DEF Elem
  <2>3. s \in OfBucket(c, b, Used(c))
    BY <1>3, <2>2 DEF Covers
  <2> QED BY <2>1, <2>3 DEF OfBucket
<1>10. ASSUME NEW s \in Used(c), c.key[s] = k  PROVE \E x \in Slots : Finds(c, k, x)
  <2> DEFINE N == {i \in Nat : i \in 1 .. Len(q) /\ c.key[q[i]] = k}
  <2>1. s \in OfBucket(c, b, Used(c))
    BY <1>1, <1>10 DEF OfBucket
  <2>2. PICK j \in 1 .. Len(q) : q[j] = s
    BY <1>2, <1>3, <1>10, <2>1 DEF Covers
  <2>3. j \in N
    BY <1>10, <2>2
  <2>4. PICK i \in N : \A m \in N : i <= m
    <3>1. N \in SUBSET Nat
      OBVIOUS
    <3> HIDE DEF N
    <3> QED BY <2>3, <3>1, LeastOf
  <2>5. i \in 1 .. Len(q) /\ c.key[q[i]] = k /\ Len(q) \in Nat /\ MaxElements \in Nat
    BY ConstantsAssumption
  <2>6. \A m \in 1 .. Len(q) : m < i => c.key[q[m]] # k
    <3> SUFFICES ASSUME NEW m \in 1 .. Len(q), m < i, c.key[q[m]] = k  PROVE FALSE
      OBVIOUS
    <3>1. m \in N
      OBVIOUS
    <3>2. i <= m /\ i \in Int /\ m \in Int
      BY <2>4, <3>1
    <3> HIDE DEF N
    <3> QED BY <3>2
  <2> HIDE DEF N
  <2>7. /\ i - 1 \in 0 .. MaxElements /\ (i - 1) + 1 = i
        /\ \A m \in 0 .. (i - 1) - 1 : /\ m \in 0 .. MaxElements
                                       /\ m + 1 \in 1 .. Len(q) /\ m + 1 < i
    BY <1>5, <2>5
  <2>8. w[i - 1] = q[i]
    BY <1>6, <2>5, <2>7 DEF Elem
  <2>9. \A m \in 0 .. (i - 1) - 1 : w[m] = q[m + 1]
    BY <1>6, <2>7 DEF Elem
  <2>10. Finds(c, k, q[i])
    BY <1>7, <2>5, <2>6, <2>7, <2>8, <2>9
  <2> QED BY <1>8, <2>5, <2>10
<1> QED BY <1>9, <1>10

---------------------------------------------------------------------------
(* What can be read off the links is what LinksAreSound and Coherent say.  *)
LEMMA ListsShareSlots ==
  ASSUME NEW c, Reads(c)
  PROVE  /\ InWalk(c.list_next, c.head) = Used(c)
         /\ InWalk(c.list_next, c.free) = Slots \ Used(c)
         /\ c.count = Cardinality(Used(c))
         /\ Walk(c.list_next, c.head)[MaxElements] = -1
         /\ Walk(c.list_next, c.free)[MaxElements] = -1
<1>1. c \in CacheType /\ c.count \in 0 .. MaxElements /\ Used(c) \in SUBSET Slots
  <2>1. c \in CacheType
    BY DEF Reads, Good
  <2> QED BY <2>1, CacheFields, ConstantsAssumption DEF Used, Slots
<1>2. PICK q \in Seq(Slots) :
        /\ Len(q) = c.count /\ OneToOne(q) /\ Covers(q, Used(c)) /\ c.head = Elem(q, 1)
        /\ \A j \in 1 .. Len(q) : c.list_next[q[j]] = Elem(q, j + 1)
  BY DEF Reads, Good, LruReads, LinksRead
<1>3. /\ InWalk(c.list_next, c.head) = Used(c) /\ c.count = Cardinality(Used(c))
      /\ Walk(c.list_next, c.head)[MaxElements] = -1
  BY <1>1, <1>2, WalkMeets
<1> DEFINE N == MaxElements - c.count
           p == [i \in 1 .. N |-> c.count + i - 1]
<1>4. N \in Nat /\ c.count \in Nat /\ MaxElements \in Nat
  BY <1>1, ConstantsAssumption
<1>5. /\ p \in Seq(Slots) /\ Len(p) = N
      /\ \A i \in 1 .. N : p[i] = c.count + i - 1
  <2>1. \A i \in 1 .. N : c.count + i - 1 \in Slots
    BY <1>4 DEF Slots
  <2> QED BY <1>4, <2>1
<1> HIDE DEF p
<1>6. OneToOne(p)
  BY <1>4, <1>5 DEF OneToOne
<1>7. Covers(p, Slots \ Used(c))
  <2> SUFFICES ASSUME NEW s \in Slots
               PROVE  s \in Slots \ Used(c) <=> \E i \in 1 .. Len(p) : p[i] = s
    BY DEF Covers
  <2>1. s \in Slots \ Used(c) => s - c.count + 1 \in 1 .. N /\ c.count + (s - c.count + 1) - 1 = s
    BY <1>4, SlotNumbers DEF Used
  <2>2. \A i \in 1 .. N : c.count + i - 1 \notin Used(c)
    BY <1>4 DEF Used
  <2> QED BY <1>5, <2>1, <2>2
<1>8. c.free = Elem(p, 1)
  <2>1. c.free = IF c.count < MaxElements THEN c.count ELSE -1
    BY DEF Reads, FreeReads
  <2>2. CASE c.count < MaxElements
    <3>1. 1 \in 1 .. N /\ c.count + 1 - 1 = c.count
      BY <1>4, <2>2
    <3> QED BY <1>5, <2>1, <2>2, <3>1 DEF Elem
  <2>3. CASE ~(c.count < MaxElements)
    <3>1. 1 \notin 1 .. N
      BY <1>4, <2>3
    <3> QED BY <1>5, <2>1, <2>3, <3>1 DEF Elem
  <2> QED BY <2>2, <2>3
<1>9. \A j \in 1 .. Len(p) : c.list_next[p[j]] = Elem(p, j + 1)
  <2> SUFFICES ASSUME NEW j \in 1 .. N  PROVE c.list_next[p[j]] = Elem(p, j + 1)
    BY <1>5
  <2>1. /\ p[j] \in Slots /\ p[j] >= c.count /\ p[j] = c.count + j - 1
        /\ p[j] + 1 = c.count + (j + 1) - 1
        /\ p[j] + 1 < MaxElements <=> j + 1 \in 1 .. N
    <3>1. p[j] \in Slots /\ p[j] = c.count + j - 1
      BY <1>5
    <3> QED BY <1>4, <3>1
  <2>2. c.list_next[p[j]] = IF p[j] + 1 < MaxElements THEN p[j] + 1 ELSE -1
    BY <2>1 DEF Reads, FreeReads
  <2>3. Elem(p, j + 1) = IF j + 1 \in 1 .. N THEN p[j + 1] ELSE -1
    BY <1>5 DEF Elem
  <2>4. j + 1 \in 1 .. N => p[j + 1] = c.count + (j + 1) - 1
    BY <1>5
  <2> QED BY <2>1, <2>2, <2>3, <2>4
<1>10. /\ InWalk(c.list_next, c.free) = Slots \ Used(c)
       /\ Walk(c.list_next, c.free)[MaxElements] = -1
  <2>1. Slots \ Used(c) \in SUBSET Slots
    OBVIOUS
  <2>2. PICK U \in SUBSET Slots : U = Slots \ Used(c)
    BY <2>1
  <2>3. PICK f, i : f = c.list_next /\ i = c.free
    OBVIOUS
  <2>4. /\ i = Elem(p, 1) /\ p \in Seq(Slots) /\ OneToOne(p) /\ Covers(p, U)
        /\ \A j \in 1 .. Len(p) : f[p[j]] = Elem(p, j + 1)
    BY <1>5, <1>6, <1>7, <1>8, <1>9, <2>2, <2>3
  <2>5. InWalk(f, i) = U /\ Walk(f, i)[MaxElements] = -1
    BY <2>4, WalkMeets
  <2> QED BY <2>2, <2>3, <2>5
<1> QED BY <1>3, <1>10

(* The conjuncts of CacheIsSound: the LRU list reads the same in both      *)
(* directions and has exactly the elements in use,                         *)
LEMMA ListReadsBothWays ==
  ASSUME NEW c, Reads(c)
  PROVE  /\ c.head = -1 <=> c.tail = -1
         /\ \A s \in Used(c) :
              /\ IF s = c.head THEN c.list_prev[s] = -1
                 ELSE c.list_prev[s] \in Used(c) /\ c.list_next[c.list_prev[s]] = s
              /\ c.list_next[s] = -1 <=> s = c.tail
         /\ InWalk(c.list_prev, c.tail) = Used(c) /\ Walk(c.list_prev, c.tail)[MaxElements] = -1
<1>1. Used(c) \in SUBSET Slots
  <2>1. c \in CacheType
    BY DEF Reads, Good
  <2> QED BY <2>1, CacheFields, ConstantsAssumption DEF Used, Slots
<1>2. PICK q \in Seq(Slots) : OneToOne(q) /\ Covers(q, Used(c))
                              /\ LinksRead(c.list_next, c.list_prev, c.head, c.tail, q)
  BY DEF Reads, Good, LruReads
<1> DEFINE N == Len(q)
<1>3. /\ N \in Nat /\ \A i \in 1 .. N : q[i] \in Slots
      /\ c.head = IF N = 0 THEN -1 ELSE q[1]
      /\ c.tail = IF N = 0 THEN -1 ELSE q[N]
      /\ \A i \in 1 .. N : c.list_next[q[i]] = IF i = N THEN -1 ELSE q[i + 1]
      /\ \A i \in 1 .. N : c.list_prev[q[i]] = IF i = 1 THEN -1 ELSE q[i - 1]
  BY <1>2, ElemIs DEF LinksRead
<1>4. /\ \A i, j \in 1 .. N : q[i] = q[j] => i = j
      /\ \A i \in 1 .. N : q[i] \in Used(c)
      /\ \A s \in Used(c) : \E i \in 1 .. N : q[i] = s
  BY <1>1, <1>2, <1>3 DEF OneToOne, Covers
<1> HIDE DEF N
<1>5. c.head = -1 <=> c.tail = -1
  <2>1. N # 0 => 1 \in 1 .. N /\ N \in 1 .. N
    BY <1>3
  <2> QED BY <1>3, <2>1, SlotNumbers
<1>6. ASSUME NEW s \in Used(c)
      PROVE  /\ IF s = c.head THEN c.list_prev[s] = -1
                ELSE c.list_prev[s] \in Used(c) /\ c.list_next[c.list_prev[s]] = s
             /\ c.list_next[s] = -1 <=> s = c.tail
  <2>1. PICK i \in 1 .. N : q[i] = s
    BY <1>4
  <2>2. N # 0 /\ 1 \in 1 .. N /\ N \in 1 .. N
    BY <1>3
  <2>3. (s = c.head <=> i = 1) /\ (s = c.tail <=> i = N)
    <3>1. c.head = q[1] /\ c.tail = q[N]
      BY <1>3, <2>2
    <3>2. (q[i] = q[1] <=> i = 1) /\ (q[i] = q[N] <=> i = N)
      BY <1>4, <2>2
    <3> QED BY <2>1, <3>1, <3>2
  <2>4. i # N => i + 1 \in 1 .. N
    BY <1>3
  <2>5. c.list_next[s] = -1 <=> s = c.tail
    BY <1>3, <2>1, <2>3, <2>4, SlotNumbers
  <2>6. i # 1 => i - 1 \in 1 .. N /\ i - 1 # N /\ (i - 1) + 1 = i
    BY <1>3
  <2>7. i # 1 => c.list_prev[s] = q[i - 1] /\ c.list_next[q[i - 1]] = s
    BY <1>3, <2>1, <2>6
  <2> QED BY <1>3, <1>4, <2>1, <2>3, <2>5, <2>6, <2>7
<1> DEFINE p == [i \in 1 .. N |-> q[N + 1 - i]]
<1>7. /\ p \in Seq(Slots) /\ Len(p) = N
      /\ \A i \in 1 .. N : p[i] = q[N + 1 - i] /\ N + 1 - i \in 1 .. N
  <2>1. \A i \in 1 .. N : N + 1 - i \in 1 .. N
    BY <1>3
  <2> QED BY <1>3, <2>1
<1> HIDE DEF p
<1>8. OneToOne(p)
  <2>1. \A i, j \in 1 .. N : N + 1 - i = N + 1 - j => i = j
    BY <1>3
  <2> SUFFICES ASSUME NEW i \in 1 .. N, NEW j \in 1 .. N, p[i] = p[j]  PROVE i = j
    BY <1>7 DEF OneToOne
  <2>2. N + 1 - i \in 1 .. N /\ N + 1 - j \in 1 .. N /\ q[N + 1 - i] = q[N + 1 - j]
    BY <1>7
  <2>3. N + 1 - i = N + 1 - j
    BY <1>4, <2>2
  <2> QED BY <2>1, <2>3
<1>9. Covers(p, Used(c))
  <2> SUFFICES ASSUME NEW s \in Slots
               PROVE  s \in Used(c) <=> \E i \in 1 .. Len(p) : p[i] = s
    BY DEF Covers
  <2>1. ASSUME s \in Used(c)  PROVE \E i \in 1 .. N : p[i] = s
    <3>1. PICK i \in 1 .. N : q[i] = s
      BY <1>4, <2>1
    <3>2. N + 1 - i \in 1 .. N /\ N + 1 - (N + 1 - i) = i
      BY <1>3
    <3> QED BY <1>7, <3>1, <3>2
  <2> QED BY <1>4, <1>7, <2>1
<1>10. c.tail = Elem(p, 1)
  <2>1. N # 0 => 1 \in 1 .. N /\ N + 1 - 1 = N
    BY <1>3
  <2>2. N = 0 => 1 \notin 1 .. N
    OBVIOUS
  <2> QED BY <1>3, <1>7, <2>1, <2>2 DEF Elem
<1>11. \A j \in 1 .. Len(p) : c.list_prev[p[j]] = Elem(p, j + 1)
  <2> SUFFICES ASSUME NEW j \in 1 .. N  PROVE c.list_prev[p[j]] = Elem(p, j + 1)
    BY <1>7
  <2>1. /\ N + 1 - j \in 1 .. N /\ N + 1 - j = 1 <=> j = N
        /\ j # N => j + 1 \in 1 .. N /\ N + 1 - (j + 1) = (N + 1 - j) - 1
        /\ j = N => j + 1 \notin 1 .. N
    BY <1>3
  <2>2. p[j] = q[N + 1 - j]
    BY <1>7
  <2>3. c.list_prev[p[j]] = IF j = N THEN -1 ELSE q[(N + 1 - j) - 1]
    BY <1>3, <2>1, <2>2
  <2>4. Elem(p, j + 1) = IF j = N THEN -1 ELSE p[j + 1]
    BY <1>7, <2>1 DEF Elem
  <2>5. j # N => p[j + 1] = q[(N + 1 - j) - 1]
    BY <1>7, <2>1
  <2> QED BY <2>3, <2>4, <2>5
<1>12. InWalk(c.list_prev, c.tail) = Used(c) /\ Walk(c.list_prev, c.tail)[MaxElements] = -1
  <2>1. PICK f, i : f = c.list_prev /\ i = c.tail
    OBVIOUS
  <2>2. \A j \in 1 .. Len(p) : f[p[j]] = Elem(p, j + 1)
    BY <1>11, <2>1
  <2>3. i = Elem(p, 1)
    BY <1>10, <2>1
  <2>4. InWalk(f, i) = Used(c) /\ Walk(f, i)[MaxElements] = -1
    <3>1. PICK U \in SUBSET Slots : U = Used(c)
      BY <1>1
    <3>2. Covers(p, U) /\ p \in Seq(Slots)
      BY <1>7, <1>9, <3>1
    <3>3. InWalk(f, i) = U /\ Walk(f, i)[MaxElements] = -1
      BY <1>8, <2>2, <2>3, <3>2, WalkMeets
    <3> QED BY <3>1, <3>3
  <2> QED BY <2>1, <2>4
<1> QED BY <1>5, <1>6, <1>12

(* and so has each chain, with the elements of its bucket.                 *)
LEMMA ChainsReadBothWays ==
  ASSUME NEW c, Reads(c), NEW b \in BucketNrs
  PROVE  /\ InWalk(c.bucket_next, c.bucket[b]) = OfBucket(c, b, Used(c))
         /\ Walk(c.bucket_next, c.bucket[b])[MaxElements] = -1
         /\ \A s \in OfBucket(c, b, Used(c)) :
              /\ BucketOf[c.key[s]] = b
              /\ IF s = c.bucket[b] THEN c.bucket_prev[s] = - b - 1
                 ELSE c.bucket_prev[s] \in Slots /\ c.bucket_next[c.bucket_prev[s]] = s
              /\ c.bucket_prev[s] < 0 => b = - c.bucket_prev[s] - 1
              /\ ~(c.bucket_next[s] = c.bucket_prev[s] /\ c.bucket_prev[s] >= 0)
<1>1. OfBucket(c, b, Used(c)) \in SUBSET Slots
  <2>1. c \in CacheType
    BY DEF Reads, Good
  <2> QED BY <2>1, CacheFields, ConstantsAssumption DEF Used, Slots, OfBucket
<1>2. PICK q \in Seq(Slots) :
        /\ OneToOne(q) /\ Covers(q, OfBucket(c, b, Used(c)))
        /\ ChainReads(c.bucket_next, c.bucket_prev, c.bucket[b], b, q)
  BY DEF Reads, Good, ChainsRead
<1>3. /\ InWalk(c.bucket_next, c.bucket[b]) = OfBucket(c, b, Used(c))
      /\ Walk(c.bucket_next, c.bucket[b])[MaxElements] = -1
  <2>1. PICK f, i : f = c.bucket_next /\ i = c.bucket[b]
    OBVIOUS
  <2>2. i = Elem(q, 1) /\ \A j \in 1 .. Len(q) : f[q[j]] = Elem(q, j + 1)
    BY <1>2, <2>1 DEF ChainReads
  <2>3. InWalk(f, i) = OfBucket(c, b, Used(c)) /\ Walk(f, i)[MaxElements] = -1
    BY <1>1, <1>2, <2>2, WalkMeets
  <2> QED BY <2>1, <2>3
<1> DEFINE N == Len(q)
<1>4. /\ N \in Nat /\ \A i \in 1 .. N : q[i] \in Slots
      /\ c.bucket[b] = IF N = 0 THEN -1 ELSE q[1]
      /\ \A i \in 1 .. N : c.bucket_next[q[i]] = IF i = N THEN -1 ELSE q[i + 1]
      /\ \A i \in 1 .. N : c.bucket_prev[q[i]] = IF i = 1 THEN - b - 1 ELSE q[i - 1]
  BY <1>2, ElemIs DEF ChainReads
<1>5. /\ \A i, j \in 1 .. N : q[i] = q[j] => i = j
      /\ \A s \in OfBucket(c, b, Used(c)) : \E i \in 1 .. N : q[i] = s
  BY <1>1, <1>2 DEF OneToOne, Covers
<1> HIDE DEF N
<1>6. ASSUME NEW s \in OfBucket(c, b, Used(c))
      PROVE  /\ IF s = c.bucket[b] THEN c.bucket_prev[s] = - b - 1
                ELSE c.bucket_prev[s] \in Slots /\ c.bucket_next[c.bucket_prev[s]] = s
             /\ c.bucket_prev[s] < 0 => b = - c.bucket_prev[s] - 1
             /\ ~(c.bucket_next[s] = c.bucket_prev[s] /\ c.bucket_prev[s] >= 0)
  <2>1. PICK i \in 1 .. N : q[i] = s
    BY <1>5
  <2>2. N # 0 /\ 1 \in 1 .. N /\ b \in Int /\ b >= 0
    BY <1>4, ConstantsAssumption DEF BucketNrs
  <2>3. s = c.bucket[b] <=> i = 1
    BY <1>4, <1>5, <2>1, <2>2
  <2>4. CASE i = 1
    <3>1. c.bucket_prev[s] = - b - 1
      BY <1>4, <2>1, <2>4
    <3>2. - b - 1 < 0 /\ ~(- b - 1 >= 0) /\ b = -(- b - 1) - 1
      BY <2>2
    <3> QED BY <2>3, <2>4, <3>1, <3>2
  <2>5. CASE i # 1
    <3>1. i - 1 \in 1 .. N /\ i - 1 # N /\ (i - 1) + 1 = i
      BY <1>4, <2>5
    <3>2. c.bucket_prev[s] = q[i - 1] /\ q[i - 1] \in Slots /\ c.bucket_next[q[i - 1]] = s
      BY <1>4, <2>1, <2>5, <3>1
    <3>3. c.bucket_next[s] # q[i - 1]
      <4>1. CASE i = N
        BY <1>4, <2>1, <3>2, <4>1, SlotNumbers, SMTT(40)
      <4>2. CASE i # N
        <5>1. i + 1 \in 1 .. N /\ i + 1 # i - 1
          BY <1>4, <4>2
        <5> QED BY <1>4, <1>5, <2>1, <3>1, <4>2, <5>1
      <4> QED BY <4>1, <4>2
    <3>4. ~(q[i - 1] < 0)
      BY <3>2, SlotNumbers
    <3> QED BY <2>3, <2>5, <3>2, <3>3, <3>4
  <2> QED BY <2>4, <2>5
<1>7. \A s \in OfBucket(c, b, Used(c)) : BucketOf[c.key[s]] = b
  BY DEF OfBucket
<1> QED BY <1>3, <1>6, <1>7

---------------------------------------------------------------------------
(* The two actions that write to the object, as steps of the order q.      *)
HitTo(c, k, d) ==
  \E q, r \in Seq(Slots) : \E i \in 1 .. Len(q) :
    /\ Orders(c, q) /\ Orders(d, r) /\ Reads(d)
    /\ c.key[q[i]] = k /\ r = Append(RemoveAt(q, i), q[i])
    /\ d.key = c.key /\ Used(d) = Used(c)

InsertTo(c, k, d) ==
  \E q, r \in Seq(Slots) : \E new \in Slots :
    /\ Orders(c, q) /\ Orders(d, r) /\ Reads(d)
    /\ d.key = [c.key EXCEPT ![new] = k]
    /\ r = Append(IF Len(q) = MaxElements THEN Tail(q) ELSE q, new)
    /\ IF Len(q) = MaxElements THEN Used(d) = Used(c) /\ new \in Used(c) /\ new = q[1]
       ELSE new \notin Used(c) /\ Used(d) = Used(c) \cup {new}

(* A hit on element s, in terms of the sequences.                          *)
LEMMA HitIs ==
  ASSUME NEW c, Reads(c), NEW k \in Keys, NEW s \in Slots, Finds(c, k, s)
  PROVE  HitTo(c, k, Moved(c, s))
<1>1. s \in Used(c) /\ c.key[s] = k
  BY FoundIsUsed
<1>2. PICK q \in Seq(Slots) : Orders(c, q)
  BY DEF Reads, Good, Orders
<1>3. PICK i \in 1 .. Len(q) : q[i] = s
  BY <1>1, <1>2 DEF Orders, LruReads, Covers
<1>4. PICK d : d = Moved(c, s)
  OBVIOUS
<1>5. /\ Reads(d) /\ Orders(d, Append(RemoveAt(q, i), q[i]))
      /\ d.key = c.key /\ d.count = c.count
  BY <1>1, <1>2, <1>3, <1>4, MovedReads
<1>6. Used(d) = Used(c)
  BY <1>5 DEF Used
<1>7. PICK r \in Seq(Slots) : r = Append(RemoveAt(q, i), q[i])
  BY <1>5 DEF Orders
<1> QED BY <1>1, <1>2, <1>3, <1>4, <1>5, <1>6, <1>7 DEF HitTo

(* An insert, with the eviction before it when the cache is full, in the   *)
(* same terms.                                                             *)
LEMMA InsertIs ==
  ASSUME NEW c, Reads(c), NEW k \in Keys
  PROVE  InsertTo(c, k, Stored(IF c.count >= MaxElements THEN Evicted(c) ELSE c, k))
<1>1. PICK q \in Seq(Slots) : Orders(c, q)
  BY DEF Reads, Good, Orders
<1>2. Len(q) = c.count /\ c.count \in 0 .. MaxElements /\ MaxElements \in Nat
  <2>1. c \in CacheType
    BY DEF Reads, Good
  <2> QED BY <1>1, <2>1, CacheFields, ConstantsAssumption DEF Orders
<1>3. CASE c.count = MaxElements
  <2>1. PICK d : d = Stored(Evicted(c), k)
    OBVIOUS
  <2>2. /\ Reads(d) /\ Orders(d, Append(Tail(q), q[1]))
        /\ d.key = [c.key EXCEPT ![q[1]] = k]
        /\ q[1] \in Slots /\ Used(d) = Used(c) /\ Used(c) = Slots
    BY <1>1, <1>3, <2>1, ReplacedReads
  <2>3. PICK r \in Seq(Slots) : r = Append(Tail(q), q[1])
    BY <2>2 DEF Orders
  <2>4. InsertTo(c, k, d)
    BY <1>1, <1>2, <1>3, <2>2, <2>3 DEF InsertTo
  <2> QED BY <1>2, <1>3, <2>1, <2>4
<1>4. CASE c.count # MaxElements
  <2>1. PICK d : d = Stored(c, k)
    OBVIOUS
  <2>2. /\ Reads(d) /\ Orders(d, Append(q, c.free))
        /\ d.key = [c.key EXCEPT ![c.free] = k]
        /\ c.free \in Slots \ Used(c) /\ Used(d) = Used(c) \cup {c.free}
    BY <1>1, <1>4, <2>1, StoredReads
  <2>3. PICK r \in Seq(Slots) : r = Append(q, c.free)
    BY <2>2 DEF Orders
  <2>4. InsertTo(c, k, d)
    BY <1>1, <1>2, <1>4, <2>2, <2>3 DEF InsertTo
  <2>5. ~(c.count >= MaxElements)
    BY <1>2, <1>4
  <2> QED BY <2>1, <2>4, <2>5
<1> QED BY <1>3, <1>4

(* The actions in these terms.                                             *)
LEMMA FindHitIs ==
  ASSUME IInv, NEW t \in Threads, NEW k \in Keys, FindHit(t, k)
  PROVE  HitTo(cache, k, cache')
<1>1. PICK c : c = cache
  OBVIOUS
<1>2. PICK s \in Slots : Finds(c, k, s) /\ cache' = Moved(c, s)
  BY <1>1 DEF FindHit
<1>3. HitTo(c, k, Moved(c, s))
  BY <1>1, <1>2, HitIs DEF IInv
<1> QED BY <1>1, <1>2, <1>3

(* The Insert action stores the key its thread missed.                     *)
LEMMA InsertOf ==
  ASSUME IInv, NEW t \in Threads, Insert(t)
  PROVE  missed[t] \in Keys /\ InsertTo(cache, missed[t], cache')
<1>1. PICK c : c = cache
  OBVIOUS
<1>2. PICK k \in Keys : k = missed[t]
  BY DEF IInv, Insert
<1>3. InsertTo(c, k, Stored(IF c.count >= MaxElements THEN Evicted(c) ELSE c, k))
  BY <1>1, InsertIs DEF IInv
<1>4. cache' = Stored(IF c.count >= MaxElements THEN Evicted(c) ELSE c, k)
  BY <1>1, <1>2 DEF Insert
<1> QED BY <1>1, <1>2, <1>3, <1>4

(* IInv is inductive.                                                      *)
LEMMA IInvKept == IInv /\ [Next]_vars => IInv'
<1> SUFFICES ASSUME IInv, [Next]_vars PROVE IInv'
  OBVIOUS
<1>1. missed \in [Threads -> Keys \cup {NULL}] /\ consumer \in [Threads -> Keys \cup {NULL}]
  BY DEF IInv
<1>2. ASSUME NEW t \in Threads, NEW k \in Keys, FindHit(t, k)  PROVE IInv'
  <2>1. Reads(cache')
    BY <1>2, FindHitIs DEF HitTo
  <2>2. missed' = missed /\ consumer' \in [Threads -> Keys \cup {NULL}]
    BY <1>1, <1>2 DEF FindHit
  <2> QED BY <1>1, <2>1, <2>2 DEF IInv
<1>3. ASSUME NEW t \in Threads, NEW k \in Keys, FindMiss(t, k)  PROVE IInv'
  BY <1>1, <1>3 DEF IInv, FindMiss
<1>4. ASSUME NEW t \in Threads, Insert(t)  PROVE IInv'
  <2>1. Reads(cache')
    BY <1>4, InsertOf DEF InsertTo
  <2>2. consumer' = consumer /\ missed' \in [Threads -> Keys \cup {NULL}]
    BY <1>1, <1>4 DEF Insert
  <2> QED BY <1>1, <2>1, <2>2 DEF IInv
<1>5. CASE UNCHANGED vars
  BY <1>5 DEF vars, IInv
<1> QED BY <1>2, <1>3, <1>4, <1>5 DEF Next

(* IInv holds in every reachable state.                                    *)
LEMMA IInvHolds == Spec => []IInv
<1>1. Init => IInv
  BY EmptyReads DEF Init, IInv
<1> QED BY <1>1, IInvKept, PTL DEF Spec

(* Type correctness: every index that is written is one of the array, -1,  *)
(* or in bucket_prev a bucket's number made negative.                      *)
THEOREM TypeIsCorrect == Spec => []TypeOK
<1>1. IInv => TypeOK
  <2> SUFFICES ASSUME IInv PROVE TypeOK
    OBVIOUS
  <2>1. PICK c \in CacheType : c = cache
    BY DEF IInv, Reads, Good
  <2> QED BY <2>1, CacheFields DEF TypeOK, IInv, BackType, NextType, HeadType
<1> QED BY <1>1, IInvHolds, PTL

---------------------------------------------------------------------------
(* LinksAreSound and coherent() are read off the sequences.                *)
LEMMA LinksSound == IInv => LinksAreSound
<1> SUFFICES ASSUME IInv PROVE LinksAreSound
  OBVIOUS
<1>1. PICK c : c = cache
  OBVIOUS
<1>2. Reads(c)
  BY <1>1 DEF IInv
<1>3. Listed = Used(c) /\ Free = Slots \ Used(c)
  BY <1>1, <1>2, ListsShareSlots DEF Listed, Free
<1>4. Used(c) \in SUBSET Slots /\ \A s \in Used(c) : c.key[s] \in Keys
  <2>1. c \in CacheType /\ \A s \in Used(c) : c.key[s] \in Keys
    BY <1>2 DEF Reads, Good
  <2> QED BY <2>1, CacheFields, ConstantsAssumption DEF Used, Slots
<1>5. ElementsConserved
  <2>1. /\ c.count = Cardinality(Used(c))
        /\ Walk(c.list_next, c.head)[MaxElements] = -1
        /\ Walk(c.list_next, c.free)[MaxElements] = -1
    BY <1>2, ListsShareSlots
  <2> QED BY <1>1, <1>3, <1>4, <2>1 DEF ElementsConserved
<1>6. ListIsDouble
  BY <1>1, <1>2, <1>3, ListReadsBothWays DEF ListIsDouble
<1>7. ChainsAreDouble
  <2> DEFINE chained(b) == InWalk(cache.bucket_next, cache.bucket[b])
  <2>1. \A b \in BucketNrs : chained(b) = OfBucket(c, b, Used(c))
    BY <1>1, <1>2, ChainsReadBothWays
  <2>2. \A b \in BucketNrs :
          /\ Walk(c.bucket_next, c.bucket[b])[MaxElements] = -1
          /\ \A s \in OfBucket(c, b, Used(c)) :
               /\ BucketOf[c.key[s]] = b
               /\ IF s = c.bucket[b] THEN c.bucket_prev[s] = - b - 1
                  ELSE c.bucket_prev[s] \in Slots /\ c.bucket_next[c.bucket_prev[s]] = s
    BY <1>2, ChainsReadBothWays
  <2> HIDE DEF chained
  <2>3. UNION {chained(b) : b \in BucketNrs} = Listed
    <3>1. \A s \in Used(c) : BucketOf[c.key[s]] \in BucketNrs /\ s \in OfBucket(c, BucketOf[c.key[s]], Used(c))
      BY <1>4, ConstantsAssumption DEF BucketNrs, OfBucket
    <3>2. \A b \in BucketNrs : OfBucket(c, b, Used(c)) \subseteq Used(c)
      BY DEF OfBucket
    <3> QED BY <1>3, <2>1, <3>1, <3>2
  <2>4. \A b \in BucketNrs :
          /\ Walk(cache.bucket_next, cache.bucket[b])[MaxElements] = -1
          /\ \A s \in chained(b) :
               /\ BucketOf[cache.key[s]] = b
               /\ IF s = cache.bucket[b] THEN cache.bucket_prev[s] = - b - 1
                  ELSE cache.bucket_prev[s] \in Slots
                       /\ cache.bucket_next[cache.bucket_prev[s]] = s
    BY <1>1, <2>1, <2>2
  <2> QED BY <2>3, <2>4 DEF ChainsAreDouble, chained
<1> QED BY <1>5, <1>6, <1>7 DEF LinksAreSound

(* What coherent() asserts follows from IInv.                              *)
LEMMA AlwaysCoherent == IInv => CoherentBetweenCalls
<1> SUFFICES ASSUME IInv PROVE Coherent(cache)
  BY DEF CoherentBetweenCalls
<1>1. PICK c : c = cache
  OBVIOUS
<1>2. Reads(c)
  BY <1>1 DEF IInv
<1>3. \A s \in Used(c) : s # c.count /\ c.key[s] \in Keys
  <2>1. c \in CacheType /\ \A s \in Used(c) : c.key[s] \in Keys
    BY <1>2 DEF Reads, Good
  <2> QED BY <2>1, CacheFields DEF Used
<1>4. /\ InWalk(c.list_next, c.head) = Used(c)
      /\ Walk(c.list_next, c.free)[MaxElements] \notin Slots
      /\ Walk(c.list_next, c.head)[MaxElements] \notin Slots
  BY <1>2, ListsShareSlots, SlotNumbers
<1>5. /\ InWalk(c.list_prev, c.tail) = Used(c)
      /\ Walk(c.list_prev, c.tail)[MaxElements] \notin Slots
  BY <1>2, ListReadsBothWays, SlotNumbers
<1>6. \A s \in Used(c) : c.bucket_prev[s] < 0 => BucketOf[c.key[s]] = - c.bucket_prev[s] - 1
  <2> TAKE s \in Used(c)
  <2>1. PICK b \in BucketNrs : b = BucketOf[c.key[s]]
    BY <1>3, ConstantsAssumption DEF BucketNrs
  <2>2. s \in OfBucket(c, b, Used(c))
    BY <2>1 DEF OfBucket
  <2>3. c.bucket_prev[s] < 0 => b = - c.bucket_prev[s] - 1
    BY <1>2, <2>2, ChainsReadBothWays
  <2> QED BY <2>1, <2>3
<1>7. \A b \in BucketNrs :
        /\ Walk(c.bucket_next, c.bucket[b])[MaxElements] \notin Slots
        /\ InWalk(c.bucket_next, c.bucket[b]) = OfBucket(c, b, Used(c))
        /\ \A s \in OfBucket(c, b, Used(c)) :
             /\ s # c.count
             /\ BucketOf[c.key[s]] = b
             /\ ~(c.bucket_next[s] = c.bucket_prev[s] /\ c.bucket_prev[s] >= 0)
  <2> TAKE b \in BucketNrs
  <2>1. \A s \in OfBucket(c, b, Used(c)) : s # c.count
    BY <1>3 DEF OfBucket
  <2> QED BY <1>2, <2>1, ChainsReadBothWays, SlotNumbers
<1>8. \A b \in BucketNrs :
        /\ Walk(c.bucket_next, c.bucket[b])[MaxElements] \notin Slots
        /\ \A s \in InWalk(c.bucket_next, c.bucket[b]) :
             /\ s # c.count
             /\ BucketOf[c.key[s]] = b
             /\ ~(c.bucket_next[s] = c.bucket_prev[s] /\ c.bucket_prev[s] >= 0)
  BY <1>7
<1>9. Coherent(c)
  BY <1>4, <1>5, <1>6, <1>8 DEF Coherent
<1> QED BY <1>1, <1>9

---------------------------------------------------------------------------
(* The entries of a key and the threads about to enter it.                 *)
Copies(k) == {s \in Used(cache) : cache.key[s] = k}
Missing(k) == {t \in Threads : missed[t] = k}
FewCopies == \A k \in Keys : Cardinality(Copies(k)) + Cardinality(Missing(k)) <= Cardinality(Threads)

(* The sets FewCopies counts are finite.                                   *)
LEMMA FiniteHere ==
  ASSUME IInv, NEW k
  PROVE  IsFiniteSet(Copies(k)) /\ IsFiniteSet(Missing(k))
<1>1. Copies(k) \subseteq Slots /\ Missing(k) \subseteq Threads
  <2>1. PICK c \in CacheType : c = cache
    BY DEF IInv, Reads, Good
  <2> QED BY <2>1, CacheFields, ConstantsAssumption DEF Copies, Missing, Used, Slots
<1> QED BY <1>1, SlotsAreFinite, FS_Subset, ConstantsAssumption

(* Sets of at most one more, and of one fewer.                             *)
LEMMA OneMore ==
  ASSUME NEW A, IsFiniteSet(A), NEW x, NEW B, B \subseteq A \cup {x}
  PROVE  Cardinality(B) \in Nat /\ Cardinality(B) <= Cardinality(A) + 1 /\ Cardinality(A) \in Nat
<1>1. /\ IsFiniteSet(A \cup {x}) /\ Cardinality(A) \in Nat
      /\ Cardinality(A \cup {x}) = IF x \in A THEN Cardinality(A) ELSE Cardinality(A) + 1
  BY FS_AddElement, FS_CardinalityType
<1>2. IsFiniteSet(B) /\ Cardinality(B) <= Cardinality(A \cup {x})
  BY <1>1, FS_Subset
<1>3. Cardinality(B) \in Nat
  BY <1>2, FS_CardinalityType
<1> QED BY <1>1, <1>2, <1>3

(* A part of a finite set has no more elements than the set.               *)
LEMMA NoMore ==
  ASSUME NEW A, IsFiniteSet(A), NEW B, B \subseteq A
  PROVE  Cardinality(B) \in Nat /\ Cardinality(B) <= Cardinality(A) /\ Cardinality(A) \in Nat
<1>1. IsFiniteSet(B) /\ Cardinality(B) <= Cardinality(A)
  BY FS_Subset
<1> QED BY <1>1, FS_CardinalityType

(* FewCopies is inductive: a miss, which nobody can have while there is a  *)
(* copy, makes one thread more, and an insert turns one into a copy.       *)
LEMMA FewCopiesKept == IInv /\ FewCopies /\ [Next]_vars => FewCopies'
<1> SUFFICES ASSUME IInv, FewCopies, [Next]_vars, NEW k \in Keys
             PROVE  Cardinality(Copies(k)') + Cardinality(Missing(k)') <= Cardinality(Threads)
  BY DEF FewCopies
<1>1. /\ IsFiniteSet(Copies(k)) /\ IsFiniteSet(Missing(k)) /\ IsFiniteSet(Threads)
      /\ Cardinality(Copies(k)) + Cardinality(Missing(k)) <= Cardinality(Threads)
  BY FiniteHere, ConstantsAssumption DEF FewCopies
<1>2. missed \in [Threads -> Keys \cup {NULL}]
  BY DEF IInv
<1>3. ASSUME Copies(k)' \subseteq Copies(k), Missing(k)' \subseteq Missing(k)
      PROVE  Cardinality(Copies(k)') + Cardinality(Missing(k)') <= Cardinality(Threads)
  <2>1. /\ Cardinality(Copies(k)') <= Cardinality(Copies(k))
        /\ Cardinality(Missing(k)') <= Cardinality(Missing(k))
        /\ {Cardinality(Copies(k)'), Cardinality(Copies(k)), Cardinality(Missing(k)'),
            Cardinality(Missing(k)), Cardinality(Threads)} \subseteq Nat
    BY <1>1, <1>3, NoMore, FS_CardinalityType
  <2> QED BY <1>1, <2>1
<1>4. ASSUME NEW t \in Threads, NEW j \in Keys, FindHit(t, j)
      PROVE  Cardinality(Copies(k)') + Cardinality(Missing(k)') <= Cardinality(Threads)
  <2>1. Copies(k)' = Copies(k)
    BY <1>4, FindHitIs DEF HitTo, Copies
  <2>2. Missing(k)' = Missing(k)
    BY <1>4 DEF FindHit, Missing
  <2> QED BY <1>3, <2>1, <2>2
<1>5. ASSUME NEW t \in Threads, NEW j \in Keys, FindMiss(t, j)
      PROVE  Cardinality(Copies(k)') + Cardinality(Missing(k)') <= Cardinality(Threads)
  <2>1. Copies(k)' = Copies(k)
    BY <1>5 DEF FindMiss, Copies
  <2>2. CASE j # k
    <3>1. Missing(k)' = Missing(k)
      BY <1>2, <1>5, <2>2, ConstantsAssumption DEF FindMiss, Missing
    <3> QED BY <1>3, <2>1, <3>1
  <2>3. CASE j = k
    <3>1. PICK c : c = cache
      OBVIOUS
    <3>2. Reads(c) /\ \A s \in Slots : ~Finds(c, k, s)
      BY <1>5, <2>3, <3>1 DEF FindMiss, IInv
    <3>3. Copies(k) = {}
      BY <3>1, <3>2, FoundIsUsed DEF Copies
    <3>4. Cardinality(Copies(k)') = 0
      BY <2>1, <3>3, FS_EmptySet
    <3>5. Missing(k)' \subseteq Threads
      BY DEF Missing
    <3>6. Cardinality(Missing(k)') <= Cardinality(Threads) /\ Cardinality(Missing(k)') \in Nat
      BY <1>1, <3>5, NoMore
    <3> QED BY <3>4, <3>6
  <2> QED BY <2>2, <2>3
<1>6. ASSUME NEW t \in Threads, Insert(t)
      PROVE  Cardinality(Copies(k)') + Cardinality(Missing(k)') <= Cardinality(Threads)
  <2>1. PICK new \in Slots :
          /\ cache'.key = [cache.key EXCEPT ![new] = missed[t]]
          /\ Used(cache') \subseteq Used(cache) \cup {new}
    BY <1>6, InsertOf DEF InsertTo
  <2>2. missed' = [missed EXCEPT ![t] = NULL] /\ missed[t] \in Keys
    BY <1>6, InsertOf DEF Insert
  <2>3. cache.key \in [Slots -> Keys \cup {NULL}] /\ Used(cache) \subseteq Slots
    <3>1. PICK c \in CacheType : c = cache
      BY DEF IInv, Reads, Good
    <3> QED BY <3>1, CacheFields, ConstantsAssumption DEF Used, Slots
  <2>4. \A s \in Used(cache') : s # new => s \in Used(cache) /\ cache'.key[s] = cache.key[s]
    BY <2>1, <2>3
  <2>5. cache'.key[new] = missed[t]
    BY <2>1, <2>3
  <2>6. CASE missed[t] # k
    <3>1. Copies(k)' \subseteq Copies(k)
      BY <2>4, <2>5, <2>6 DEF Copies
    <3>2. Missing(k)' \subseteq Missing(k)
      BY <1>2, <2>2, ConstantsAssumption DEF Missing
    <3> QED BY <1>3, <3>1, <3>2
  <2>7. CASE missed[t] = k
    <3>1. Copies(k)' \subseteq Copies(k) \cup {new}
      BY <2>4 DEF Copies
    <3>2. t \in Missing(k) /\ Missing(k)' = Missing(k) \ {t}
      BY <1>2, <2>2, <2>7, ConstantsAssumption DEF Missing
    <3>3. Cardinality(Missing(k)') = Cardinality(Missing(k)) - 1
      BY <1>1, <3>2, FS_RemoveElement
    <3>4. /\ Cardinality(Copies(k)') \in Nat /\ Cardinality(Copies(k)) \in Nat
          /\ Cardinality(Copies(k)') <= Cardinality(Copies(k)) + 1
      BY <1>1, <3>1, OneMore
    <3>5. Cardinality(Missing(k)) \in Nat /\ Cardinality(Threads) \in Nat
      BY <1>1, FS_CardinalityType
    <3> QED BY <1>1, <3>3, <3>4, <3>5
  <2> QED BY <2>6, <2>7
<1>7. CASE UNCHANGED vars
  <2>1. Copies(k)' = Copies(k) /\ Missing(k)' = Missing(k)
    BY <1>7 DEF vars, Copies, Missing
  <2> QED BY <1>3, <2>1
<1> QED BY <1>4, <1>5, <1>6, <1>7 DEF Next

(* The links of the array always read as they should, in both directions   *)
(* and for every capacity; a key has no more entries, made and to be made, *)
(* than there are threads; and the assertions of insert and find hold.     *)
THEOREM CacheIsKept == Spec => []CacheIsSound
<1>1. Init => FewCopies
  <2> SUFFICES ASSUME Init, NEW k \in Keys
               PROVE  Cardinality(Copies(k)) + Cardinality(Missing(k)) <= Cardinality(Threads)
    BY DEF FewCopies
  <2>1. Copies(k) = {} /\ Missing(k) = {}
    BY ConstantsAssumption DEF Init, EmptyCache, Copies, Used, Missing
  <2>2. Cardinality({}) = 0 /\ Cardinality(Threads) \in Nat
    BY FS_EmptySet, FS_CardinalityType, ConstantsAssumption
  <2> QED BY <2>1, <2>2
<1>2. Spec => []FewCopies
  BY <1>1, IInvHolds, FewCopiesKept, PTL DEF Spec
<1>3. IInv /\ FewCopies => CacheIsSound
  <2> SUFFICES ASSUME IInv, FewCopies PROVE CacheIsSound
    OBVIOUS
  <2>1. CopiesBounded
    <3>1. PICK c : c = cache
      OBVIOUS
    <3>2. Listed = Used(cache)
      BY <3>1, ListsShareSlots DEF IInv, Listed
    <3> QED BY <3>2 DEF FewCopies, CopiesBounded, Copies, Missing
  <2> QED BY <2>1, LinksSound, AlwaysCoherent DEF CacheIsSound
<1> QED BY <1>2, <1>3, IInvHolds, PTL

---------------------------------------------------------------------------
(* The refinement: the keys of the LRU list in its order.                  *)
KeyOrder(c) == [i \in 1 .. c.count |-> c.key[Walk(c.list_next, c.head)[i - 1]]]

(* The queue of LRUSpec is the keys of the LRU list.                       *)
LEMMA OrderIs ==
  ASSUME NEW c, Reads(c), NEW q \in Seq(Slots), Orders(c, q)
  PROVE  /\ KeyOrder(c) \in Seq(Keys) /\ Len(KeyOrder(c)) = Len(q)
         /\ \A i \in 1 .. Len(q) : KeyOrder(c)[i] = c.key[q[i]]
<1>1. /\ Len(q) = c.count /\ Len(q) \in Nat /\ Covers(q, Used(c)) /\ OneToOne(q)
      /\ c.head = Elem(q, 1)
      /\ \A j \in 1 .. Len(q) : c.list_next[q[j]] = Elem(q, j + 1)
  BY DEF Orders, LruReads, LinksRead
<1>2. c \in CacheType /\ \A s \in Used(c) : c.key[s] \in Keys
  BY DEF Reads, Good
<1>3. c.count \in 0 .. MaxElements /\ MaxElements \in Nat
  BY <1>2, CacheFields, ConstantsAssumption
<1>4. \A n \in 0 .. MaxElements : Walk(c.list_next, c.head)[n] = Elem(q, n + 1)
  <2>1. PICK f, i : f = c.list_next /\ i = c.head
    OBVIOUS
  <2>2. \A n \in 0 .. MaxElements : Walk(f, i)[n] = Elem(q, n + 1)
    BY <1>1, <2>1, WalkReads
  <2> QED BY <2>1, <2>2
<1>5. \A i \in 1 .. Len(q) : Walk(c.list_next, c.head)[i - 1] = q[i]
  <2> TAKE i \in 1 .. Len(q)
  <2>1. i - 1 \in 0 .. MaxElements /\ (i - 1) + 1 = i
    BY <1>1, <1>3
  <2> QED BY <1>4, <2>1 DEF Elem
<1>6. \A i \in 1 .. Len(q) : q[i] \in Slots /\ q[i] \in Used(c)
  <2>1. \A i \in 1 .. Len(q) : q[i] \in Slots
    OBVIOUS
  <2> QED BY <1>1, <2>1 DEF Covers
<1>7. \A i \in 1 .. Len(q) : KeyOrder(c)[i] = c.key[q[i]]
  BY <1>1, <1>5 DEF KeyOrder
<1>8. KeyOrder(c) = [i \in 1 .. Len(q) |-> KeyOrder(c)[i]]
  BY <1>1 DEF KeyOrder
<1>9. \A i \in 1 .. Len(q) : KeyOrder(c)[i] \in Keys
  BY <1>2, <1>6, <1>7
<1> HIDE DEF KeyOrder
<1>10. KeyOrder(c) \in [1 .. Len(q) -> Keys]
  BY <1>8, <1>9
<1> QED BY <1>1, <1>7, <1>10, SMTT(40)

(* A hit moves one entry of its key to the end of the queue.               *)
LEMMA HitMoves ==
  ASSUME NEW c, Reads(c), NEW k \in Keys, NEW d, HitTo(c, k, d)
  PROVE  \E i \in DOMAIN KeyOrder(c) :
           /\ KeyOrder(c)[i] = k
           /\ KeyOrder(d) = Append(RemoveAt(KeyOrder(c), i), k)
<1>1. PICK q, r \in Seq(Slots) : \E i \in 1 .. Len(q) :
        /\ Orders(c, q) /\ Orders(d, r) /\ Reads(d)
        /\ c.key[q[i]] = k /\ r = Append(RemoveAt(q, i), q[i])
        /\ d.key = c.key /\ Used(d) = Used(c)
  BY DEF HitTo
<1>2. PICK i \in 1 .. Len(q) :
        /\ Orders(c, q) /\ Orders(d, r) /\ Reads(d)
        /\ c.key[q[i]] = k /\ r = Append(RemoveAt(q, i), q[i])
        /\ d.key = c.key /\ Used(d) = Used(c)
  BY <1>1
<1>3. Len(r) = Len(q) /\ Rotated(r, q, i) /\ Len(q) \in Nat
  BY <1>2, MovedSequence DEF Orders, LruReads
<1>4. PICK o \in Seq(Keys) : o = KeyOrder(c) /\ Len(o) = Len(q)
                             /\ \A j \in 1 .. Len(q) : o[j] = c.key[q[j]]
  BY <1>2, OrderIs
<1>5. PICK p \in Seq(Keys) : p = KeyOrder(d) /\ Len(p) = Len(q)
                             /\ \A j \in 1 .. Len(q) : p[j] = c.key[r[j]]
  <2>1. /\ KeyOrder(d) \in Seq(Keys) /\ Len(KeyOrder(d)) = Len(r)
        /\ \A j \in 1 .. Len(r) : KeyOrder(d)[j] = d.key[r[j]]
    BY <1>2, OrderIs
  <2> QED BY <1>2, <1>3, <2>1
<1>6. PICK a \in Seq(Keys) : /\ a = RemoveAt(o, i) /\ Len(a) = Len(q) - 1
                            /\ \A j \in 1 .. Len(q) - 1 : a[j] = IF j < i THEN o[j] ELSE o[j + 1]
  <2>1. i \in 1 .. Len(o)
    BY <1>4
  <2>2. /\ RemoveAt(o, i) \in Seq(Keys) /\ Len(RemoveAt(o, i)) = Len(o) - 1
        /\ \A j \in 1 .. Len(o) - 1 : RemoveAt(o, i)[j] = IF j < i THEN o[j] ELSE o[j + 1]
    BY <2>1, RemoveAtFacts
  <2> QED BY <1>4, <2>2
<1>7. PICK b \in Seq(Keys) : /\ b = Append(a, k) /\ Len(b) = Len(q) /\ b[Len(q)] = k
                            /\ \A j \in 1 .. Len(q) - 1 : b[j] = a[j]
  <2>1. /\ Append(a, k) \in Seq(Keys) /\ Len(Append(a, k)) = Len(a) + 1
        /\ Append(a, k)[Len(a) + 1] = k
        /\ \A j \in 1 .. Len(a) : Append(a, k)[j] = a[j]
    BY AppendFacts
  <2>2. Len(a) = Len(q) - 1 /\ Len(a) + 1 = Len(q)
    BY <1>3, <1>6
  <2> QED BY <2>1, <2>2
<1>8. ASSUME NEW j \in 1 .. Len(q)  PROVE p[j] = b[j]
  <2>1. CASE j = Len(q)
    <3>1. r[j] = q[i]
      <4>1. r[j] = IF j < i THEN q[j] ELSE IF j < Len(q) THEN q[j + 1] ELSE q[i]
        BY <1>3 DEF Rotated
      <4>2. ~(j < i) /\ ~(j < Len(q))
        BY <1>3, <2>1
      <4> QED BY <4>1, <4>2
    <3> QED BY <1>2, <1>5, <1>7, <2>1, <3>1
  <2>2. CASE j # Len(q)
    <3>1. j \in 1 .. Len(q) - 1 /\ j + 1 \in 1 .. Len(q) /\ j < Len(q)
      BY <1>3, <2>2
    <3>2. r[j] = IF j < i THEN q[j] ELSE q[j + 1]
      BY <1>3, <3>1 DEF Rotated
    <3>3. b[j] = IF j < i THEN o[j] ELSE o[j + 1]
      BY <1>6, <1>7, <3>1
    <3> QED BY <1>4, <1>5, <3>1, <3>2, <3>3, ZenonT(40)
  <2> QED BY <2>1, <2>2
<1>9. p = b
  BY <1>3, <1>5, <1>7, <1>8
<1>10. i \in DOMAIN o /\ o[i] = k
  BY <1>2, <1>4
<1> QED BY <1>4, <1>5, <1>6, <1>7, <1>9, <1>10

(* An insert puts its key at the end, and takes the first out of a full    *)
(* queue.                                                                  *)
LEMMA InsertEnters ==
  ASSUME NEW c, Reads(c), NEW k \in Keys, NEW d, InsertTo(c, k, d)
  PROVE  KeyOrder(d) = Append(IF Len(KeyOrder(c)) = MaxElements THEN Tail(KeyOrder(c))
                              ELSE KeyOrder(c), k)
<1>1. PICK q, r \in Seq(Slots) : \E new \in Slots :
        /\ Orders(c, q) /\ Orders(d, r) /\ Reads(d)
        /\ d.key = [c.key EXCEPT ![new] = k]
        /\ r = Append(IF Len(q) = MaxElements THEN Tail(q) ELSE q, new)
        /\ IF Len(q) = MaxElements THEN Used(d) = Used(c) /\ new \in Used(c) /\ new = q[1]
           ELSE new \notin Used(c) /\ Used(d) = Used(c) \cup {new}
  BY DEF InsertTo
<1>2. PICK new \in Slots :
        /\ Orders(c, q) /\ Orders(d, r) /\ Reads(d)
        /\ d.key = [c.key EXCEPT ![new] = k]
        /\ r = Append(IF Len(q) = MaxElements THEN Tail(q) ELSE q, new)
        /\ IF Len(q) = MaxElements THEN Used(d) = Used(c) /\ new \in Used(c) /\ new = q[1]
           ELSE new \notin Used(c) /\ Used(d) = Used(c) \cup {new}
  BY <1>1
<1>3. PICK o \in Seq(Keys) : o = KeyOrder(c) /\ Len(o) = Len(q)
                             /\ \A j \in 1 .. Len(q) : o[j] = c.key[q[j]]
  BY <1>2, OrderIs
<1>4. PICK p \in Seq(Keys) : p = KeyOrder(d) /\ Len(p) = Len(r)
                             /\ \A j \in 1 .. Len(r) : p[j] = d.key[r[j]]
  <2>1. Reads(d) /\ Orders(d, r)
    BY <1>2
  <2>2. /\ KeyOrder(d) \in Seq(Keys) /\ Len(KeyOrder(d)) = Len(r)
        /\ \A j \in 1 .. Len(r) : KeyOrder(d)[j] = d.key[r[j]]
    BY <2>1, OrderIs
  <2> QED BY <2>2
<1>5. c.key \in [Slots -> Keys \cup {NULL}] /\ MaxElements \in Nat /\ MaxElements # 0
  <2>1. c \in CacheType
    BY DEF Reads, Good
  <2> QED BY <2>1, CacheFields, ConstantsAssumption
<1>6. /\ Len(q) \in Nat /\ \A j \in 1 .. Len(q) : q[j] \in Slots
      /\ \A i, j \in 1 .. Len(q) : q[i] = q[j] => i = j
      /\ \A j \in 1 .. Len(q) : q[j] \in Used(c)
  <2>1. Len(q) \in Nat /\ \A j \in 1 .. Len(q) : q[j] \in Slots
    OBVIOUS
  <2> QED BY <1>2, <2>1 DEF Orders, LruReads, OneToOne, Covers
<1>7. CASE Len(q) = MaxElements
  <2>1. PICK q2 \in Seq(Slots) : /\ q2 = Tail(q) /\ Len(q2) = Len(q) - 1
                                /\ \A j \in 1 .. Len(q) - 1 : q2[j] = q[j + 1]
    <3>1. Len(q) # 0
      BY <1>5, <1>7
    <3> QED BY <3>1, TailFacts
  <2>2. PICK o2 \in Seq(Keys) : /\ o2 = Tail(o) /\ Len(o2) = Len(q) - 1
                               /\ \A j \in 1 .. Len(q) - 1 : o2[j] = o[j + 1]
    <3>1. Len(o) # 0
      BY <1>3, <1>5, <1>7
    <3>2. /\ Tail(o) \in Seq(Keys) /\ Len(Tail(o)) = Len(o) - 1
          /\ \A j \in 1 .. Len(o) - 1 : Tail(o)[j] = o[j + 1]
      BY <3>1, TailFacts
    <3> QED BY <1>3, <3>2
  <2>3. /\ r = Append(q2, new) /\ Len(r) = Len(q) /\ r[Len(q)] = new
        /\ \A j \in 1 .. Len(q) - 1 : r[j] = q2[j]
    <3>1. /\ Len(Append(q2, new)) = Len(q2) + 1 /\ Append(q2, new)[Len(q2) + 1] = new
          /\ \A j \in 1 .. Len(q2) : Append(q2, new)[j] = q2[j]
      OBVIOUS
    <3> QED BY <1>2, <1>6, <1>7, <2>1, <3>1
  <2>4. PICK b \in Seq(Keys) : /\ b = Append(o2, k) /\ Len(b) = Len(q) /\ b[Len(q)] = k
                              /\ \A j \in 1 .. Len(q) - 1 : b[j] = o2[j]
    <3>1. /\ Append(o2, k) \in Seq(Keys) /\ Len(Append(o2, k)) = Len(o2) + 1
          /\ Append(o2, k)[Len(o2) + 1] = k
          /\ \A j \in 1 .. Len(o2) : Append(o2, k)[j] = o2[j]
      BY AppendFacts
    <3>2. Len(o2) = Len(q) - 1 /\ Len(o2) + 1 = Len(q)
      BY <1>6, <2>2
    <3> QED BY <3>1, <3>2
  <2>5. ASSUME NEW j \in 1 .. Len(q)  PROVE p[j] = b[j]
    <3>1. CASE j = Len(q)
      <4>1. p[j] = d.key[new]
        BY <1>4, <2>3, <3>1
      <4>2. d.key[new] = k
        BY <1>2, <1>5
      <4> QED BY <2>4, <3>1, <4>1, <4>2
    <3>2. CASE j # Len(q)
      <4>1. /\ j \in 1 .. Len(q) - 1 /\ j + 1 \in 1 .. Len(q) /\ j + 1 # 1
            /\ j \in 1 .. Len(r) /\ 1 \in 1 .. Len(q)
        BY <1>6, <2>3, <3>2
      <4>2. r[j] = q[j + 1] /\ b[j] = o[j + 1]
        BY <2>1, <2>2, <2>3, <2>4, <4>1
      <4>3. q[j + 1] # new /\ q[j + 1] \in Slots
        BY <1>2, <1>6, <1>7, <4>1
      <4>4. d.key[q[j + 1]] = c.key[q[j + 1]]
        BY <1>2, <1>5, <4>3
      <4> QED BY <1>3, <1>4, <4>1, <4>2, <4>4
    <3> QED BY <3>1, <3>2
  <2>6. p = b
    <3>1. Len(p) = Len(b) /\ \A j \in 1 .. Len(p) : p[j] = b[j]
      BY <1>4, <2>3, <2>4, <2>5
    <3> QED BY <3>1, SameSequence
  <2> QED BY <1>3, <1>4, <1>7, <2>2, <2>4, <2>6
<1>8. CASE Len(q) # MaxElements
  <2>1. /\ Len(r) = Len(q) + 1 /\ r[Len(q) + 1] = new
        /\ \A j \in 1 .. Len(q) : r[j] = q[j]
    <3>1. r = Append(q, new)
      BY <1>2, <1>8
    <3> QED BY <3>1
  <2>2. PICK b \in Seq(Keys) : /\ b = Append(o, k) /\ Len(b) = Len(q) + 1 /\ b[Len(q) + 1] = k
                              /\ \A j \in 1 .. Len(q) : b[j] = o[j]
    <3>1. /\ Append(o, k) \in Seq(Keys) /\ Len(Append(o, k)) = Len(o) + 1
          /\ Append(o, k)[Len(o) + 1] = k
          /\ \A j \in 1 .. Len(o) : Append(o, k)[j] = o[j]
      BY AppendFacts
    <3> QED BY <1>3, <3>1
  <2>3. ASSUME NEW j \in 1 .. Len(q) + 1  PROVE p[j] = b[j]
    <3>1. CASE j = Len(q) + 1
      <4>1. p[j] = d.key[new]
        BY <1>4, <2>1, <3>1
      <4>2. d.key[new] = k
        BY <1>2, <1>5
      <4> QED BY <2>2, <3>1, <4>1, <4>2
    <3>2. CASE j # Len(q) + 1
      <4>1. j \in 1 .. Len(q) /\ j \in 1 .. Len(r)
        BY <1>6, <2>1, <3>2
      <4>2. q[j] # new /\ q[j] \in Slots
        BY <1>2, <1>6, <1>8, <4>1
      <4>3. d.key[q[j]] = c.key[q[j]]
        BY <1>2, <1>5, <4>2
      <4> QED BY <1>3, <1>4, <2>1, <2>2, <4>1, <4>3
    <3> QED BY <3>1, <3>2
  <2>4. p = b
    BY <1>4, <2>1, <2>2, <2>3
  <2> QED BY <1>3, <1>4, <1>8, <2>2, <2>4
<1> QED BY <1>7, <1>8

(* Every step of LRUCache is one of LRUSpec or a stutter.                  *)
LEMMA NextImplements == IInv /\ [Next]_vars => [Queue!Next]_Queue!vars
<1> SUFFICES ASSUME IInv, [Next]_vars PROVE [Queue!Next]_Queue!vars
  OBVIOUS
<1>1. PICK c, d : c = cache /\ d = cache'
  OBVIOUS
<1>2. /\ [i \in 1 .. cache.count |-> cache.key[LruOrder[i - 1]]] = KeyOrder(c)
      /\ [i \in 1 .. cache.count |-> cache.key[LruOrder[i - 1]]]' = KeyOrder(d)
  BY <1>1 DEF LruOrder, KeyOrder
<1>3. Reads(c)
  BY <1>1 DEF IInv
<1>4. ASSUME NEW t \in Threads, NEW k \in Keys, FindHit(t, k)  PROVE Queue!Next
  <2>1. \E i \in DOMAIN KeyOrder(c) :
          KeyOrder(c)[i] = k /\ KeyOrder(d) = Append(RemoveAt(KeyOrder(c), i), k)
    BY <1>1, <1>3, <1>4, FindHitIs, HitMoves
  <2>2. Queue!Hit(t, k)
    <3>1. missed[t] = NULL /\ missed' = missed /\ consumer' = [consumer EXCEPT ![t] = k]
      BY <1>4 DEF FindHit
    <3>2. \A q, i : Queue!RemoveAt(q, i) = RemoveAt(q, i)
      BY DEF RemoveAt, Queue!RemoveAt
    <3> QED BY <1>2, <2>1, <3>1, <3>2, Zenon DEF Queue!Hit, Queue!Give
  <2> QED BY <2>2 DEF Queue!Next
<1>5. ASSUME NEW t \in Threads, NEW k \in Keys, FindMiss(t, k)  PROVE Queue!Next
  <2>1. k \notin ToSet(KeyOrder(c))
    <3>1. PICK q \in Seq(Slots) : Orders(c, q)
      BY <1>3 DEF Reads, Good, Orders
    <3>2. \A s \in Used(c) : c.key[s] # k
      BY <1>1, <1>3, <1>5, FoundIsUsed DEF FindMiss
    <3>3. \A i \in 1 .. Len(q) : q[i] \in Used(c)
      <4>1. \A i \in 1 .. Len(q) : q[i] \in Slots
        OBVIOUS
      <4> QED BY <3>1, <4>1 DEF Orders, LruReads, Covers
    <3>4. /\ KeyOrder(c) \in Seq(Keys) /\ Len(KeyOrder(c)) = Len(q)
          /\ \A i \in 1 .. Len(q) : KeyOrder(c)[i] = c.key[q[i]]
      BY <1>3, <3>1, OrderIs
    <3>5. DOMAIN KeyOrder(c) = 1 .. Len(q)
      BY <3>4
    <3> QED BY <3>2, <3>3, <3>4, <3>5 DEF ToSet
  <2>2. KeyOrder(d) = KeyOrder(c)
    BY <1>1, <1>5 DEF FindMiss
  <2>3. Queue!Miss(t, k)
    <3>1. /\ missed[t] = NULL /\ missed' = [missed EXCEPT ![t] = k]
          /\ consumer' = [consumer EXCEPT ![t] = k]
      BY <1>5 DEF FindMiss
    <3>2. \A q : Queue!ToSet(q) = ToSet(q)
      BY DEF ToSet, Queue!ToSet
    <3> QED BY <1>2, <2>1, <2>2, <3>1, <3>2, Zenon DEF Queue!Miss, Queue!Give
  <2> QED BY <2>3 DEF Queue!Next
<1>6. ASSUME NEW t \in Threads, Insert(t)  PROVE Queue!Next
  <2>1. PICK k \in Keys : k = missed[t]
    BY <1>6, InsertOf
  <2>2. InsertTo(c, k, d)
    BY <1>1, <1>6, <2>1, InsertOf
  <2>3. KeyOrder(d) = Append(IF Len(KeyOrder(c)) = MaxElements THEN Tail(KeyOrder(c))
                             ELSE KeyOrder(c), k)
    BY <1>3, <2>2, InsertEnters
  <2>4. Queue!Enter(t)
    BY <1>2, <1>6, <2>1, <2>3 DEF Insert, Queue!Enter
  <2> QED BY <2>4 DEF Queue!Next
<1>7. CASE UNCHANGED vars
  <2>1. KeyOrder(d) = KeyOrder(c)
    BY <1>1, <1>7 DEF vars
  <2> QED BY <1>2, <1>7, <2>1 DEF vars, Queue!vars
<1> QED BY <1>4, <1>5, <1>6, <1>7 DEF Next

(* LRUCache implements LRUSpec: for any capacity, keys and threads a hit   *)
(* moves exactly its entry to the end, and an insert into a full cache     *)
(* evicts the entry least recently used and no other.                      *)
THEOREM EvictsTheOldest == Spec => ImplementsLRU
<1>1. Init => Queue!Init
  <2> SUFFICES ASSUME Init PROVE Queue!Init
    OBVIOUS
  <2>1. cache.count = 0
    BY DEF Init, EmptyCache
  <2>2. [i \in 1 .. cache.count |-> cache.key[LruOrder[i - 1]]] = << >>
    BY <2>1
  <2> QED BY <2>2 DEF Init, Queue!Init
<1> QED BY <1>1, NextImplements, IInvHolds, PTL DEF Spec, ImplementsLRU, Queue!Spec
=============================================================================
