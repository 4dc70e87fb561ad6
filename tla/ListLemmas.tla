----------------------------- MODULE ListLemmas -----------------------------
(***************************************************************************)
(* Facts about naturals and sequences that the proofs of the containers    *)
(* share.                                                                  *)
(***************************************************************************)
EXTENDS Integers, Sequences, SequencesExt, FiniteSetTheorems, WellFoundedInduction, TLAPS

(* Induction, for a set of naturals: the least number outside of it would  *)
(* have a predecessor inside.                                              *)
THEOREM NatSetInduction ==
  ASSUME NEW S, 0 \in S, \A n \in Nat : n \in S => n + 1 \in S
  PROVE  Nat \subseteq S
<1> DEFINE T == Nat \ S
           R == {ss \in Nat \X Nat : ss[1] < ss[2]}
<1>1. IsWellFoundedOn(R, Nat)
  BY NatLessThanWellFounded DEF OpToRel
<1>2. SUFFICES ASSUME T # {} PROVE FALSE
  OBVIOUS
<1>3. PICK x \in T : \A y \in T : ~(<<y, x>> \in R)
  <2> HIDE DEF R
  <2> QED BY <1>1, <1>2, WFMin
<1>4. x \in Nat /\ x # 0 /\ x - 1 \in Nat /\ x - 1 \in T
  OBVIOUS
<1>5. <<x - 1, x>> \in R
  BY <1>4
<1> QED BY <1>3, <1>4, <1>5

(* A set of naturals that is not empty has a least number.                 *)
LEMMA LeastOf ==
  ASSUME NEW S \in SUBSET Nat, S # {}
  PROVE  \E n \in S : \A m \in S : n <= m
<1> DEFINE B == {n \in Nat : \A m \in S : n <= m}
<1>1. SUFFICES ASSUME \A n \in S : \E m \in S : ~(n <= m)  PROVE FALSE
  OBVIOUS
<1>2. 0 \in B
  OBVIOUS
<1>3. \A n \in Nat : n \in B => n + 1 \in B
  <2> TAKE n \in Nat
  <2>1. n \in B => n \notin S
    BY <1>1
  <2> QED BY <2>1
<1> HIDE DEF B
<1>4. Nat \subseteq B
  BY <1>2, <1>3, NatSetInduction
<1>5. PICK x \in S : TRUE
  OBVIOUS
<1>6. x + 1 \in B /\ x \in Nat
  BY <1>4
<1> QED BY <1>5, <1>6 DEF B

(* Two functions that start alike and take the same steps agree on the     *)
(* naturals.                                                               *)
LEMMA AgreeEverywhere ==
  ASSUME NEW f, NEW g, f[0] = g[0],
         \A n \in Nat : f[n] = g[n] => f[n + 1] = g[n + 1]
  PROVE  \A n \in Nat : f[n] = g[n]
<1> DEFINE S == {n \in Nat : f[n] = g[n]}
<1>1. Nat \subseteq S
  <2>1. 0 \in S  OBVIOUS
  <2>2. \A n \in Nat : n \in S => n + 1 \in S  OBVIOUS
  <2> HIDE DEF S
  <2> QED BY <2>1, <2>2, NatSetInduction
<1> QED BY <1>1

(* What is left of a sequence without one of its elements.                 *)
LEMMA RemoveAtFacts ==
  ASSUME NEW S, NEW s \in Seq(S), NEW k \in 1 .. Len(s)
  PROVE  /\ RemoveAt(s, k) \in Seq(S) /\ Len(RemoveAt(s, k)) = Len(s) - 1
         /\ \A i \in 1 .. Len(s) - 1 : RemoveAt(s, k)[i] = IF i < k THEN s[i] ELSE s[i + 1]
<1> DEFINE a == SubSeq(s, 1, k - 1)
           b == SubSeq(s, k + 1, Len(s))
           r == RemoveAt(s, k)
<1>1. a \in Seq(S) /\ Len(a) = k - 1 /\ \A i \in 1 .. k - 1 : a[i] = s[i]
  OBVIOUS
<1>2. /\ b \in Seq(S) /\ Len(b) = Len(s) - k
      /\ \A i \in 1 .. Len(s) - k : b[i] = s[i + k]
  OBVIOUS
<1>3. r = a \o b
  BY DEF RemoveAt
<1> HIDE DEF a, b, r
<1>4. r \in Seq(S) /\ Len(r) = Len(s) - 1
  BY <1>1, <1>2, <1>3
<1>5. \A i \in 1 .. Len(s) - 1 : r[i] = IF i < k THEN s[i] ELSE s[i + 1]
  <2> TAKE i \in 1 .. Len(s) - 1
  <2>1. CASE i < k
    BY <1>1, <1>2, <1>3, <2>1
  <2>2. CASE ~(i < k)
    <3>1. i - (k - 1) \in 1 .. Len(s) - k /\ (i - (k - 1)) + k = i + 1
      BY <2>2
    <3>2. r[i] = b[i - (k - 1)]
      BY <1>1, <1>2, <1>3, <2>2
    <3> QED BY <1>2, <2>2, <3>1, <3>2
  <2> QED BY <2>1, <2>2
<1> QED BY <1>4, <1>5 DEF r

(* What a sequence holds besides its k-th element is what is left without  *)
(* it.                                                                     *)
LEMMA RemoveAtKeepsOthers ==
  ASSUME NEW S, NEW s \in Seq(S), NEW k \in 1 .. Len(s), NEW x \in S
  PROVE  (\E i \in 1 .. Len(s) - 1 : RemoveAt(s, k)[i] = x)
           <=> (\E i \in 1 .. Len(s) : i # k /\ s[i] = x)
<1> DEFINE r == RemoveAt(s, k)
<1>1. \A i \in 1 .. Len(s) - 1 : r[i] = IF i < k THEN s[i] ELSE s[i + 1]
  BY RemoveAtFacts
<1> HIDE DEF r
<1>2. ASSUME NEW i \in 1 .. Len(s) - 1, r[i] = x
      PROVE  \E j \in 1 .. Len(s) : j # k /\ s[j] = x
  <2>1. CASE i < k
    BY <1>1, <1>2, <2>1
  <2>2. CASE ~(i < k)
    <3>1. i + 1 \in 1 .. Len(s) /\ i + 1 # k /\ s[i + 1] = x
      BY <1>1, <1>2, <2>2
    <3> QED BY <3>1
  <2> QED BY <2>1, <2>2
<1>3. ASSUME NEW i \in 1 .. Len(s), i # k, s[i] = x
      PROVE  \E j \in 1 .. Len(s) - 1 : r[j] = x
  <2>1. CASE i < k
    BY <1>1, <1>3, <2>1
  <2>2. CASE ~(i < k)
    <3>1. i - 1 \in 1 .. Len(s) - 1 /\ ~(i - 1 < k) /\ (i - 1) + 1 = i
      BY <1>3, <2>2
    <3> QED BY <1>1, <1>3, <3>1
  <2> QED BY <2>1, <2>2
<1> QED BY <1>2, <1>3 DEF r

(* A sequence that repeats nothing has as many elements as its range.      *)
LEMMA DistinctElements ==
  ASSUME NEW S, IsFiniteSet(S), NEW s \in Seq(S),
         \A i, j \in 1 .. Len(s) : s[i] = s[j] => i = j
  PROVE  /\ Len(s) <= Cardinality(S) /\ Cardinality(S) \in Nat
         /\ \A T : (\A x : x \in T <=> \E i \in 1 .. Len(s) : s[i] = x) => Cardinality(T) = Len(s)
<1>1. Len(s) \in Nat /\ s \in [1 .. Len(s) -> S] /\ Cardinality(S) \in Nat
  BY FS_CardinalityType
<1>2. IsFiniteSet(1 .. Len(s)) /\ Cardinality(1 .. Len(s)) = Len(s)
  <2>1. 1 \in Int /\ Len(s) \in Int
    BY <1>1
  <2>2. /\ IsFiniteSet(1 .. Len(s))
        /\ Cardinality(1 .. Len(s)) = IF 1 > Len(s) THEN 0 ELSE Len(s) - 1 + 1
    BY <2>1, FS_Interval
  <2> QED BY <1>1, <2>2
<1>3. s \in Injection(1 .. Len(s), S)
  BY <1>1 DEF Injection, IsInjective
<1>4. Len(s) <= Cardinality(S)
  BY <1>2, <1>3, FS_Injection
<1>5. ASSUME NEW T, \A x : x \in T <=> \E i \in 1 .. Len(s) : s[i] = x
      PROVE  Cardinality(T) = Len(s)
  <2>1. s \in [1 .. Len(s) -> T]
    BY <1>1, <1>5
  <2>2. s \in Bijection(1 .. Len(s), T)
    BY <2>1, <1>5 DEF Bijection, Injection, Surjection, IsInjective
  <2>3. ExistsBijection(1 .. Len(s), T)
    BY <2>2 DEF ExistsBijection
  <2> QED BY <1>2, <2>3, FS_Bijection
<1> QED BY <1>1, <1>4, <1>5

(* Sequences with an element more, or without their first.                 *)
LEMMA AppendFacts ==
  ASSUME NEW S, NEW s \in Seq(S), NEW x \in S
  PROVE  /\ Append(s, x) \in Seq(S) /\ Len(Append(s, x)) = Len(s) + 1 /\ Len(s) \in Nat
         /\ Append(s, x)[Len(s) + 1] = x
         /\ \A i \in 1 .. Len(s) : Append(s, x)[i] = s[i]
OBVIOUS

(* What Tail leaves, element by element.                                   *)
LEMMA TailFacts ==
  ASSUME NEW S, NEW s \in Seq(S), Len(s) # 0
  PROVE  /\ Tail(s) \in Seq(S) /\ Len(Tail(s)) = Len(s) - 1 /\ Len(s) \in Nat
         /\ \A i \in 1 .. Len(s) - 1 : Tail(s)[i] = s[i + 1]
<1>1. s # << >> /\ Len(s) \in Nat
  OBVIOUS
<1> QED BY <1>1

(* Sequences are equal when their elements are.                            *)
LEMMA SameSequence ==
  ASSUME NEW S, NEW s \in Seq(S), NEW r \in Seq(S), Len(s) = Len(r),
         \A i \in 1 .. Len(s) : s[i] = r[i]
  PROVE  s = r
OBVIOUS

---------------------------------------------------------------------------
(* S is the set of what the links f lead through from h to the end e.  The *)
(* ranks, which fall along the links, say that there is no cycle.          *)
Ranks(r, f, h, e, S) ==
  /\ e \notin S /\ h \in S \cup {e} /\ (h = e => S = {})
  /\ \A x \in S : /\ f[x] \in S \cup {e} /\ f[x] # h
                  /\ f[x] \in S => r[f[x]] < r[x]
                  /\ x # h => \E y \in S : f[y] = x
  /\ \A x, y \in S : f[x] = f[y] => x = y
HasChain(f, h, e, S) == \E N, r : N \in Nat /\ r \in [S -> 0 .. N] /\ Ranks(r, f, h, e, S)

(* A chain of nothing.                                                     *)
LEMMA EmptyChain == ASSUME NEW f, NEW e  PROVE HasChain(f, e, e, {})
<1>1. [x \in {} |-> 0] \in [{} -> 0 .. 0]
  OBVIOUS
<1>2. Ranks([x \in {} |-> 0], f, e, e, {})
  BY DEF Ranks
<1> QED BY <1>1, <1>2 DEF HasChain

(* What each link of a chain says of its neighbours.                       *)
LEMMA ChainFacts ==
  ASSUME NEW f, NEW h, NEW e, NEW S, HasChain(f, h, e, S)
  PROVE  /\ e \notin S /\ h \in S \cup {e} /\ (h = e => S = {})
         /\ \A x \in S : /\ f[x] \in S \cup {e} /\ f[x] # h /\ f[x] # x
                         /\ x # h => \E y \in S : f[y] = x
         /\ \A x, y \in S : f[x] = f[y] => x = y
<1>1. PICK N, r : N \in Nat /\ r \in [S -> 0 .. N] /\ Ranks(r, f, h, e, S)
  BY DEF HasChain
<1>2. \A x \in S : r[x] \in Nat
  BY <1>1
<1>3. \A x \in S : f[x] # x
  BY <1>1, <1>2 DEF Ranks
<1> QED BY <1>1, <1>3 DEF Ranks

(* A chain ends: one of its elements leads to e.                           *)
LEMMA ChainEnds ==
  ASSUME NEW f, NEW h, NEW e, NEW S, HasChain(f, h, e, S), S # {}
  PROVE  \E x \in S : f[x] = e
<1>1. PICK N, r : N \in Nat /\ r \in [S -> 0 .. N] /\ Ranks(r, f, h, e, S)
  BY DEF HasChain
<1>2. \A x \in S : r[x] \in Nat
  BY <1>1
<1> DEFINE T == {r[x] : x \in S}
<1>3. T \in SUBSET Nat /\ T # {}
  BY <1>2
<1>4. PICK m \in T : \A k \in T : m <= k
  BY <1>3, LeastOf
<1>5. PICK x \in S : r[x] = m
  BY <1>4
<1>6. f[x] \notin S
  <2>1. f[x] \in S => r[f[x]] < m /\ m <= r[f[x]] /\ r[f[x]] \in Nat /\ m \in Nat
    BY <1>1, <1>2, <1>3, <1>4, <1>5 DEF Ranks
  <2> QED BY <2>1
<1> QED BY <1>1, <1>6 DEF Ranks

(* A chain is what the links of its elements say.                          *)
LEMMA SameChain ==
  ASSUME NEW f, NEW g, NEW h, NEW e, NEW S, HasChain(f, h, e, S), \A x \in S : g[x] = f[x]
  PROVE  HasChain(g, h, e, S)
<1>1. PICK N, r : N \in Nat /\ r \in [S -> 0 .. N] /\ Ranks(r, f, h, e, S)
  BY DEF HasChain
<1>2. Ranks(r, g, h, e, S)
  BY <1>1 DEF Ranks
<1> QED BY <1>1, <1>2 DEF HasChain

(* A new element in front.                                                 *)
LEMMA PushChain ==
  ASSUME NEW f, NEW g, NEW h, NEW e, NEW S, HasChain(f, h, e, S),
         NEW n, n \notin S, n # e, g[n] = h, \A x \in S : g[x] = f[x]
  PROVE  HasChain(g, n, e, S \cup {n})
<1>1. PICK N, r : N \in Nat /\ r \in [S -> 0 .. N] /\ Ranks(r, f, h, e, S)
  BY DEF HasChain
<1> DEFINE q == [x \in S \cup {n} |-> IF x = n THEN N + 1 ELSE r[x]]
<1>2. \A x \in S : r[x] \in 0 .. N
  BY <1>1
<1>3. N + 1 \in Nat /\ q \in [S \cup {n} -> 0 .. N + 1]
  BY <1>1, <1>2
<1>4. q[n] = N + 1 /\ \A x \in S : q[x] = r[x] /\ q[x] < N + 1
  BY <1>1, <1>2
<1> HIDE DEF q
<1>5. Ranks(q, g, n, e, S \cup {n})
  BY <1>1, <1>4 DEF Ranks
<1> QED BY <1>1, <1>3, <1>5 DEF HasChain

(* The first element gone.                                                 *)
LEMMA PopChain ==
  ASSUME NEW f, NEW g, NEW h, NEW e, NEW S, HasChain(f, h, e, S), h # e,
         \A x \in S \ {h} : g[x] = f[x]
  PROVE  h \in S /\ HasChain(g, f[h], e, S \ {h})
<1>1. PICK N, r : N \in Nat /\ r \in [S -> 0 .. N] /\ Ranks(r, f, h, e, S)
  BY DEF HasChain
<1> DEFINE q == [x \in S \ {h} |-> r[x]]
<1>2. q \in [S \ {h} -> 0 .. N] /\ \A x \in S \ {h} : q[x] = r[x]
  BY <1>1
<1> HIDE DEF q
<1>3. h \in S
  BY <1>1 DEF Ranks
<1>4. f[h] = e => S = {h}
  <2> SUFFICES ASSUME f[h] = e, NEW x \in S, x # h PROVE FALSE
    BY <1>3
  <2>1. S \ {h} # {}
    OBVIOUS
  <2> DEFINE T == {r[y] : y \in S \ {h}}
  <2>2. T \in SUBSET (0 .. N) /\ T # {}
    BY <1>1, <2>1
  <2>3. PICK m \in {N - k : k \in T} : \A k \in {N - i : i \in T} : m <= k
    <3>1. {N - k : k \in T} \in SUBSET Nat /\ {N - k : k \in T} # {}
      BY <1>1, <2>2
    <3> HIDE DEF T
    <3> QED BY <3>1, LeastOf
  <2>4. PICK y \in S \ {h} : m = N - r[y]
    BY <2>3
  <2>5. PICK z \in S : f[z] = y
    BY <1>1, <2>4 DEF Ranks
  <2>6. z # h
    BY <1>1, <2>4, <2>5 DEF Ranks
  <2>7. r[y] < r[z] /\ m <= N - r[z] /\ r[y] \in 0 .. N /\ r[z] \in 0 .. N
    BY <1>1, <2>3, <2>4, <2>5, <2>6 DEF Ranks
  <2> QED BY <1>1, <2>4, <2>7
<1>5. Ranks(q, g, f[h], e, S \ {h})
  <2>1. f[h] \in S => f[h] # h
    BY <1>1, <1>3 DEF Ranks
  <2> QED BY <1>1, <1>2, <1>3, <1>4, <2>1 DEF Ranks
<1> QED BY <1>1, <1>2, <1>3, <1>5 DEF HasChain

(* An element after the first gone: the one before it leads on.            *)
LEMMA CutChain ==
  ASSUME NEW f, NEW g, NEW h, NEW e, NEW S, HasChain(f, h, e, S),
         NEW p \in S, NEW n \in S, f[p] = n, g[p] = f[n],
         \A x \in S \ {p, n} : g[x] = f[x]
  PROVE  HasChain(g, h, e, S \ {n})
<1>1. PICK N, r : N \in Nat /\ r \in [S -> 0 .. N] /\ Ranks(r, f, h, e, S)
  BY DEF HasChain
<1> DEFINE q == [x \in S \ {n} |-> r[x]]
<1>2. q \in [S \ {n} -> 0 .. N] /\ \A x \in S \ {n} : q[x] = r[x]
  BY <1>1
<1> HIDE DEF q
<1>3. p # n /\ n # h /\ h \in S /\ f[n] # n /\ f[n] # p
  <2>1. r[n] < r[p] /\ r[n] \in Nat /\ r[p] \in Nat
    BY <1>1 DEF Ranks
  <2>2. f[n] = p => r[p] < r[n]
    BY <1>1 DEF Ranks
  <2>3. f[n] = n => r[n] < r[n]
    BY <1>1 DEF Ranks
  <2> QED BY <1>1, <2>1, <2>2, <2>3 DEF Ranks
<1>4. ASSUME NEW x \in S \ {n}
      PROVE  /\ g[x] \in (S \ {n}) \cup {e} /\ g[x] # h
             /\ g[x] \in S \ {n} => q[g[x]] < q[x]
  <2>1. CASE x = p
    <3>1. f[n] \in S => r[f[n]] < r[n] /\ r[n] < r[p]
      BY <1>1 DEF Ranks
    <3>2. \A y \in S : r[y] \in Nat
      BY <1>1
    <3> QED BY <1>1, <1>2, <1>3, <2>1, <3>1, <3>2 DEF Ranks
  <2>2. CASE x # p
    BY <1>1, <1>2, <1>3, <2>2 DEF Ranks
  <2> QED BY <2>1, <2>2
<1>5. ASSUME NEW x \in S \ {n}, x # h  PROVE \E y \in S \ {n} : g[y] = x
  <2>1. PICK y \in S : f[y] = x
    BY <1>1, <1>5 DEF Ranks
  <2>2. CASE y = n
    BY <1>3, <2>1, <2>2
  <2>3. CASE y # n
    BY <1>3, <2>1, <2>3
  <2> QED BY <2>2, <2>3
<1>6. ASSUME NEW x \in S \ {n}, NEW y \in S \ {n}, g[x] = g[y]  PROVE x = y
  <2>1. CASE x = p /\ y # p
    BY <1>1, <1>3, <1>6, <2>1 DEF Ranks
  <2>2. CASE x # p /\ y = p
    BY <1>1, <1>3, <1>6, <2>2 DEF Ranks
  <2>3. CASE x # p /\ y # p
    BY <1>1, <1>6, <2>3 DEF Ranks
  <2> QED BY <2>1, <2>2, <2>3
<1>7. Ranks(q, g, h, e, S \ {n})
  BY <1>1, <1>3, <1>4, <1>5, <1>6 DEF Ranks
<1> QED BY <1>1, <1>2, <1>7 DEF HasChain

(* Another end.                                                            *)
LEMMA EndChain ==
  ASSUME NEW f, NEW g, NEW h, NEW e, NEW S, HasChain(f, h, e, S),
         NEW l \in S, f[l] = e, NEW d, d \notin S, g[l] = d, \A x \in S : x # l => g[x] = f[x]
  PROVE  HasChain(g, h, d, S)
<1>1. PICK N, r : N \in Nat /\ r \in [S -> 0 .. N] /\ Ranks(r, f, h, e, S)
  BY DEF HasChain
<1>2. \A x \in S : x # l => f[x] \in S
  BY <1>1 DEF Ranks
<1>3. Ranks(r, g, h, d, S)
  BY <1>1, <1>2 DEF Ranks
<1> QED BY <1>1, <1>3 DEF HasChain

(* A list P, known by its back links g from its last element l to first,   *)
(* in front of a chain.                                                    *)
LEMMA JoinChains ==
  ASSUME NEW f, NEW h, NEW e, NEW S, HasChain(f, h, e, S),
         NEW g, NEW l, NEW b, NEW P, HasChain(g, l, b, P),
         NEW first \in P, g[first] = b, l \in P, f[l] = h,
         \A x \in P : x # first => g[x] \in P /\ f[g[x]] = x,
         \A x \in P : x \notin S, e \notin P
  PROVE  HasChain(f, first, e, S \cup P)
<1>1. PICK N, r : N \in Nat /\ r \in [S -> 0 .. N] /\ Ranks(r, f, h, e, S)
  BY DEF HasChain
<1>2. PICK M, s : M \in Nat /\ s \in [P -> 0 .. M] /\ Ranks(s, g, l, b, P)
  BY DEF HasChain
<1> DEFINE q == [x \in S \cup P |-> IF x \in P THEN N + 1 + M - s[x] ELSE r[x]]
<1>3. (\A x \in S : r[x] \in 0 .. N) /\ (\A x \in P : s[x] \in 0 .. M)
  BY <1>1, <1>2
<1>4. N + 1 + M \in Nat /\ q \in [S \cup P -> 0 .. N + 1 + M]
  BY <1>1, <1>2, <1>3
<1>5. /\ \A x \in P : q[x] = N + 1 + M - s[x] /\ q[x] \in Int /\ q[x] > N
      /\ \A x \in S : q[x] = r[x] /\ q[x] \in 0 .. N
  BY <1>1, <1>2, <1>3
<1> HIDE DEF q
<1>6. \A x \in P : x # l => f[x] \in P /\ f[x] # first /\ g[f[x]] = x /\ s[x] < s[f[x]]
  <2> SUFFICES ASSUME NEW x \in P, x # l
               PROVE  f[x] \in P /\ f[x] # first /\ g[f[x]] = x /\ s[x] < s[f[x]]
    OBVIOUS
  <2>1. PICK y \in P : g[y] = x
    BY <1>2 DEF Ranks
  <2>2. y # first
    BY <1>2, <2>1 DEF Ranks
  <2>3. f[x] = y
    BY <2>1, <2>2
  <2> QED BY <1>2, <2>1, <2>2, <2>3 DEF Ranks
<1>7. ASSUME NEW x \in S \cup P
      PROVE  /\ f[x] \in (S \cup P) \cup {e} /\ f[x] # first
             /\ f[x] \in S \cup P => q[f[x]] < q[x]
             /\ x # first => \E y \in S \cup P : f[y] = x
  <2>1. CASE x \in S
    <3>1. /\ f[x] \in S \cup {e} /\ f[x] # h /\ (f[x] \in S => r[f[x]] < r[x])
          /\ x # h => \E y \in S : f[y] = x
      BY <1>1, <2>1 DEF Ranks
    <3> QED BY <1>5, <2>1, <3>1
  <2>2. CASE x = l
    <3>1. h \in S \cup {e}
      BY <1>1 DEF Ranks
    <3> QED BY <1>1, <1>5, <2>2, <3>1
  <2>3. CASE x \in P /\ x # l
    <3>1. f[x] \in P /\ f[x] # first /\ s[x] < s[f[x]]
      BY <1>6, <2>3
    <3>2. q[f[x]] < q[x]
      <4>1. s[x] \in Int /\ s[f[x]] \in Int
        BY <1>3, <2>3, <3>1
      <4> QED BY <1>1, <1>2, <1>5, <2>3, <3>1, <4>1
    <3> QED BY <2>3, <3>1, <3>2
  <2> QED BY <2>1, <2>2, <2>3
<1>8. ASSUME NEW x \in S \cup P, NEW y \in S \cup P, f[x] = f[y]  PROVE x = y
  <2>1. \A z \in S : f[z] \in S \cup {e} /\ f[z] # h
    BY <1>1 DEF Ranks
  <2>2. \A z, w \in S : f[z] = f[w] => z = w
    BY <1>1 DEF Ranks
  <2>3. h \in S \cup {e}
    BY <1>1 DEF Ranks
  <2> QED BY <1>6, <1>8, <2>1, <2>2, <2>3
<1>9. Ranks(q, f, first, e, S \cup P)
  BY <1>1, <1>7, <1>8 DEF Ranks
<1> QED BY <1>1, <1>2, <1>4, <1>9 DEF HasChain

(* C steps along the links of a chain of at most C elements, all in A,     *)
(* meet its elements and stop at e.                                        *)
LEMMA WalkMeetsChain ==
  ASSUME NEW f, NEW h, NEW e, NEW S, HasChain(f, h, e, S),
         NEW A, IsFiniteSet(A), S \subseteq A, e \notin A,
         NEW C, C = Cardinality(A), NEW w, w[0] = h,
         \A n \in Nat : n + 1 <= C => w[n + 1] = IF w[n] \in A THEN f[w[n]] ELSE w[n]
  PROVE  {w[n] : n \in 0 .. C} \cap A = S /\ w[C] = e
<1>1. PICK N, r : N \in Nat /\ r \in [S -> 0 .. N] /\ Ranks(r, f, h, e, S)
  BY DEF HasChain
<1>2. /\ e \notin S /\ h \in S \cup {e}
      /\ \A x \in S : /\ f[x] \in S \cup {e} /\ (f[x] \in S => r[f[x]] < r[x])
                      /\ x # h => \E y \in S : f[y] = x
      /\ \A x, y \in S : f[x] = f[y] => x = y
  BY <1>1 DEF Ranks
<1>3. C \in Nat /\ \A x \in S : r[x] \in 0 .. N
  BY <1>1, FS_CardinalityType
<1>4. \A n \in 0 .. C : w[n] \in S \cup {e}
  <2> DEFINE T == {n \in Nat : n <= C => w[n] \in S \cup {e}}
  <2>1. 0 \in T
    BY <1>2
  <2>2. ASSUME NEW n \in Nat, n \in T  PROVE n + 1 \in T
    <3>1. n + 1 <= C => n <= C
      BY <1>3
    <3> QED BY <1>2, <2>2, <3>1
  <2> HIDE DEF T
  <2>3. Nat \subseteq T
    BY <2>1, <2>2, NatSetInduction
  <2> QED BY <2>3 DEF T
<1>5. \A i \in Nat : \A n \in Nat : i < n /\ n <= C /\ w[n] \in S =>
        w[i] \in S /\ r[w[n]] < r[w[i]]
  <2> TAKE i \in Nat
  <2> DEFINE T == {n \in Nat : i < n /\ n <= C /\ w[n] \in S => w[i] \in S /\ r[w[n]] < r[w[i]]}
  <2>1. 0 \in T
    OBVIOUS
  <2>2. ASSUME NEW n \in Nat, n \in T  PROVE n + 1 \in T
    <3> SUFFICES ASSUME i < n + 1, n + 1 <= C, w[n + 1] \in S
                 PROVE  w[i] \in S /\ r[w[n + 1]] < r[w[i]]
      OBVIOUS
    <3>1. n \in 0 .. C
      BY <1>3
    <3>2. w[n] \in S
      BY <1>2, <1>4, <3>1
    <3>3. w[n + 1] = f[w[n]]
      BY <3>2
    <3>4. r[w[n + 1]] < r[w[n]] /\ r[w[n + 1]] \in 0 .. N /\ r[w[n]] \in 0 .. N
      BY <1>2, <1>3, <3>2, <3>3
    <3>5. CASE i = n
      BY <3>2, <3>4, <3>5
    <3>6. CASE i < n
      <4>1. n <= C
        BY <3>1
      <4>2. w[i] \in S /\ r[w[n]] < r[w[i]]
        BY <2>2, <3>2, <3>6, <4>1
      <4>3. r[w[i]] \in 0 .. N
        BY <1>3, <4>2
      <4> QED BY <3>4, <4>2, <4>3
    <3> QED BY <3>5, <3>6
  <2> HIDE DEF T
  <2>3. Nat \subseteq T
    BY <2>1, <2>2, NatSetInduction
  <2> QED BY <2>3 DEF T
<1>6. w[C] = e
  <2> SUFFICES ASSUME w[C] # e  PROVE FALSE
    OBVIOUS
  <2>1. w[C] \in S
    BY <1>3, <1>4
  <2>2. \A n \in 0 .. C : w[n] \in S
    <3> TAKE n \in 0 .. C
    <3>1. n = C \/ n < C
      BY <1>3
    <3> QED BY <1>3, <1>5, <2>1, <3>1
  <2>3. ASSUME NEW i \in 0 .. C, NEW n \in 0 .. C, i < n  PROVE w[i] # w[n]
    <3>1. r[w[n]] < r[w[i]]
      BY <1>3, <1>5, <2>2, <2>3
    <3>2. r[w[n]] \in 0 .. N
      BY <1>3, <2>2
    <3> QED BY <3>1, <3>2
  <2> DEFINE s == [n \in 1 .. C + 1 |-> w[n - 1]]
  <2>4. s \in Seq(A) /\ Len(s) = C + 1
    <3>1. \A n \in 1 .. C + 1 : w[n - 1] \in A
      BY <1>3, <2>2
    <3> QED BY <1>3, <3>1
  <2>5. ASSUME NEW i \in 1 .. Len(s), NEW n \in 1 .. Len(s), s[i] = s[n]  PROVE i = n
    <3>1. /\ i \in 1 .. C + 1 /\ n \in 1 .. C + 1
          /\ i - 1 \in 0 .. C /\ n - 1 \in 0 .. C
      BY <1>3, <2>4
    <3>2. w[i - 1] = w[n - 1]
      BY <2>5, <3>1
    <3> HIDE DEF s
    <3>3. ~(i - 1 < n - 1) /\ ~(n - 1 < i - 1)
      BY <2>3, <3>1, <3>2
    <3> QED BY <3>1, <3>3
  <2> HIDE DEF s
  <2>6. Len(s) <= Cardinality(A)
    BY <2>4, <2>5, DistinctElements
  <2> QED BY <1>3, <2>4, <2>6
<1>7. ASSUME NEW x \in S  PROVE \E n \in 0 .. C : w[n] = x
  <2> DEFINE U == {y \in S : \A n \in 0 .. C : w[n] # y}
             T == {N - r[y] : y \in U}
  <2>1. SUFFICES ASSUME U # {}  PROVE FALSE
    OBVIOUS
  <2>2. T \in SUBSET Nat /\ T # {}
    <3>1. \A y \in U : N - r[y] \in Nat
      BY <1>1, <1>3
    <3> HIDE DEF U
    <3> QED BY <2>1, <3>1
  <2>3. PICK m \in T : \A k \in T : m <= k
    <3> HIDE DEF T
    <3> QED BY <2>2, LeastOf
  <2>4. PICK y \in U : m = N - r[y]
    BY <2>3
  <2>5. y # h
    BY <1>3, <2>4
  <2>6. PICK z \in S : f[z] = y
    BY <1>2, <2>4, <2>5
  <2>7. r[y] < r[z] /\ r[y] \in 0 .. N /\ r[z] \in 0 .. N
    BY <1>2, <1>3, <2>4, <2>6
  <2>8. z \notin U
    <3>1. z \in U => m <= N - r[z]
      BY <2>3
    <3> HIDE DEF U
    <3> QED BY <1>1, <2>4, <2>7, <3>1
  <2>9. PICK n \in 0 .. C : w[n] = z
    BY <2>8
  <2>10. n # C
    BY <1>2, <1>6, <2>9
  <2>11. n + 1 \in 0 .. C /\ n + 1 <= C /\ n \in Nat
    BY <1>3, <2>9, <2>10
  <2>12. w[n + 1] = y
    BY <2>6, <2>9, <2>11
  <2> QED BY <2>4, <2>11, <2>12
<1>8. \A n \in 0 .. C : w[n] \in A => w[n] \in S
  BY <1>4
<1> QED BY <1>6, <1>7, <1>8

(* w takes C steps along the links f, from h while it is in A.             *)
WalksAlong(w, A, f, h, C) ==
  w = [n \in 0 .. C |-> IF n = 0 THEN h ELSE IF w[n - 1] \in A THEN f[w[n - 1]] ELSE w[n - 1]]

(* There is such a walk, of any length.                                    *)
LEMMA WalksAlongExists ==
  ASSUME NEW A, NEW f, NEW h, NEW C \in Nat
  PROVE  \E w : WalksAlong(w, A, f, h, C)
<1> DEFINE T == {n \in Nat : \E w : WalksAlong(w, A, f, h, n)}
<1>1. 0 \in T
  <2>1. WalksAlong([n \in 0 .. 0 |-> h], A, f, h, 0)
    BY DEF WalksAlong
  <2> QED BY <2>1
<1>2. ASSUME NEW n \in Nat, n \in T  PROVE n + 1 \in T
  <2>1. PICK w : WalksAlong(w, A, f, h, n)
    BY <1>2
  <2> DEFINE v == [i \in 0 .. n + 1 |->
                     IF i <= n THEN w[i] ELSE IF w[n] \in A THEN f[w[n]] ELSE w[n]]
  <2>2. \A i \in 0 .. n : w[i] = IF i = 0 THEN h ELSE IF w[i - 1] \in A THEN f[w[i - 1]] ELSE w[i - 1]
    BY <2>1 DEF WalksAlong
  <2>3. ASSUME NEW i \in 0 .. n + 1
        PROVE  v[i] = IF i = 0 THEN h ELSE IF v[i - 1] \in A THEN f[v[i - 1]] ELSE v[i - 1]
    <3>1. CASE i = n + 1
      BY <3>1
    <3>2. CASE i # n + 1
      BY <2>2, <3>2
    <3> QED BY <3>1, <3>2
  <2>4. v = [i \in 0 .. n + 1 |-> v[i]]
    OBVIOUS
  <2> HIDE DEF v
  <2>5. WalksAlong(v, A, f, h, n + 1)
    BY <2>3, <2>4 DEF WalksAlong
  <2> QED BY <2>5
<1> HIDE DEF T
<1>3. Nat \subseteq T
  BY <1>1, <1>2, NatSetInduction
<1> QED BY <1>3 DEF T

(* Where such a walk starts and how it goes on.                            *)
LEMMA WalksAlongFacts ==
  ASSUME NEW w, NEW A, NEW f, NEW h, NEW C \in Nat, WalksAlong(w, A, f, h, C)
  PROVE  /\ w[0] = h
         /\ \A n \in Nat : n + 1 <= C => w[n + 1] = IF w[n] \in A THEN f[w[n]] ELSE w[n]
<1>1. \A n \in 0 .. C : w[n] = IF n = 0 THEN h ELSE IF w[n - 1] \in A THEN f[w[n - 1]] ELSE w[n - 1]
  BY DEF WalksAlong
<1>2. \A n \in Nat : n + 1 <= C => n + 1 \in 0 .. C /\ n + 1 # 0 /\ (n + 1) - 1 = n
  OBVIOUS
<1> QED BY <1>1, <1>2
---------------------------------------------------------------------------
(* The links f are followed C times from h, and no further than e.         *)
IsWalkTo(w, f, h, e, C) ==
  w = [i \in 0 .. C |-> IF i = 0 THEN h ELSE IF w[i - 1] = e THEN e ELSE f[w[i - 1]]]

(* There is such a function when the links stay inside of A.               *)
LEMMA WalkExists ==
  ASSUME NEW A, NEW f, NEW h, NEW e, e \notin A,
         h \in A \cup {e}, \A x \in A : f[x] \in A \cup {e}, NEW C \in Nat
  PROVE  \E u : IsWalkTo(u, f, h, e, C)
<1>1. PICK u : WalksAlong(u, A, f, h, C)
  BY WalksAlongExists
<1>2. /\ u[0] = h
      /\ \A n \in Nat : n + 1 <= C => u[n + 1] = IF u[n] \in A THEN f[u[n]] ELSE u[n]
  BY <1>1, WalksAlongFacts
<1> DEFINE T == {n \in Nat : n <= C => u[n] \in A \cup {e}}
<1>3. 0 \in T
  BY <1>2
<1>4. ASSUME NEW n \in Nat, n \in T  PROVE n + 1 \in T
  BY <1>2, <1>4
<1> HIDE DEF T
<1>5. Nat \subseteq T
  BY <1>3, <1>4, NatSetInduction
<1>6. \A i \in 0 .. C : u[i] = IF i = 0 THEN h ELSE IF u[i - 1] = e THEN e ELSE f[u[i - 1]]
  <2>1. ASSUME NEW i \in 0 .. C, i # 0
        PROVE  u[i] = IF u[i - 1] = e THEN e ELSE f[u[i - 1]]
    <3>1. i - 1 \in Nat /\ (i - 1) + 1 = i /\ i - 1 <= C /\ (i - 1) + 1 <= C
      BY <2>1
    <3>2. u[i] = IF u[i - 1] \in A THEN f[u[i - 1]] ELSE u[i - 1]
      BY <1>2, <3>1
    <3>3. u[i - 1] \in A \cup {e}
      BY <1>5, <3>1 DEF T
    <3> QED BY <3>2, <3>3
  <2> QED BY <1>2, <2>1
<1>7. IsWalkTo(u, f, h, e, C)
  BY <1>1, <1>6 DEF WalksAlong, IsWalkTo
<1> QED BY <1>7

(* It visits the elements of a chain and ends.                             *)
LEMMA WalkToTheEnd ==
  ASSUME NEW f, NEW h, NEW e, NEW S, HasChain(f, h, e, S),
         NEW A, IsFiniteSet(A), S \subseteq A, e \notin A,
         h \in A \cup {e}, \A x \in A : f[x] \in A \cup {e},
         NEW C, C = Cardinality(A), NEW w, IsWalkTo(w, f, h, e, C)
  PROVE  {w[i] : i \in 0 .. C} \ {e} = S /\ w[C] = e
<1>c. C \in Nat
  BY FS_CardinalityType
<1>9. \A i \in 0 .. C : w[i] = IF i = 0 THEN h ELSE IF w[i - 1] = e THEN e ELSE f[w[i - 1]]
  BY DEF IsWalkTo
<1>10. w[0] = h /\ \A n \in Nat : n + 1 <= C => w[n + 1] = IF w[n] = e THEN e ELSE f[w[n]]
  <2>1. \A n \in Nat : n + 1 <= C => n + 1 \in 0 .. C /\ n + 1 # 0 /\ (n + 1) - 1 = n
    BY <1>c
  <2>2. 0 \in 0 .. C
    BY <1>c
  <2> QED BY <1>9, <2>1, <2>2
<1> DEFINE R == {n \in Nat : n <= C => w[n] \in A \cup {e}}
<1>11. 0 \in R
  BY <1>10
<1>12. ASSUME NEW n \in Nat, n \in R  PROVE n + 1 \in R
  BY <1>c, <1>10, <1>12
<1> HIDE DEF R
<1>13. Nat \subseteq R
  BY <1>11, <1>12, NatSetInduction
<1>14. \A n \in 0 .. C : w[n] \in A \cup {e}
  BY <1>c, <1>13 DEF R
<1>15. \A n \in Nat : n + 1 <= C => w[n + 1] = IF w[n] \in A THEN f[w[n]] ELSE w[n]
  <2>1. ASSUME NEW n \in Nat, n + 1 <= C
        PROVE  w[n + 1] = IF w[n] \in A THEN f[w[n]] ELSE w[n]
    <3>1. w[n] \in A \cup {e}
      BY <1>c, <1>14, <2>1
    <3> QED BY <1>10, <2>1, <3>1
  <2> QED BY <2>1
<1>16. {w[n] : n \in 0 .. C} \cap A = S /\ w[C] = e
  BY <1>10, <1>15, WalkMeetsChain
<1>17. {w[n] : n \in 0 .. C} \ {e} = {w[n] : n \in 0 .. C} \cap A
  BY <1>14
<1> QED BY <1>16, <1>17

(* A new element after p.                                                  *)
LEMMA InsertChain ==
  ASSUME NEW f, NEW g, NEW h, NEW e, NEW S, HasChain(f, h, e, S), NEW p \in S,
         NEW n, n \notin S, n # e, g[p] = n, g[n] = f[p], \A x \in S \ {p} : g[x] = f[x]
  PROVE  HasChain(g, h, e, S \cup {n})
<1>1. PICK N, r : N \in Nat /\ r \in [S -> 0 .. N] /\ Ranks(r, f, h, e, S)
  BY DEF HasChain
<1> DEFINE q == [x \in S \cup {n} |-> IF x = n THEN 2 * r[p] ELSE 2 * r[x] + 1]
<1>2. \A x \in S : r[x] \in 0 .. N /\ r[x] \in Nat
  BY <1>1
<1>3. 2 * N + 1 \in Nat /\ q \in [S \cup {n} -> 0 .. 2 * N + 1]
  BY <1>1, <1>2
<1>4. q[n] = 2 * r[p] /\ \A x \in S : q[x] = 2 * r[x] + 1
  BY <1>1, <1>2
<1> HIDE DEF q
<1>5. ASSUME NEW x \in S \cup {n}
      PROVE  /\ g[x] \in (S \cup {n}) \cup {e} /\ g[x] # h
             /\ g[x] \in S \cup {n} => q[g[x]] < q[x]
  <2>1. CASE x = n
    <3>1. f[p] \in S => q[f[p]] = 2 * r[f[p]] + 1 /\ r[f[p]] < r[p] /\ r[f[p]] \in Nat /\ r[p] \in Nat
      BY <1>1, <1>2, <1>4 DEF Ranks
    <3>2. f[p] \in S => 2 * r[f[p]] + 1 < 2 * r[p]
      BY <3>1
    <3>3. f[p] \in S \cup {e} /\ f[p] # h /\ f[p] # n
      BY <1>1 DEF Ranks
    <3> QED BY <1>1, <1>4, <2>1, <3>1, <3>2, <3>3 DEF Ranks
  <2>2. CASE x = p
    <3>1. q[n] < q[p]
      BY <1>2, <1>4
    <3>2. h \in S
      BY <1>1 DEF Ranks
    <3> QED BY <2>2, <3>1, <3>2
  <2>3. CASE x # n /\ x # p
    <3>1. f[x] \in S \cup {e} /\ f[x] # h /\ g[x] = f[x] /\ f[x] # n
      BY <1>1, <2>3 DEF Ranks
    <3>2. f[x] \in S => r[f[x]] < r[x] /\ r[f[x]] \in Nat /\ r[x] \in Nat
      BY <1>1, <1>2, <2>3 DEF Ranks
    <3>3. f[x] \in S => q[f[x]] < q[x]
      BY <1>4, <2>3, <3>2
    <3> QED BY <1>1, <3>1, <3>3 DEF Ranks
  <2> QED BY <2>1, <2>2, <2>3
<1>6. ASSUME NEW x \in S \cup {n}, x # h  PROVE \E y \in S \cup {n} : g[y] = x
  <2>1. CASE x = n
    BY <2>1
  <2>2. CASE x # n
    <3>1. PICK y \in S : f[y] = x
      BY <1>1, <1>6, <2>2 DEF Ranks
    <3>2. CASE y = p
      BY <3>1, <3>2
    <3>3. CASE y # p
      BY <3>1, <3>3
    <3> QED BY <3>2, <3>3
  <2> QED BY <2>1, <2>2
<1>7. ASSUME NEW x \in S \cup {n}, NEW y \in S \cup {n}, g[x] = g[y]  PROVE x = y
  <2>1. \A z \in S : f[z] # n
    BY <1>1 DEF Ranks
  <2> QED BY <1>1, <1>7, <2>1 DEF Ranks
<1>8. Ranks(q, g, h, e, S \cup {n})
  BY <1>1, <1>5, <1>6, <1>7 DEF Ranks
<1> QED BY <1>1, <1>3, <1>8 DEF HasChain

---------------------------------------------------------------------------
(* The links f lead through S from the head b, by rising keys k.           *)
Sorted(f, k, b, e, S) ==
  /\ HasChain(f, f[b], e, S)
  /\ \A x \in S : f[x] \in S => k[x] < k[f[x]]

(* Such a chain is what the links of its elements and of its head say.     *)
LEMMA SameSorted ==
  ASSUME NEW f, NEW k, NEW b, NEW e, NEW S, Sorted(f, k, b, e, S),
         NEW g, NEW l, g[b] = f[b], \A x \in S : g[x] = f[x] /\ l[x] = k[x]
  PROVE  Sorted(g, l, b, e, S)
<1>1. HasChain(f, f[b], e, S)
  BY DEF Sorted
<1>2. HasChain(g, f[b], e, S)
  BY <1>1, SameChain
<1> QED BY <1>2 DEF Sorted

(* It has no gap: the keys that are passed are the least ones.             *)
LEMMA SortedHasNoGap ==
  ASSUME NEW f, NEW k, NEW b, NEW e, NEW S, Sorted(f, k, b, e, S), b \notin S,
         \A x \in S : k[x] \in Nat, \A x, y \in S : k[x] = k[y] => x = y,
         NEW m \in S, NEW c \in S \cup {b}, c \in S => k[c] < k[m]
  PROVE  f[c] \in S /\ k[f[c]] <= k[m]
<1>1. HasChain(f, f[b], e, S) /\ \A x \in S : f[x] \in S => k[x] < k[f[x]]
  BY DEF Sorted
<1>2. /\ e \notin S /\ f[b] \in S \cup {e} /\ (f[b] = e => S = {})
      /\ \A x \in S : /\ f[x] \in S \cup {e} /\ f[x] # f[b] /\ f[x] # x
                      /\ x # f[b] => \E y \in S : f[y] = x
      /\ \A x, y \in S : f[x] = f[y] => x = y
  BY <1>1, ChainFacts
<1> DEFINE Leads(c_, m_) == f[c_] \in S /\ k[f[c_]] <= k[m_]
           T == {n \in Nat : \A m_ \in S : k[m_] < n => \A c_ \in S \cup {b} :
                                (c_ \in S => k[c_] < k[m_]) => Leads(c_, m_)}
<1>3. 0 \in T
  OBVIOUS
<1>4. ASSUME NEW n \in Nat, n \in T  PROVE n + 1 \in T
  <2>1. ASSUME NEW x \in S, k[x] < n + 1, NEW z \in S \cup {b}, z \in S => k[z] < k[x]
        PROVE  Leads(z, x)
    <3>1. CASE x = f[b]
      <4>1. CASE z = b
        BY <3>1, <4>1
      <4>2. CASE z \in S
        <5>1. k[z] < n /\ k[z] < k[x]
          BY <2>1, <4>2
        <5>2. Leads(b, z)
          BY <1>4, <4>2, <5>1
        <5> QED BY <3>1, <4>2, <5>1, <5>2
      <4> QED BY <2>1, <4>1, <4>2
    <3>2. CASE x # f[b]
      <4>1. PICK y \in S : f[y] = x
        BY <1>2, <3>2
      <4>2. k[y] < k[x] /\ k[y] < n
        BY <1>1, <2>1, <4>1
      <4>3. CASE z = b
        <5>1. Leads(b, y)
          BY <1>4, <4>2
        <5> QED BY <4>2, <4>3, <5>1
      <4>4. CASE z \in S /\ k[z] < k[y]
        <5>1. Leads(z, y)
          BY <1>4, <4>2, <4>4
        <5> QED BY <4>2, <4>4, <5>1
      <4>5. CASE z \in S /\ k[y] < k[z]
        <5>1. k[z] < n /\ k[z] < k[x]
          BY <2>1, <4>5
        <5>2. Leads(y, z)
          BY <1>4, <4>5, <5>1
        <5> QED BY <4>1, <4>5, <5>1, <5>2
      <4>6. CASE z \in S /\ k[y] = k[z]
        <5>1. z = y
          BY <4>6
        <5> QED BY <4>1, <5>1
      <4> QED BY <2>1, <4>3, <4>4, <4>5, <4>6
    <3> QED BY <3>1, <3>2
  <2> HIDE DEF Leads
  <2> QED BY <2>1
<1> HIDE DEF T
<1>5. Nat \subseteq T
  BY <1>3, <1>4, NatSetInduction
<1>6. k[m] + 1 \in T /\ k[m] < k[m] + 1
  BY <1>5
<1> QED BY <1>6 DEF T

(* An element inserted where its key belongs.                              *)
LEMMA InsertSorted ==
  ASSUME NEW f, NEW k, NEW b, NEW e, NEW S, Sorted(f, k, b, e, S), b \notin S,
         NEW n, n \notin S, n # e, n # b, NEW c \in S \cup {b},
         c \in S => k[c] < k[n], f[c] \in S => k[n] < k[f[c]],
         NEW g, g[c] = n, g[n] = f[c], \A x \in (S \cup {b}) \ {c} : g[x] = f[x]
  PROVE  Sorted(g, k, b, e, S \cup {n})
<1>1. HasChain(f, f[b], e, S) /\ \A x \in S : f[x] \in S => k[x] < k[f[x]]
  BY DEF Sorted
<1>2. \A x \in S : f[x] \in S \cup {e}
  BY <1>1, ChainFacts
<1>3. HasChain(g, g[b], e, S \cup {n})
  <2>1. CASE c = b
    <3>1. HasChain(g, n, e, S \cup {n})
      BY <1>1, <2>1, PushChain
    <3> QED BY <2>1, <3>1
  <2>2. CASE c \in S
    <3>1. HasChain(g, f[b], e, S \cup {n})
      BY <1>1, <2>2, InsertChain
    <3> QED BY <2>2, <3>1
  <2> QED BY <2>1, <2>2
<1>4. ASSUME NEW x \in S \cup {n}, g[x] \in S \cup {n}  PROVE k[x] < k[g[x]]
  <2>1. f[b] \in S \cup {e} /\ e \notin S
    BY <1>1, ChainFacts
  <2>2. CASE x = n
    BY <1>2, <1>4, <2>1, <2>2
  <2>3. CASE x = c
    BY <1>4, <2>3
  <2>4. CASE x # n /\ x # c
    BY <1>1, <1>2, <1>4, <2>4
  <2> QED BY <2>2, <2>3, <2>4
<1> QED BY <1>3, <1>4 DEF Sorted

(* An element taken out.                                                   *)
LEMMA CutSorted ==
  ASSUME NEW f, NEW k, NEW b, NEW e, NEW S, Sorted(f, k, b, e, S), b \notin S,
         \A x \in S : k[x] \in Nat,
         NEW n \in S, NEW c \in S \cup {b}, f[c] = n,
         NEW g, g[c] = f[n], \A x \in (S \cup {b}) \ {c} : g[x] = f[x]
  PROVE  Sorted(g, k, b, e, S \ {n})
<1>1. HasChain(f, f[b], e, S) /\ \A x \in S : f[x] \in S => k[x] < k[f[x]]
  BY DEF Sorted
<1>2. e \notin S /\ \A x \in S : f[x] \in S \cup {e} /\ f[x] # f[b] /\ f[x] # x
  BY <1>1, ChainFacts
<1>3. HasChain(g, g[b], e, S \ {n})
  <2>1. CASE c = b
    <3>1. HasChain(f, n, e, S) /\ n # e /\ \A x \in S \ {n} : g[x] = f[x]
      BY <1>1, <1>2, <2>1
    <3>2. HasChain(g, f[n], e, S \ {n})
      BY <3>1, PopChain
    <3> QED BY <2>1, <3>2
  <2>2. CASE c \in S
    <3>1. HasChain(g, f[b], e, S \ {n})
      BY <1>1, <2>2, CutChain
    <3> QED BY <2>2, <3>1
  <2> QED BY <2>1, <2>2
<1>4. ASSUME NEW x \in S \ {n}, g[x] \in S \ {n}  PROVE k[x] < k[g[x]]
  <2>1. CASE x = c
    <3>1. k[c] < k[n] /\ k[n] < k[f[n]]
      BY <1>1, <1>4, <2>1
    <3>2. k[c] \in Nat /\ k[n] \in Nat /\ k[f[n]] \in Nat
      BY <1>4, <2>1
    <3> QED BY <2>1, <3>1, <3>2
  <2>2. CASE x # c
    BY <1>1, <1>4, <2>2
  <2> QED BY <2>1, <2>2
<1> QED BY <1>3, <1>4 DEF Sorted
---------------------------------------------------------------------------
(* Sums over finite sets.                                                  *)
Total(f, A) == FoldSet(LAMBDA x, sum : f[x] + sum, 0, A)

(* What the fold goes by: g is the sum of each subset, an element after    *)
(* another.                                                                *)
OneOf(s) == CHOOSE x \in s : TRUE
AddsUp(g, f, A) ==
  \A s \in SUBSET A : g[s] = IF s = {} THEN 0 ELSE f[OneOf(s)] + g[s \ {OneOf(s)}]

(* A set that is not empty less the element that was chosen.               *)
LEMMA LessOne ==
  ASSUME NEW A, IsFiniteSet(A), NEW s \in SUBSET A, s # {}
  PROVE  /\ OneOf(s) \in s /\ s \ {OneOf(s)} \in SUBSET A
         /\ IsFiniteSet(s) /\ Cardinality(s) \in Nat \ {0}
         /\ \A x \in s : Cardinality(s \ {x}) = Cardinality(s) - 1 /\ Cardinality(s \ {x}) \in Nat
<1>1. OneOf(s) \in s
  BY DEF OneOf
<1>2. IsFiniteSet(s)
  BY FS_Subset
<1>3. Cardinality(s) \in Nat /\ Cardinality(s) # 0
  BY <1>2, FS_CardinalityType, FS_EmptySet
<1>4. ASSUME NEW x \in s  PROVE Cardinality(s \ {x}) = Cardinality(s) - 1 /\ Cardinality(s \ {x}) \in Nat
  BY <1>2, FS_RemoveElement, FS_CardinalityType
<1> QED BY <1>1, <1>2, <1>3, <1>4

(* There is such a g.                                                      *)
LEMMA AddsUpExists ==
  ASSUME NEW A, IsFiniteSet(A), NEW f
  PROVE  \E g : g = [s \in SUBSET A |-> g[s]] /\ AddsUp(g, f, A)
<1> DEFINE Step(g, s) == IF s = {} THEN 0 ELSE f[OneOf(s)] + g[s \ {OneOf(s)}]
           T == {n \in Nat : \E g : \A s \in SUBSET A : Cardinality(s) <= n => g[s] = Step(g, s)}
<1>1. 0 \in T
  <2> DEFINE g == [s \in SUBSET A |-> 0]
  <2>1. \A s \in SUBSET A : Cardinality(s) <= 0 => g[s] = Step(g, s)
    BY LessOne
  <2> QED BY <2>1
<1>2. ASSUME NEW n \in Nat, n \in T  PROVE n + 1 \in T
  <2>1. PICK g : \A s \in SUBSET A : Cardinality(s) <= n => g[s] = Step(g, s)
    BY <1>2
  <2> DEFINE h == [s \in SUBSET A |-> IF Cardinality(s) <= n THEN g[s] ELSE Step(g, s)]
  <2>2. ASSUME NEW s \in SUBSET A, Cardinality(s) <= n + 1  PROVE h[s] = Step(h, s)
    <3>1. CASE s = {}
      BY <2>1, <3>1, FS_EmptySet
    <3>2. CASE s # {}
      <4> DEFINE x == OneOf(s)
                 r == s \ {x}
      <4>1. r \in SUBSET A /\ Cardinality(r) <= n /\ Cardinality(s) \in Nat
        BY <2>2, <3>2, LessOne
      <4> HIDE DEF x
      <4>2. h[r] = g[r]
        BY <4>1
      <4>3. h[s] = f[x] + g[r]
        BY <2>1, <3>2, <4>1 DEF x
      <4> HIDE DEF h, r
      <4>4. h[s] = f[x] + h[r]
        BY <4>2, <4>3
      <4> QED BY <3>2, <4>4 DEF x, r
    <3> QED BY <3>1, <3>2
  <2>3. \A s \in SUBSET A : Cardinality(s) <= n + 1 => h[s] = Step(h, s)
    BY <2>2
  <2> HIDE DEF h
  <2>4. \E e : \A s \in SUBSET A : Cardinality(s) <= n + 1 => e[s] = Step(e, s)
    BY <2>3
  <2> HIDE DEF Step
  <2> QED BY <2>4
<1> HIDE DEF T
<1>3. Nat \subseteq T
  BY <1>1, <1>2, NatSetInduction
<1>4. Cardinality(A) \in T
  BY <1>3, FS_CardinalityType
<1>5. PICK g : \A s \in SUBSET A : Cardinality(s) <= Cardinality(A) => g[s] = Step(g, s)
  BY <1>4 DEF T
<1>6. \A s \in SUBSET A : g[s] = Step(g, s)
  BY <1>5, FS_Subset
<1> DEFINE h == [s \in SUBSET A |-> g[s]]
<1>7. AddsUp(h, f, A)
  <2> SUFFICES ASSUME NEW s \in SUBSET A  PROVE h[s] = Step(h, s)
    BY DEF AddsUp
  <2> QED BY <1>6, LessOne
<1>8. h = [s \in SUBSET A |-> h[s]]
  OBVIOUS
<1> HIDE DEF h
<1> QED BY <1>7, <1>8

(* It is determined by what it adds up.                                    *)
LEMMA AddsUpIsUnique ==
  ASSUME NEW A, IsFiniteSet(A), NEW B, IsFiniteSet(B), NEW f, NEW e, NEW g, NEW h,
         AddsUp(g, f, A), AddsUp(h, e, B),
         NEW c \in SUBSET (A \cap B), \A x \in c : f[x] = e[x]
  PROVE  g[c] = h[c]
<1> DEFINE T == {n \in Nat : \A s \in SUBSET c : Cardinality(s) = n => g[s] = h[s]}
<1>1. 0 \in T
  <2>1. ASSUME NEW s \in SUBSET c, Cardinality(s) = 0  PROVE g[s] = h[s]
    <3>1. s = {}
      BY <2>1, LessOne
    <3> QED BY <3>1 DEF AddsUp
  <2> QED BY <2>1
<1>2. ASSUME NEW n \in Nat, n \in T  PROVE n + 1 \in T
  <2>1. ASSUME NEW s \in SUBSET c, Cardinality(s) = n + 1  PROVE g[s] = h[s]
    <3>1. s # {}
      BY <2>1, FS_EmptySet
    <3> DEFINE x == OneOf(s)
    <3>2. x \in s /\ Cardinality(s \ {x}) = n
      BY <2>1, <3>1, LessOne
    <3>3. g[s \ {x}] = h[s \ {x}]
      BY <1>2, <3>2
    <3>4. g[s] = f[x] + g[s \ {x}] /\ h[s] = e[x] + h[s \ {x}]
      BY <3>1 DEF AddsUp
    <3>5. f[x] = e[x]
      BY <3>2
    <3> HIDE DEF x
    <3> QED BY <3>3, <3>4, <3>5
  <2> QED BY <2>1
<1> HIDE DEF T
<1>3. Nat \subseteq T
  BY <1>1, <1>2, NatSetInduction
<1>4. Cardinality(c) \in T
  <2>1. IsFiniteSet(c)
    BY FS_Subset
  <2> QED BY <1>3, <2>1, FS_CardinalityType
<1> QED BY <1>4 DEF T

(* The element that is added first does not matter.                        *)
LEMMA AddsUpInAnyOrder ==
  ASSUME NEW A, IsFiniteSet(A), NEW f, \A x \in A : f[x] \in Nat, NEW g, AddsUp(g, f, A)
  PROVE  \A s \in SUBSET A : g[s] \in Nat /\ \A t \in s : g[s] = f[t] + g[s \ {t}]
<1> DEFINE Fits(s) == g[s] \in Nat /\ \A t \in s : g[s] = f[t] + g[s \ {t}]
           T == {n \in Nat : \A s \in SUBSET A : Cardinality(s) <= n => Fits(s)}
<1>1. 0 \in T
  <2>1. ASSUME NEW s \in SUBSET A, Cardinality(s) <= 0  PROVE Fits(s)
    <3>1. s = {}
      BY <2>1, LessOne
    <3>2. g[s] = 0
      BY <3>1 DEF AddsUp
    <3> QED BY <3>1, <3>2
  <2> QED BY <2>1
<1>2. ASSUME NEW n \in Nat, n \in T  PROVE n + 1 \in T
  <2>1. ASSUME NEW s \in SUBSET A, Cardinality(s) <= n + 1, s # {}  PROVE Fits(s)
    <3>1. s # {}
      BY <2>1
    <3> DEFINE x == OneOf(s)
    <3>2. x \in s /\ \A t \in s : Cardinality(s \ {t}) <= n /\ s \ {t} \in SUBSET A
      BY <2>1, <3>1, LessOne
    <3>3. g[s] = f[x] + g[s \ {x}]
      BY <3>1 DEF AddsUp
    <3> HIDE DEF x
    <3>4. Fits(s \ {x})
      BY <1>2, <3>2
    <3>5. ASSUME NEW t \in s  PROVE g[s] = f[t] + g[s \ {t}]
      <4>1. CASE t = x
        BY <3>3, <4>1
      <4>2. CASE t # x
        <5> DEFINE r == (s \ {x}) \ {t}
        <5>1. r = (s \ {t}) \ {x}
          OBVIOUS
        <5>2. Fits(s \ {t})
          BY <1>2, <3>2
        <5>3. g[s \ {t}] = f[x] + g[r] /\ g[s \ {t}] \in Nat
          BY <3>2, <4>2, <5>1, <5>2
        <5>4. g[s \ {x}] = f[t] + g[r] /\ g[s \ {x}] \in Nat
          BY <3>4, <4>2
        <5>5. g[r] \in Nat
          <6>1. Cardinality(r) <= n /\ r \in SUBSET A
            <7>1. t \in s \ {x} /\ s \ {x} # {} /\ s \ {x} \in SUBSET A
              BY <4>2
            <7>2. Cardinality(r) = Cardinality(s \ {x}) - 1 /\ Cardinality(s \ {x}) \in Nat \ {0}
              BY <7>1, LessOne
            <7> QED BY <3>2, <7>2
          <6> QED BY <1>2, <6>1
        <5> HIDE DEF r
        <5> QED BY <3>2, <3>3, <5>3, <5>4, <5>5
      <4> QED BY <4>1, <4>2
    <3>6. g[s] \in Nat
      BY <3>2, <3>3, <3>4
    <3> QED BY <3>5, <3>6
  <2>2. ASSUME NEW s \in SUBSET A, s = {}  PROVE Fits(s)
    <3>1. g[s] = 0
      BY <2>2 DEF AddsUp
    <3> QED BY <2>2, <3>1
  <2>3. \A s \in SUBSET A : Cardinality(s) <= n + 1 => Fits(s)
    BY <2>1, <2>2
  <2> QED BY <2>3
<1> HIDE DEF T
<1>3. Nat \subseteq T
  BY <1>1, <1>2, NatSetInduction
<1> SUFFICES ASSUME NEW s \in SUBSET A  PROVE Fits(s)
  OBVIOUS
<1>4. Cardinality(s) \in T
  <2>1. IsFiniteSet(s)
    BY FS_Subset
  <2> QED BY <1>3, <2>1, FS_CardinalityType
<1> QED BY <1>4 DEF T

(* Induction over the subsets of a finite set, for a set of them.          *)
LEMMA SubsetInduction ==
  ASSUME NEW A, IsFiniteSet(A), NEW C, {} \in C,
         \A s \in SUBSET A : \A x \in A \ s : s \in C => s \cup {x} \in C
  PROVE  A \in C
<1> DEFINE T == {n \in Nat : \A s \in SUBSET A : Cardinality(s) = n => s \in C}
<1>1. 0 \in T
  BY LessOne
<1>2. ASSUME NEW n \in Nat, n \in T  PROVE n + 1 \in T
  <2>1. ASSUME NEW s \in SUBSET A, Cardinality(s) = n + 1  PROVE s \in C
    <3>1. s # {}
      <4>1. Cardinality({}) # n + 1
        BY FS_EmptySet
      <4> QED BY <2>1, <4>1
    <3>2. PICK x \in s : Cardinality(s \ {x}) = n
      BY <2>1, <3>1, LessOne
    <3>3. s \ {x} \in C /\ s \ {x} \in SUBSET A /\ x \in A \ (s \ {x}) /\ (s \ {x}) \cup {x} = s
      BY <1>2, <3>2
    <3> QED BY <3>3
  <2> QED BY <2>1
<1> HIDE DEF T
<1>3. Nat \subseteq T
  BY <1>1, <1>2, NatSetInduction
<1> QED BY <1>3, FS_CardinalityType DEF T

(* The fold is such a g.                                                   *)
LEMMA TotalAddsUp ==
  ASSUME NEW A, IsFiniteSet(A), NEW f
  PROVE  \E g : AddsUp(g, f, A) /\ Total(f, A) = g[A]
<1> DEFINE G(g) == g = [s \in SUBSET A |-> IF s = {} THEN 0 ELSE f[OneOf(s)] + g[s \ {OneOf(s)}]]
           g == CHOOSE h : G(h)
<1>1. \E h : G(h)
  <2>1. PICK h : h = [s \in SUBSET A |-> h[s]] /\ AddsUp(h, f, A)
    BY AddsUpExists
  <2>2. G(h)
    BY <2>1 DEF AddsUp
  <2> QED BY <2>2
<1>2. G(g)
  BY <1>1
<1>3. Total(f, A) = g[A]
  BY DEF Total, FoldSet, MapThenFoldSet, OneOf
<1> HIDE DEF g
<1>4. AddsUp(g, f, A)
  BY <1>2 DEF AddsUp
<1> QED BY <1>3, <1>4

(* A sum of naturals is a natural, and any element may be added last.      *)
LEMMA TotalFacts ==
  ASSUME NEW A, IsFiniteSet(A), NEW f, \A x \in A : f[x] \in Nat
  PROVE  /\ Total(f, {}) = 0
         /\ Total(f, A) \in Nat
         /\ \A t \in A : Total(f, A) = f[t] + Total(f, A \ {t})
<1>1. PICK g : AddsUp(g, f, A) /\ Total(f, A) = g[A]
  BY TotalAddsUp
<1>a. AddsUp(g, f, A)
  BY <1>1
<1>2. \A s \in SUBSET A : g[s] \in Nat /\ \A t \in s : g[s] = f[t] + g[s \ {t}]
  <2> HIDE <1>1
  <2> QED BY <1>a, AddsUpInAnyOrder
<1>3. ASSUME NEW B \in SUBSET A  PROVE Total(f, B) = g[B]
  <2>1. IsFiniteSet(B)
    BY FS_Subset
  <2>2. PICK h : AddsUp(h, f, B) /\ Total(f, B) = h[B]
    BY <2>1, TotalAddsUp
  <2>3. h[B] = g[B]
    BY <1>1, <2>1, <2>2, AddsUpIsUnique
  <2> QED BY <2>2, <2>3
<1>4. g[{}] = 0
  BY <1>1 DEF AddsUp
<1> QED BY <1>1, <1>2, <1>3, <1>4

(* It depends on the values of the elements only.                          *)
LEMMA SameTotal ==
  ASSUME NEW A, IsFiniteSet(A), NEW f, NEW e, \A x \in A : f[x] = e[x]
  PROVE  Total(f, A) = Total(e, A)
<1>1. PICK g : AddsUp(g, f, A) /\ Total(f, A) = g[A]
  BY TotalAddsUp
<1>2. PICK h : AddsUp(h, e, A) /\ Total(e, A) = h[A]
  BY TotalAddsUp
<1>3. A \in SUBSET (A \cap A)
  OBVIOUS
<1>4. g[A] = h[A]
  BY <1>1, <1>2, <1>3, AddsUpIsUnique
<1> QED BY <1>1, <1>2, <1>4

(* One more element.                                                       *)
LEMMA TotalOfMore ==
  ASSUME NEW A, IsFiniteSet(A), NEW f, NEW x, x \notin A, \A y \in A \cup {x} : f[y] \in Nat
  PROVE  /\ IsFiniteSet(A \cup {x})
         /\ Total(f, A) \in Nat
         /\ Total(f, A \cup {x}) = Total(f, A) + f[x]
<1>1. IsFiniteSet(A \cup {x}) /\ (A \cup {x}) \ {x} = A
  BY FS_AddElement
<1>2. Total(f, A \cup {x}) = f[x] + Total(f, (A \cup {x}) \ {x})
  BY <1>1, TotalFacts
<1>3. Total(f, A) \in Nat
  BY TotalFacts
<1>4. f[x] \in Nat /\ Total(f, A \cup {x}) = f[x] + Total(f, A)
  BY <1>1, <1>2
<1> QED BY <1>1, <1>3, <1>4

(* A sum of smaller values is smaller.                                     *)
LEMMA SmallerTotal ==
  ASSUME NEW A, IsFiniteSet(A), NEW f, NEW e, \A x \in A : f[x] \in Nat /\ e[x] \in Nat /\ f[x] <= e[x]
  PROVE  Total(f, A) <= Total(e, A)
<1> DEFINE C == {s \in SUBSET A : Total(f, s) <= Total(e, s)}
<1>1. {} \in C
  <2>1. Total(f, {}) = 0 /\ Total(e, {}) = 0
    BY TotalFacts
  <2> QED BY <2>1
<1>2. ASSUME NEW s \in SUBSET A, NEW x \in A \ s, s \in C  PROVE s \cup {x} \in C
  <2>1. IsFiniteSet(s)
    BY FS_Subset
  <2>2. /\ Total(f, s) \in Nat /\ Total(f, s \cup {x}) = Total(f, s) + f[x]
        /\ Total(e, s) \in Nat /\ Total(e, s \cup {x}) = Total(e, s) + e[x]
    BY <2>1, TotalOfMore
  <2>3. Total(f, s) <= Total(e, s)
    BY <1>2
  <2> QED BY <2>2, <2>3
<1> HIDE DEF C
<1>3. A \in C
  BY <1>1, <1>2, SubsetInduction
<1> QED BY <1>3 DEF C

---------------------------------------------------------------------------
(* FlattenSeq joins sequences from left to right.                          *)
JoinedAt(g, ss, i) == IF i = 1 THEN ss[i] ELSE g[i - 1] \o ss[i]

(* The function FlattenSeq defines by recursion exists.                    *)
LEMMA FlattenedExists ==
  ASSUME NEW ss, NEW N \in Nat
  PROVE  \E g : g = [i \in 1 .. N |-> JoinedAt(g, ss, i)]
<1> DEFINE T == {n \in Nat : \E g : \A i \in 1 .. N : i <= n => g[i] = JoinedAt(g, ss, i)}
<1>1. 0 \in T
  OBVIOUS
<1>2. ASSUME NEW n \in Nat, n \in T  PROVE n + 1 \in T
  <2>1. PICK g : \A i \in 1 .. N : i <= n => g[i] = JoinedAt(g, ss, i)
    BY <1>2
  <2> DEFINE h == [i \in 1 .. N |-> IF i <= n THEN g[i] ELSE JoinedAt(g, ss, i)]
  <2>2. ASSUME NEW i \in 1 .. N, i <= n + 1  PROVE h[i] = JoinedAt(h, ss, i)
    <3>1. i # 1 => h[i - 1] = g[i - 1]
      BY <2>2
    <3>2. JoinedAt(h, ss, i) = JoinedAt(g, ss, i)
      BY <3>1 DEF JoinedAt
    <3>3. h[i] = JoinedAt(g, ss, i)
      BY <2>1, <2>2
    <3> QED BY <3>2, <3>3
  <2>3. \A i \in 1 .. N : i <= n + 1 => h[i] = JoinedAt(h, ss, i)
    BY <2>2
  <2> HIDE DEF h
  <2>4. \E e : \A i \in 1 .. N : i <= n + 1 => e[i] = JoinedAt(e, ss, i)
    BY <2>3
  <2> QED BY <2>4
<1> HIDE DEF T
<1>3. N \in T
  <2>1. Nat \subseteq T
    BY <1>1, <1>2, NatSetInduction
  <2> QED BY <2>1
<1>4. PICK g : \A i \in 1 .. N : i <= N => g[i] = JoinedAt(g, ss, i)
  BY <1>3 DEF T
<1> DEFINE h == [i \in 1 .. N |-> g[i]]
<1>5. \A i \in 1 .. N : h[i] = JoinedAt(h, ss, i)
  BY <1>4 DEF JoinedAt
<1>6. h = [i \in 1 .. N |-> JoinedAt(h, ss, i)]
  BY <1>5
<1> HIDE DEF h
<1> QED BY <1>6

(* A sum over an initial segment.                                          *)
LEMMA TotalUpTo ==
  ASSUME NEW f, NEW n \in Nat, \A i \in 1 .. n + 1 : f[i] \in Nat
  PROVE  Total(f, 1 .. n + 1) = Total(f, 1 .. n) + f[n + 1] /\ Total(f, 1 .. n) \in Nat
<1> DEFINE A == 1 .. n
           x == n + 1
<1>1. IsFiniteSet(A)
  BY FS_Interval
<1>2. A \cup {x} = 1 .. n + 1 /\ x \notin A
  OBVIOUS
<1> HIDE DEF A, x
<1>3. \A y \in A \cup {x} : f[y] \in Nat
  BY <1>2
<1>4. Total(f, A \cup {x}) = Total(f, A) + f[x] /\ Total(f, A) \in Nat
  BY <1>1, <1>2, <1>3, TotalOfMore
<1> QED BY <1>2, <1>4 DEF A, x

(* The elements stay in their set, and the lengths add up.                 *)
LEMMA FlattenFacts ==
  ASSUME NEW S, NEW ss \in Seq(Seq(S))
  PROVE  /\ FlattenSeq(ss) \in Seq(S)
         /\ Len(FlattenSeq(ss)) = Total([i \in 1 .. Len(ss) |-> Len(ss[i])], 1 .. Len(ss))
<1> DEFINE N == Len(ss)
           f == [i \in 1 .. N |-> Len(ss[i])]
           G(g) == g = [i \in 1 .. N |-> IF i = 1 THEN ss[i] ELSE g[i - 1] \o ss[i]]
           g == CHOOSE h : G(h)
<1>1. N \in Nat /\ \A i \in 1 .. N : ss[i] \in Seq(S) /\ f[i] = Len(ss[i]) /\ f[i] \in Nat
  OBVIOUS
<1>2. \A n \in Nat : IsFiniteSet(1 .. n)
  BY FS_Interval
<1>3. Total(f, {}) = 0
  BY FS_EmptySet, TotalFacts
<1>4. CASE N = 0
  <2>1. FlattenSeq(ss) = ss /\ ss = <<>> /\ 1 .. N = {}
    BY <1>4 DEF FlattenSeq
  <2> QED BY <1>3, <2>1
<1>5. CASE N # 0
  <2>1. FlattenSeq(ss) = g[N]
    BY <1>5 DEF FlattenSeq
  <2>2. G(g)
    <3>1. \E h : G(h)
      BY <1>1, FlattenedExists DEF JoinedAt
    <3> QED BY <3>1
  <2> HIDE DEF g
  <2> DEFINE T == {n \in Nat : n + 1 <= N => g[n + 1] \in Seq(S) /\ Len(g[n + 1]) = Total(f, 1 .. n + 1)}
  <2>3. 0 \in T
    <3>1. g[1] = ss[1]
      BY <1>1, <1>5, <2>2
    <3>2. \A i \in 1 .. 0 + 1 : f[i] \in Nat
      BY <1>1, <1>5
    <3>3. 1 .. 0 = {} /\ f[1] \in Nat
      BY <3>2
    <3> HIDE DEF f
    <3>4. Total(f, 1 .. 0 + 1) = Total(f, 1 .. 0) + f[0 + 1]
      BY <3>2, TotalUpTo
    <3>5. Total(f, 1 .. 0 + 1) = f[1]
      BY <1>3, <3>3, <3>4
    <3>6. g[1] \in Seq(S) /\ Len(g[1]) = f[1]
      BY <1>1, <1>5, <3>1 DEF f
    <3>7. g[0 + 1] \in Seq(S) /\ Len(g[0 + 1]) = Total(f, 1 .. 0 + 1)
      BY <3>5, <3>6
    <3> QED BY <3>7
  <2>4. ASSUME NEW n \in Nat, n \in T  PROVE n + 1 \in T
    <3> SUFFICES ASSUME (n + 1) + 1 <= N
                 PROVE  g[(n + 1) + 1] \in Seq(S) /\ Len(g[(n + 1) + 1]) = Total(f, 1 .. (n + 1) + 1)
      OBVIOUS
    <3> DEFINE m == n + 1
    <3>1. m \in Nat \ {0} /\ m + 1 \in 1 .. N /\ (m + 1) - 1 = m /\ m + 1 # 1 /\ m \in 1 .. N
      BY <1>1
    <3>2. g[m] \in Seq(S) /\ Len(g[m]) = Total(f, 1 .. m)
      BY <2>4, <1>1
    <3> HIDE DEF m
    <3>3. g[m + 1] = g[m] \o ss[m + 1]
      BY <2>2, <3>1
    <3>4. ss[m + 1] \in Seq(S) /\ f[m + 1] = Len(ss[m + 1])
      BY <1>1, <3>1
    <3>5. g[m + 1] \in Seq(S) /\ Len(g[m + 1]) = Len(g[m]) + Len(ss[m + 1])
      <4> DEFINE a == g[m]
                 b == ss[m + 1]
      <4>1. a \in Seq(S) /\ b \in Seq(S) /\ g[m + 1] = a \o b
        BY <3>2, <3>3, <3>4
      <4> HIDE DEF a, b
      <4>2. a \o b \in Seq(S) /\ Len(a \o b) = Len(a) + Len(b)
        BY <4>1
      <4> QED BY <4>1, <4>2 DEF a, b
    <3>6. \A y \in 1 .. m + 1 : f[y] \in Nat
      BY <1>1, <3>1
    <3> HIDE DEF f
    <3>7. Total(f, 1 .. m + 1) = Total(f, 1 .. m) + f[m + 1]
      BY <3>1, <3>6, TotalUpTo
    <3> QED BY <3>2, <3>4, <3>5, <3>7 DEF m
  <2> HIDE DEF T
  <2>5. N - 1 \in T
    <3>1. Nat \subseteq T
      BY <2>3, <2>4, NatSetInduction
    <3> QED BY <1>1, <1>5, <3>1
  <2>6. (N - 1) + 1 = N
    BY <1>1
  <2> QED BY <2>1, <2>5, <2>6, <1>1 DEF T
<1> QED BY <1>4, <1>5
=============================================================================
