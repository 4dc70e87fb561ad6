--------------------------- MODULE Programs_proofs ---------------------------
(***************************************************************************)
(* Theorems about the programs around the caches: the key generators and   *)
(* the measuring loop, the trace experiments, and the allocation of a      *)
(* cache, which are about the specification that MCPrograms composes, and  *)
(* the script that runs the benchmark program and the log it fills, which  *)
(* are about that of Runner; all for every value of the constants.         *)
(***************************************************************************)
EXTENDS MCPrograms, Runner, ListLemmas, FiniteSetTheorems, SequenceTheorems, TLAPS

(* The records that fall to a thread when a trace is dealt out.            *)
DealtTo(t) == {i \in Nat : \E j \in Nat : i = t + j * ThreadCount}

(* Products of naturals.                                                   *)
LEMMA ProductFacts ==
  ASSUME NEW c \in Nat, NEW j \in Nat
  PROVE  /\ j * c \in Nat /\ 0 * c = 0
         /\ (j + 1) * c = j * c + c
         /\ \A k \in Nat : j < k => j * c + c <= k * c
<1>1. j * c \in Nat /\ 0 * c = 0 /\ (j + 1) * c = j * c + c
  OBVIOUS
<1>2. ASSUME NEW k \in Nat, j < k  PROVE j * c + c <= k * c
  <2>1. PICK d \in Nat : k = j + 1 + d
    <3>1. k = j + 1 + (k - j - 1) /\ k - j - 1 \in Nat
      BY <1>2
    <3> QED BY <3>1
  <2>2. k * c = j * c + c + d * c
    BY <2>1
  <2>3. d * c \in Nat
    OBVIOUS
  <2> QED BY <2>2, <2>3
<1> QED BY <1>1, <1>2

(* They are one in each ThreadCount of them, from the thread's number on,  *)
(* and every record falls to one thread.                                   *)
LEMMA DealtFacts ==
  ASSUME NEW t \in Threads
  PROVE  /\ t \in DealtTo(t)
         /\ \A s \in DealtTo(t) : s + ThreadCount \in DealtTo(t) /\ t <= s /\ s \in Nat
         /\ \A s, i \in DealtTo(t) : i < s + ThreadCount => i <= s
         /\ \A u \in Threads : t # u => DealtTo(t) \cap DealtTo(u) = {}
<1> DEFINE N == ThreadCount
<1>a. N \in Nat \ {0} /\ t \in Nat /\ t < N
  BY GeneratorAssumption DEF Threads
<1>1. t = t + 0 * N
  BY <1>a
<1>2. ASSUME NEW s \in DealtTo(t)
      PROVE  s + N \in DealtTo(t) /\ t <= s /\ s \in Nat
  <2>1. PICK j \in Nat : s = t + j * N
    BY DEF DealtTo
  <2>2. (j + 1) * N = j * N + N /\ j * N \in Nat
    BY <1>a, ProductFacts
  <2>3. s \in Nat /\ s + N \in Nat /\ t <= s
    BY <1>a, <2>1, <2>2
  <2>4. j + 1 \in Nat /\ s + N = t + (j + 1) * N
    BY <1>a, <2>1, <2>2
  <2>5. \E k \in Nat : s + N = t + k * N
    BY <2>4
  <2> QED BY <2>3, <2>5 DEF DealtTo
<1>3. ASSUME NEW u \in Threads, NEW s \in DealtTo(t), NEW i \in DealtTo(u)
      PROVE  \/ s - t = i - u
             \/ s - t + N <= i - u
             \/ i - u + N <= s - t
  <2>1. PICK j \in Nat : s = t + j * N
    BY DEF DealtTo
  <2>2. PICK k \in Nat : i = u + k * N
    BY DEF DealtTo
  <2>3. u \in Nat
    BY <1>a DEF Threads
  <2>4. j * N \in Nat /\ k * N \in Nat
    BY <1>a, ProductFacts
  <2>5. j < k => j * N + N <= k * N
    BY <1>a, ProductFacts
  <2>6. k < j => k * N + N <= j * N
    BY <1>a, ProductFacts
  <2>7. j = k => j * N = k * N
    OBVIOUS
  <2> DEFINE a == j * N
             b == k * N
  <2>8. s - t = a /\ i - u = b
    BY <1>a, <2>1, <2>2, <2>3, <2>4
  <2> QED BY <2>5, <2>6, <2>7, <2>8
<1>4. ASSUME NEW s \in DealtTo(t), NEW i \in DealtTo(t), i < s + N  PROVE i <= s
  <2>1. s \in Nat /\ i \in Nat
    BY <1>2
  <2> QED BY <1>a, <1>3, <1>4, <2>1
<1>5. ASSUME NEW u \in Threads, t # u, NEW s \in DealtTo(t), s \in DealtTo(u)  PROVE FALSE
  <2>1. u \in Nat /\ u < N
    BY <1>a DEF Threads
  <2> QED BY <1>a, <1>2, <1>3, <1>5, <2>1
<1>6. t \in DealtTo(t)
  <2>1. \E k \in Nat : t = t + k * N
    BY <1>1
  <2> QED BY <1>a, <2>1 DEF DealtTo
<1> QED BY <1>2, <1>4, <1>5, <1>6

(* Every record falls to a thread.                                         *)
LEMMA AllAreDealt == \A i \in Nat : \E t \in Threads : i \in DealtTo(t)
<1> TAKE i \in Nat
<1> USE GeneratorAssumption
<1>1. /\ i = ThreadCount * (i \div ThreadCount) + (i % ThreadCount)
      /\ i \div ThreadCount \in Nat /\ i % ThreadCount \in 0 .. ThreadCount - 1
  OBVIOUS
<1>2. i = (i % ThreadCount) + (i \div ThreadCount) * ThreadCount
  BY <1>1
<1> QED BY <1>1, <1>2 DEF Threads, DealtTo

---------------------------------------------------------------------------
(* The generators.                                                         *)

GeneratorTypes ==
  /\ state \in [Threads -> Nat]
  /\ drawn \in [Threads -> Nat \cup {Nothing}]
  /\ round \in [Threads -> SUBSET Nat]

(* A thread has been dealt the records that fall to it, up to its index.   *)
IsDealing(t) ==
  /\ state[t] \in DealtTo(t)
  /\ round[t] = {i \in DealtTo(t) : i < TraceLength /\ i < state[t]}
  /\ drawn[t] \in (0 .. TraceLength - 1) \cup {Nothing}

(* A thread has drawn the keys from the start of its slot to its state, or *)
(* has come around the keys once.                                          *)
IsCounting(t) ==
  /\ state[t] < KeyWidth
  /\ IsFiniteSet(round[t])
  /\ \/ t * SlotSize <= state[t] /\ round[t] = (t * SlotSize) .. (state[t] - 1)
     \/ (t * SlotSize) .. (KeyWidth - 1) \subseteq round[t]

GeneratorInv ==
  /\ generator \in Generators /\ GeneratorTypes
  /\ generator = "trace" => \A t \in Threads : IsDealing(t)
  /\ generator = "disjoint" => \A t \in Threads : IsCounting(t)

(* The slots of the threads lie side by side below KeyWidth.               *)
LEMMA SlotFacts ==
  ASSUME NEW t \in Threads
  PROVE  /\ t \in Nat /\ t * SlotSize \in Nat
         /\ t * SlotSize + SlotSize <= KeyWidth
         /\ \A u \in Threads : t < u => t * SlotSize + SlotSize <= u * SlotSize
<1> USE GeneratorAssumption
<1>1. t \in Nat /\ SlotSize \in Nat /\ ThreadCount \in Nat /\ t < ThreadCount
  BY DEF Threads
<1>2. \A k \in Nat : t < k => t * SlotSize + SlotSize <= k * SlotSize
  BY <1>1, ProductFacts
<1>3. t * SlotSize + SlotSize <= ThreadCount * SlotSize
  BY <1>1, <1>2
<1>4. t * SlotSize \in Nat /\ ThreadCount * SlotSize \in Nat
  BY <1>1, ProductFacts
<1>5. ThreadCount * SlotSize <= KeyWidth /\ KeyWidth \in Nat
  OBVIOUS
<1>6. t * SlotSize + SlotSize <= KeyWidth
  BY <1>1, <1>3, <1>4, <1>5
<1>7. \A u \in Threads : u \in Nat
  BY DEF Threads
<1> QED BY <1>1, <1>2, <1>4, <1>6, <1>7

(* The clones start with nothing dealt.                                    *)
LEMMA GeneratorStarts ==
  GeneratorInit => GeneratorInv
<1> SUFFICES ASSUME GeneratorInit  PROVE GeneratorInv
  OBVIOUS
<1> USE GeneratorAssumption
<1>1. /\ state = [t \in Threads |-> First(t)]
      /\ drawn = [t \in Threads |-> Nothing]
      /\ round = [t \in Threads |-> {}]
  BY DEF GeneratorInit
<1>2. ASSUME NEW t \in Threads
      PROVE  /\ First(t) \in Nat
             /\ generator = "trace" => First(t) = t
             /\ generator = "disjoint" => First(t) = t * SlotSize
  <2>1. t \in Nat /\ t * SlotSize \in Nat
    BY SlotFacts
  <2> QED BY <2>1 DEF First
<1>3. GeneratorTypes
  BY <1>1, <1>2 DEF GeneratorTypes
<1>4. ASSUME generator = "trace", NEW t \in Threads  PROVE IsDealing(t)
  <2>1. state[t] = t /\ drawn[t] = Nothing /\ round[t] = {}
    BY <1>1, <1>2, <1>4
  <2>2. t \in DealtTo(t) /\ \A s \in DealtTo(t) : ~(s < t)
    BY DealtFacts DEF Threads
  <2> QED BY <2>1, <2>2 DEF IsDealing
<1>5. ASSUME generator = "disjoint", NEW t \in Threads  PROVE IsCounting(t)
  <2>1. state[t] = t * SlotSize /\ round[t] = {}
    BY <1>1, <1>2, <1>5
  <2>2. t * SlotSize \in Nat /\ t * SlotSize < KeyWidth
    <3>1. t * SlotSize + SlotSize <= KeyWidth /\ t * SlotSize \in Nat /\ t \in Nat
      BY SlotFacts
    <3>2. CASE SlotSize = 0
      <4>1. t * 0 = 0
        BY <3>1
      <4> QED BY <3>2, <4>1
    <3> QED BY <3>1, <3>2
  <2>3. (t * SlotSize) .. (t * SlotSize - 1) = {}
    BY <2>2
  <2> QED BY <2>1, <2>2, <2>3, FS_EmptySet DEF IsCounting
<1> QED BY <1>3, <1>4, <1>5 DEF GeneratorInv, GeneratorInit

(* The next record, or the first one of the next round.                    *)
LEMMA GetRecordDeals ==
  ASSUME GeneratorInv, generator = "trace", NEW t \in Threads, GetRecord(t)
  PROVE  IsDealing(t)' /\ state'[t] \in Nat /\ drawn'[t] \in 0 .. TraceLength - 1
           /\ round'[t] \in SUBSET Nat
<1> USE GeneratorAssumption
<1> DEFINE atEnd == state[t] >= TraceLength
           i == IF atEnd THEN t ELSE state[t]
<1>1. /\ drawn' = [drawn EXCEPT ![t] = i]
      /\ state' = [state EXCEPT ![t] = i + ThreadCount]
      /\ round' = [round EXCEPT ![t] = IF atEnd THEN {i} ELSE @ \cup {i}]
      /\ UNCHANGED generator
  BY DEF GetRecord, Draw
<1>2. /\ state[t] \in DealtTo(t) /\ round[t] = {k \in DealtTo(t) : k < TraceLength /\ k < state[t]}
      /\ state[t] \in Nat
  BY DEF GeneratorInv, IsDealing, GeneratorTypes
<1>3. t \in Nat /\ t < TraceLength
  BY DEF Threads, GeneratorInv
<1>4. i \in DealtTo(t) /\ i \in Nat /\ i < TraceLength
  BY <1>2, <1>3, DealtFacts
<1> DEFINE r == IF atEnd THEN {i} ELSE round[t] \cup {i}
<1>5. r = {k \in DealtTo(t) : k < TraceLength /\ k < i + ThreadCount}
  <2>1. \A k \in DealtTo(t) : k < i + ThreadCount => k <= i
    BY <1>4, DealtFacts
  <2>2. i < i + ThreadCount /\ \A k \in DealtTo(t) : t <= k /\ k \in Nat
    BY <1>4, DealtFacts
  <2>3. CASE atEnd
    <3>1. \A k \in DealtTo(t) : k < i + ThreadCount <=> k = i
      BY <2>1, <2>2, <2>3, <1>3
    <3> QED BY <2>3, <3>1, <1>4
  <2>4. CASE ~atEnd
    <3>1. \A k \in DealtTo(t) : k < i + ThreadCount <=> k = i \/ k < i
      BY <1>4, <2>1, <2>2
    <3>2. i = state[t]
      BY <2>4
    <3> QED BY <2>4, <3>1, <3>2, <1>2, <1>4
  <2> QED BY <2>3, <2>4
<1>6. i + ThreadCount \in DealtTo(t)
  BY <1>4, DealtFacts
<1>7. state'[t] = i + ThreadCount /\ drawn'[t] = i /\ round'[t] = r
  BY <1>1 DEF GeneratorInv, GeneratorTypes
<1> HIDE DEF i, r, atEnd
<1>8. IsDealing(t)'
  BY <1>4, <1>5, <1>6, <1>7 DEF IsDealing, DealtTo
<1> QED BY <1>4, <1>5, <1>6, <1>7, <1>8 DEF DealtTo

(* The next key of a slot, around KeyWidth.                                *)
LEMMA GetNextCounts ==
  ASSUME GeneratorInv, NEW t \in Threads, GetNext(t)
  PROVE  /\ state'[t] \in Nat /\ drawn'[t] \in Nat /\ round'[t] \in SUBSET Nat
         /\ generator = "disjoint" => IsCounting(t)'
<1> USE GeneratorAssumption
<1>1. /\ drawn'[t] = state[t]
      /\ state'[t] = (state[t] + 1) % KeyWidth
      /\ round'[t] = IF generator = "same" THEN {state[t]} ELSE round[t] \cup {state[t]}
      /\ state[t] \in Nat /\ round[t] \in SUBSET Nat
  BY DEF GetNext, Draw, GeneratorInv, GeneratorTypes
<1>2. (state[t] + 1) % KeyWidth \in 0 .. KeyWidth - 1
  BY <1>1
<1>3. ASSUME generator = "disjoint"  PROVE IsCounting(t)'
  <2>1. /\ state[t] < KeyWidth /\ IsFiniteSet(round[t])
        /\ \/ t * SlotSize <= state[t] /\ round[t] = (t * SlotSize) .. (state[t] - 1)
           \/ (t * SlotSize) .. (KeyWidth - 1) \subseteq round[t]
    BY <1>3 DEF GeneratorInv, IsCounting
  <2>2. IsFiniteSet(round'[t]) /\ round'[t] = round[t] \cup {state[t]}
    <3>1. round'[t] = round[t] \cup {state[t]}
      BY <1>1, <1>3
    <3> DEFINE before == round[t]
               drawnNow == state[t]
    <3>2. IsFiniteSet(before) /\ round'[t] = before \cup {drawnNow}
      BY <2>1, <3>1
    <3> HIDE DEF before, drawnNow
    <3>3. IsFiniteSet(before \cup {drawnNow})
      BY <3>2, FS_AddElement
    <3> QED BY <3>1, <3>2, <3>3
  <2>3. t * SlotSize \in Nat
    BY SlotFacts
  <2>4. CASE (t * SlotSize) .. (KeyWidth - 1) \subseteq round[t]
    BY <1>1, <1>2, <2>2, <2>4 DEF IsCounting
  <2>5. CASE t * SlotSize <= state[t] /\ round[t] = (t * SlotSize) .. (state[t] - 1)
    <3>1. round'[t] = (t * SlotSize) .. state[t]
      <4> DEFINE a == t * SlotSize
                 b == state[t]
      <4>1. a \in Nat /\ b \in Nat /\ a <= b /\ round[t] = a .. (b - 1)
        BY <1>1, <2>3, <2>5
      <4> HIDE DEF a, b
      <4>2. (a .. (b - 1)) \cup {b} = a .. b
        BY <4>1
      <4> QED BY <2>2, <4>1, <4>2 DEF a, b
    <3>2. CASE state[t] + 1 < KeyWidth
      <4>1. (state[t] + 1) % KeyWidth = state[t] + 1
        BY <1>1, <3>2
      <4>2. state'[t] - 1 = state[t] /\ t * SlotSize <= state'[t] /\ state'[t] < KeyWidth
        <5> DEFINE a == t * SlotSize
        <5>1. a \in Nat /\ a <= state[t] /\ state[t] \in Nat
          BY <1>1, <2>3, <2>5
        <5>3. state'[t] = state[t] + 1
          BY <1>1, <4>1
        <5> HIDE DEF a
        <5>2. state'[t] - 1 = state[t] /\ a <= state'[t]
          BY <5>1, <5>3
        <5> QED BY <3>2, <5>1, <5>2, <5>3 DEF a
      <4> QED BY <2>2, <3>1, <4>2 DEF IsCounting
    <3>3. CASE state[t] + 1 = KeyWidth
      <4>1. state[t] = KeyWidth - 1
        BY <1>1, <3>3
      <4>2. round'[t] = (t * SlotSize) .. (KeyWidth - 1)
        BY <3>1, <4>1
      <4>3. state'[t] < KeyWidth
        BY <1>1, <1>2
      <4> QED BY <2>2, <4>2, <4>3 DEF IsCounting
    <3> QED BY <1>1, <2>1, <3>2, <3>3
  <2> QED BY <2>1, <2>4, <2>5
<1> QED BY <1>1, <1>2, <1>3

(* getKey, whatever the generator.                                         *)
LEMMA GetKeyKeeps ==
  ASSUME GeneratorInv, NEW t \in Threads, GetKey(t)
  PROVE  /\ GeneratorInv'
         /\ generator' = generator
         /\ drawn'[t] \in Nat /\ (generator = "trace" => drawn'[t] \in 0 .. TraceLength - 1)
<1>1. PICK i, s, b : Draw(t, i, s, b)
  BY DEF GetKey, GetRecord, GetNext
<1>2. /\ \A u \in Threads : u # t => state'[u] = state[u] /\ drawn'[u] = drawn[u] /\ round'[u] = round[u]
      /\ generator' = generator
      /\ state' = [u \in Threads |-> state'[u]] /\ drawn' = [u \in Threads |-> drawn'[u]]
      /\ round' = [u \in Threads |-> round'[u]]
  BY <1>1 DEF Draw, GeneratorInv, GeneratorTypes
<1>3. /\ state'[t] \in Nat /\ drawn'[t] \in Nat /\ round'[t] \in SUBSET Nat
      /\ generator = "trace" => IsDealing(t)' /\ drawn'[t] \in 0 .. TraceLength - 1
      /\ generator = "disjoint" => IsCounting(t)'
  <2>1. CASE generator = "trace" /\ GetRecord(t)
    BY <2>1, GetRecordDeals, GeneratorAssumption
  <2>2. CASE generator \in {"same", "disjoint"} /\ GetNext(t)
    BY <2>2, GetNextCounts
  <2> QED BY <2>1, <2>2 DEF GetKey
<1>4. GeneratorTypes'
  <2>1. \A u \in Threads : state'[u] \in Nat /\ drawn'[u] \in Nat \cup {Nothing} /\ round'[u] \in SUBSET Nat
    BY <1>2, <1>3 DEF GeneratorInv, GeneratorTypes
  <2> QED BY <1>2, <2>1 DEF GeneratorTypes
<1>5. generator = "trace" => \A u \in Threads : IsDealing(u)'
  BY <1>2, <1>3 DEF GeneratorInv, IsDealing
<1>6. generator = "disjoint" => \A u \in Threads : IsCounting(u)'
  BY <1>2, <1>3 DEF GeneratorInv, IsCounting
<1> QED BY <1>2, <1>3, <1>4, <1>5, <1>6 DEF GeneratorInv

(* Threads that have drawn no more than a slot are inside of it.           *)
LEMMA InTheSlot ==
  ASSUME GeneratorInv, generator = "disjoint", NEW t \in Threads, Cardinality(round[t]) <= SlotSize
  PROVE  round[t] \subseteq (t * SlotSize) .. (t * SlotSize + SlotSize - 1)
<1> DEFINE a == t * SlotSize
<1>1. a \in Nat /\ a + SlotSize <= KeyWidth /\ SlotSize \in Nat /\ KeyWidth \in Nat
  BY SlotFacts, GeneratorAssumption
<1>2. /\ state[t] \in Nat /\ IsFiniteSet(round[t])
      /\ \/ a <= state[t] /\ round[t] = a .. (state[t] - 1)
         \/ a .. (KeyWidth - 1) \subseteq round[t]
  BY DEF GeneratorInv, GeneratorTypes, IsCounting
<1> HIDE DEF a
<1>3. CASE a <= state[t] /\ round[t] = a .. (state[t] - 1)
  <2>1. Cardinality(round[t]) = state[t] - a
    <3> DEFINE e == state[t] - 1
    <3>1. a \in Int /\ e \in Int
      BY <1>1, <1>2
    <3> HIDE DEF e
    <3>2. Cardinality(a .. e) = IF a > e THEN 0 ELSE e - a + 1
      BY <3>1, FS_Interval
    <3>3. Cardinality(round[t]) = Cardinality(a .. e)
      BY <1>3 DEF e
    <3> QED BY <1>1, <1>2, <1>3, <3>2, <3>3 DEF e
  <2> QED BY <1>1, <1>2, <1>3, <2>1 DEF a
<1>4. CASE a .. (KeyWidth - 1) \subseteq round[t]
  <2> DEFINE b == a .. (KeyWidth - 1)
  <2>1. Cardinality(b) = KeyWidth - a
    <3> DEFINE e == KeyWidth - 1
    <3>1. a \in Int /\ e \in Int
      BY <1>1
    <3> HIDE DEF e
    <3>2. Cardinality(a .. e) = IF a > e THEN 0 ELSE e - a + 1
      BY <3>1, FS_Interval
    <3>3. Cardinality(b) = Cardinality(a .. e)
      BY DEF e
    <3> QED BY <1>1, <3>2, <3>3 DEF e
  <2>2. /\ Cardinality(b) <= Cardinality(round[t])
        /\ Cardinality(round[t]) = Cardinality(b) => round[t] = b
    BY <1>2, <1>4, FS_Subset
  <2>3. Cardinality(round[t]) \in Nat
    BY <1>2, FS_CardinalityType
  <2>4. KeyWidth - a = SlotSize /\ round[t] = b
    BY <1>1, <2>1, <2>2, <2>3
  <2> QED BY <1>1, <2>4 DEF a
<1> QED BY <1>2, <1>3, <1>4

(* What the generators have dealt out.                                     *)
LEMMA GeneratorsDeal == GeneratorInv => KeysAreDealt
<1> SUFFICES ASSUME GeneratorInv  PROVE KeysAreDealt
  OBVIOUS
<1>1. DealtOut
  <2> SUFFICES ASSUME generator = "trace"
               PROVE  /\ \A t, u \in Threads : t # u => round[t] \cap round[u] = {}
                      /\ (\A t \in Threads : state[t] >= TraceLength) =>
                           UNION {round[t] : t \in Threads} = 0 .. TraceLength - 1
    BY DEF DealtOut
  <2>1. \A t \in Threads : /\ round[t] = {i \in DealtTo(t) : i < TraceLength /\ i < state[t]}
                           /\ state[t] \in Nat
    BY DEF GeneratorInv, IsDealing, GeneratorTypes
  <2>2. \A t, u \in Threads : t # u => round[t] \cap round[u] = {}
    <3> SUFFICES ASSUME NEW t \in Threads, NEW u \in Threads, t # u  PROVE round[t] \cap round[u] = {}
      OBVIOUS
    <3>1. DealtTo(t) \cap DealtTo(u) = {}
      BY DealtFacts
    <3> QED BY <2>1, <3>1
  <2>3. ASSUME \A t \in Threads : state[t] >= TraceLength
        PROVE  UNION {round[t] : t \in Threads} = 0 .. TraceLength - 1
    <3>1. TraceLength \in Nat
      BY GeneratorAssumption
    <3>2. ASSUME NEW i \in 0 .. TraceLength - 1  PROVE \E t \in Threads : i \in round[t]
      <4>1. PICK t \in Threads : i \in DealtTo(t)
        BY <3>1, AllAreDealt
      <4> QED BY <2>1, <2>3, <3>1, <4>1
    <3>3. \A t \in Threads : round[t] \subseteq 0 .. TraceLength - 1
      BY <2>1, <3>1, DealtFacts DEF DealtTo
    <3> QED BY <3>2, <3>3
  <2> QED BY <2>2, <2>3
<1>2. DisjointKeys
  <2> SUFFICES ASSUME generator = "disjoint", NEW t \in Threads, NEW u \in Threads, t # u,
                      Cardinality(round[t]) <= SlotSize, Cardinality(round[u]) <= SlotSize
               PROVE  round[t] \cap round[u] = {}
    BY DEF DisjointKeys
  <2>1. /\ round[t] \subseteq (t * SlotSize) .. (t * SlotSize + SlotSize - 1)
        /\ round[u] \subseteq (u * SlotSize) .. (u * SlotSize + SlotSize - 1)
    BY InTheSlot
  <2> DEFINE a == t * SlotSize
             b == u * SlotSize
  <2>2. a \in Nat /\ b \in Nat /\ SlotSize \in Nat /\ (a + SlotSize <= b \/ b + SlotSize <= a)
    <3>1. t < u \/ u < t
      BY SlotFacts
    <3> QED BY <3>1, SlotFacts, GeneratorAssumption
  <2>3. round[t] \subseteq a .. (a + SlotSize - 1) /\ round[u] \subseteq b .. (b + SlotSize - 1)
    BY <2>1
  <2> HIDE DEF a, b
  <2> QED BY <2>2, <2>3
<1> QED BY <1>1, <1>2 DEF KeysAreDealt
---------------------------------------------------------------------------
(* The measuring loop.                                                     *)

(* Quotient and remainder are determined.                                  *)
LEMMA RemainderIs ==
  ASSUME NEW a \in Nat, NEW d \in Nat \ {0}, NEW q \in Nat, NEW r \in Nat, r < d, a = q * d + r
  PROVE  a % d = r
<1> DEFINE p == a \div d
           s == a % d
<1>1. p \in Nat /\ s \in Nat /\ s < d /\ a = d * p + s
  OBVIOUS
<1> HIDE DEF p, s
<1>2. a = p * d + s
  BY <1>1
<1>3. /\ p * d \in Nat /\ q * d \in Nat
      /\ p < q => p * d + d <= q * d
      /\ q < p => q * d + d <= p * d
  BY <1>1, ProductFacts
<1>4. p = q => p * d = q * d
  OBVIOUS
<1>5. s = r
  BY <1>1, <1>2, <1>3, <1>4
<1> QED BY <1>5 DEF s

(* The remainder of the next number.                                       *)
LEMMA NextRemainder ==
  ASSUME NEW n \in Nat, NEW d \in Nat \ {0}
  PROVE  /\ n % d \in Nat /\ n % d < d
         /\ (n + 1) % d = 0 \/ (n + 1) % d = (n % d) + 1
         /\ 0 % d = 0
<1> DEFINE q == n \div d
           r == n % d
<1>1. q \in Nat /\ r \in Nat /\ r < d /\ n = d * q + r
  OBVIOUS
<1>a. 0 % d = 0
  <2>1. 0 = 0 * d + 0
    OBVIOUS
  <2> QED BY <2>1, RemainderIs
<1> HIDE DEF q, r
<1>2. n = q * d + r /\ q * d \in Nat
  BY <1>1, ProductFacts
<1>3. CASE r + 1 < d
  <2>1. n + 1 = q * d + (r + 1) /\ r + 1 \in Nat /\ n + 1 \in Nat
    BY <1>1, <1>2
  <2>2. (n + 1) % d = r + 1
    BY <1>1, <1>3, <2>1, RemainderIs
  <2> QED BY <1>1, <1>a, <2>2 DEF r
<1>4. CASE r + 1 = d
  <2>1. n + 1 = (q + 1) * d + 0 /\ n + 1 \in Nat /\ q + 1 \in Nat
    <3>1. (q + 1) * d = q * d + d
      BY <1>1, ProductFacts
    <3> QED BY <1>1, <1>2, <1>4, <3>1
  <2>2. (n + 1) % d = 0
    BY <2>1, RemainderIs
  <2> QED BY <1>1, <1>a, <2>2 DEF r
<1> QED BY <1>1, <1>3, <1>4

(* A sum may be reduced on the way.                                        *)
LEMMA SumOfRemainders ==
  ASSUME NEW a \in Nat, NEW b \in Nat, NEW d \in Nat \ {0}
  PROVE  ((a % d) + b) % d = (a + b) % d
<1> DEFINE q == a \div d
           r == a % d
           p == (r + b) \div d
           s == (r + b) % d
<1>1. q \in Nat /\ r \in Nat /\ a = d * q + r
  OBVIOUS
<1>2. p \in Nat /\ s \in Nat /\ s < d /\ r + b = d * p + s
  <2> HIDE DEF r
  <2> QED BY <1>1
<1> HIDE DEF q, p, s
<1>3. a + b = (q + p) * d + s /\ q + p \in Nat /\ a + b \in Nat
  <2>1. (q + p) * d = d * q + d * p
    BY <1>1, <1>2
  <2>2. d * q \in Nat /\ d * p \in Nat
    BY <1>1, <1>2
  <2> HIDE DEF r
  <2> QED BY <1>1, <1>2, <2>1, <2>2
<1>4. (a + b) % d = s
  BY <1>2, <1>3, RemainderIs
<1> QED BY <1>4 DEF s

(* LongestSequence bounds the sequences of the trace.                      *)
LEMMA LongestIsBound ==
  LongestSequence \in Nat \ {0} /\ \A i \in DOMAIN Records : Records[i].count \in Nat /\ Records[i].count <= LongestSequence
<1> DEFINE S == {1} \cup {Records[i].count : i \in DOMAIN Records}
           U == {b \in Nat : \A y \in S : y <= b}
           T == {n \in Nat : \E b \in Nat : \A i \in DOMAIN Records : i < n => Records[i].count <= b}
<1>1. TraceLength \in Nat /\ DOMAIN Records = 0 .. TraceLength - 1
      /\ \A i \in DOMAIN Records : Records[i].count \in Nat \ {0}
  BY DriverAssumption, GeneratorAssumption
<1>2. 0 \in T
  BY <1>1
<1>3. ASSUME NEW n \in Nat, n \in T  PROVE n + 1 \in T
  <2>1. PICK b \in Nat : \A i \in DOMAIN Records : i < n => Records[i].count <= b
    BY <1>3
  <2> DEFINE c == IF n \in DOMAIN Records /\ Records[n].count > b THEN Records[n].count ELSE b
  <2>2. c \in Nat /\ b <= c /\ (n \in DOMAIN Records => Records[n].count <= c)
    BY <1>1
  <2> HIDE DEF c
  <2>3. \A i \in DOMAIN Records : i < n + 1 => Records[i].count <= c
    <3> SUFFICES ASSUME NEW i \in DOMAIN Records, i < n + 1  PROVE Records[i].count <= c
      OBVIOUS
    <3>1. i = n \/ i < n
      BY <1>1
    <3> QED BY <1>1, <2>1, <2>2, <3>1
  <2> QED BY <2>2, <2>3
<1> HIDE DEF T
<1>4. Nat \subseteq T
  BY <1>2, <1>3, NatSetInduction
<1>5. PICK b \in Nat : \A i \in DOMAIN Records : i < TraceLength => Records[i].count <= b
  BY <1>1, <1>4 DEF T
<1>6. b + 1 \in U
  BY <1>1, <1>5
<1>7. PICK m \in U : \A n \in U : m <= n
  <2>1. U \in SUBSET Nat /\ U # {}
    BY <1>6
  <2> HIDE DEF U
  <2> QED BY <2>1, LeastOf
<1>8. m \in S
  <2> SUFFICES ASSUME m \notin S  PROVE FALSE
    OBVIOUS
  <2>1. m \in Nat /\ \A y \in S : y \in Nat /\ y <= m
    BY <1>1
  <2>2. 1 <= m
    BY <2>1
  <2>3. m - 1 \in U
    BY <2>1, <2>2
  <2> QED BY <1>7, <2>1, <2>3
<1>9. \E x \in S : \A y \in S : x >= y
  BY <1>8, <1>1
<1>10. LongestSequence \in S /\ \A y \in S : LongestSequence >= y
  <2> HIDE DEF S
  <2>1. Max(S) \in S /\ \A y \in S : Max(S) >= y
    BY <1>9 DEF Max
  <2> QED BY <2>1 DEF LongestSequence, S
<1> QED BY <1>1, <1>10

Phases == {"single", "barrier", "loop", "call", "poll", "add_iterations", "add_hits", "joined"}
Counters == 0 .. Width - 1

MeasuringTypes ==
  /\ pc \in [Threads -> Phases]
  /\ iter \in [Threads -> Counters] /\ hits \in [Threads -> Counters]
  /\ left \in [Threads -> Nat] /\ late \in [Threads -> Nat]
  /\ private_cancel_flag \in [Threads -> BOOLEAN]
  /\ cancel_flag \in BOOLEAN

(* Between two looks at the flag of a thread other than thread 0.          *)
PollEvery == PrintFreq \div 10
SinceLook(t) == IF pc[t] = "poll" /\ iter[t] % PollEvery = 0 THEN PollEvery ELSE iter[t] % PollEvery

(* The calls since the flag was raised are no more than those since the    *)
(* last look, or, when the thread has seen the flag, those and the ones    *)
(* that are left of its sequence.  Thread 0 raises it and has seen it.     *)
LateIsBounded(t) ==
  /\ left[t] <= LongestSequence
  /\ pc[t] = "poll" => left[t] + 1 <= LongestSequence
  /\ ~cancel_flag => late[t] = 0 /\ ~private_cancel_flag[t]
  /\ t = 0 /\ cancel_flag => private_cancel_flag[t]
  /\ ~private_cancel_flag[t] => t = 0 \/ late[t] <= SinceLook(t)
  /\ private_cancel_flag[t] =>
       late[t] + left[t] <= (IF t = 0 THEN 0 ELSE PollEvery) + LongestSequence - 1

MeasuringInv ==
  /\ GeneratorInv /\ MeasuringTypes
  /\ \A t \in Threads : LateIsBounded(t)
  /\ TotalsAreSums

(* The constants of the loop.                                              *)
LEMMA DriverFacts ==
  /\ 0 \in Threads /\ IsFiniteSet(Threads) /\ Threads \subseteq Nat
  /\ PollEvery \in Nat \ {0} /\ Width \in Nat \ {0}
  /\ LongestSequence \in Nat \ {0}
<1>1. 0 \in Threads /\ IsFiniteSet(Threads) /\ Threads \subseteq Nat
  BY GeneratorAssumption, FS_Interval DEF Threads
<1>2. PollEvery \in Nat \ {0}
  BY DriverAssumption DEF PollEvery
<1> QED BY <1>1, <1>2, DriverAssumption, LongestIsBound

(* A look ahead: what was counted before a call and what after it.         *)
LEMMA SinceLookFacts ==
  ASSUME MeasuringTypes, NEW t \in Threads
  PROVE  /\ SinceLook(t) \in 0 .. PollEvery
         /\ iter[t] % PollEvery \in 0 .. PollEvery
         /\ ((iter[t] + 1) % Width) % PollEvery \in {0, (iter[t] % PollEvery) + 1}
         /\ (iter[t] + 1) % Width \in Counters
         /\ (hits[t] + 1) % Width \in Counters
<1> USE DriverFacts
<1>1. iter[t] \in Nat /\ hits[t] \in Nat
  BY DEF MeasuringTypes, Counters
<1>2. iter[t] % PollEvery \in Nat /\ iter[t] % PollEvery < PollEvery
  BY <1>1, NextRemainder
<1>3. (iter[t] + 1) % Width \in {0, iter[t] + 1}
  <2>1. iter[t] % Width = iter[t]
    BY <1>1 DEF MeasuringTypes, Counters
  <2> QED BY <1>1, <2>1, NextRemainder
<1>4. (iter[t] + 1) % PollEvery \in {0, (iter[t] % PollEvery) + 1} /\ 0 % PollEvery = 0
  BY <1>1, NextRemainder
<1>5. (iter[t] + 1) % Width \in Counters /\ (hits[t] + 1) % Width \in Counters
  BY <1>1 DEF Counters
<1> QED BY <1>2, <1>3, <1>4, <1>5 DEF SinceLook

(* What a step of a thread leaves alone of another's.                      *)
SameOf(u) ==
  /\ pc'[u] = pc[u] /\ iter'[u] = iter[u] /\ left'[u] = left[u] /\ late'[u] = late[u]
  /\ private_cancel_flag'[u] = private_cancel_flag[u]

(* A thread that does not move is as late as it was.                       *)
LEMMA SameIsBounded ==
  ASSUME MeasuringTypes, NEW u \in Threads, LateIsBounded(u), SameOf(u), cancel_flag' \in BOOLEAN,
         cancel_flag => cancel_flag', u = 0 => cancel_flag' = cancel_flag
  PROVE  LateIsBounded(u)'
<1>1. SinceLook(u)' = SinceLook(u) /\ SinceLook(u) \in 0 .. PollEvery
  BY SinceLookFacts DEF SinceLook, SameOf, PollEvery
<1>2. late[u] \in Nat
  BY DEF MeasuringTypes
<1> QED BY <1>1, <1>2, DriverFacts DEF LateIsBounded, SameOf, LongestSequence, PollEvery, MeasuringTypes

(* The functions stay functions when one thread's value changes.           *)
LEMMA TypesKept ==
  ASSUME MeasuringTypes, NEW t \in Threads,
         \E v : pc' = [pc EXCEPT ![t] = v], \E v : iter' = [iter EXCEPT ![t] = v],
         \E v : hits' = [hits EXCEPT ![t] = v], \E v : left' = [left EXCEPT ![t] = v],
         \E v : late' = [late EXCEPT ![t] = v],
         \E v : private_cancel_flag' = [private_cancel_flag EXCEPT ![t] = v],
         pc'[t] \in Phases, iter'[t] \in Counters, hits'[t] \in Counters, left'[t] \in Nat,
         late'[t] \in Nat, private_cancel_flag'[t] \in BOOLEAN, cancel_flag' \in BOOLEAN
  PROVE  MeasuringTypes' /\ \A u \in Threads : u # t => SameOf(u)
BY DEF MeasuringTypes, SameOf

(* A variable that is unchanged is changed nowhere.                        *)
LEMMA UnchangedExcept ==
  ASSUME NEW S, NEW T, NEW f \in [S -> T], NEW g, g = f, NEW t \in S
  PROVE  \E v : g = [f EXCEPT ![t] = v]
<1>1. f = [f EXCEPT ![t] = f[t]]
  OBVIOUS
<1> QED BY <1>1

(* What a step of one thread is made of.                                   *)
OneMoves(t) ==
  /\ \E v : pc' = [pc EXCEPT ![t] = v]
  /\ \E v : iter' = [iter EXCEPT ![t] = v]
  /\ \E v : hits' = [hits EXCEPT ![t] = v]
  /\ \E v : left' = [left EXCEPT ![t] = v]
  /\ \E v : late' = [late EXCEPT ![t] = v]
  /\ \E v : private_cancel_flag' = [private_cancel_flag EXCEPT ![t] = v]

(* A step of the measuring loop moves one thread.                          *)
LEMMA StepsOfOne ==
  ASSUME MeasuringTypes, NEW t \in Threads, Proceed(t)
  PROVE  OneMoves(t)
<1>a. /\ (UNCHANGED iter => \E v : iter' = [iter EXCEPT ![t] = v])
      /\ (UNCHANGED hits => \E v : hits' = [hits EXCEPT ![t] = v])
      /\ (UNCHANGED left => \E v : left' = [left EXCEPT ![t] = v])
      /\ (UNCHANGED late => \E v : late' = [late EXCEPT ![t] = v])
      /\ (UNCHANGED private_cancel_flag =>
            \E v : private_cancel_flag' = [private_cancel_flag EXCEPT ![t] = v])
  BY UnchangedExcept DEF MeasuringTypes
<1>1. CASE Single(t) \/ Barrier(t) \/ EndOfSequence(t) \/ NoPoll(t) \/ Leave(t)
             \/ AddIterations(t) \/ AddHits(t)
  BY <1>a, <1>1 DEF Single, Barrier, EndOfSequence, NoPoll, Leave, AddIterations, AddHits,
       Step, loopVars, OneMoves
<1>2. CASE NextSequence(t)
  BY <1>a, <1>2 DEF NextSequence, Step, OneMoves
<1>3. CASE Call(t)
  BY <1>a, <1>3 DEF Call, Step, OneMoves
<1>4. CASE PollFlag(t)
  BY <1>a, <1>4 DEF PollFlag, Step, OneMoves
<1>5. CASE t = 0 /\ PollClock
  BY <1>a, <1>5 DEF PollClock, Step, OneMoves
<1> QED BY <1>1, <1>2, <1>3, <1>4, <1>5 DEF Proceed

(* The step keeps the types and the bound of the thread that takes it.     *)
Bounded(t) ==
  /\ pc'[t] \in Phases /\ iter'[t] \in Counters /\ hits'[t] \in Counters /\ left'[t] \in Nat
  /\ late'[t] \in Nat /\ private_cancel_flag'[t] \in BOOLEAN /\ cancel_flag' \in BOOLEAN
  /\ LateIsBounded(t)'
  /\ cancel_flag => cancel_flag'
  /\ t # 0 => cancel_flag' = cancel_flag

(* A step from one part of the loop to another makes no calls.             *)
LEMMA MovesAreBounded ==
  ASSUME GeneratorInv, MeasuringTypes, NEW t \in Threads, LateIsBounded(t),
         Step(t, "single", "barrier") \/ Step(t, "barrier", "loop") \/ Step(t, "call", "loop")
           \/ Step(t, "loop", "add_iterations") \/ Step(t, "add_iterations", "add_hits")
           \/ Step(t, "add_hits", "joined"),
         UNCHANGED <<loopVars, cancel_flag>>
  PROVE  Bounded(t)
<1>1. pc[t] # "poll" /\ pc'[t] # "poll" /\ pc'[t] \in Phases
  BY DEF Step, MeasuringTypes, Phases
<1>2. SinceLook(t)' = SinceLook(t)
  BY <1>1 DEF SinceLook, loopVars, PollEvery
<1>3. LateIsBounded(t)'
  BY <1>1, <1>2 DEF LateIsBounded, loopVars, LongestSequence, PollEvery
<1> QED BY <1>1, <1>3 DEF Bounded, MeasuringTypes, loopVars

(* A sequence is begun only when the private flag was not seen.            *)
LEMMA NextSequenceIsBounded ==
  ASSUME GeneratorInv, MeasuringTypes, NEW t \in Threads, LateIsBounded(t), NextSequence(t)
  PROVE  Bounded(t)
<1>1. /\ pc[t] = "loop" /\ pc'[t] = "call" /\ ~private_cancel_flag[t]
      /\ left'[t] = SequenceOf(drawn'[t]).count
      /\ UNCHANGED <<iter, hits, private_cancel_flag, late, cancel_flag>>
  BY DEF NextSequence, Step, MeasuringTypes, sharedVars
<1>2. drawn'[t] \in Nat /\ (generator = "trace" => drawn'[t] \in 0 .. TraceLength - 1)
  BY GetKeyKeeps DEF NextSequence
<1>3. left'[t] \in Nat /\ left'[t] <= LongestSequence
  <2>1. CASE generator = "trace"
    <3>1. drawn'[t] \in DOMAIN Records
      BY <1>2, <2>1, DriverAssumption
    <3> QED BY <1>1, <2>1, <3>1, LongestIsBound DEF SequenceOf
  <2>2. CASE generator # "trace"
    <3>1. left'[t] = 1
      BY <1>1, <2>2 DEF SequenceOf
    <3> QED BY <3>1, LongestIsBound
  <2> QED BY <2>1, <2>2
<1>4. SinceLook(t)' = SinceLook(t)
  BY <1>1 DEF SinceLook, PollEvery
<1>5. LateIsBounded(t)'
  BY <1>1, <1>3, <1>4 DEF LateIsBounded, LongestSequence, PollEvery
<1> QED BY <1>1, <1>3, <1>5 DEF Bounded, MeasuringTypes, Phases

(* A call counts as late when the flag is up.                              *)
LEMMA CallIsBounded ==
  ASSUME GeneratorInv, MeasuringTypes, NEW t \in Threads, LateIsBounded(t), Call(t)
  PROVE  Bounded(t)
<1>1. /\ pc[t] = "call" /\ pc'[t] = "poll" /\ left[t] > 0
      /\ iter'[t] = (iter[t] + 1) % Width /\ left'[t] = left[t] - 1
      /\ hits'[t] \in {hits[t], (hits[t] + 1) % Width}
      /\ late'[t] = IF cancel_flag THEN late[t] + 1 ELSE late[t]
      /\ UNCHANGED <<private_cancel_flag, cancel_flag>>
  BY DEF Call, Step, MeasuringTypes
<1>2. /\ iter'[t] \in Counters /\ hits'[t] \in Counters
      /\ left[t] \in Nat /\ late[t] \in Nat /\ left'[t] \in Nat /\ late'[t] \in Nat
  BY <1>1, SinceLookFacts DEF MeasuringTypes
<1>3. SinceLook(t) = iter[t] % PollEvery
  BY <1>1 DEF SinceLook
<1>4. \/ SinceLook(t)' = SinceLook(t) + 1
      \/ SinceLook(t)' = PollEvery /\ SinceLook(t) < PollEvery
  <2>1. iter'[t] % PollEvery \in {0, (iter[t] % PollEvery) + 1} /\ iter[t] \in Nat
    BY <1>1, SinceLookFacts DEF MeasuringTypes, Counters
  <2>2. iter[t] % PollEvery \in Nat /\ iter[t] % PollEvery < PollEvery
    BY <2>1, DriverFacts, NextRemainder
  <2>3. SinceLook(t)' = IF iter'[t] % PollEvery = 0 THEN PollEvery ELSE iter'[t] % PollEvery
    BY <1>1 DEF SinceLook, PollEvery
  <2> QED BY <1>3, <2>1, <2>2, <2>3
<1>5. SinceLook(t) \in Nat /\ SinceLook(t)' \in Nat /\ SinceLook(t) + 1 <= SinceLook(t)'
  BY <1>4, SinceLookFacts, DriverFacts
<1>6. LateIsBounded(t)'
  BY <1>1, <1>2, <1>5, DriverFacts DEF LateIsBounded, LongestSequence, PollEvery
<1> QED BY <1>1, <1>2, <1>6 DEF Bounded, MeasuringTypes, Phases

(* A look at the flag ends what a thread may still do.                     *)
LEMMA PollIsBounded ==
  ASSUME GeneratorInv, MeasuringTypes, NEW t \in Threads, LateIsBounded(t),
         NoPoll(t) \/ PollFlag(t) \/ (t = 0 /\ PollClock)
  PROVE  Bounded(t)
<1>1. /\ pc[t] = "poll" /\ pc'[t] = "call"
      /\ UNCHANGED <<iter, hits, left, late>>
  BY DEF NoPoll, PollFlag, PollClock, Step, MeasuringTypes, loopVars
<1>2. /\ left[t] \in Nat /\ late[t] \in Nat /\ left[t] + 1 <= LongestSequence
      /\ SinceLook(t) \in Nat /\ LongestSequence \in Nat /\ PollEvery \in Nat
  BY <1>1, SinceLookFacts, DriverFacts DEF MeasuringTypes, LateIsBounded
<1>3. SinceLook(t)' = iter[t] % PollEvery
  BY <1>1 DEF SinceLook, PollEvery
<1>4. CASE NoPoll(t)
  <2>1. UNCHANGED <<private_cancel_flag, cancel_flag>>
    BY <1>4 DEF NoPoll, loopVars, sharedVars
  <2>2. t # 0 => SinceLook(t)' = SinceLook(t)
    BY <1>3, <1>4 DEF NoPoll, Polls, SinceLook, PollEvery
  <2>3. LateIsBounded(t)'
    BY <1>1, <1>2, <2>1, <2>2 DEF LateIsBounded, LongestSequence, PollEvery
  <2> QED BY <1>1, <2>1, <2>3 DEF Bounded, MeasuringTypes, Phases
<1>5. CASE PollFlag(t)
  <2>1. /\ UNCHANGED cancel_flag /\ t # 0 /\ private_cancel_flag'[t] = cancel_flag
        /\ SinceLook(t) = PollEvery
    BY <1>1, <1>5 DEF PollFlag, Polls, SinceLook, PollEvery, MeasuringTypes, sharedVars
  <2>2. SinceLook(t)' \in Nat
    BY <1>3, SinceLookFacts, DriverFacts
  <2>3. LateIsBounded(t)'
    BY <1>1, <1>2, <2>1, <2>2 DEF LateIsBounded, LongestSequence, PollEvery, MeasuringTypes
  <2> QED BY <1>1, <2>1, <2>3 DEF Bounded, MeasuringTypes, Phases
<1>6. CASE t = 0 /\ PollClock
  <2>1. /\ cancel_flag' = (cancel_flag \/ expired)
        /\ private_cancel_flag'[t] = (private_cancel_flag[t] \/ expired)
    BY <1>6 DEF PollClock, MeasuringTypes
  <2>2. cancel_flag' \in BOOLEAN /\ private_cancel_flag'[t] \in BOOLEAN
        /\ (cancel_flag => cancel_flag') /\ (private_cancel_flag'[t] <=> cancel_flag')
    <3>1. private_cancel_flag[t] = cancel_flag
      BY <1>6 DEF MeasuringTypes, LateIsBounded
    <3>2. private_cancel_flag'[t] = cancel_flag'
      BY <2>1, <3>1
    <3>3. cancel_flag' \in BOOLEAN
      BY <2>1
    <3>4. cancel_flag => cancel_flag'
      BY <2>1
    <3> QED BY <3>2, <3>3, <3>4
  <2>3. LateIsBounded(t)'
    BY <1>1, <1>2, <1>6, <2>2 DEF LateIsBounded, LongestSequence, PollEvery, MeasuringTypes
  <2> QED BY <1>1, <1>6, <2>2, <2>3 DEF Bounded, MeasuringTypes, Phases
<1> QED BY <1>4, <1>5, <1>6

(* Every step of a thread.                                                 *)
LEMMA ProceedIsBounded ==
  ASSUME GeneratorInv, MeasuringTypes, NEW t \in Threads, LateIsBounded(t), Proceed(t)
  PROVE  Bounded(t)
<1>1. CASE Single(t) \/ Barrier(t) \/ EndOfSequence(t) \/ Leave(t) \/ AddIterations(t) \/ AddHits(t)
  <2>1. UNCHANGED <<loopVars, cancel_flag>>
    BY <1>1 DEF Single, Barrier, EndOfSequence, Leave, AddIterations, AddHits, sharedVars
  <2>2. \/ Step(t, "single", "barrier") \/ Step(t, "barrier", "loop") \/ Step(t, "call", "loop")
        \/ Step(t, "loop", "add_iterations") \/ Step(t, "add_iterations", "add_hits")
        \/ Step(t, "add_hits", "joined")
    BY <1>1 DEF Single, Barrier, EndOfSequence, Leave, AddIterations, AddHits
  <2> QED BY <2>1, <2>2, MovesAreBounded
<1> QED BY <1>1, NextSequenceIsBounded, CallIsBounded, PollIsBounded DEF Proceed

(* No step of the loop, or of the clock, makes a thread too late.          *)
LEMMA LoopIsBounded ==
  ASSUME GeneratorInv, MeasuringTypes, \A t \in Threads : LateIsBounded(t), BenchmarkNext
  PROVE  MeasuringTypes' /\ \A t \in Threads : LateIsBounded(t)'
<1>1. ASSUME NEW t \in Threads, Proceed(t)
      PROVE  MeasuringTypes' /\ \A u \in Threads : LateIsBounded(u)'
  <2>1. OneMoves(t)
    BY <1>1, StepsOfOne
  <2>2. Bounded(t)
    BY <1>1, ProceedIsBounded
  <2>3. MeasuringTypes' /\ \A u \in Threads : u # t => SameOf(u)
    BY <2>1, <2>2, TypesKept DEF OneMoves, Bounded
  <2>4. ASSUME NEW u \in Threads, u # t  PROVE LateIsBounded(u)'
    <3>1. /\ SameOf(u) /\ cancel_flag' \in BOOLEAN
          /\ (cancel_flag => cancel_flag') /\ (u = 0 => cancel_flag' = cancel_flag)
      BY <2>2, <2>3, <2>4 DEF Bounded
    <3> QED BY <3>1, SameIsBounded
  <2> QED BY <2>2, <2>3, <2>4 DEF Bounded
<1>2. CASE TimeUp
  <2>1. UNCHANGED <<pc, loopVars, cancel_flag>>
    BY <1>2 DEF TimeUp
  <2>2. MeasuringTypes'
    BY <2>1 DEF MeasuringTypes, loopVars
  <2>3. ASSUME NEW u \in Threads  PROVE LateIsBounded(u)'
    <3>1. /\ SameOf(u) /\ cancel_flag' \in BOOLEAN
          /\ (cancel_flag => cancel_flag') /\ (u = 0 => cancel_flag' = cancel_flag)
      BY <2>1, <2>2 DEF SameOf, loopVars, MeasuringTypes
    <3> QED BY <3>1, SameIsBounded
  <2> QED BY <2>2, <2>3
<1> QED BY <1>1, <1>2 DEF BenchmarkNext

(* The two totals, each over the threads that have added to it.            *)
LEMMA TotalsGrow ==
  ASSUME NEW f, NEW g, NEW A, A \subseteq Threads, NEW t \in Threads, t \notin A,
         f \in [Threads -> Counters], \A u \in A : g[u] = f[u], g[t] = f[t],
         NEW x, x = SumOf(f, A) % Width
  PROVE  (x + f[t]) % Width = SumOf(g, A \cup {t}) % Width
<1>1. IsFiniteSet(A) /\ Width \in Nat \ {0}
  BY DriverFacts, FS_Subset
<1>2. \A u \in Threads : f[u] \in Nat
  BY DEF Counters
<1>3. /\ IsFiniteSet(A \cup {t}) /\ Total(f, A) \in Nat
      /\ Total(f, A \cup {t}) = Total(f, A) + f[t]
  <2>1. IsFiniteSet(A) /\ t \notin A
    BY <1>1
  <2>2. \A u \in A \cup {t} : f[u] \in Nat
    BY <1>2
  <2>3. IsFiniteSet(A \cup {t})
    BY <2>1, FS_AddElement
  <2>4. Total(f, A) \in Nat
    BY <2>1, <2>2, TotalFacts
  <2>5. Total(f, A \cup {t}) = Total(f, A) + f[t]
    BY <2>1, <2>2, TotalOfMore
  <2> QED BY <2>3, <2>4, <2>5
<1>4. Total(g, A \cup {t}) = Total(f, A \cup {t})
  BY <1>3, SameTotal
<1>5. SumOf(f, A) = Total(f, A) /\ SumOf(g, A \cup {t}) = Total(g, A \cup {t})
  BY DEF SumOf, Total
<1>6. ((Total(f, A) % Width) + f[t]) % Width = (Total(f, A) + f[t]) % Width
  BY <1>1, <1>2, <1>3, SumOfRemainders
<1> QED BY <1>3, <1>4, <1>5, <1>6

(* Sums over threads that count the same are the same.                     *)
LEMMA TotalStays ==
  ASSUME NEW f, NEW g, NEW A, A \subseteq Threads, \A u \in A : g[u] = f[u]
  PROVE  SumOf(f, A) = SumOf(g, A)
<1>1. IsFiniteSet(A)
  BY DriverFacts, FS_Subset
<1>2. Total(f, A) = Total(g, A)
  BY <1>1, SameTotal
<1> QED BY <1>2 DEF SumOf, Total

(* Who has added its iterations, and who its hits.                         *)
Added == InPhase({"add_hits", "joined"})
AddedHits == InPhase({"joined"})

(* A thread adds its iterations once, and its hits once.                   *)
LEMMA TotalsAreKept ==
  ASSUME MeasuringTypes, TotalsAreSums, BenchmarkNext
  PROVE  TotalsAreSums'
<1>a. Added \subseteq Threads /\ AddedHits \subseteq Threads /\ Width \in Nat \ {0}
  BY DriverFacts DEF Added, AddedHits, InPhase
<1>b. /\ passed_iterations = SumOf(iter, Added) % Width
      /\ total_hits = SumOf(hits, AddedHits) % Width
  BY DEF TotalsAreSums, Added, AddedHits
<1> DEFINE Goal == /\ passed_iterations' = SumOf(iter', Added') % Width
                   /\ total_hits' = SumOf(hits', AddedHits') % Width
<1>c. Goal => TotalsAreSums'
  BY DEF TotalsAreSums, Added, AddedHits
<1>1. ASSUME Added' = Added, AddedHits' = AddedHits, UNCHANGED <<passed_iterations, total_hits>>,
             \A u \in Added : iter'[u] = iter[u], \A u \in AddedHits : hits'[u] = hits[u]
      PROVE  Goal
  <2>1. SumOf(iter, Added) = SumOf(iter', Added) /\ SumOf(hits, AddedHits) = SumOf(hits', AddedHits)
    BY <1>a, <1>1, TotalStays
  <2> QED BY <1>b, <1>1, <2>1
<1>2. ASSUME NEW t \in Threads, AddIterations(t)  PROVE <1>c!1
  <2>1. /\ pc[t] = "add_iterations" /\ pc' = [pc EXCEPT ![t] = "add_hits"]
        /\ passed_iterations' = (passed_iterations + iter[t]) % Width
        /\ UNCHANGED <<iter, hits, total_hits>>
    BY <1>2 DEF AddIterations, Step, loopVars
  <2>2. Added' = Added \cup {t} /\ t \notin Added /\ AddedHits' = AddedHits
    BY <2>1 DEF Added, AddedHits, InPhase, MeasuringTypes
  <2>3. (passed_iterations + iter[t]) % Width = SumOf(iter', Added \cup {t}) % Width
    BY <1>a, <1>b, <2>1, <2>2, TotalsGrow DEF MeasuringTypes
  <2> QED BY <1>b, <2>1, <2>2, <2>3
<1>3. ASSUME NEW t \in Threads, AddHits(t)  PROVE <1>c!1
  <2>1. /\ pc[t] = "add_hits" /\ pc' = [pc EXCEPT ![t] = "joined"]
        /\ total_hits' = (total_hits + hits[t]) % Width
        /\ UNCHANGED <<iter, hits, passed_iterations>>
    BY <1>3 DEF AddHits, Step, loopVars
  <2>2. AddedHits' = AddedHits \cup {t} /\ t \notin AddedHits /\ Added' = Added
    BY <2>1 DEF Added, AddedHits, InPhase, MeasuringTypes
  <2>3. (total_hits + hits[t]) % Width = SumOf(hits', AddedHits \cup {t}) % Width
    BY <1>a, <1>b, <2>1, <2>2, TotalsGrow DEF MeasuringTypes
  <2> QED BY <1>b, <2>1, <2>2, <2>3
<1>4. ASSUME NEW t \in Threads, Proceed(t), ~AddIterations(t), ~AddHits(t)  PROVE <1>c!1
  <2>1. /\ UNCHANGED <<passed_iterations, total_hits>>
        /\ \E from, to \in Phases \ {"add_hits", "joined"} : Step(t, from, to)
    BY <1>4 DEF Proceed, Single, Barrier, NextSequence, Call, EndOfSequence, NoPoll, PollFlag,
         PollClock, Leave, sharedVars, Phases
  <2>2. Added' = Added /\ AddedHits' = AddedHits /\ t \notin Added /\ t \notin AddedHits
    BY <2>1 DEF Step, Added, AddedHits, InPhase, MeasuringTypes
  <2>3. \A u \in Threads : u # t => iter'[u] = iter[u] /\ hits'[u] = hits[u]
    BY <1>4, StepsOfOne DEF OneMoves, MeasuringTypes
  <2> QED BY <1>1, <1>a, <2>1, <2>2, <2>3
<1>5. ASSUME TimeUp  PROVE Goal
  <2>1. UNCHANGED <<pc, loopVars, passed_iterations, total_hits>>
    BY <1>5 DEF TimeUp
  <2> QED BY <1>1, <2>1 DEF loopVars, Added, AddedHits, InPhase
<1> HIDE DEF Goal
<1> QED BY <1>c, <1>2, <1>3, <1>4, <1>5 DEF BenchmarkNext

(* No thread has begun.                                                    *)
LEMMA MeasuringStarts == BenchmarkInit => MeasuringInv
<1> SUFFICES ASSUME BenchmarkInit  PROVE MeasuringInv
  OBVIOUS
<1>1. GeneratorInv
  BY GeneratorStarts DEF BenchmarkInit
<1>2. /\ pc = [t \in Threads |-> "single"] /\ iter = Zero /\ hits = Zero /\ left = Zero /\ late = Zero
      /\ private_cancel_flag = [t \in Threads |-> FALSE] /\ cancel_flag = FALSE
      /\ passed_iterations = 0 /\ total_hits = 0
  BY DEF BenchmarkInit
<1>3. MeasuringTypes
  <2>1. 0 \in Counters /\ "single" \in Phases
    BY DriverFacts DEF Counters, Phases
  <2> QED BY <1>2, <2>1 DEF MeasuringTypes, Zero
<1>4. ASSUME NEW t \in Threads  PROVE LateIsBounded(t)
  <2>1. SinceLook(t) \in Nat
    BY <1>3, SinceLookFacts, DriverFacts
  <2> QED BY <1>2, <2>1, DriverFacts DEF LateIsBounded, Zero
<1>5. TotalsAreSums
  <2>1. InPhase({"add_hits", "joined"}) = {} /\ InPhase({"joined"}) = {}
    BY <1>2 DEF InPhase
  <2>2. Total(iter, {}) = 0 /\ Total(hits, {}) = 0
    BY FS_EmptySet, TotalFacts
  <2>3. SumOf(iter, {}) = 0 /\ SumOf(hits, {}) = 0
    BY <2>2 DEF SumOf, Total
  <2>4. 0 % Width = 0
    BY DriverFacts, NextRemainder
  <2> QED BY <1>2, <2>1, <2>3, <2>4 DEF TotalsAreSums
<1> QED BY <1>1, <1>3, <1>4, <1>5 DEF MeasuringInv

(* Every step of the benchmark keeps the invariant.                        *)
LEMMA MeasuringGoesOn ==
  MeasuringInv /\ [BenchmarkNext]_benchmarkVars => MeasuringInv'
<1> SUFFICES ASSUME MeasuringInv, [BenchmarkNext]_benchmarkVars  PROVE MeasuringInv'
  OBVIOUS
<1>1. GeneratorInv /\ MeasuringTypes /\ TotalsAreSums /\ \A t \in Threads : LateIsBounded(t)
  BY DEF MeasuringInv
<1>2. CASE BenchmarkNext
  <2>1. GeneratorInv'
    <3>1. CASE UNCHANGED generatorVars
      BY <1>1, <3>1 DEF GeneratorInv, GeneratorTypes, IsDealing, IsCounting, generatorVars
    <3>2. CASE \E t \in Threads : NextSequence(t)
      BY <1>1, <3>2, GetKeyKeeps DEF NextSequence
    <3> QED BY <1>2, <3>1, <3>2 DEF BenchmarkNext, Proceed, TimeUp, Single, Barrier, Call,
              EndOfSequence, NoPoll, PollFlag, PollClock, Leave, AddIterations, AddHits
  <2> QED BY <1>1, <1>2, <2>1, LoopIsBounded, TotalsAreKept DEF MeasuringInv
<1>3. CASE UNCHANGED benchmarkVars
  <2>1. /\ GeneratorInv' /\ MeasuringTypes'
    BY <1>1, <1>3 DEF benchmarkVars, loopVars, sharedVars, GeneratorInv, GeneratorTypes, IsDealing,
         IsCounting, generatorVars, MeasuringTypes
  <2>2. \A t \in Threads : LateIsBounded(t)'
    BY <1>1, <1>3 DEF benchmarkVars, loopVars, sharedVars, LateIsBounded, SinceLook,
         LongestSequence, PollEvery
  <2>3. TotalsAreSums'
    <3>1. UNCHANGED <<pc, iter, hits, passed_iterations, total_hits>>
      BY <1>3 DEF benchmarkVars, loopVars, sharedVars
    <3>2. \A phases : InPhase(phases)' = InPhase(phases)
      BY <3>1 DEF InPhase
    <3> QED BY <1>1, <3>1, <3>2 DEF TotalsAreSums
  <2> QED BY <2>1, <2>2, <2>3 DEF MeasuringInv
<1> QED BY <1>2, <1>3

(* The invariant of the measuring loop: the generators stay in their       *)
(* slots, a thread is late by what lies between two looks at the flag,     *)
(* and the totals are the sums of those that have added.                   *)
THEOREM MeasuringInvHolds == Spec => []MeasuringInv
<1>1. Init => MeasuringInv
  <2>1. Init => BenchmarkInit
    BY DEF Init
  <2> QED BY <2>1, MeasuringStarts
<1>2. MeasuringInv /\ [Next]_vars => MeasuringInv'
  <2>1. [Next]_vars => [BenchmarkNext]_benchmarkVars
    BY DEF Next, vars
  <2> QED BY <2>1, MeasuringGoesOn
<1> QED BY <1>1, <1>2, PTL DEF Spec

(* A trace is dealt out to any number of threads without a record being    *)
(* left out or dealt twice, whatever its length, and the slots of the      *)
(* disjoint generator are disjoint for as long as none is exhausted, also  *)
(* around the largest key (setThread and getKey in key_generator.cpp).     *)
THEOREM KeysAreDealtOut == Spec => []KeysAreDealt
<1>1. MeasuringInv => KeysAreDealt
  BY GeneratorsDeal DEF MeasuringInv
<1> QED BY <1>1, MeasuringInvHolds, PTL

(* Whatever the order in which the threads leave the loop and add to the   *)
(* totals, those are the sums of what the threads that have added counted  *)
(* (the atomic additions of benchmark).                                    *)
THEOREM TotalsAddUp == Spec => []TotalsAreSums
<1>1. MeasuringInv => TotalsAreSums
  BY DEF MeasuringInv
<1> QED BY <1>1, MeasuringInvHolds, PTL

(* After thread 0 has raised the flag a thread makes no more calls than to *)
(* its next poll and from there to the end of its sequence, for any poll   *)
(* frequency and any sequences, also when its counter wraps.               *)
THEOREM CallsAreNotLate == Spec => []LateCalls
<1>1. MeasuringInv => LateCalls
  <2> SUFFICES ASSUME MeasuringInv, NEW t \in Threads
               PROVE  late[t] <= (IF t = 0 THEN 0 ELSE PrintFreq \div 10) + LongestSequence - 1
    BY DEF LateCalls
  <2>1. MeasuringTypes /\ LateIsBounded(t)
    BY DEF MeasuringInv
  <2>2. SinceLook(t) \in 0 .. PollEvery /\ late[t] \in Nat /\ left[t] \in Nat
    BY <2>1, SinceLookFacts DEF MeasuringTypes
  <2>3. t = 0 /\ ~private_cancel_flag[t] => late[t] = 0
    BY <2>1 DEF LateIsBounded
  <2>4. ~private_cancel_flag[t] => t = 0 \/ late[t] <= PollEvery
    BY <2>1, <2>2, DriverFacts DEF LateIsBounded
  <2>5. private_cancel_flag[t] =>
           late[t] + left[t] <= (IF t = 0 THEN 0 ELSE PollEvery) + LongestSequence - 1
    BY <2>1 DEF LateIsBounded
  <2>6. late[t] <= (IF t = 0 THEN 0 ELSE PollEvery) + LongestSequence - 1
    BY <2>2, <2>3, <2>4, <2>5, DriverFacts
  <2> QED BY <2>6 DEF PollEvery
<1> QED BY <1>1, MeasuringInvHolds, PTL

---------------------------------------------------------------------------
(* The trace experiments.                                                  *)

Paths == DOMAIN FilesAtFirst
TraceRecord == [start : Nat, count : Nat]
Kept == [records : Seq(TraceRecord), distinct : Nat]

(* What an experiment is.                                                  *)
Setting == [path : Paths, capacity : Nat, pull : ToSet(Pulls), purge : ToSet(Purges)]

(* A function over the places of a sequence is a sequence as long.         *)
LEMMA OverSequence ==
  ASSUME NEW A, NEW s \in Seq(A), NEW S, NEW f, f \in [DOMAIN s -> S]
  PROVE  f \in Seq(S) /\ Len(f) = Len(s) /\ DOMAIN f = 1 .. Len(s)
<1>1. Len(s) \in Nat /\ DOMAIN s = 1 .. Len(s)
  OBVIOUS
<1> QED BY <1>1

(* The elements of a sequence.                                             *)
LEMMA ElementIn ==
  ASSUME NEW A, NEW s \in Seq(A), NEW i \in DOMAIN s
  PROVE  s[i] \in A
OBVIOUS

(* The list of experiments is finite, and each is set by the constants.    *)
LEMMA ExperimentsAreSettings == Experiments \in Seq(Setting)
<1> DEFINE e(t, f, p, q) == [path |-> TraceInfos[t].path,
                             capacity |-> TraceInfos[t].items \div CapacityFactors[f],
                             pull |-> Pulls[p], purge |-> Purges[q]]
           P(t, f) == [p \in DOMAIN Pulls |-> [q \in DOMAIN Purges |-> e(t, f, p, q)]]
           F(t) == [f \in DOMAIN CapacityFactors |-> FlattenSeq(P(t, f))]
           E == [t \in DOMAIN TraceInfos |-> FlattenSeq(F(t))]
<1>1. /\ TraceInfos \in Seq([path : Paths, items : Nat])
      /\ CapacityFactors \in Seq(Nat \ {0})
      /\ Pulls \in Seq(ToSet(Pulls)) /\ Purges \in Seq(ToSet(Purges))
  BY TraceBenchmarkAssumption DEF Paths
<1>2. ASSUME NEW t \in DOMAIN TraceInfos, NEW f \in DOMAIN CapacityFactors,
             NEW p \in DOMAIN Pulls, NEW q \in DOMAIN Purges
      PROVE  e(t, f, p, q) \in Setting
  <2>0. TraceInfos[t] \in [path : Paths, items : Nat] /\ CapacityFactors[f] \in Nat \ {0}
    BY <1>1, ElementIn
  <2>1. TraceInfos[t].path \in Paths /\ TraceInfos[t].items \in Nat
    BY <2>0
  <2>2. TraceInfos[t].items \div CapacityFactors[f] \in Nat
    BY <2>0, <2>1
  <2>3. Pulls[p] \in ToSet(Pulls) /\ Purges[q] \in ToSet(Purges)
    BY <1>1, ElementIn
  <2> QED BY <2>1, <2>2, <2>3 DEF Setting
<1> HIDE DEF e
<1>3. ASSUME NEW t \in DOMAIN TraceInfos, NEW f \in DOMAIN CapacityFactors
      PROVE  FlattenSeq(P(t, f)) \in Seq(Setting)
  <2>1. ASSUME NEW p \in DOMAIN Pulls
        PROVE  [q \in DOMAIN Purges |-> e(t, f, p, q)] \in Seq(Setting)
    <3>1. [q \in DOMAIN Purges |-> e(t, f, p, q)] \in [DOMAIN Purges -> Setting]
      BY <1>2
    <3> QED BY <1>1, <3>1, OverSequence
  <2>2. P(t, f) \in Seq(Seq(Setting))
    <3>1. P(t, f) \in [DOMAIN Pulls -> Seq(Setting)]
      BY <2>1
    <3>2. Pulls \in Seq(ToSet(Pulls))
      BY <1>1
    <3> HIDE DEF P
    <3> QED BY <3>1, <3>2, OverSequence
  <2> HIDE DEF P
  <2> QED BY <2>2, FlattenFacts
<1>4. ASSUME NEW t \in DOMAIN TraceInfos
      PROVE  FlattenSeq(F(t)) \in Seq(Setting)
  <2>1. F(t) \in Seq(Seq(Setting))
    <3>1. F(t) \in [DOMAIN CapacityFactors -> Seq(Setting)]
      BY <1>3
    <3>2. CapacityFactors \in Seq(Nat \ {0})
      BY <1>1
    <3> HIDE DEF F
    <3> QED BY <3>1, <3>2, OverSequence
  <2> HIDE DEF F
  <2> QED BY <2>1, FlattenFacts
<1>5. FlattenSeq(E) \in Seq(Setting)
  <2>1. E \in Seq(Seq(Setting))
    <3>1. E \in [DOMAIN TraceInfos -> Seq(Setting)]
      BY <1>4
    <3>2. TraceInfos \in Seq([path : Paths, items : Nat])
      BY <1>1
    <3> HIDE DEF E
    <3> QED BY <3>1, <3>2, OverSequence
  <2> HIDE DEF E
  <2> QED BY <2>1, FlattenFacts
<1>6. Experiments = FlattenSeq(E)
  BY DEF Experiments, e
<1> QED BY <1>5, <1>6

(* The number of requests is the sum of the counts.                        *)
LEMMA RequestsAreCounts ==
  ASSUME NEW rs \in Seq(TraceRecord)
  PROVE  Requests(rs) = Total([i \in 1 .. Len(rs) |-> rs[i].count], 1 .. Len(rs))
<1> DEFINE A == 1 .. Len(rs)
           f == [i \in A |-> rs[i].count]
           G(g) == g = [s \in SUBSET A |-> IF s = {} THEN 0 ELSE rs[OneOf(s)].count + g[s \ {OneOf(s)}]]
           g == CHOOSE h : G(h)
<1>1. DOMAIN rs = A /\ IsFiniteSet(A)
  BY FS_Interval
<1>2. \A s \in SUBSET A : s # {} => f[OneOf(s)] = rs[OneOf(s)].count
  BY DEF OneOf
<1>3. \E h : G(h)
  <2>1. PICK h : h = [s \in SUBSET A |-> h[s]] /\ AddsUp(h, f, A)
    BY <1>1, AddsUpExists
  <2>2. \A s \in SUBSET A : h[s] = IF s = {} THEN 0 ELSE rs[OneOf(s)].count + h[s \ {OneOf(s)}]
    BY <1>2, <2>1 DEF AddsUp
  <2>3. G(h)
    BY <2>1, <2>2
  <2> QED BY <2>3
<1>4. G(g)
  BY <1>3
<1>5. Requests(rs) = g[A]
  BY <1>1 DEF Requests, FoldSeq, FoldFunction, FoldFunctionOnSet, MapThenFoldSet, OneOf
<1> HIDE DEF g
<1>6. AddsUp(g, f, A)
  BY <1>2, <1>4 DEF AddsUp
<1> HIDE DEF f, G
<1>7. PICK h : AddsUp(h, f, A) /\ Total(f, A) = h[A]
  BY <1>1, TotalAddsUp
<1>8. g[A] = h[A]
  <2>1. A \in SUBSET (A \cap A)
    OBVIOUS
  <2> QED BY <1>1, <1>6, <1>7, <2>1, AddsUpIsUnique
<1> QED BY <1>5, <1>7, <1>8 DEF f

(* A pass asks for as many keys as there are requests.                     *)
LEMMA KeysAreRequests ==
  ASSUME NEW rs \in Seq(TraceRecord)
  PROVE  Len(KeysOf(rs)) = Requests(rs) /\ Len(KeysOf(rs)) \in Nat /\ KeysOf(rs) \in Seq(Nat)
<1> DEFINE N == Len(rs)
           k(i) == [j \in 1 .. rs[i].count |-> rs[i].start + j - 1]
           ss == [i \in DOMAIN rs |-> k(i)]
           f == [i \in 1 .. N |-> rs[i].count]
           e == [i \in 1 .. N |-> Len(ss[i])]
<1>1. ASSUME NEW i \in 1 .. N
      PROVE  k(i) \in Seq(Nat) /\ Len(k(i)) = rs[i].count /\ rs[i].count \in Nat
  <2>0. rs[i] \in TraceRecord
    BY ElementIn
  <2>1. rs[i].start \in Nat /\ rs[i].count \in Nat
    BY <2>0 DEF TraceRecord
  <2> DEFINE a == rs[i].start
             n == rs[i].count
  <2>2. a \in Nat /\ n \in Nat /\ k(i) = [j \in 1 .. n |-> a + j - 1]
    BY <2>1
  <2> HIDE DEF a, n, k
  <2>3. k(i) \in [1 .. n -> Nat]
    BY <2>2
  <2>4. k(i) \in Seq(Nat) /\ Len(k(i)) = n
    BY <2>2, <2>3
  <2> QED BY <2>2, <2>4 DEF n
<1>2. DOMAIN rs = 1 .. N /\ N \in Nat
  OBVIOUS
<1> HIDE DEF k
<1>3. ss \in Seq(Seq(Nat)) /\ Len(ss) = N
  BY <1>1, <1>2
<1>4. \A i \in 1 .. N : e[i] = f[i]
  BY <1>1, <1>2
<1>5. KeysOf(rs) = FlattenSeq(ss)
  BY DEF KeysOf, k
<1> HIDE DEF ss
<1>6. FlattenSeq(ss) \in Seq(Nat) /\ Len(FlattenSeq(ss)) = Total(e, 1 .. N)
  BY <1>3, FlattenFacts
<1> HIDE DEF e
<1>7. Requests(rs) = Total(f, 1 .. N)
  BY RequestsAreCounts
<1> HIDE DEF f
<1>8. Total(e, 1 .. N) = Total(f, 1 .. N)
  <2>1. IsFiniteSet(1 .. N)
    BY <1>2, FS_Interval
  <2> QED BY <1>4, <2>1, SameTotal
<1> QED BY <1>5, <1>6, <1>7, <1>8

(* What is taken from a file is all there, and makes the requests that are *)
(* announced.                                                              *)
LEMMA ParsedFacts ==
  ASSUME NEW words \in Seq(Nat), Parsed(words).ok
  PROVE  LET parsed == Parsed(words)
         IN  /\ parsed.records \in Seq(TraceRecord)
             /\ parsed.distinct \in Nat
             /\ Len(words) >= 4
             /\ parsed.distinct = words[4]
             /\ Len(parsed.records) = words[2]
             /\ words[1] = 2 => Requests(parsed.records) = words[3]
<1> DEFINE version == words[1]
           length == words[1] * words[2]
           data == SubSeq(words, 5, 4 + length)
           records == RecordsOf(version, data)
<1>1. /\ Len(words) >= 4 + length /\ Len(words) >= 4
      /\ version \in {1, 2}
      /\ version = 2 => Requests(records) = words[3]
      /\ Parsed(words) = [ok |-> TRUE, records |-> records, distinct |-> words[4]]
  <2>1. Len(words) \in Nat /\ Len(words) >= 4
    BY DEF Parsed, Failure
  <2>2. ~(\/ Len(words) < 4 + length
          \/ version \notin {1, 2}
          \/ version = 2 /\ Requests(records) # words[3])
    BY <2>1 DEF Parsed, Failure
  <2>3. Parsed(words) = [ok |-> TRUE, records |-> records, distinct |-> words[4]]
    BY <2>1, <2>2 DEF Parsed
  <2>4. length \in Nat
    BY <2>1
  <2> HIDE DEF length, records
  <2> QED BY <2>1, <2>2, <2>3, <2>4
<1>2. words[2] \in Nat /\ words[4] \in Nat /\ Len(words) \in Nat
  BY <1>1
<1>3. length \in Nat /\ (version = 1 => length = words[2]) /\ (version = 2 => length = 2 * words[2])
  BY <1>1, <1>2
<1> HIDE DEF length
<1>4. data \in Seq(Nat) /\ Len(data) = length
  <2>1. data = [i \in 1 .. length |-> words[i + 4]]
    BY <1>1, <1>2, <1>3
  <2>2. \A i \in 1 .. length : words[i + 4] \in Nat
    <3> TAKE i \in 1 .. length
    <3>1. i + 4 \in DOMAIN words
      BY <1>1, <1>2, <1>3
    <3> QED BY <3>1, ElementIn
  <2> HIDE DEF data
  <2> QED BY <1>3, <2>1, <2>2
<1> HIDE DEF data
<1>5. records \in Seq(TraceRecord) /\ Len(records) = words[2]
  <2>1. CASE version = 1
    <3>1. records = [i \in DOMAIN data |-> [start |-> data[i], count |-> 1]]
      BY <2>1 DEF RecordsOf
    <3>2. \A i \in DOMAIN data : [start |-> data[i], count |-> 1] \in TraceRecord
      BY <1>4, ElementIn DEF TraceRecord
    <3>3. records \in [DOMAIN data -> TraceRecord]
      BY <3>1, <3>2
    <3> HIDE DEF records
    <3>4. records \in Seq(TraceRecord) /\ Len(records) = Len(data)
      BY <1>4, <3>3, OverSequence
    <3> QED BY <1>3, <1>4, <2>1, <3>4
  <2>2. CASE version = 2
    <3> DEFINE n == words[2]
    <3>1. Len(data) \div 2 = n
      <4>1. Len(data) = 2 * n /\ n \in Nat
        BY <1>2, <1>3, <1>4, <2>2
      <4> HIDE DEF n
      <4>2. (2 * n) \div 2 = n
        BY <4>1
      <4> QED BY <4>1, <4>2
    <3>2. records = [i \in 1 .. n |-> [start |-> data[2 * i - 1], count |-> data[2 * i]]]
      BY <2>2, <3>1 DEF RecordsOf
    <3>3. ASSUME NEW i \in 1 .. n
          PROVE  [start |-> data[2 * i - 1], count |-> data[2 * i]] \in TraceRecord
      <4>1. 2 * i - 1 \in DOMAIN data /\ 2 * i \in DOMAIN data
        BY <1>2, <1>3, <1>4, <2>2
      <4>2. data[2 * i - 1] \in Nat /\ data[2 * i] \in Nat
        BY <1>4, <4>1, ElementIn
      <4> QED BY <4>2 DEF TraceRecord
    <3>4. records \in [1 .. n -> TraceRecord]
      BY <3>2, <3>3
    <3>5. n \in Nat
      BY <1>2
    <3> HIDE DEF records, n
    <3>6. records \in Seq(TraceRecord) /\ Len(records) = n
      BY <3>4, <3>5
    <3> QED BY <3>6 DEF n
  <2> HIDE DEF records
  <2> QED BY <1>1, <2>1, <2>2
<1> HIDE DEF records
<1> QED BY <1>1, <1>2, <1>5

Row == [run : Nat, path : Paths, items : Nat, capacity : Nat, accesses : Nat, hits : Int, seen : Nat]

(* What a logged row says of the trace that was played for it.             *)
RowIsRight(logged) ==
  /\ logged.path \in DOMAIN traces
  /\ logged.items = traces[logged.path].distinct
  /\ Iterations > 0 =>
       /\ logged.accesses = Iterations * Requests(traces[logged.path].records)
       /\ logged.hits = logged.seen

TraceTypes ==
  /\ files \in [Paths -> TraceFile]
  /\ \A p \in Paths : files[p] \in {FilesAtFirst[p], FilesLater[p]}
  /\ DOMAIN traces \subseteq Paths /\ traces \in [DOMAIN traces -> Kept]
  /\ at_line \in {"start", "read", "measure"}
  /\ run \in Nat \ {0} /\ pass \in Nat /\ position \in Nat /\ measured_hits \in Nat
  /\ stats \in [find : Nat, insert : Nat]
  /\ rows \in Seq(Row)

(* In the measured passes the statistics are of those passes only.         *)
PassIsCounted ==
  LET length == Requests(Trace.records)
  IN  /\ Cached /\ pass <= Iterations /\ position <= length
      /\ pass = 0 => measured_hits = 0
      /\ pass > 0 => /\ stats.find = (pass - 1) * length + position
                     /\ stats.find - stats.insert = measured_hits

TraceInv ==
  /\ TraceTypes /\ KeptTracesAreComplete
  /\ at_line # "start" => run <= Len(Experiments)
  /\ at_line = "read" => pass = 0 /\ position = 0 /\ measured_hits = 0
  /\ at_line = "measure" => PassIsCounted
  /\ \A k \in DOMAIN rows : RowIsRight(rows[k])

(* The experiment that is made, and what it works with.                    *)
LEMMA ExperimentFacts ==
  ASSUME TraceTypes, run <= Len(Experiments)
  PROVE  /\ Experiment.path \in Paths /\ Experiment.capacity \in Nat
         /\ Cached => /\ Trace \in Kept /\ Trace.records \in Seq(TraceRecord) /\ Trace.distinct \in Nat
                      /\ Len(KeysOf(Trace.records)) = Requests(Trace.records)
                      /\ Requests(Trace.records) \in Nat
<1>1. Experiments \in Seq(Setting)
  BY ExperimentsAreSettings
<1>2. run \in DOMAIN Experiments
  BY <1>1 DEF TraceTypes
<1>3. Experiment \in Setting
  BY <1>1, <1>2, ElementIn DEF Experiment
<1>4. Cached => Trace \in Kept
  BY DEF Cached, Trace, TraceTypes
<1>5. Trace \in Kept => Trace.records \in Seq(TraceRecord) /\ Trace.distinct \in Nat
  BY DEF Kept
<1>6. Trace.records \in Seq(TraceRecord) =>
         Len(KeysOf(Trace.records)) = Requests(Trace.records) /\ Requests(Trace.records) \in Nat
  BY KeysAreRequests
<1> QED BY <1>3, <1>4, <1>5, <1>6 DEF Setting

(* Nothing is read, played or logged at first.                             *)
LEMMA TracesStart == TraceInit => TraceInv
<1> SUFFICES ASSUME TraceInit  PROVE TraceInv
  OBVIOUS
<1>1. /\ files = FilesAtFirst /\ traces = [p \in {} |-> <<>>] /\ rows = <<>>
      /\ run = 1 /\ at_line = "start" /\ pass = 0 /\ position = 0
      /\ stats = [find |-> 0, insert |-> 0] /\ measured_hits = 0
  BY DEF TraceInit
<1>2. TraceTypes
  BY <1>1, TraceBenchmarkAssumption DEF TraceTypes, Paths
<1> QED BY <1>1, <1>2 DEF TraceInv, KeptTracesAreComplete

(* A file is replaced.                                                     *)
LEMMA ReplacingKeeps == TraceInv /\ ReplaceFile => TraceInv'
<1> SUFFICES ASSUME TraceInv, ReplaceFile  PROVE TraceInv'
  OBVIOUS
<1>1. PICK p \in Paths : files' = [files EXCEPT ![p] = FilesLater[p]]
  BY DEF ReplaceFile, TraceInv, TraceTypes
<1>2. UNCHANGED <<traces, run, at_line, pass, position, stored, stats, rows, measured_hits>>
  BY DEF ReplaceFile
<1>3. FilesLater[p] \in TraceFile
  BY TraceBenchmarkAssumption DEF Paths
<1>4. TraceTypes'
  BY <1>1, <1>2, <1>3 DEF TraceInv, TraceTypes
<1>5. PassIsCounted' = PassIsCounted
  BY <1>2 DEF PassIsCounted, Trace, Cached, Experiment
<1> QED BY <1>2, <1>4, <1>5 DEF TraceInv, KeptTracesAreComplete, RowIsRight

(* An experiment starts, or ends with an exception.                        *)
LEMMA StartingKeeps == TraceInv /\ StartRun => TraceInv'
<1> SUFFICES ASSUME TraceInv, StartRun  PROVE TraceInv'
  OBVIOUS
<1>1. /\ run <= Len(Experiments) /\ at_line' = "read" /\ pass' = 0 /\ position' = 0
      /\ stats' = [find |-> 0, insert |-> 0] /\ measured_hits' = 0
      /\ UNCHANGED <<files, traces, run, rows>>
  BY DEF StartRun
<1>2. TraceTypes'
  BY <1>1 DEF TraceInv, TraceTypes
<1> QED BY <1>1, <1>2 DEF TraceInv, KeptTracesAreComplete, RowIsRight

(* An experiment ends with an exception.                                   *)
LEMMA EndingKeeps == TraceInv /\ EndByException /\ UNCHANGED traces => TraceInv'
<1> SUFFICES ASSUME TraceInv, EndByException, UNCHANGED traces  PROVE TraceInv'
  OBVIOUS
<1>1. /\ at_line' = "start" /\ run' = run + 1
      /\ UNCHANGED <<files, traces, pass, position, stored, stats, rows, measured_hits>>
  BY DEF EndByException
<1>2. TraceTypes'
  BY <1>1 DEF TraceInv, TraceTypes
<1> QED BY <1>1, <1>2 DEF TraceInv, KeptTracesAreComplete, RowIsRight

(* A trace that was read is kept beside the others.                        *)
LEMMA ReadingKeeps == TraceInv /\ ReadFile => TraceInv'
<1> SUFFICES ASSUME TraceInv, ReadFile  PROVE TraceInv'
  OBVIOUS
<1> DEFINE p == Experiment.path
           words == files[p].words
           parsed == Parsed(words)
           trace == [records |-> parsed.records, distinct |-> parsed.distinct]
<1>1. CASE EndByException /\ UNCHANGED traces
  BY <1>1, EndingKeeps
<1>2. CASE /\ files[p].openable /\ parsed.ok
           /\ traces' = [q \in DOMAIN traces \cup {p} |-> IF q = p THEN trace ELSE traces[q]]
           /\ UNCHANGED <<files, run, at_line, pass, position, stored, stats, rows, measured_hits>>
  <2>1. TraceTypes /\ at_line = "read" /\ run <= Len(Experiments) /\ p \notin DOMAIN traces
    BY DEF TraceInv, ReadFile, Cached
  <2>2. p \in Paths
    BY <2>1, ExperimentFacts
  <2>3. words \in Seq(Nat) /\ words \in {FilesAtFirst[p].words, FilesLater[p].words}
    <3>1. files[p] \in TraceFile /\ files[p] \in {FilesAtFirst[p], FilesLater[p]}
      BY <2>1, <2>2 DEF TraceTypes
    <3>2. files[p].words \in Seq(Nat)
      BY <3>1 DEF TraceFile
    <3> QED BY <3>1, <3>2
  <2>4. /\ parsed.records \in Seq(TraceRecord)
        /\ parsed.distinct \in Nat
        /\ Len(words) >= 4
        /\ parsed.distinct = words[4]
        /\ Len(parsed.records) = words[2]
        /\ words[1] = 2 => Requests(parsed.records) = words[3]
    BY <1>2, <2>3, ParsedFacts
  <2>5. traces' = [q \in DOMAIN traces \cup {p} |-> IF q = p THEN trace ELSE traces[q]]
    BY <1>2
  <2>6. trace \in Kept
    BY <2>4 DEF Kept
  <2> HIDE DEF parsed
  <2>7. DOMAIN traces' = DOMAIN traces \cup {p} /\ traces'[p] = trace
    BY <2>5
  <2>8. \A q \in DOMAIN traces : traces'[q] = traces[q]
    BY <2>1, <2>5
  <2>9. TraceTypes'
    <3>1. traces' \in [DOMAIN traces' -> Kept]
      BY <2>1, <2>5, <2>6 DEF TraceTypes
    <3> QED BY <1>2, <2>1, <2>2, <2>7, <3>1 DEF TraceTypes
  <2>10. KeptTracesAreComplete'
    <3>1. ASSUME NEW q \in DOMAIN traces
          PROVE \E w \in {FilesAtFirst[q].words, FilesLater[q].words} :
                  /\ Len(w) >= 4
                  /\ traces'[q].distinct = w[4]
                  /\ Len(traces'[q].records) = w[2]
                  /\ w[1] = 2 => Requests(traces'[q].records) = w[3]
      BY <2>8 DEF TraceInv, KeptTracesAreComplete
    <3>2. /\ Len(words) >= 4
          /\ traces'[p].distinct = words[4]
          /\ Len(traces'[p].records) = words[2]
          /\ words[1] = 2 => Requests(traces'[p].records) = words[3]
      BY <2>4, <2>7
    <3> HIDE DEF p, words
    <3>3. \E w \in {FilesAtFirst[p].words, FilesLater[p].words} :
                  /\ Len(w) >= 4
                  /\ traces'[p].distinct = w[4]
                  /\ Len(traces'[p].records) = w[2]
                  /\ w[1] = 2 => Requests(traces'[p].records) = w[3]
      BY <2>3, <3>2
    <3> QED BY <2>7, <3>1, <3>3 DEF KeptTracesAreComplete
  <2>11. \A k \in DOMAIN rows : RowIsRight(rows[k])'
    <3> TAKE k \in DOMAIN rows
    <3>1. RowIsRight(rows[k])
      BY DEF TraceInv
    <3>2. rows'[k] = rows[k]
      BY <1>2
    <3> QED BY <2>7, <2>8, <3>1, <3>2 DEF RowIsRight
  <2> QED BY <1>2, <2>1, <2>9, <2>10, <2>11 DEF TraceInv
<1> QED BY <1>1, <1>2 DEF ReadFile

(* The trace is there.                                                     *)
LEMMA UsingKeeps == TraceInv /\ UseTrace => TraceInv'
<1> SUFFICES ASSUME TraceInv, UseTrace  PROVE TraceInv'
  OBVIOUS
<1>1. CASE EndByException
  BY <1>1, EndingKeeps DEF UseTrace
<1>2. CASE /\ at_line' = "measure"
           /\ UNCHANGED <<files, run, pass, position, stored, stats, rows, measured_hits>>
  <2>1. /\ TraceTypes /\ at_line = "read" /\ run <= Len(Experiments) /\ Cached
        /\ pass = 0 /\ position = 0 /\ measured_hits = 0 /\ traces' = traces
    BY DEF TraceInv, UseTrace
  <2>2. TraceTypes'
    BY <1>2, <2>1 DEF TraceTypes
  <2>3. Trace' = Trace /\ Cached' = Cached
    BY <1>2, <2>1 DEF Trace, Cached, Experiment
  <2>4. PassIsCounted'
    <3>1. Requests(Trace.records) \in Nat /\ Iterations \in Nat
      BY <2>1, ExperimentFacts, TraceBenchmarkAssumption
    <3> QED BY <1>2, <2>1, <2>3, <3>1 DEF PassIsCounted
  <2> QED BY <1>2, <2>1, <2>2, <2>4 DEF TraceInv, KeptTracesAreComplete, RowIsRight
<1> QED BY <1>1, <1>2 DEF UseTrace

(* What the steps of a pass have in common.                                *)
LEMMA MeasuringFacts ==
  ASSUME TraceInv, at_line = "measure"
  PROVE  /\ TraceTypes /\ run <= Len(Experiments) /\ PassIsCounted /\ Cached
         /\ Requests(Trace.records) \in Nat /\ Len(KeysOf(Trace.records)) = Requests(Trace.records)
         /\ Experiment.path \in Paths /\ Experiment.capacity \in Nat /\ Trace.distinct \in Nat
         /\ pass <= Iterations /\ position <= Requests(Trace.records)
         /\ stats.find \in Nat /\ stats.insert \in Nat /\ pass \in Nat /\ position \in Nat
<1>1. TraceTypes /\ run <= Len(Experiments) /\ PassIsCounted /\ Cached
  BY DEF TraceInv, PassIsCounted
<1> QED BY <1>1, ExperimentFacts DEF PassIsCounted, TraceTypes

(* One access of a pass.                                                   *)
LEMMA AccessKeeps == TraceInv /\ Access => TraceInv'
<1> SUFFICES ASSUME TraceInv, Access  PROVE TraceInv'
  OBVIOUS
<1> DEFINE length == Requests(Trace.records)
           before == (pass - 1) * length
<1>1. PICK hit \in BOOLEAN :
        /\ stats' = [find |-> stats.find + 1, insert |-> stats.insert + (IF hit THEN 0 ELSE 1)]
        /\ measured_hits' = IF hit /\ pass > 0 THEN measured_hits + 1 ELSE measured_hits
  BY DEF Access
<1>2. /\ at_line = "measure" /\ position < Len(KeysOf(Trace.records)) /\ position' = position + 1
      /\ UNCHANGED <<files, traces, run, at_line, pass, rows>>
  BY DEF Access
<1>3. /\ TraceTypes /\ run <= Len(Experiments) /\ PassIsCounted /\ Cached
      /\ length \in Nat /\ Len(KeysOf(Trace.records)) = length
      /\ stats.find \in Nat /\ stats.insert \in Nat /\ pass \in Nat /\ position \in Nat
  BY <1>2, MeasuringFacts
<1>4. Trace' = Trace /\ Cached'
  BY <1>2, <1>3 DEF Trace, Cached, Experiment
<1>5. TraceTypes'
  <2>1. stats' \in [find : Nat, insert : Nat]
    BY <1>1, <1>3
  <2>2. measured_hits' \in Nat /\ position' \in Nat
    BY <1>1, <1>2, <1>3 DEF TraceTypes
  <2> QED BY <1>2, <1>3, <2>1, <2>2 DEF TraceTypes
<1>6. PassIsCounted'
  <2>1. pass > 0 => before \in Nat
    BY <1>3
  <2>2. /\ pass <= Iterations /\ position <= length
        /\ pass = 0 => measured_hits = 0
        /\ pass > 0 => stats.find = before + position /\ stats.find - stats.insert = measured_hits
        /\ measured_hits \in Nat
    BY <1>3 DEF PassIsCounted, TraceTypes
  <2>3. stats'.find = stats.find + 1 /\ stats'.insert = stats.insert + (IF hit THEN 0 ELSE 1)
    BY <1>1
  <2> HIDE DEF before, length
  <2>4. /\ pass' <= Iterations /\ position' <= length
        /\ pass' = 0 => measured_hits' = 0
        /\ pass' > 0 => stats'.find = before + position' /\ stats'.find - stats'.insert = measured_hits'
    <3>1. pass' = pass /\ position' = position + 1 /\ position < length
      BY <1>2, <1>3
    <3>2. pass = 0 => measured_hits' = 0
      BY <1>1, <1>3, <2>2
    <3>3. ASSUME pass > 0
          PROVE  stats'.find = before + position' /\ stats'.find - stats'.insert = measured_hits'
      <4>1. before \in Nat /\ stats.find = before + position /\ stats.find - stats.insert = measured_hits
        BY <2>1, <2>2, <3>3
      <4>2. measured_hits' = IF hit THEN measured_hits + 1 ELSE measured_hits
        BY <1>1, <3>3
      <4> QED BY <1>3, <2>2, <2>3, <3>1, <4>1, <4>2
    <3> QED BY <1>3, <2>2, <3>1, <3>2, <3>3
  <2> QED BY <1>2, <1>4, <2>4 DEF PassIsCounted, before, length
<1> QED BY <1>2, <1>3, <1>5, <1>6 DEF TraceInv, KeptTracesAreComplete, RowIsRight

(* A pass ends, and the profile of it is dropped.                          *)
LEMMA EndPassKeeps == TraceInv /\ EndPass => TraceInv'
<1> SUFFICES ASSUME TraceInv, EndPass  PROVE TraceInv'
  OBVIOUS
<1> DEFINE length == Requests(Trace.records)
<1>1. /\ at_line = "measure" /\ position = Len(KeysOf(Trace.records)) /\ pass < Iterations
      /\ pass' = pass + 1 /\ position' = 0
      /\ stats' = IF pass' = 1 THEN [find |-> 0, insert |-> 0] ELSE stats
      /\ UNCHANGED <<files, traces, run, at_line, stored, rows, measured_hits>>
  BY DEF EndPass
<1>2. /\ TraceTypes /\ run <= Len(Experiments) /\ PassIsCounted /\ Cached
      /\ length \in Nat /\ position = length /\ pass \in Nat
  BY <1>1, MeasuringFacts
<1>3. Trace' = Trace /\ Cached'
  BY <1>1, <1>2 DEF Trace, Cached, Experiment
<1>4. TraceTypes'
  BY <1>1, <1>2 DEF TraceTypes
<1>5. PassIsCounted'
  <2>1. /\ pass = 0 => measured_hits = 0
        /\ pass > 0 => /\ stats.find = (pass - 1) * length + length
                       /\ stats.find - stats.insert = measured_hits
    BY <1>2 DEF PassIsCounted
  <2>2. pass > 0 => pass * length = (pass - 1) * length + length /\ pass * length \in Nat
    <3>1. ASSUME pass > 0
          PROVE  /\ pass - 1 \in Nat /\ (pass - 1) + 1 = pass
      BY <1>2, <3>1
    <3>2. \A i \in Nat : (i + 1) * length = i * length + length /\ (i + 1) * length \in Nat
      <4> TAKE i \in Nat
      <4> HIDE DEF length
      <4> QED BY <1>2, ProductFacts
    <3> HIDE DEF length
    <3> QED BY <3>1, <3>2
  <2>3. 0 * length = 0
    BY <1>2
  <2> HIDE DEF length
  <2>4. /\ pass' <= Iterations /\ position' <= length
        /\ pass' > 0
        /\ stats'.find = (pass' - 1) * length + position'
        /\ stats'.find - stats'.insert = measured_hits'
    <3>0. Iterations \in Nat /\ position' = 0 /\ pass' = pass + 1 /\ pass' - 1 = pass
      BY <1>1, <1>2, TraceBenchmarkAssumption
    <3>1. CASE pass = 0
      <4>1. stats'.find = 0 /\ stats'.insert = 0 /\ measured_hits' = 0
        BY <1>1, <2>1, <3>1, <3>0
      <4> QED BY <1>1, <1>2, <2>3, <3>0, <3>1, <4>1
    <3>2. CASE pass > 0
      <4>1. stats' = stats /\ measured_hits' = measured_hits
        BY <1>1, <1>2, <3>2
      <4>2. stats.find = pass * length + 0
        BY <2>1, <2>2, <3>2
      <4> QED BY <1>1, <1>2, <2>1, <3>0, <3>2, <4>1, <4>2
    <3> QED BY <1>2, <3>1, <3>2
  <2> QED BY <1>3, <2>4 DEF PassIsCounted, length
<1> QED BY <1>1, <1>2, <1>4, <1>5 DEF TraceInv, KeptTracesAreComplete, RowIsRight

(* The last pass ends, and its row is logged.                              *)
LEMMA LoggingKeeps == TraceInv /\ Log => TraceInv'
<1> SUFFICES ASSUME TraceInv, Log  PROVE TraceInv'
  OBVIOUS
<1> DEFINE length == Requests(Trace.records)
           logged == [run |-> run, path |-> Experiment.path, items |-> Trace.distinct,
                   capacity |-> Experiment.capacity, accesses |-> stats.find,
                   hits |-> stats.find - stats.insert, seen |-> measured_hits]
<1>1. /\ at_line = "measure" /\ position = Len(KeysOf(Trace.records)) /\ pass = Iterations
      /\ rows' = Append(rows, logged)
      /\ at_line' = "start" /\ run' = run + 1
      /\ UNCHANGED <<files, traces, pass, position, stored, stats, measured_hits>>
  BY DEF Log
<1>2. /\ TraceTypes /\ PassIsCounted /\ Cached
      /\ length \in Nat /\ position = length /\ pass \in Nat
      /\ Experiment.path \in Paths /\ Experiment.capacity \in Nat /\ Trace.distinct \in Nat
      /\ stats.find \in Nat /\ stats.insert \in Nat
  BY <1>1, MeasuringFacts
<1>3. logged \in Row
  BY <1>2 DEF Row, TraceTypes
<1>4. TraceTypes'
  BY <1>1, <1>2, <1>3 DEF TraceTypes
<1>5. RowIsRight(logged)
  <2>1. logged.path \in DOMAIN traces /\ logged.items = traces[logged.path].distinct /\ traces[logged.path] = Trace
    BY <1>2 DEF Cached, Trace
  <2>2. ASSUME Iterations > 0
        PROVE  logged.accesses = Iterations * length /\ logged.hits = logged.seen
    <3>1. stats.find = (pass - 1) * length + length /\ stats.find - stats.insert = measured_hits
      BY <1>1, <1>2, <2>2 DEF PassIsCounted
    <3>2. pass - 1 \in Nat /\ pass = (pass - 1) + 1
      BY <1>1, <1>2, <2>2
    <3>3. \A i \in Nat : (i + 1) * length = i * length + length
      <4> TAKE i \in Nat
      <4> HIDE DEF length
      <4> QED BY <1>2, ProductFacts
    <3> HIDE DEF length
    <3>4. pass * length = (pass - 1) * length + length
      BY <3>2, <3>3
    <3> QED BY <1>1, <3>1, <3>4
  <2> QED BY <2>1, <2>2 DEF RowIsRight
<1>6. \A k \in DOMAIN rows' : RowIsRight(rows'[k])
  <2>1. rows \in Seq(Row)
    BY <1>2 DEF TraceTypes
  <2> HIDE DEF logged
  <2>2. DOMAIN rows' = DOMAIN rows \cup {Len(rows) + 1} /\ rows'[Len(rows) + 1] = logged
    BY <1>1, <1>3, <2>1
  <2>3. \A k \in DOMAIN rows : rows'[k] = rows[k]
    BY <1>1, <1>3, <2>1
  <2> QED BY <1>5, <2>2, <2>3 DEF TraceInv
<1>7. \A k \in DOMAIN rows' : RowIsRight(rows[k])'
  BY <1>1, <1>6 DEF RowIsRight
<1> QED BY <1>1, <1>4, <1>7 DEF TraceInv, KeptTracesAreComplete

(* The invariant of the trace experiments: what a pass has counted is what *)
(* it has accessed, the kept traces are what their files held, and         *)
(* every row is that of its experiment.                                    *)
THEOREM TraceInvHolds == Spec => []TraceInv
<1>1. Init => TraceInv
  BY TracesStart DEF Init
<1>2. TraceInv /\ [Next]_vars => TraceInv'
  <2> SUFFICES ASSUME TraceInv, [Next]_vars  PROVE TraceInv'
    OBVIOUS
  <2>1. CASE TraceNext
    BY <2>1, ReplacingKeeps, StartingKeeps, ReadingKeeps, UsingKeeps, AccessKeeps, EndPassKeeps,
       LoggingKeeps DEF TraceNext
  <2>2. CASE UNCHANGED traceVars
    <3>1. UNCHANGED <<files, traces, run, at_line, pass, position, stats, rows, measured_hits>>
      BY <2>2 DEF traceVars
    <3>2. PassIsCounted' = PassIsCounted
      BY <3>1 DEF PassIsCounted, Trace, Cached, Experiment
    <3>3. TraceTypes'
      BY <3>1 DEF TraceInv, TraceTypes
    <3> QED BY <3>1, <3>2, <3>3 DEF TraceInv, KeptTracesAreComplete, RowIsRight
  <2> QED BY <2>1, <2>2 DEF Next, vars
<1> QED BY <1>1, <1>2, PTL DEF Spec

(* A trace that is kept is complete: it has as many records as a header    *)
(* its file has had announced, and makes as many requests as a header of   *)
(* the second version announced, whatever is done to the files meanwhile   *)
(* (readTraceFile and the cache of readTrace in benchmark.cpp).            *)
THEOREM KeptTracesComplete == Spec => []KeptTracesAreComplete
<1>1. TraceInv => KeptTracesAreComplete
  BY DEF TraceInv
<1> QED BY <1>1, TraceInvHolds, PTL

(* Every logged row counts the measured passes and nothing of the pass     *)
(* before them, and all rows on one path are about one trace (the reset    *)
(* after the first pass in traceBenchmark, TraceCsvLogger::log).           *)
THEOREM RowsAreRightAlways == Spec => []RowsAreRight
<1>1. TraceInv => RowsAreRight
  BY DEF TraceInv, RowIsRight, RowsAreRight, RowsCountMeasuredPasses, OneTracePerPath
<1> QED BY <1>1, TraceInvHolds, PTL

---------------------------------------------------------------------------
(* The allocation of a cache.                                              *)

(* Division by a positive number.                                          *)
LEMMA QuotientFacts ==
  ASSUME NEW a \in Nat, NEW d \in Nat \ {0}
  PROVE  /\ a \div d \in Nat /\ a % d \in Nat
         /\ a = d * (a \div d) + (a % d)
         /\ (a \div d) * d \in Nat /\ (a \div d) * d <= a
         /\ a < d => a \div d = 0
<1>1. a \div d \in Nat /\ a % d \in Nat /\ a = d * (a \div d) + (a % d)
  OBVIOUS
<1>2. a < d => a \div d = 0
  OBVIOUS
<1> DEFINE q == a \div d
           r == a % d
<1> HIDE DEF q, r
<1>3. q \in Nat /\ r \in Nat /\ a = d * q + r
  BY <1>1 DEF q, r
<1>4. q * d \in Nat /\ q * d = d * q
  BY <1>3
<1>5. q * d <= a
  BY <1>3, <1>4
<1> QED BY <1>1, <1>2, <1>4, <1>5 DEF q

(* The sum of equal shares, of which the first has the remainder.          *)
LEMMA SharesAddUp ==
  ASSUME NEW n \in Nat \ {0}, NEW c \in Nat, NEW r \in Nat, NEW f,
         f[0] = c + r, \A s \in 1 .. n - 1 : f[s] = c,
         NEW sum, sum = n * c + r
  PROVE  Total(f, 0 .. n - 1) = sum
<1> DEFINE T == {k \in Nat : k < n => Total(f, 0 .. k) = (k + 1) * c + r}
<1>0. \A s \in 0 .. n - 1 : f[s] \in Nat
  OBVIOUS
<1>1. 0 \in T
  <2>1. 0 .. 0 = {} \cup {0}
    OBVIOUS
  <2>2. f[0] = c + r /\ f[0] \in Nat
    OBVIOUS
  <2>3. Total(f, {} \cup {0}) = Total(f, {}) + f[0] /\ Total(f, {}) = 0
    <3> DEFINE B == {}
               x == 0
    <3>1. IsFiniteSet(B) /\ x \notin B /\ \A y \in B \cup {x} : f[y] \in Nat
      BY <2>2, FS_EmptySet
    <3>2. Total(f, {}) = 0
      <4>1. IsFiniteSet({}) /\ \A y \in {} : f[y] \in Nat
        BY FS_EmptySet
      <4> QED BY <4>1, TotalFacts
    <3> HIDE DEF B, x
    <3>3. Total(f, B \cup {x}) = Total(f, B) + f[x]
      BY <3>1, TotalOfMore
    <3> QED BY <3>2, <3>3 DEF B, x
  <2> QED BY <2>1, <2>2, <2>3
<1>2. ASSUME NEW k \in Nat, k \in T  PROVE k + 1 \in T
  <2> SUFFICES ASSUME k + 1 < n
               PROVE  Total(f, 0 .. k + 1) = (k + 2) * c + r
    BY <1>2
  <2>1. 0 .. k + 1 = (0 .. k) \cup {k + 1} /\ k + 1 \notin 0 .. k /\ IsFiniteSet(0 .. k)
    <3>1. 0 .. k + 1 = (0 .. k) \cup {k + 1} /\ k + 1 \notin 0 .. k
      OBVIOUS
    <3>2. IsFiniteSet(0 .. k)
      <4>1. 0 \in Int /\ k \in Int
        OBVIOUS
      <4> QED BY <4>1, FS_Interval
    <3> QED BY <3>1, <3>2
  <2>2. \A y \in (0 .. k) \cup {k + 1} : f[y] \in Nat
    BY <1>0
  <2>3. Total(f, (0 .. k) \cup {k + 1}) = Total(f, 0 .. k) + f[k + 1]
    <3> DEFINE B == 0 .. k
               x == k + 1
    <3>1. IsFiniteSet(B) /\ x \notin B /\ \A y \in B \cup {x} : f[y] \in Nat
      BY <2>1, <2>2
    <3> HIDE DEF B, x
    <3>2. Total(f, B \cup {x}) = Total(f, B) + f[x]
      BY <3>1, TotalOfMore
    <3> QED BY <3>2 DEF B, x
  <2>4. f[k + 1] = c
    OBVIOUS
  <2>5. Total(f, 0 .. k) = (k + 1) * c + r
    BY <1>2
  <2>6. (k + 2) * c = (k + 1) * c + c /\ (k + 1) * c \in Nat
    <3>1. k + 1 \in Nat /\ (k + 1) + 1 = k + 2
      OBVIOUS
    <3> HIDE DEF T
    <3>2. ((k + 1) + 1) * c = (k + 1) * c + c /\ (k + 1) * c \in Nat
      BY <3>1, ProductFacts
    <3> QED BY <3>1, <3>2
  <2> DEFINE p == (k + 1) * c
             q == (k + 2) * c
  <2>7. Total(f, 0 .. k + 1) = p + r + c /\ q = p + c /\ p \in Nat
    BY <2>1, <2>3, <2>4, <2>5, <2>6
  <2> HIDE DEF p, T
  <2>8. Total(f, 0 .. k + 1) = q + r
    <3> HIDE DEF q
    <3> QED BY <2>7
  <2> QED BY <2>8
<1> HIDE DEF T
<1>3. Nat \subseteq T
  BY <1>1, <1>2, NatSetInduction
<1>4. n - 1 \in T /\ n - 1 < n /\ (n - 1) + 1 = n
  BY <1>3
<1>5. Total(f, 0 .. n - 1) = ((n - 1) + 1) * c + r
  BY <1>4 DEF T
<1> QED BY <1>4, <1>5

(* Where no value is more than what another sum allows for so many times.  *)
LEMMA TotalTimes ==
  ASSUME NEW A, IsFiniteSet(A), NEW f, NEW e, NEW d \in Nat,
         \A x \in A : f[x] \in Nat /\ e[x] \in Nat /\ f[x] * d <= e[x]
  PROVE  Total(f, A) * d <= Total(e, A)
<1> DEFINE C == {s \in SUBSET A : Total(f, s) * d <= Total(e, s)}
<1>1. {} \in C
  <2>1. Total(f, {}) = 0 /\ Total(e, {}) = 0
    BY TotalFacts
  <2>2. 0 * d = 0
    OBVIOUS
  <2> QED BY <2>1, <2>2
<1>2. ASSUME NEW s \in SUBSET A, NEW x \in A \ s, s \in C  PROVE s \cup {x} \in C
  <2>1. IsFiniteSet(s)
    BY FS_Subset
  <2>2. /\ Total(f, s) \in Nat /\ Total(f, s \cup {x}) = Total(f, s) + f[x]
        /\ Total(e, s) \in Nat /\ Total(e, s \cup {x}) = Total(e, s) + e[x]
    BY <2>1, TotalOfMore
  <2>3. Total(f, s) * d <= Total(e, s)
    BY <1>2
  <2> DEFINE a == Total(f, s)
             b == f[x]
  <2> HIDE DEF C
  <2>4. f[x] * d <= e[x] /\ b \in Nat /\ e[x] \in Nat /\ a \in Nat
    BY <2>2
  <2>5. Total(f, s \cup {x}) * d <= Total(e, s \cup {x})
    <3> HIDE DEF a, b
    <3>1. (a + b) * d = a * d + b * d /\ a * d \in Nat /\ b * d \in Nat
      BY <2>4
    <3>2. a * d <= Total(e, s) /\ b * d <= e[x] /\ Total(f, s \cup {x}) = a + b
      BY <2>2, <2>3, <2>4 DEF a, b
    <3> QED BY <2>2, <2>4, <3>1, <3>2
  <2> QED BY <2>5 DEF C
<1> HIDE DEF C
<1>3. A \in C
  BY <1>1, <1>2, SubsetInduction
<1> QED BY <1>3 DEF C

AllocationTypes ==
  /\ kind \in Kinds /\ sharded \in BOOLEAN /\ capacity \in Nat /\ is_item_capacity \in BOOLEAN
  /\ stage \in {"allocate", "ready", "unwind", "destroyed", "undefined"} /\ shard \in Shards
  /\ max_element_count \in [Shards -> Nat] /\ total_mem_available \in [Shards -> Nat]
  /\ bucket_count \in [Shards -> Nat \cup {Garbage}]
  /\ storage \in [Shards -> {"array", "null", Garbage}]
  /\ list_head \in [Shards -> {"set", Garbage}]
  /\ order \in [Shards -> Seq(Keys)]

(* A shard that ContainerBase::init has given its share.                   *)
HasShare(s) ==
  /\ max_element_count[s] = ElementsFor(Share(s))
  /\ total_mem_available[s] = MemoryFor(Share(s))

HasBuckets(s) == bucket_count[s] \notin {0, Garbage}
HasList(s) == storage[s] = "array" /\ list_head[s] = "set"

(* The shards that are allocated, and those that still are when the last   *)
(* ones are already released.                                              *)
Allocated(s) == stage = "ready" \/ (stage = "allocate" /\ s < shard)
Standing(s) == Allocated(s) \/ (stage = "unwind" /\ s <= shard)

ShardIsSound(s) ==
  /\ Len(order[s]) <= max_element_count[s]
  /\ Allocated(s) => HasShare(s)
  /\ stage = "allocate" => order[s] = <<>> /\ (s >= shard => ~HasBuckets(s))
  /\ stage \in {"allocate", "ready"} /\ HasBuckets(s) => max_element_count[s] > 0
  /\ Adequate => /\ Allocated(s) => HasBuckets(s)
                 /\ Standing(s) => HasList(s)

AllocationInv ==
  /\ AllocationTypes /\ AdequateIsServed
  /\ \A s \in Shards : ShardIsSound(s)

(* The shards are numbered from 0.                                         *)
LEMMA ShardFacts ==
  ASSUME sharded \in BOOLEAN
  PROVE  /\ Cardinality(Shards) \in Nat \ {0}
         /\ Shards = 0 .. Cardinality(Shards) - 1
         /\ IsFiniteSet(Shards)
         /\ 0 \in Shards /\ Cardinality(Shards) - 1 \in Shards
         /\ \A s \in Shards : s \in Nat
<1>1. CASE sharded
  <2> DEFINE n == 2 ^ LogBucketCount
  <2>1. n \in Nat \ {0} /\ Shards = 0 .. n - 1
    BY <1>1, AllocationAssumption DEF Shards
  <2> HIDE DEF n
  <2> DEFINE e == n - 1
  <2>2. e \in Int /\ 0 \in Int
    BY <2>1
  <2>3. Shards = 0 .. e
    BY <2>1
  <2> HIDE DEF e
  <2>4. IsFiniteSet(Shards) /\ Cardinality(Shards) = IF 0 > e THEN 0 ELSE e - 0 + 1
    BY <2>2, <2>3, FS_Interval
  <2>5. Cardinality(Shards) = n
    BY <2>1, <2>4 DEF e
  <2> QED BY <2>1, <2>4, <2>5
<1>2. CASE ~sharded
  <2>1. Shards = {0}
    BY <1>2 DEF Shards
  <2>2. IsFiniteSet(Shards) /\ Cardinality(Shards) = 1
    BY <2>1, FS_Singleton
  <2>3. Shards = 0 .. 1 - 1
    BY <2>1
  <2> QED BY <2>1, <2>2, <2>3
<1> QED BY <1>1, <1>2

(* A share, and what ContainerBase::init makes of it.                      *)
LEMMA ShareFacts ==
  ASSUME AllocationTypes, NEW s \in Shards
  PROVE  /\ Share(s) \in Nat
         /\ ElementsFor(Share(s)) \in Nat /\ MemoryFor(Share(s)) \in Nat
         /\ is_item_capacity => ElementsFor(Share(s)) = Share(s)
         /\ ~is_item_capacity => /\ MemoryFor(Share(s)) = Share(s)
                                 /\ ElementsFor(Share(s)) * ElementSize <= Share(s)
<1> DEFINE n == Cardinality(Shards)
<1>1. n \in Nat \ {0} /\ capacity \in Nat /\ is_item_capacity \in BOOLEAN
  BY ShardFacts DEF AllocationTypes
<1> HIDE DEF n
<1>2. capacity \div n \in Nat /\ capacity % n \in Nat
  BY <1>1, QuotientFacts
<1>3. Share(s) \in Nat
  <2>1. CASE s = 0
    BY <1>2, <2>1 DEF Share, n
  <2>2. CASE s # 0
    BY <1>2, <2>2 DEF Share, n
  <2> QED BY <2>1, <2>2
<1>4. ElementSize \in Nat \ {0}
  BY AllocationAssumption
<1>5. Share(s) \div ElementSize \in Nat /\ (Share(s) \div ElementSize) * ElementSize <= Share(s)
  BY <1>3, <1>4, QuotientFacts
<1>6. Share(s) * ElementSize \in Nat
  BY <1>3, <1>4
<1> QED BY <1>1, <1>3, <1>5, <1>6 DEF ElementsFor, MemoryFor

(* The buckets for no elements, and for some.                              *)
LEMMA BucketFacts ==
  ASSUME NEW n \in Nat
  PROVE  /\ BucketsFor(n) \in Nat
         /\ n = 0 => BucketsFor(n) = 0
<1>1. LoadFactor \in Nat \ {0}
  BY AllocationAssumption
<1>2. /\ n \div LoadFactor \in Nat
      /\ (n + LoadFactor - 1) \div LoadFactor \in Nat
      /\ n = 0 => n \div LoadFactor = 0 /\ (n + LoadFactor - 1) \div LoadFactor = 0
  <2> DEFINE m == n + LoadFactor - 1
  <2>1. m \in Nat /\ (n = 0 => m < LoadFactor /\ n < LoadFactor)
    BY <1>1
  <2> HIDE DEF m
  <2>2. /\ n \div LoadFactor \in Nat /\ (n < LoadFactor => n \div LoadFactor = 0)
        /\ m \div LoadFactor \in Nat /\ (m < LoadFactor => m \div LoadFactor = 0)
    BY <1>1, <2>1, QuotientFacts
  <2> QED BY <2>1, <2>2 DEF m
<1> QED BY <1>2 DEF BucketsFor

(* Nothing has been allocated at first.                                    *)
LEMMA AllocationStarts == Init => AllocationInv
<1> SUFFICES ASSUME Init  PROVE AllocationInv
  OBVIOUS
<1>1. AllocationInit
  BY DEF Init
<1>2. Shards \subseteq Nat /\ 0 \in Shards
  BY <1>1, ShardFacts DEF AllocationInit
<1>3. AllocationTypes
  <2>1. /\ kind \in Kinds /\ sharded \in BOOLEAN /\ capacity \in Nat /\ is_item_capacity \in BOOLEAN
    BY <1>1, AllocationAssumption DEF AllocationInit
  <2> QED BY <1>1, <1>2, <2>1 DEF AllocationInit, AllocationTypes, Unset
<1>4. ASSUME NEW s \in Shards  PROVE ShardIsSound(s)
  <2>1. /\ stage = "allocate" /\ shard = 0 /\ order[s] = <<>> /\ max_element_count[s] = 0
        /\ bucket_count[s] \in {0, Garbage} /\ ~(s < shard)
    BY <1>1, <1>2 DEF AllocationInit, Unset
  <2> QED BY <2>1 DEF ShardIsSound, Allocated, Standing, HasBuckets
<1> QED BY <1>1, <1>3, <1>4 DEF AllocationInv, AdequateIsServed, AllocationInit

(* The operators of the constructor's arguments do not change.             *)
LEMMA AsConstructed ==
  ASSUME UNCHANGED constructed
  PROVE  /\ Shards' = Shards /\ Adequate' = Adequate
         /\ kind' = kind /\ sharded' = sharded /\ capacity' = capacity
         /\ is_item_capacity' = is_item_capacity
         /\ \A s : Share(s)' = Share(s)
         /\ \A s : ElementsFor(Share(s))' = ElementsFor(Share(s)) /\ MemoryFor(Share(s))' = MemoryFor(Share(s))
         /\ \A k : ShardOf(k)' = ShardOf(k)
BY DEF constructed, Shards, Adequate, Share, ElementsFor, MemoryFor, BucketsFor, ShardOf

(* A shard has been given its share, and the next one is to follow.        *)
LEMMA NextShardFollows ==
  ASSUME AllocationInv, NEW s \in Shards, InitBase(s), NextShard(s), memory' = <<
            max_element_count', total_mem_available', bucket_count', storage', list_head'>>,
         bucket_count' \in [Shards -> Nat \cup {Garbage}],
         storage' \in [Shards -> {"array", "null", Garbage}],
         list_head' \in [Shards -> {"set", Garbage}],
         \A u \in Shards \ {s} : /\ bucket_count'[u] = bucket_count[u]
                                 /\ storage'[u] = storage[u] /\ list_head'[u] = list_head[u],
         HasBuckets(s)' => max_element_count'[s] > 0,
         Adequate => HasBuckets(s)' /\ HasList(s)'
  PROVE  AllocationInv'
<1>1. /\ stage = "allocate" /\ shard = s /\ UNCHANGED <<constructed, order>>
      /\ max_element_count' = [max_element_count EXCEPT ![s] = ElementsFor(Share(s))]
      /\ total_mem_available' = [total_mem_available EXCEPT ![s] = MemoryFor(Share(s))]
      /\ shard' = IF s + 1 \in Shards THEN s + 1 ELSE s
      /\ stage' = IF s + 1 \in Shards THEN "allocate" ELSE "ready"
  BY DEF InitBase, NextShard
<1>2. /\ Shards' = Shards /\ Adequate' = Adequate
      /\ kind' = kind /\ sharded' = sharded /\ capacity' = capacity
      /\ is_item_capacity' = is_item_capacity
      /\ \A u : ElementsFor(Share(u))' = ElementsFor(Share(u)) /\ MemoryFor(Share(u))' = MemoryFor(Share(u))
  BY <1>1, AsConstructed
<1>3. AllocationTypes /\ s \in Nat /\ shard' \in Shards
  BY <1>1, ShardFacts DEF AllocationInv, AllocationTypes
<1>4. ElementsFor(Share(s)) \in Nat /\ MemoryFor(Share(s)) \in Nat
  BY <1>3, ShareFacts
<1>5. AllocationTypes'
  BY <1>1, <1>2, <1>3, <1>4 DEF AllocationTypes
<1>6. AdequateIsServed'
  BY <1>1 DEF AdequateIsServed
<1>7. ASSUME NEW u \in Shards  PROVE ShardIsSound(u)'
  <2>1. ShardIsSound(u) /\ u \in Nat /\ order'[u] = order[u] /\ order[u] = <<>>
    <3>1. ShardIsSound(u)
      BY DEF AllocationInv
    <3> QED BY <1>1, <1>3, <3>1, ShardFacts DEF ShardIsSound, AllocationTypes
  <2>2. /\ stage' = "allocate" => (u < shard' <=> u <= s)
        /\ stage' = "ready" => u <= s
    <3>1. CASE s + 1 \in Shards
      BY <1>1, <1>3, <2>1, <3>1
    <3>2. CASE s + 1 \notin Shards
      <4>1. u <= s
        <5> DEFINE n == Cardinality(Shards)
        <5>1. n \in Nat /\ Shards = 0 .. n - 1
          BY <1>3, ShardFacts DEF AllocationTypes
        <5> HIDE DEF n
        <5> QED BY <1>3, <3>2, <5>1
      <4> QED BY <1>1, <3>2, <4>1
    <3> QED BY <3>1, <3>2
  <2>3. stage' \in {"allocate", "ready"}
    BY <1>1
  <2>4. Allocated(u)' <=> u <= s
    BY <1>3, <2>1, <2>2, <2>3 DEF Allocated, AllocationTypes
  <2>5. Standing(u)' <=> u <= s
    BY <2>3, <2>4 DEF Standing
  <2>6. CASE u = s
    <3>1. max_element_count'[s] = ElementsFor(Share(s)) /\ total_mem_available'[s] = MemoryFor(Share(s))
      BY <1>1, <1>3 DEF AllocationTypes
    <3>2. HasShare(u)'
      BY <1>2, <2>6, <3>1 DEF HasShare
    <3>3. Len(order'[u]) <= max_element_count'[u]
      BY <1>4, <2>1, <2>6, <3>1
    <3>4. stage' = "allocate" => ~(s >= shard')
      <4>1. shard' \in Nat
        BY <1>3, ShardFacts DEF AllocationTypes
      <4> QED BY <1>3, <2>2, <2>6, <4>1
    <3>5. (HasBuckets(u)' => max_element_count'[u] > 0) /\ (Adequate => HasBuckets(u)' /\ HasList(u)')
      BY <2>6
    <3> QED BY <1>2, <2>1, <2>6, <3>2, <3>3, <3>4, <3>5 DEF ShardIsSound
  <2>7. CASE u # s
    <3>1. /\ max_element_count'[u] = max_element_count[u] /\ total_mem_available'[u] = total_mem_available[u]
          /\ bucket_count'[u] = bucket_count[u] /\ storage'[u] = storage[u] /\ list_head'[u] = list_head[u]
      BY <1>1, <1>3, <2>7 DEF AllocationTypes
    <3>2. Allocated(u) <=> u < s
      BY <1>1 DEF Allocated
    <3>3. u <= s <=> u < s
      BY <1>3, <2>1, <2>7
    <3>4. HasShare(u)' <=> HasShare(u)
      BY <1>2, <3>1 DEF HasShare
    <3>5. (HasBuckets(u)' <=> HasBuckets(u)) /\ (HasList(u)' <=> HasList(u))
      BY <3>1 DEF HasBuckets, HasList
    <3>6. stage' = "allocate" /\ u >= shard' => u >= shard
      BY <1>1, <1>3, <2>1
    <3> QED BY <1>1, <1>2, <2>1, <2>4, <2>5, <3>1, <3>2, <3>3, <3>4, <3>5, <3>6
            DEF ShardIsSound, Standing
  <2> QED BY <2>6, <2>7
<1> QED BY <1>2, <1>5, <1>6, <1>7 DEF AllocationInv

(* A shard for nothing: no capacity would suffice for it.                  *)
LEMMA NothingKeeps ==
  ASSUME AllocationInv, NEW s \in Shards, AllocateNothing(s)
  PROVE  AllocationInv'
<1>1. /\ InitBase(s) /\ NextShard(s) /\ Share(s) = 0 /\ kind # "HashFixed"
      /\ UNCHANGED <<bucket_count, storage, list_head>>
  BY DEF AllocateNothing
<1>2. AllocationTypes
  BY DEF AllocationInv
<1>3. ElementsFor(Share(s)) = 0
  <2>1. ElementSize \in Nat \ {0} /\ 0 \div ElementSize = 0
    BY AllocationAssumption, QuotientFacts
  <2> QED BY <1>1, <2>1 DEF ElementsFor
<1>4. ~Adequate
  <2>1. BucketsFor(ElementsFor(Share(s))) = 0
    BY <1>3, BucketFacts
  <2> QED BY <2>1 DEF Adequate
<1>5. ~HasBuckets(s)'
  <2>1. ~HasBuckets(s)
    BY <1>1, <1>2, ShardFacts DEF AllocationInv, ShardIsSound, InitBase, AllocationTypes
  <2> QED BY <1>1, <2>1 DEF HasBuckets
<1> QED BY <1>1, <1>2, <1>4, <1>5, NextShardFollows DEF AllocationTypes, memory

(* A shard with storage.                                                   *)
LEMMA AllocateKeeps ==
  ASSUME AllocationInv, NEW s \in Shards, Allocate(s)
  PROVE  AllocationInv'
<1> DEFINE n == ElementsFor(Share(s))
<1>1. /\ InitBase(s) /\ NextShard(s) /\ ~TooSmall(n)
      /\ bucket_count' = [bucket_count EXCEPT ![s] = BucketsFor(n)]
      /\ storage' = [storage EXCEPT ![s] = "array"]
      /\ list_head' = [list_head EXCEPT ![s] = "set"]
      /\ max_element_count' = [max_element_count EXCEPT ![s] = n]
  BY DEF Allocate, InitBase
<1>2. AllocationTypes
  BY DEF AllocationInv
<1>3. n \in Nat
  BY <1>2, ShareFacts
<1>4. BucketsFor(n) \in Nat /\ (n = 0 => BucketsFor(n) = 0)
  BY <1>3, BucketFacts
<1>5. bucket_count'[s] = BucketsFor(n) /\ max_element_count'[s] = n /\ HasList(s)'
  BY <1>1, <1>2 DEF AllocationTypes, HasList
<1> HIDE DEF n
<1>6. HasBuckets(s)' => max_element_count'[s] > 0
  BY <1>3, <1>4, <1>5 DEF HasBuckets
<1>7. Adequate => HasBuckets(s)'
  <2>1. Adequate => BucketsFor(n) >= 4
    BY DEF Adequate, n
  <2> QED BY <1>4, <1>5, <2>1, AllocationAssumption DEF HasBuckets
<1>8. /\ bucket_count' \in [Shards -> Nat \cup {Garbage}]
      /\ storage' \in [Shards -> {"array", "null", Garbage}]
      /\ list_head' \in [Shards -> {"set", Garbage}]
      /\ \A u \in Shards \ {s} : /\ bucket_count'[u] = bucket_count[u]
                                 /\ storage'[u] = storage[u] /\ list_head'[u] = list_head[u]
  BY <1>1, <1>2, <1>4 DEF AllocationTypes
<1> QED BY <1>1, <1>5, <1>6, <1>7, <1>8, NextShardFollows DEF memory

(* Too small: such a capacity is not adequate.                             *)
LEMMA ThrowKeeps ==
  ASSUME AllocationInv, NEW s \in Shards, ThrowTooSmall(s)
  PROVE  AllocationInv'
<1> DEFINE n == ElementsFor(Share(s))
<1>1. /\ stage = "allocate" /\ shard = s /\ UNCHANGED <<constructed, order, list_head>> /\ TooSmall(n)
      /\ max_element_count' = [max_element_count EXCEPT ![s] = n]
      /\ total_mem_available' = [total_mem_available EXCEPT ![s] = MemoryFor(Share(s))]
      /\ bucket_count' = [bucket_count EXCEPT ![s] = BucketsFor(n)]
      /\ storage' = [storage EXCEPT ![s] = IF kind = "LRU" THEN "array" ELSE @]
      /\ stage' = IF sharded THEN "unwind" ELSE "destroyed"
      /\ shard' = Cardinality(Shards) - 1
  BY DEF ThrowTooSmall, InitBase
<1>2. /\ Shards' = Shards /\ Adequate' = Adequate
      /\ kind' = kind /\ sharded' = sharded /\ capacity' = capacity
      /\ is_item_capacity' = is_item_capacity
  BY <1>1, AsConstructed
<1>3. AllocationTypes /\ shard' \in Shards
  BY <1>1, ShardFacts DEF AllocationInv, AllocationTypes
<1>4. n \in Nat /\ MemoryFor(Share(s)) \in Nat
  BY <1>3, ShareFacts
<1>5. BucketsFor(n) \in Nat
  BY <1>4, BucketFacts
<1>6. AllocationTypes'
  BY <1>1, <1>2, <1>3, <1>4, <1>5 DEF AllocationTypes
<1>7. ~Adequate
  BY <1>1, <1>5 DEF Adequate, TooSmall
<1>8. ASSUME NEW u \in Shards  PROVE ShardIsSound(u)'
  <2>1. order'[u] = <<>>
    BY <1>1 DEF AllocationInv, ShardIsSound
  <2>2. Len(order'[u]) <= max_element_count'[u]
    <3>1. max_element_count'[u] \in Nat
      BY <1>2, <1>6 DEF AllocationTypes
    <3> QED BY <2>1, <3>1
  <2> QED BY <1>1, <1>2, <1>7, <2>2 DEF ShardIsSound, Allocated
<1> QED BY <1>2, <1>6, <1>7, <1>8 DEF AllocationInv, AdequateIsServed

(* The destruction begins, and goes on to the next shard.                  *)
LEMMA DestroyKeeps ==
  ASSUME AllocationInv, Destroy
  PROVE  AllocationInv'
<1>1. /\ stage = "ready" /\ stage' = "unwind" /\ shard' = Cardinality(Shards) - 1
      /\ UNCHANGED <<constructed, memory, order>>
  BY DEF Destroy
<1>2. /\ Shards' = Shards /\ Adequate' = Adequate
      /\ kind' = kind /\ sharded' = sharded /\ capacity' = capacity
      /\ is_item_capacity' = is_item_capacity
  BY <1>1, AsConstructed
<1>3. AllocationTypes /\ shard' \in Shards
  BY <1>1, ShardFacts DEF AllocationInv, AllocationTypes
<1>4. AllocationTypes'
  BY <1>1, <1>2, <1>3 DEF AllocationTypes, memory
<1>5. ASSUME NEW u \in Shards  PROVE ShardIsSound(u)'
  BY <1>1, <1>2 DEF AllocationInv, ShardIsSound, Allocated, Standing, memory, HasList, HasBuckets
<1> QED BY <1>1, <1>2, <1>4, <1>5 DEF AllocationInv, AdequateIsServed

(* A shard gives back what it has allocated.                               *)
LEMMA ReleaseKeeps ==
  ASSUME AllocationInv, NEW s \in Shards, ReleaseMemory(s)
  PROVE  AllocationInv'
<1>1. /\ stage = "unwind" /\ shard = s
      /\ storage' = [storage EXCEPT ![s] = "null"]
      /\ bucket_count' = [bucket_count EXCEPT ![s] = 0]
      /\ order' = [order EXCEPT ![s] = <<>>]
      /\ shard' = IF s = 0 THEN 0 ELSE s - 1
      /\ stage' = IF s = 0 THEN "destroyed" ELSE "unwind"
      /\ UNCHANGED <<constructed, max_element_count, total_mem_available, list_head>>
  BY DEF ReleaseMemory
<1>2. /\ Shards' = Shards /\ Adequate' = Adequate
      /\ kind' = kind /\ sharded' = sharded /\ capacity' = capacity
      /\ is_item_capacity' = is_item_capacity
  BY <1>1, AsConstructed
<1>3. AllocationTypes /\ shard' \in Shards /\ s \in Nat
  <2> DEFINE n == Cardinality(Shards)
  <2>1. AllocationTypes /\ n \in Nat \ {0} /\ Shards = 0 .. n - 1
    BY ShardFacts DEF AllocationInv, AllocationTypes
  <2> HIDE DEF n
  <2> QED BY <1>1, <2>1
<1>4. AllocationTypes'
  BY <1>1, <1>2, <1>3 DEF AllocationTypes
<1>5. ASSUME NEW u \in Shards  PROVE ShardIsSound(u)'
  <2>1. ShardIsSound(u) /\ u \in Nat
    BY <1>3, ShardFacts DEF AllocationInv, AllocationTypes
  <2>2. CASE u = s
    <3>1. order'[u] = <<>> /\ max_element_count'[u] \in Nat
      BY <1>1, <1>3, <2>2 DEF AllocationTypes
    <3>2. ~Standing(u)' /\ stage' \notin {"allocate", "ready"}
      BY <1>1, <1>3, <2>2 DEF Standing, Allocated
    <3> QED BY <3>1, <3>2 DEF ShardIsSound, Standing
  <2>3. CASE u # s
    <3>1. order'[u] = order[u] /\ max_element_count'[u] = max_element_count[u] /\ storage'[u] = storage[u]
          /\ list_head'[u] = list_head[u]
      BY <1>1, <1>3, <2>3 DEF AllocationTypes
    <3>2. Standing(u)' => Standing(u)
      BY <1>1, <1>3, <2>1 DEF Standing, Allocated
    <3>3. HasList(u)' <=> HasList(u)
      BY <3>1 DEF HasList
    <3>4. ~Allocated(u)' /\ stage' \notin {"allocate", "ready"}
      BY <1>1 DEF Allocated
    <3> QED BY <1>2, <2>1, <3>1, <3>2, <3>3, <3>4 DEF ShardIsSound
  <2> QED BY <2>2, <2>3
<1> QED BY <1>1, <1>2, <1>4, <1>5 DEF AllocationInv, AdequateIsServed

(* A member that was never written is read: not with an adequate capacity. *)
LEMMA UndefinedKeeps ==
  ASSUME AllocationInv,
         (\E s \in Shards : ReleaseGarbage(s)) \/ (\E k \in Keys : CallUnserved(k))
  PROVE  AllocationInv'
<1>1. stage' = "undefined" /\ UNCHANGED <<constructed, shard, memory, order>>
  BY DEF ReleaseGarbage, CallUnserved, Undefined
<1>2. /\ Shards' = Shards /\ Adequate' = Adequate
      /\ kind' = kind /\ sharded' = sharded /\ capacity' = capacity
      /\ is_item_capacity' = is_item_capacity
  BY <1>1, AsConstructed
<1>3. AllocationTypes
  BY DEF AllocationInv
<1>4. AllocationTypes'
  BY <1>1, <1>2, <1>3 DEF AllocationTypes, memory
<1>5. ~Adequate
  <2>1. ASSUME NEW s \in Shards, ReleaseGarbage(s), Adequate  PROVE FALSE
    <3>1. Standing(s)
      BY <1>3, <2>1, ShardFacts DEF ReleaseGarbage, Standing, AllocationTypes
    <3>2. HasList(s)
      BY <2>1, <3>1 DEF AllocationInv, ShardIsSound
    <3>3. "array" # Garbage /\ "set" # Garbage
      BY AllocationAssumption
    <3> QED BY <2>1, <3>2, <3>3 DEF HasList, ReleaseGarbage, ReadsGarbage
  <2>2. ASSUME NEW k \in Keys, CallUnserved(k), Adequate  PROVE FALSE
    <3>1. ShardOf(k) \in Shards
      BY AllocationAssumption DEF ShardOf, Shards
    <3>2. HasBuckets(ShardOf(k))
      BY <2>2, <3>1 DEF AllocationInv, ShardIsSound, CallUnserved, Allocated
    <3> QED BY <2>2, <3>2 DEF HasBuckets, CallUnserved
  <2> QED BY <2>1, <2>2
<1>6. ASSUME NEW u \in Shards  PROVE ShardIsSound(u)'
  BY <1>1, <1>2, <1>5 DEF AllocationInv, ShardIsSound, Allocated, Standing, memory
<1> QED BY <1>1, <1>2, <1>4, <1>5, <1>6 DEF AllocationInv, AdequateIsServed

(* A call on a shard that has buckets changes the order of its keys only.  *)
LEMMA CallKeeps ==
  ASSUME AllocationInv, NEW s \in Shards, NEW keys, stage = "ready", HasBuckets(s),
         keys \in Seq(Keys), Len(keys) <= max_element_count[s],
         order' = [order EXCEPT ![s] = keys],
         UNCHANGED <<constructed, stage, shard, memory>>
  PROVE  AllocationInv'
<1>1. /\ Shards' = Shards /\ Adequate' = Adequate
      /\ kind' = kind /\ sharded' = sharded /\ capacity' = capacity
      /\ is_item_capacity' = is_item_capacity
      /\ \A u : ElementsFor(Share(u))' = ElementsFor(Share(u)) /\ MemoryFor(Share(u))' = MemoryFor(Share(u))
  BY AsConstructed
<1>2. AllocationTypes /\ AllocationTypes'
  BY <1>1 DEF AllocationInv, AllocationTypes, memory
<1>3. ASSUME NEW u \in Shards  PROVE ShardIsSound(u)'
  <2>1. ShardIsSound(u)
    BY DEF AllocationInv
  <2>2. Len(order'[u]) <= max_element_count'[u]
    BY <1>2, <2>1 DEF ShardIsSound, memory, AllocationTypes
  <2>3. /\ Allocated(u)' <=> Allocated(u)
        /\ Standing(u)' <=> Standing(u)
        /\ HasShare(u)' <=> HasShare(u)
        /\ HasBuckets(u)' <=> HasBuckets(u)
        /\ HasList(u)' <=> HasList(u)
        /\ max_element_count'[u] = max_element_count[u]
    BY <1>1 DEF Allocated, Standing, HasShare, HasBuckets, HasList, memory
  <2> QED BY <1>1, <2>1, <2>2, <2>3 DEF ShardIsSound
<1> QED BY <1>1, <1>2, <1>3 DEF AllocationInv, AdequateIsServed

(* A key is found, or put at the end, for the first one if there is no     *)
(* room.                                                                   *)
LEMMA HitKeeps ==
  ASSUME AllocationInv, NEW k \in Keys, Hit(k)
  PROVE  AllocationInv'
<1> DEFINE s == ShardOf(k)
<1>1. /\ s \in Shards /\ stage = "ready" /\ HasBuckets(s)
      /\ UNCHANGED <<constructed, stage, shard, memory>>
  BY AllocationAssumption DEF Hit, CanServe, HasBuckets, ShardOf, Shards
<1>2. PICK i \in DOMAIN order[s] :
        order' = [order EXCEPT ![s] = IF kind = "HashFixed" THEN @ ELSE Append(RemoveAt(@, i), k)]
  BY DEF Hit
<1> HIDE DEF s
<1>3. order[s] \in Seq(Keys) /\ Len(order[s]) <= max_element_count[s] /\ order \in [Shards -> Seq(Keys)]
  BY <1>1 DEF AllocationInv, AllocationTypes, ShardIsSound
<1> DEFINE queue == order[s]
           moved == Append(RemoveAt(queue, i), k)
<1>4. moved \in Seq(Keys) /\ Len(moved) = Len(queue)
  <2> DEFINE a == SubSeq(queue, 1, i - 1)
             b == SubSeq(queue, i + 1, Len(queue))
  <2>1. queue \in Seq(Keys) /\ Len(queue) \in Nat /\ i \in 1 .. Len(queue)
    BY <1>3
  <2> HIDE DEF queue
  <2>2. a \in Seq(Keys) /\ Len(a) = i - 1
    BY <2>1
  <2>3. b \in Seq(Keys) /\ Len(b) = Len(queue) - i
    BY <2>1
  <2>4. RemoveAt(queue, i) = a \o b
    BY DEF RemoveAt
  <2> HIDE DEF a, b
  <2>5. a \o b \in Seq(Keys) /\ Len(a \o b) = Len(queue) - 1
    BY <2>1, <2>2, <2>3
  <2> DEFINE c == a \o b
  <2>6. moved = Append(c, k)
    BY <2>4
  <2> HIDE DEF c, moved
  <2>7. c \in Seq(Keys) /\ Len(c) = Len(queue) - 1
    BY <2>5 DEF c
  <2> QED BY <2>1, <2>6, <2>7
<1>5. order' = [order EXCEPT ![s] = IF kind = "HashFixed" THEN queue ELSE moved]
  BY <1>2, <1>3
<1> HIDE DEF moved
<1> DEFINE keys == IF kind = "HashFixed" THEN queue ELSE moved
<1>6. keys \in Seq(Keys) /\ Len(keys) <= max_element_count[s]
  BY <1>3, <1>4
<1> HIDE DEF keys
<1>7. order' = [order EXCEPT ![s] = keys]
  BY <1>5 DEF keys
<1> QED BY <1>1, <1>6, <1>7, CallKeeps

(* A key that is not cached is inserted into its shard.                    *)
LEMMA MissKeeps ==
  ASSUME AllocationInv, NEW k \in Keys, Miss(k)
  PROVE  AllocationInv'
<1> DEFINE s == ShardOf(k)
           queue == order[s]
           kept == IF Full(s) THEN Tail(queue) ELSE queue
           keys == IF kind = "HashFixed" /\ Full(s) THEN queue ELSE Append(kept, k)
<1>1. /\ s \in Shards /\ stage = "ready" /\ HasBuckets(s)
      /\ UNCHANGED <<constructed, stage, shard, memory>>
  BY AllocationAssumption DEF Miss, CanServe, HasBuckets, ShardOf, Shards
<1>2. order' = [order EXCEPT ![s] = IF kind = "HashFixed" /\ Full(s) THEN @ ELSE Append(kept, k)]
  BY DEF Miss
<1> HIDE DEF s
<1>3. /\ queue \in Seq(Keys) /\ Len(queue) <= max_element_count[s] /\ order \in [Shards -> Seq(Keys)]
      /\ max_element_count[s] \in Nat /\ max_element_count[s] > 0
  BY <1>1 DEF AllocationInv, AllocationTypes, ShardIsSound
<1>4. Full(s) <=> Len(queue) >= max_element_count[s]
  BY DEF Full
<1>5. order' = [order EXCEPT ![s] = keys]
  BY <1>2, <1>3
<1> HIDE DEF queue
<1>6. kept \in Seq(Keys) /\ Len(kept) < max_element_count[s]
  <2>1. CASE Full(s)
    <3>1. Len(queue) > 0 /\ queue # <<>>
      BY <1>3, <1>4, <2>1
    <3>2. Tail(queue) \in Seq(Keys) /\ Len(Tail(queue)) = Len(queue) - 1
      BY <1>3, <3>1
    <3> QED BY <1>3, <2>1, <3>1, <3>2
  <2>2. CASE ~Full(s)
    BY <1>3, <1>4, <2>2
  <2> QED BY <2>1, <2>2
<1> HIDE DEF kept
<1>7. Append(kept, k) \in Seq(Keys) /\ Len(Append(kept, k)) <= max_element_count[s]
  BY <1>3, <1>6
<1>8. keys \in Seq(Keys) /\ Len(keys) <= max_element_count[s]
  BY <1>3, <1>7
<1> HIDE DEF keys
<1> QED BY <1>1, <1>5, <1>8, CallKeeps

(* The invariant of the allocation: the shards share the capacity, each    *)
(* is allocated as far as the steps it has taken, and what is in it is     *)
(* its own (lru.h:114, bucketed_adapter.h:30).                             *)
THEOREM AllocationInvHolds == Spec => []AllocationInv
<1>1. Init => AllocationInv
  BY AllocationStarts
<1>2. AllocationInv /\ [Next]_vars => AllocationInv'
  <2> SUFFICES ASSUME AllocationInv, [Next]_vars  PROVE AllocationInv'
    OBVIOUS
  <2>1. CASE AllocationNext
    <3>1. ASSUME NEW s \in Shards, AllocateNothing(s) \/ Allocate(s) \/ ThrowTooSmall(s) \/ ReleaseMemory(s)
          PROVE  AllocationInv'
      BY <3>1, NothingKeeps, AllocateKeeps, ThrowKeeps, ReleaseKeeps
    <3>2. ASSUME NEW k \in Keys, Hit(k) \/ Miss(k)  PROVE AllocationInv'
      BY <3>2, HitKeeps, MissKeeps
    <3>3. CASE (\E s \in Shards : ReleaseGarbage(s)) \/ (\E k \in Keys : CallUnserved(k))
      BY <3>3, UndefinedKeeps
    <3>4. CASE Destroy
      BY <3>4, DestroyKeeps
    <3> QED BY <2>1, <3>1, <3>2, <3>3, <3>4 DEF AllocationNext
  <2>2. CASE UNCHANGED allocationVars
    <3>1. UNCHANGED <<kind, sharded, capacity, is_item_capacity, stage, shard, max_element_count,
                      total_mem_available, bucket_count, storage, list_head, order>>
      BY <2>2 DEF allocationVars, constructed, memory
    <3>2. Shards' = Shards /\ Adequate' = Adequate
      BY <3>1 DEF Shards, Adequate, Share, ElementsFor, BucketsFor
    <3>3. ASSUME NEW s \in Shards  PROVE ShardIsSound(s)'
      BY <3>1, <3>2 DEF AllocationInv, ShardIsSound, Allocated, Standing, HasShare, HasBuckets, HasList,
         Share, ElementsFor, MemoryFor, Shards
    <3> QED BY <3>1, <3>2, <3>3 DEF AllocationInv, AllocationTypes, AdequateIsServed
  <2> QED BY <2>1, <2>2 DEF Next, vars
<1> QED BY <1>1, <1>2, PTL DEF Spec

(* For every number of shards and every capacity: what the shards were     *)
(* given adds up to what was asked for, in elements or in bytes; all of    *)
(* them together never hold more entries than that; and if it leaves no    *)
(* shard below the minimum, nothing that was never written is read, from   *)
(* allocateMemory to releaseMemory (BucketedAdapter, ContainerBase).       *)
THEOREM AllocationSound == Spec => []AllocationIsSound
<1>1. AllocationInv => CapacityAddsUp
  <2> SUFFICES ASSUME AllocationInv, stage = "ready"
               PROVE  IF is_item_capacity THEN SumOver(max_element_count) = capacity
                      ELSE /\ SumOver(total_mem_available) = capacity
                           /\ SumOver(max_element_count) * ElementSize <= capacity
    BY DEF CapacityAddsUp
  <2> DEFINE n == Cardinality(Shards)
             shares == [s \in Shards |-> Share(s)]
  <2>1. /\ AllocationTypes /\ n \in Nat \ {0} /\ capacity \in Nat
        /\ Shards = 0 .. n - 1 /\ IsFiniteSet(Shards)
    BY ShardFacts DEF AllocationInv, AllocationTypes
  <2>2. Total(shares, Shards) = capacity
    <3>1. capacity \div n \in Nat /\ capacity % n \in Nat /\ capacity = n * (capacity \div n) + (capacity % n)
      BY <2>1, QuotientFacts
    <3> DEFINE c == capacity \div n
               r == capacity % n
    <3>2. shares[0] = c + r /\ \A s \in 1 .. n - 1 : shares[s] = c
      <4>1. \A s \in Shards : shares[s] = c + (IF s = 0 THEN r ELSE 0)
        BY DEF Share
      <4> HIDE DEF n, c, r, shares
      <4>2. c \in Nat /\ r \in Nat
        BY <3>1 DEF c, r
      <4>3. 0 \in Shards /\ \A s \in 1 .. n - 1 : s \in Shards /\ s # 0
        BY <2>1
      <4> QED BY <4>1, <4>2, <4>3
    <3> HIDE DEF n, c, r, shares
    <3>3. c \in Nat /\ r \in Nat /\ capacity = n * c + r
      BY <3>1 DEF c, r
    <3>4. /\ n \in Nat \ {0} /\ c \in Nat /\ r \in Nat
          /\ shares[0] = c + r /\ \A s \in 1 .. n - 1 : shares[s] = c
      BY <2>1, <3>2, <3>3
    <3>5. Total(shares, 0 .. n - 1) = capacity
      BY <3>3, <3>4, SharesAddUp
    <3> QED BY <2>1, <3>5
  <2>3. ASSUME NEW s \in Shards
        PROVE  /\ max_element_count[s] = ElementsFor(Share(s)) /\ total_mem_available[s] = MemoryFor(Share(s))
               /\ shares[s] = Share(s) /\ Share(s) \in Nat /\ max_element_count[s] \in Nat
               /\ is_item_capacity => ElementsFor(Share(s)) = Share(s)
               /\ ~is_item_capacity => /\ MemoryFor(Share(s)) = Share(s)
                                       /\ ElementsFor(Share(s)) * ElementSize <= Share(s)
    <3>1. HasShare(s)
      BY DEF AllocationInv, ShardIsSound, Allocated
    <3> QED BY <2>1, <3>1, ShareFacts DEF HasShare
  <2> HIDE DEF shares
  <2>4. CASE is_item_capacity
    <3>1. \A s \in Shards : max_element_count[s] = shares[s]
      BY <2>3, <2>4
    <3>2. Total(max_element_count, Shards) = Total(shares, Shards)
      BY <2>1, <3>1, SameTotal
    <3> QED BY <2>2, <2>4, <3>2 DEF SumOver, Total
  <2>5. CASE ~is_item_capacity
    <3>1. \A s \in Shards : total_mem_available[s] = shares[s]
      BY <2>3, <2>5
    <3>2. Total(total_mem_available, Shards) = Total(shares, Shards)
      BY <2>1, <3>1, SameTotal
    <3>3. \A s \in Shards : /\ max_element_count[s] \in Nat /\ shares[s] \in Nat
                            /\ max_element_count[s] * ElementSize <= shares[s]
      BY <2>3, <2>5
    <3>4. ElementSize \in Nat
      BY AllocationAssumption
    <3>5. Total(max_element_count, Shards) * ElementSize <= Total(shares, Shards)
      BY <2>1, <3>3, <3>4, TotalTimes
    <3> QED BY <2>2, <2>5, <3>2, <3>5 DEF SumOver, Total
  <2> QED BY <2>4, <2>5
<1>2. AllocationInv => EntriesFit
  <2> SUFFICES ASSUME AllocationInv  PROVE EntriesFit
    OBVIOUS
  <2> DEFINE lengths == [s \in Shards |-> Len(order[s])]
  <2>1. IsFiniteSet(Shards)
    BY ShardFacts DEF AllocationInv, AllocationTypes
  <2>2. ASSUME NEW s \in Shards
        PROVE  lengths[s] \in Nat /\ max_element_count[s] \in Nat /\ lengths[s] <= max_element_count[s]
    <3>1. order[s] \in Seq(Keys) /\ max_element_count[s] \in Nat /\ Len(order[s]) <= max_element_count[s]
      BY DEF AllocationInv, AllocationTypes, ShardIsSound
    <3> QED BY <3>1
  <2>3. EntriesFit <=> Total(lengths, Shards) <= Total(max_element_count, Shards)
    BY DEF EntriesFit, SumOver, Total
  <2> HIDE DEF lengths
  <2> QED BY <2>1, <2>2, <2>3, SmallerTotal
<1>3. AllocationInv => AllocationIsSound
  BY <1>1, <1>2 DEF AllocationInv, AllocationIsSound
<1> QED BY <1>3, AllocationInvHolds, PTL

---------------------------------------------------------------------------
(* The script (Runner): the processes of the program and their log.        *)

RunnerTypes ==
  /\ attempt \in Nat /\ session \in Nat /\ call \in Nat /\ index \in Nat
  /\ worklist \in Seq(STRING \X Nat)
  /\ script \in {"over", "main", "stage", "loop", "launch", "wait", "ask"}
  /\ script \notin {"over", "main"} => worklist # <<>>
  /\ life = [p \in Processes |-> life[p]]
  /\ buffer = [p \in Processes |-> buffer[p]]
  /\ code = [p \in Processes |-> code[p]]
  /\ place = [p \in Processes |-> place[p]]
  /\ Started \subseteq Processes
  /\ \A p \in Started : place[p] \in Nat \X Nat \X Nat \X Nat

(* Processes are started in order, and each when the one before is gone.   *)
OneAfterTheOther ==
  /\ \A p \in Processes \ Started : life[p] = "unborn"
  /\ \A p \in Started : p < attempt \/ script # "wait" => life[p] = "gone"
  /\ script = "wait" => attempt > 0 /\ life[attempt] # "unborn"

(* What a process writes when it is done: a header when the log it opened  *)
(* was empty, and it still is.                                             *)
HeaderOf(p) == IF log = <<>> THEN <<Header>> ELSE <<>>
BuffersMatch ==
  \A p \in Processes :
    /\ life[p] = "open" => buffer[p] = HeaderOf(p)
    /\ life[p] = "logged" => buffer[p] = Append(HeaderOf(p), RowOf(p))

(* The header, and the rows of processes that were started one after the   *)
(* other and are done.                                                     *)
LineSet == {Header} \cup {RowOf(p) : p \in Processes}
LogMatches ==
  /\ log \in Seq(LineSet)
  /\ Len(log) > 0 => log[1] = Header
  /\ \A n \in 2 .. Len(log) : \E p \in Started : log[n] = RowOf(p) /\ life[p] \in {"exiting", "gone"}
  /\ \A m, n \in 2 .. Len(log) : m < n => log[m][2] < log[n][2]

(* The experiment the script has come to, and those it has passed: it goes *)
(* through the sessions, the benchmarks of each, the calls of run of each, *)
(* and the experiments of each.                                            *)
Place == <<session, Len(worklist), call, index>>

IsPassed(q) ==
  \/ q[1] < session
  \/ /\ q[1] = session
     /\ \/ script = "over"
        \/ q[2] > Len(worklist)
        \/ /\ q[2] = Len(worklist) /\ script # "main"
           /\ \/ q[3] < call
              \/ q[3] = call /\ script # "stage" /\ q[4] < index

(* An experiment is left for the next one, or started again after a kill.  *)
IsDone(p) ==
  \/ IsPassed(place[p])
  \/ script \in {"launch", "wait", "ask"} /\ place[p] = Place /\ code[p] = Killed

IsCurrent(p) == script \in {"wait", "ask"} /\ p = attempt

PlacesMatch ==
  /\ \A p \in Started : IsCurrent(p) \/ IsDone(p)
  /\ script \in {"wait", "ask"} => attempt > 0 /\ place[attempt] = Place
  /\ script = "ask" /\ cause # "code" => code[attempt] = Killed
  /\ \A p, q \in Started : p < q /\ place[p] = place[q] => code[p] = Killed

(* The experiments started in a call of run so far.                        *)
Reached == {place[p][4] : p \in OfThisCall}
ReachedMatches ==
  /\ script = "loop" => Reached = Start0 .. index - 1
  /\ script = "launch" => index >= Start0 /\ Reached \in {Start0 .. index - 1, Start0 .. index}
  /\ script \in {"wait", "ask"} => index >= Start0 /\ Reached = Start0 .. index

(* The processes and the log; the script.                                  *)
ProcessesInv == OneAfterTheOther /\ BuffersMatch /\ LogMatches
ScriptInv == PlacesMatch /\ ReachedMatches
RunnerInv == RunnerTypes /\ ProcessesInv /\ ScriptInv

---------------------------------------------------------------------------
(* The work list of a command line.                                        *)
LEMMA WorklistFacts ==
  ASSUME NEW line \in CommandLines
  PROVE  Worklist(line) \in Seq(STRING \X Nat)
<1> DEFINE S == STRING \X Nat
<1>1. line \in Seq([text : STRING, plus : BOOLEAN, number : Nat])
  BY RunnerAssumption
<1>2. ASSUME NEW taken
      PROVE  FlattenSeq([n \in DOMAIN line |->
               IF taken[n] THEN <<>>
               ELSE << <<line[n].text, IF IsPlus(line, n + 1) THEN line[n + 1].number ELSE 0>> >>]) \in Seq(S)
  <2> DEFINE ss == [n \in DOMAIN line |->
               IF taken[n] THEN <<>>
               ELSE << <<line[n].text, IF IsPlus(line, n + 1) THEN line[n + 1].number ELSE 0>> >>]
  <2>1. ASSUME NEW n \in DOMAIN line  PROVE ss[n] \in Seq(S)
    <3>1. \A m \in DOMAIN line : line[m].text \in STRING /\ line[m].number \in Nat
      <4>1. \A m \in DOMAIN line : line[m] \in [text : STRING, plus : BOOLEAN, number : Nat]
        BY <1>1, ElementIn
      <4> QED BY <4>1
    <3>2. line[n].text \in STRING /\ (IF IsPlus(line, n + 1) THEN line[n + 1].number ELSE 0) \in Nat
      <4>1. CASE IsPlus(line, n + 1)
        BY <3>1, <4>1 DEF IsPlus
      <4>2. CASE ~IsPlus(line, n + 1)
        BY <3>1, <4>2
      <4> QED BY <4>1, <4>2
    <3> DEFINE e == <<line[n].text, IF IsPlus(line, n + 1) THEN line[n + 1].number ELSE 0>>
    <3>3. e \in S
      BY <3>2
    <3>4. ss[n] = IF taken[n] THEN <<>> ELSE <<e>>
      OBVIOUS
    <3> HIDE DEF e, S, ss
    <3> QED BY <3>3, <3>4
  <2>2. DOMAIN line = 1 .. Len(line) /\ Len(line) \in Nat
    BY <1>1
  <2> DEFINE N == Len(line)
  <2>3. ss \in Seq(Seq(S))
    <3>1. ss = [n \in 1 .. N |-> ss[n]] /\ N \in Nat /\ \A n \in 1 .. N : ss[n] \in Seq(S)
      BY <2>1, <2>2
    <3> HIDE DEF ss, S, N
    <3> QED BY <3>1, OverSequence
  <2>4. FlattenSeq(ss) \in Seq(S)
    <3> HIDE DEF ss, S
    <3> QED BY <2>3, FlattenFacts
  <2> QED BY <2>4
<1> QED BY <1>2 DEF Worklist

(* The first three of four numbers.                                        *)
LEMMA FirstThree ==
  ASSUME NEW q, q \in Nat \X Nat \X Nat \X Nat
  PROVE  SubSeq(q, 1, 3) = <<q[1], q[2], q[3]>>
<1>1. \A j \in 1 .. 3 : q[j] \in Nat
  OBVIOUS
<1> DEFINE r == SubSeq(q, 1, 3)
<1>2. r \in Seq(Nat) /\ Len(r) = 3 /\ \A j \in 1 .. 3 : r[j] = q[j]
  <2>1. /\ r \in Seq(Nat) /\ Len(r) = IF 1 <= 3 THEN 3 - 1 + 1 ELSE 0
        /\ \A j \in 1 .. 3 - 1 + 1 : r[j] = q[1 + j - 1]
    BY <1>1, SubSeqProperties
  <2> HIDE DEF r
  <2> QED BY <2>1
<1> HIDE DEF r
<1>3. r = <<q[1], q[2], q[3]>>
  BY <1>1, <1>2
<1> QED BY <1>3 DEF r

(* The processes started for the present call of run.                      *)
InCall(q) == q[1] = session /\ q[2] = Len(worklist) /\ q[3] = call

(* Those are the processes with the three numbers of the call.             *)
LEMMA OfThisCallFacts ==
  ASSUME RunnerTypes
  PROVE  OfThisCall = {p \in Started : InCall(place[p])}
<1>1. ASSUME NEW p \in Started
      PROVE  SubSeq(place[p], 1, 3) = <<session, Len(worklist), call>> <=> InCall(place[p])
  <2>1. place[p] \in Nat \X Nat \X Nat \X Nat
    BY DEF RunnerTypes
  <2>2. SubSeq(place[p], 1, 3) = <<place[p][1], place[p][2], place[p][3]>>
    BY <2>1, FirstThree
  <2> DEFINE x == place[p][1]  y == place[p][2]  z == place[p][3]  l == Len(worklist)
             r == SubSeq(place[p], 1, 3)
  <2>3. r = <<x, y, z>>
    BY <2>2
  <2> HIDE DEF x, y, z, l, r
  <2>4. r = <<session, l, call>> <=> x = session /\ y = l /\ z = call
    BY <2>3
  <2> QED BY <2>4 DEF x, y, z, l, r, InCall
<1> QED BY <1>1 DEF OfThisCall

(* The start index is a number.                                            *)
LEMMA Start0Facts ==
  ASSUME RunnerTypes, worklist # <<>>
  PROVE  Start0 \in Nat
<1>1. Head(worklist) \in STRING \X Nat
  BY HeadTailProperties DEF RunnerTypes
<1> QED BY <1>1 DEF Start0

(* Nothing was started.                                                    *)
LEMMA RunnerStarts == RunnerInit => RunnerInv
<1> SUFFICES ASSUME RunnerInit  PROVE RunnerInv
  OBVIOUS
<1>1. /\ log = <<>> /\ life = [p \in Processes |-> "unborn"] /\ buffer = [p \in Processes |-> <<>>]
      /\ code = [p \in Processes |-> 0] /\ place = [p \in Processes |-> <<>>]
      /\ script = "over" /\ session = 0 /\ worklist = <<>> /\ call = 0 /\ index = 0 /\ attempt = 0
  BY DEF RunnerInit, LogInit
<1>2. Started = {}
  BY <1>1 DEF Started
<1>3. RunnerTypes
  BY <1>1, <1>2 DEF RunnerTypes
<1>4. OneAfterTheOther /\ BuffersMatch
  BY <1>1, <1>2 DEF OneAfterTheOther, BuffersMatch
<1>5. LogMatches
  BY <1>1 DEF LogMatches
<1>6. PlacesMatch /\ ReachedMatches
  BY <1>1, <1>2 DEF PlacesMatch, ReachedMatches
<1> QED BY <1>3, <1>4, <1>5, <1>6 DEF RunnerInv, ProcessesInv, ScriptInv

(* At most one process is alive: the one the script waits for.             *)
LEMMA OneIsAlive ==
  ASSUME RunnerTypes, OneAfterTheOther, NEW p \in Processes, life[p] \notin {"unborn", "gone"}
  PROVE  /\ p = attempt /\ p \in Started /\ script = "wait"
         /\ \A q \in Processes : q # p => life[q] \in {"unborn", "gone"}
         /\ \A q \in Started : q # p => life[q] = "gone"
<1>1. ASSUME NEW q \in Processes, life[q] \notin {"unborn", "gone"}
      PROVE  q = attempt /\ q \in Started /\ script = "wait"
  <2>1. q \in Started
    BY <1>1 DEF OneAfterTheOther
  <2>2. ~(q < attempt) /\ script = "wait"
    BY <1>1, <2>1 DEF OneAfterTheOther
  <2>3. q \in 1 .. attempt /\ attempt \in Nat
    BY <2>1 DEF Started, RunnerTypes
  <2> QED BY <2>1, <2>2, <2>3
<1>2. p = attempt /\ p \in Started /\ script = "wait"
  BY <1>1
<1>3. ASSUME NEW q \in Started, q # p  PROVE life[q] = "gone"
  <2>1. q \in 1 .. attempt /\ attempt \in Nat
    BY DEF Started, RunnerTypes
  <2>2. q < attempt
    BY <1>2, <1>3, <2>1
  <2> QED BY <2>2 DEF OneAfterTheOther
<1> QED BY <1>1, <1>2, <1>3

(* The script goes on while no process is alive.                           *)
LEMMA ProcessesStay ==
  ASSUME RunnerTypes, ProcessesInv, UNCHANGED <<log, life, buffer, attempt>>,
         script' # "wait", script # "wait" \/ life[attempt] = "gone"
  PROVE  ProcessesInv'
<1>1. \A p \in Started : life[p] = "gone"
  <2>1. \A p \in Started : p < attempt \/ p = attempt
    BY DEF Started, RunnerTypes
  <2> QED BY <2>1 DEF ProcessesInv, OneAfterTheOther
<1>2. OneAfterTheOther'
  BY <1>1 DEF ProcessesInv, OneAfterTheOther, Started
<1>3. BuffersMatch' /\ LogMatches'
  BY DEF ProcessesInv, BuffersMatch, LogMatches, HeaderOf, Started
<1> QED BY <1>2, <1>3 DEF ProcessesInv

(* A process is started.                                                   *)
LEMMA ProcessesLaunch ==
  ASSUME RunnerTypes, ProcessesInv, Launch
  PROVE  ProcessesInv'
<1> DEFINE n == attempt + 1
<1>1. /\ n \in Processes /\ attempt' = n /\ life' = [life EXCEPT ![n] = "started"]
      /\ script = "launch" /\ script' = "wait" /\ UNCHANGED <<log, buffer>>
  BY DEF Launch, Start
<1>2. attempt \in Nat /\ life = [p \in Processes |-> life[p]]
  BY DEF RunnerTypes
<1>3. Started' = Started \cup {n} /\ n \notin Started /\ \A p \in Started : p < n
  BY <1>1, <1>2 DEF Started
<1>4. \A p \in Processes : p # n => life'[p] = life[p]
  BY <1>1, <1>2
<1>5. life'[n] = "started"
  BY <1>1, <1>2
<1>6. OneAfterTheOther'
  <2>1. \A p \in Started : p \in Processes /\ life[p] = "gone"
    BY <1>1 DEF ProcessesInv, OneAfterTheOther, RunnerTypes
  <2>2. attempt' > 0
    BY <1>1, <1>2
  <2>5. ~(n < n)
    BY <1>2
  <2> HIDE DEF n
  <2>3. \A p \in Started' : p < attempt' => life'[p] = "gone"
    BY <1>1, <1>3, <1>4, <2>1, <2>2, <2>5
  <2>4. \A p \in Processes \ Started' : life'[p] = "unborn"
    BY <1>3, <1>4 DEF ProcessesInv, OneAfterTheOther
  <2> QED BY <1>1, <1>5, <2>2, <2>3, <2>4 DEF OneAfterTheOther
<1>7. BuffersMatch'
  BY <1>1, <1>4, <1>5 DEF ProcessesInv, BuffersMatch, HeaderOf
<1>8. LogMatches'
  <2>1. ASSUME NEW p \in Started  PROVE p \in Started' /\ life'[p] = life[p]
    <3>1. p \in Processes
      BY DEF RunnerTypes
    <3> QED BY <1>3, <1>4, <3>1
  <2> QED BY <1>1, <2>1 DEF ProcessesInv, LogMatches
<1> QED BY <1>6, <1>7, <1>8 DEF ProcessesInv

(* A process goes on, and has not come to its last write.                  *)
LEMMA ProcessGoesOn ==
  ASSUME RunnerTypes, ProcessesInv, NEW p \in Processes, life[p] \notin {"unborn", "gone"},
         NEW l, life' = [life EXCEPT ![p] = l], UNCHANGED <<log, attempt>>,
         l # "unborn", life[p] = "exiting" => l \in {"exiting", "gone"},
         script' = "wait" \/ l = "gone",
         \A q \in Processes : q # p => buffer'[q] = buffer[q],
         l = "open" => buffer'[p] = HeaderOf(p),
         l = "logged" => buffer'[p] = Append(HeaderOf(p), RowOf(p))
  PROVE  ProcessesInv'
<1>1. /\ p = attempt /\ p \in Started /\ script = "wait"
      /\ \A q \in Processes : q # p => life[q] \in {"unborn", "gone"}
      /\ \A q \in Started : q # p => life[q] = "gone"
  BY OneIsAlive DEF ProcessesInv
<1>2. life = [q \in Processes |-> life[q]] /\ Started \subseteq Processes
  BY DEF RunnerTypes
<1>3. Started' = Started /\ life'[p] = l /\ \A q \in Processes : q # p => life'[q] = life[q]
  BY <1>2 DEF Started
<1>4. OneAfterTheOther'
  <2>1. \A q \in Processes \ Started : life'[q] = "unborn"
    BY <1>1, <1>3 DEF ProcessesInv, OneAfterTheOther
  <2>2. \A q \in Started : q < attempt \/ script' # "wait" => life'[q] = "gone"
    <3>1. attempt \in Nat
      BY DEF RunnerTypes
    <3> QED BY <1>1, <1>2, <1>3, <3>1
  <2>3. attempt > 0 /\ life'[attempt] # "unborn"
    BY <1>1, <1>3 DEF ProcessesInv, OneAfterTheOther
  <2> QED BY <1>3, <2>1, <2>2, <2>3 DEF OneAfterTheOther
<1>5. BuffersMatch'
  BY <1>1, <1>3 DEF BuffersMatch, HeaderOf
<1>6. LogMatches'
  <2>1. \A q \in Started : life[q] \in {"exiting", "gone"} => life'[q] \in {"exiting", "gone"}
    BY <1>1, <1>2, <1>3
  <2> QED BY <1>3, <2>1 DEF ProcessesInv, LogMatches
<1> QED BY <1>4, <1>5, <1>6 DEF ProcessesInv

(* A row tells its process, and is no header.                              *)
LEMMA RowFacts == \A q : RowOf(q)[2] = q /\ RowOf(q) # Header
<1> TAKE q
<1>1. Len(RowOf(q)) = 2 /\ Len(Header) = 1 /\ RowOf(q)[2] = q
  BY DEF RowOf, Header
<1> QED BY <1>1

(* A row goes to the end of a log that has its header.                     *)
LEMMA RowIsAdded ==
  ASSUME RunnerTypes, LogMatches, log # <<>>, NEW p \in Started, life'[p] = "exiting",
         Started' = Started, log' = Append(log, RowOf(p)),
         \A q \in Started : q # p => q < p /\ life'[q] = life[q],
         life[p] \notin {"exiting", "gone"}
  PROVE  LogMatches'
<1> DEFINE N == Len(log)
<1>1. log \in Seq(LineSet) /\ N \in Nat /\ N # 0
  BY DEF LogMatches, LineSet
<1>2. p \in Processes /\ RowOf(p) \in LineSet
  BY DEF LineSet, RunnerTypes
<1>3. /\ log' \in Seq(LineSet) /\ Len(log') = N + 1 /\ log'[N + 1] = RowOf(p)
      /\ \A n \in 1 .. N : log'[n] = log[n]
  BY <1>1, <1>2, AppendFacts
<1>4. log'[1] = Header
  BY <1>1, <1>3 DEF LogMatches
<1>5. ASSUME NEW n \in 2 .. N  PROVE \E q \in Started : log[n] = RowOf(q) /\ log[n][2] = q /\ q # p /\ life'[q] = life[q]
                                       /\ life[q] \in {"exiting", "gone"} /\ q < p
  <2>1. PICK q \in Started : log[n] = RowOf(q) /\ life[q] \in {"exiting", "gone"}
    BY DEF LogMatches
  <2>2. q # p
    BY <2>1
  <2> QED BY <2>1, <2>2, RowFacts
<1>6. ASSUME NEW n \in 2 .. N + 1
      PROVE  \E q \in Started : log'[n] = RowOf(q) /\ life'[q] \in {"exiting", "gone"}
  <2>1. CASE n = N + 1
    BY <1>3, <2>1
  <2>2. CASE n # N + 1
    <3>1. n \in 2 .. N /\ log'[n] = log[n]
      BY <1>1, <1>3, <2>2
    <3>2. PICK q \in Started : log[n] = RowOf(q) /\ life'[q] = life[q] /\ life[q] \in {"exiting", "gone"}
      BY <1>5, <3>1
    <3> QED BY <3>1, <3>2
  <2> QED BY <2>1, <2>2
<1>7. ASSUME NEW m \in 2 .. N + 1, NEW n \in 2 .. N + 1, m < n  PROVE log'[m][2] < log'[n][2]
  <2>1. m \in 2 .. N /\ log'[m] = log[m]
    BY <1>1, <1>3, <1>7
  <2>2. CASE n = N + 1
    <3>1. PICK q \in Started : log[m][2] = q /\ q < p
      BY <1>5, <2>1
    <3>2. log'[n][2] = p
      BY <1>3, <2>2, RowFacts
    <3> QED BY <2>1, <3>1, <3>2
  <2>3. CASE n # N + 1
    <3>1. n \in 2 .. N /\ log'[n] = log[n]
      BY <1>1, <1>3, <2>3
    <3> QED BY <1>7, <2>1, <3>1 DEF LogMatches
  <2> QED BY <2>2, <2>3
<1> HIDE DEF N
<1> QED BY <1>1, <1>3, <1>4, <1>6, <1>7 DEF LogMatches, LineSet

(* A process closes the log.                                               *)
LEMMA ProcessCloses ==
  ASSUME RunnerTypes, ProcessesInv, NEW p \in Processes, Close(p), UNCHANGED <<attempt, script>>
  PROVE  ProcessesInv'
<1>1. /\ life[p] \in {"open", "logged"} /\ life' = [life EXCEPT ![p] = "exiting"]
      /\ log' = log \o buffer[p] /\ buffer' = [buffer EXCEPT ![p] = <<>>]
  BY DEF Close, Flushed
<1>2. /\ p = attempt /\ p \in Started /\ script = "wait"
      /\ \A q \in Processes : q # p => life[q] \in {"unborn", "gone"}
      /\ \A q \in Started : q # p => life[q] = "gone"
  BY <1>1, OneIsAlive DEF ProcessesInv
<1>3. life = [q \in Processes |-> life[q]] /\ Started \subseteq Processes /\ attempt \in Nat
  BY DEF RunnerTypes
<1>4. Started' = Started /\ life'[p] = "exiting" /\ \A q \in Processes : q # p => life'[q] = life[q]
  BY <1>1, <1>3 DEF Started
<1>5. OneAfterTheOther'
  <2>1. \A q \in Processes \ Started : life'[q] = "unborn"
    BY <1>2, <1>4 DEF ProcessesInv, OneAfterTheOther
  <2>2. \A q \in Started : q < attempt => life'[q] = "gone"
    BY <1>2, <1>3, <1>4
  <2>3. attempt > 0 /\ life'[attempt] # "unborn"
    BY <1>2, <1>4 DEF ProcessesInv, OneAfterTheOther
  <2> QED BY <1>2, <1>4, <2>1, <2>2, <2>3 DEF OneAfterTheOther
<1>6. BuffersMatch'
  BY <1>2, <1>4 DEF BuffersMatch
<1>7. \A q \in Started : q # p => q < p /\ life'[q] = life[q]
  BY <1>2, <1>3, <1>4 DEF Started
<1>8. /\ life[p] = "open" => buffer[p] = HeaderOf(p)
      /\ life[p] = "logged" => buffer[p] = Append(HeaderOf(p), RowOf(p))
  BY DEF ProcessesInv, BuffersMatch
<1>9. LogMatches /\ log \in Seq(LineSet)
  BY DEF ProcessesInv, LogMatches, LineSet
<1>10. LogMatches'
  <2>1. CASE log = <<>> /\ life[p] = "open"
    <3>1. log' = <<Header>>
      BY <1>1, <1>8, <2>1 DEF HeaderOf
    <3> QED BY <3>1 DEF LogMatches, LineSet
  <2>2. CASE log = <<>> /\ life[p] = "logged"
    <3>1. log' = <<Header, RowOf(p)>>
      BY <1>1, <1>8, <2>2 DEF HeaderOf
    <3>2. \A n \in 2 .. 2 : n = 2
      OBVIOUS
    <3>3. Len(log') = 2 /\ log'[1] = Header /\ log'[2] = RowOf(p)
      BY <3>1
    <3>4. \A n \in 2 .. Len(log') : \E q \in Started' : log'[n] = RowOf(q) /\ life'[q] \in {"exiting", "gone"}
      BY <1>2, <1>4, <3>2, <3>3
    <3>5. log' \in Seq(LineSet)
      BY <3>1 DEF LineSet
    <3> QED BY <3>2, <3>3, <3>4, <3>5 DEF LogMatches
  <2>3. CASE log # <<>> /\ life[p] = "open"
    <3>1. log' = log
      BY <1>1, <1>8, <1>9, <2>3 DEF HeaderOf
    <3>2. \A q \in Started : life[q] \in {"exiting", "gone"} => life'[q] \in {"exiting", "gone"}
      BY <1>4, <1>7
    <3> QED BY <1>4, <1>9, <3>1, <3>2 DEF LogMatches
  <2>4. CASE log # <<>> /\ life[p] = "logged"
    <3>1. buffer[p] = <<RowOf(p)>>
      BY <1>8, <2>4 DEF HeaderOf
    <3>2. log' = Append(log, RowOf(p))
      <4>1. RowOf(p) \in LineSet
        BY DEF LineSet
      <4> QED BY <1>1, <1>9, <3>1, <4>1
    <3> QED BY <1>1, <1>2, <1>4, <1>7, <1>9, <2>4, <3>2, RowIsAdded
  <2> QED BY <1>1, <2>1, <2>2, <2>3, <2>4
<1> QED BY <1>5, <1>6, <1>10 DEF ProcessesInv

(* A step of a process, or its end by a signal.                            *)
LEMMA ProcessesStep ==
  ASSUME RunnerTypes, ProcessesInv, NEW p \in Processes, UNCHANGED attempt,
         \/ (Works(p) \/ Fails(p)) /\ UNCHANGED script
         \/ Kill(p) /\ script' = "ask"
  PROVE  /\ ProcessesInv'
         /\ life' = [q \in Processes |-> life'[q]] /\ buffer' = [q \in Processes |-> buffer'[q]]
         /\ code' = [q \in Processes |-> code'[q]]
         /\ p = attempt /\ script = "wait" /\ p \in Started
         /\ \A q \in Started : q # p => code'[q] = code[q]
<1>1. /\ life = [q \in Processes |-> life[q]] /\ buffer = [q \in Processes |-> buffer[q]]
      /\ code = [q \in Processes |-> code[q]] /\ Started \subseteq Processes
  BY DEF RunnerTypes
<1>2. life[p] \notin {"unborn", "gone"}
  BY DEF Works, Fails, Open, LogRow, Close, Exit, ParseFails, OpenFails, Abort, Kill, Alive
<1>3. p = attempt /\ script = "wait" /\ p \in Started
  BY <1>2, OneIsAlive DEF ProcessesInv
<1>4. /\ life' = [q \in Processes |-> life'[q]] /\ buffer' = [q \in Processes |-> buffer'[q]]
      /\ code' = [q \in Processes |-> code'[q]]
      /\ \A q \in Processes : q # p => buffer'[q] = buffer[q] /\ code'[q] = code[q]
  BY <1>1 DEF Works, Fails, Open, LogRow, Close, Exit, ParseFails, OpenFails, Abort, Kill
<1>5. ASSUME NEW l, life' = [life EXCEPT ![p] = l], UNCHANGED log,
             l \in {"exiting", "gone"}, script' = "wait" \/ l = "gone"
      PROVE  ProcessesInv'
  BY <1>2, <1>4, <1>5, ProcessGoesOn
<1>6. ASSUME Open(p)  PROVE ProcessesInv'
  <2>1. /\ life' = [life EXCEPT ![p] = "open"] /\ UNCHANGED log /\ script' = "wait"
        /\ buffer'[p] = HeaderOf(p) /\ life[p] = "started"
    BY <1>1, <1>3, <1>6 DEF Open, HeaderIfEmpty, HeaderOf, Kill
  <2> QED BY <1>2, <1>4, <2>1, ProcessGoesOn
<1>7. ASSUME LogRow(p)  PROVE ProcessesInv'
  <2>1. buffer[p] = HeaderOf(p)
    BY <1>7 DEF LogRow, ProcessesInv, BuffersMatch
  <2>2. /\ life' = [life EXCEPT ![p] = "logged"] /\ UNCHANGED log /\ script' = "wait"
        /\ buffer'[p] = Append(HeaderOf(p), RowOf(p)) /\ life[p] = "open"
    BY <1>1, <1>3, <1>7, <2>1 DEF LogRow, Kill
  <2> QED BY <1>2, <1>4, <2>2, ProcessGoesOn
<1>8. ASSUME Close(p) /\ UNCHANGED script  PROVE ProcessesInv'
  BY <1>8, ProcessCloses
<1>9. ASSUME (Exit(p) \/ ParseFails(p) \/ OpenFails(p) \/ Abort(p)) /\ UNCHANGED script  PROVE ProcessesInv'
  <2>1. script' = "wait"
    BY <1>3, <1>9
  <2> QED BY <1>5, <1>9, <2>1 DEF Exit, ParseFails, OpenFails, Abort
<1>10. ASSUME Kill(p)  PROVE ProcessesInv'
  BY <1>5, <1>10 DEF Kill
<1>11. ProcessesInv'
  BY <1>6, <1>7, <1>8, <1>9, <1>10 DEF Works, Fails
<1> QED BY <1>1, <1>3, <1>4, <1>11

---------------------------------------------------------------------------
(* What the places are made of.                                            *)
LEMMA PlaceFacts ==
  ASSUME RunnerTypes
  PROVE  /\ Len(worklist) \in Nat
         /\ \A p \in Started : /\ place[p][1] \in Nat /\ place[p][2] \in Nat
                               /\ place[p][3] \in Nat /\ place[p][4] \in Nat
         /\ \A p \in Started : place[p] = Place => InCall(place[p]) /\ place[p][4] = index
<1>1. Len(worklist) \in Nat
  BY DEF RunnerTypes
<1>2. \A p \in Started : place[p] \in Nat \X Nat \X Nat \X Nat
  BY DEF RunnerTypes
<1>3. \A p \in Started : place[p] = Place => InCall(place[p]) /\ place[p][4] = index
  BY DEF Place, InCall
<1> QED BY <1>1, <1>2, <1>3

(* While no process is under way, the script leaves them all behind.       *)
LEMMA ScriptMovesOn ==
  ASSUME RunnerTypes, ScriptInv, UNCHANGED <<place, attempt, code>>,
         script' \notin {"launch", "wait", "ask"},
         \A p \in Started : IsPassed(place[p])', ReachedMatches'
  PROVE  ScriptInv'
<1>1. Started' = Started
  BY DEF Started
<1>2. PlacesMatch'
  BY <1>1 DEF ScriptInv, PlacesMatch, IsDone
<1> QED BY <1>2 DEF ScriptInv

(* The script is at the next experiment.                                   *)
LEMMA NextExperiment ==
  ASSUME RunnerTypes, ScriptInv, script \in {"wait", "ask"}, script' = "loop", index' = index + 1,
         UNCHANGED <<session, worklist, call, place, attempt, code>>
  PROVE  ScriptInv'
<1>1. \A p \in Started : IsPassed(place[p])'
  <2> SUFFICES ASSUME NEW p \in Started  PROVE IsPassed(place[p])'
    OBVIOUS
  <2>1. IsPassed(place[p]) \/ place[p] = Place
    BY DEF ScriptInv, PlacesMatch, IsCurrent, IsDone
  <2>2. IsPassed(place[p]) \/ (InCall(place[p]) /\ place[p][4] = index)
    BY <2>1, PlaceFacts
  <2>3. index \in Nat /\ place[p][4] \in Nat
    BY PlaceFacts DEF RunnerTypes
  <2> QED BY <2>2, <2>3 DEF IsPassed, InCall
<1>2. ReachedMatches'
  <2>1. Reached = Start0 .. index /\ index \in Nat
    BY DEF ScriptInv, ReachedMatches, RunnerTypes
  <2>2. Reached' = Reached /\ Start0' = Start0
    BY DEF Reached, OfThisCall, Start0, Calls, CurrentBenchmark, Started
  <2>3. (index + 1) - 1 = index
    BY <2>1
  <2> QED BY <2>1, <2>2, <2>3 DEF ReachedMatches
<1> QED BY <1>1, <1>2, ScriptMovesOn

(* The session is over.                                                    *)
LEMMA SessionEnds ==
  ASSUME RunnerTypes, ScriptInv, script # "over", script' = "over",
         UNCHANGED <<session, place, attempt, code>>
  PROVE  ScriptInv'
<1>1. \A p \in Started : IsPassed(place[p])'
  <2> SUFFICES ASSUME NEW p \in Started  PROVE IsPassed(place[p])'
    OBVIOUS
  <2>1. IsPassed(place[p]) \/ place[p] = Place
    BY DEF ScriptInv, PlacesMatch, IsCurrent, IsDone
  <2>2. IsPassed(place[p]) \/ InCall(place[p])
    BY <2>1, PlaceFacts
  <2> QED BY <2>2 DEF IsPassed, InCall
<1>2. ReachedMatches'
  BY DEF ReachedMatches
<1> QED BY <1>1, <1>2, ScriptMovesOn

(* Another session is begun.                                               *)
LEMMA SessionStarts ==
  ASSUME RunnerTypes, ScriptInv, NEW line \in CommandLines, StartSession(line)
  PROVE  RunnerTypes' /\ ScriptInv'
<1>1. /\ script = "over" /\ session' = session + 1 /\ script' \in {"main", "over"}
      /\ worklist' \in {Worklist(line), <<>>}
      /\ UNCHANGED <<log, life, buffer, code, call, index, attempt, place>>
  BY DEF StartSession, logVars, histVars
<1>2. worklist' \in Seq(STRING \X Nat)
  <2>1. Worklist(line) \in Seq(STRING \X Nat)
    BY WorklistFacts
  <2>2. <<>> \in Seq(STRING \X Nat)
    OBVIOUS
  <2> QED BY <1>1, <2>1, <2>2
<1>3. Started' = Started /\ session \in Nat /\ session' \in Nat
  BY <1>1 DEF Started, RunnerTypes
<1>4. RunnerTypes'
  <2>1. script' \in {"over", "main"}
    BY <1>1
  <2> QED BY <1>1, <1>2, <1>3, <2>1 DEF RunnerTypes
<1>5. \A p \in Started : IsPassed(place[p])'
  <2> SUFFICES ASSUME NEW p \in Started  PROVE IsPassed(place[p])'
    OBVIOUS
  <2>1. IsPassed(place[p])
    BY <1>1 DEF ScriptInv, PlacesMatch, IsCurrent, IsDone
  <2>2. place[p][1] <= session
    BY <1>1, <1>3, <2>1, PlaceFacts DEF IsPassed
  <2>3. place[p][1] < session'
    BY <1>1, <1>3, <2>2, PlaceFacts
  <2> QED BY <1>1, <2>3 DEF IsPassed
<1>6. ReachedMatches'
  BY <1>1 DEF ReachedMatches
<1> QED BY <1>1, <1>4, <1>5, <1>6, ScriptMovesOn

(* The next benchmark of the work list.                                    *)
LEMMA BenchmarkStarts ==
  ASSUME RunnerTypes, ScriptInv, NextBenchmark
  PROVE  RunnerTypes' /\ ScriptInv'
<1>1. /\ script = "main" /\ worklist # <<>> /\ call' = 1 /\ script' = "stage"
      /\ UNCHANGED <<log, life, buffer, code, session, worklist, index, attempt, place>>
  BY DEF NextBenchmark, logVars, histVars
<1>2. Started' = Started
  BY <1>1 DEF Started
<1>3. RunnerTypes'
  BY <1>1, <1>2 DEF RunnerTypes
<1>4. \A p \in Started : IsPassed(place[p])'
  <2> SUFFICES ASSUME NEW p \in Started  PROVE IsPassed(place[p])'
    OBVIOUS
  <2>1. IsPassed(place[p])
    BY <1>1 DEF ScriptInv, PlacesMatch, IsCurrent, IsDone
  <2> QED BY <1>1, <2>1 DEF IsPassed
<1>5. ReachedMatches'
  BY <1>1 DEF ReachedMatches
<1> QED BY <1>1, <1>3, <1>4, <1>5, ScriptMovesOn

(* The next call of run: nothing was started for it.                       *)
LEMMA RunStarts ==
  ASSUME RunnerTypes, ScriptInv, BeginRun
  PROVE  RunnerTypes' /\ ScriptInv'
<1>1. /\ script = "stage" /\ script' = "loop" /\ index' = 0
      /\ UNCHANGED <<log, life, buffer, code, session, worklist, call, attempt, place>>
  BY DEF BeginRun, logVars, histVars
<1>2. Started' = Started
  BY <1>1 DEF Started
<1>3. RunnerTypes'
  BY <1>1, <1>2 DEF RunnerTypes
<1>a. ASSUME NEW p \in Started  PROVE IsPassed(place[p])
  BY <1>1 DEF ScriptInv, PlacesMatch, IsCurrent, IsDone
<1>4. \A p \in Started : IsPassed(place[p])'
  <2> SUFFICES ASSUME NEW p \in Started  PROVE IsPassed(place[p])'
    OBVIOUS
  <2>1. IsPassed(place[p])
    BY <1>a
  <2> QED BY <1>1, <2>1 DEF IsPassed
<1>5. ReachedMatches'
  <2>1. ASSUME NEW p \in Started  PROVE ~InCall(place[p])
    <3>1. IsPassed(place[p])
      BY <1>a
    <3>2. place[p][1] \in Nat /\ place[p][2] \in Nat /\ place[p][3] \in Nat /\ session \in Nat
          /\ Len(worklist) \in Nat /\ call \in Nat
      BY PlaceFacts DEF RunnerTypes
    <3> QED BY <1>1, <3>1, <3>2 DEF IsPassed, InCall
  <2>2. OfThisCall = {}
    BY <2>1, OfThisCallFacts
  <2>3. Reached' = {}
    BY <1>1, <1>2, <2>2 DEF Reached, OfThisCall
  <2>4. Start0' \in Nat
    <3>1. Start0' = Start0
      BY <1>1 DEF Start0, Calls, CurrentBenchmark
    <3> QED BY <1>1, <3>1, Start0Facts DEF RunnerTypes
  <2>5. Start0' .. index' - 1 = {}
    BY <1>1, <2>4
  <2> QED BY <1>1, <2>3, <2>5 DEF ReachedMatches
<1> QED BY <1>1, <1>3, <1>4, <1>5, ScriptMovesOn

(* A call of run ends.                                                     *)
LEMMA RunEnds ==
  ASSUME RunnerTypes, ScriptInv, EndRun
  PROVE  RunnerTypes' /\ ScriptInv'
<1>1. /\ script = "loop" /\ script' = "stage" /\ call' = call + 1
      /\ UNCHANGED <<log, life, buffer, code, session, worklist, index, attempt, place>>
  BY DEF EndRun, logVars, histVars
<1>2. Started' = Started /\ call \in Nat /\ call' \in Nat /\ worklist' # <<>>
  BY <1>1 DEF Started, RunnerTypes
<1>3. RunnerTypes'
  BY <1>1, <1>2 DEF RunnerTypes
<1>4. \A p \in Started : IsPassed(place[p])'
  <2> SUFFICES ASSUME NEW p \in Started  PROVE IsPassed(place[p])'
    OBVIOUS
  <2>1. IsPassed(place[p])
    BY <1>1 DEF ScriptInv, PlacesMatch, IsCurrent, IsDone
  <2>2. place[p][3] \in Nat
    BY PlaceFacts
  <2> QED BY <1>1, <1>2, <2>1, <2>2 DEF IsPassed
<1>5. ReachedMatches'
  BY <1>1 DEF ReachedMatches
<1> QED BY <1>1, <1>3, <1>4, <1>5, ScriptMovesOn

(* A benchmark ends.                                                       *)
LEMMA BenchmarkEnds ==
  ASSUME RunnerTypes, ScriptInv, EndBenchmark
  PROVE  RunnerTypes' /\ ScriptInv'
<1>1. /\ script = "stage" /\ script' = "main" /\ worklist' = Tail(worklist)
      /\ UNCHANGED <<log, life, buffer, code, session, call, index, attempt, place>>
  BY DEF EndBenchmark, logVars, histVars
<1>2. Started' = Started
  BY <1>1 DEF Started
<1>3. worklist' \in Seq(STRING \X Nat) /\ Len(worklist') = Len(worklist) - 1 /\ Len(worklist) \in Nat
  BY <1>1, HeadTailProperties DEF RunnerTypes
<1>4. RunnerTypes'
  BY <1>1, <1>2, <1>3 DEF RunnerTypes
<1>5. \A p \in Started : IsPassed(place[p])'
  <2> SUFFICES ASSUME NEW p \in Started  PROVE IsPassed(place[p])'
    OBVIOUS
  <2>1. IsPassed(place[p])
    BY <1>1 DEF ScriptInv, PlacesMatch, IsCurrent, IsDone
  <2>2. place[p][2] \in Nat
    BY PlaceFacts
  <2> QED BY <1>1, <1>3, <2>1, <2>2 DEF IsPassed
<1>6. ReachedMatches'
  BY <1>1 DEF ReachedMatches
<1> QED BY <1>1, <1>4, <1>5, <1>6, ScriptMovesOn

(* An experiment is passed over, or is to be started.                      *)
LEMMA ExperimentIsVisited ==
  ASSUME RunnerTypes, ScriptInv, Visit
  PROVE  RunnerTypes' /\ ScriptInv'
<1>1. /\ script = "loop"
      /\ IF index < Start0 THEN index' = index + 1 /\ script' = "loop"
                           ELSE index' = index /\ script' = "launch"
      /\ UNCHANGED <<log, life, buffer, code, session, worklist, call, attempt, place>>
  BY DEF Visit, Skipped, logVars, histVars
<1>2. /\ Started' = Started /\ index \in Nat /\ Start0 \in Nat /\ Start0' = Start0
      /\ worklist # <<>>
  BY <1>1, Start0Facts DEF Started, RunnerTypes, Start0, Calls, CurrentBenchmark
<1>3. Reached = Start0 .. index - 1 /\ Reached' = Reached
  BY <1>1 DEF ScriptInv, ReachedMatches, Reached, OfThisCall, Started
<1>4. RunnerTypes'
  <2>1. index' \in Nat /\ script' \in {"loop", "launch"}
    BY <1>1, <1>2
  <2> QED BY <1>1, <1>2, <2>1 DEF RunnerTypes
<1>5. \A p \in Started : IsPassed(place[p])'
  <2> SUFFICES ASSUME NEW p \in Started  PROVE IsPassed(place[p])'
    OBVIOUS
  <2>1. IsPassed(place[p])
    BY <1>1 DEF ScriptInv, PlacesMatch, IsCurrent, IsDone
  <2>2. place[p][4] \in Nat
    BY PlaceFacts
  <2> QED BY <1>1, <1>2, <2>1, <2>2 DEF IsPassed
<1>6. CASE index < Start0
  <2>1. Start0 .. index - 1 = {} /\ Start0 .. index = {} /\ (index + 1) - 1 = index
    BY <1>2, <1>6
  <2>2. ReachedMatches'
    BY <1>1, <1>2, <1>3, <1>6, <2>1 DEF ReachedMatches
  <2> QED BY <1>1, <1>4, <1>5, <1>6, <2>2, ScriptMovesOn
<1>7. CASE ~(index < Start0)
  <2>1. index >= Start0 /\ index' = index /\ script' = "launch"
    BY <1>1, <1>2, <1>7
  <2>2. ReachedMatches'
    BY <1>2, <1>3, <2>1 DEF ReachedMatches
  <2>3. PlacesMatch'
    BY <1>1, <1>2, <1>5, <2>1 DEF ScriptInv, PlacesMatch, IsDone
  <2> QED BY <1>4, <2>2, <2>3 DEF ScriptInv
<1> QED BY <1>6, <1>7

(* The program is started for an experiment.                               *)
LEMMA ExperimentIsStarted ==
  ASSUME RunnerTypes, ScriptInv, Launch
  PROVE  RunnerTypes' /\ ScriptInv'
<1> DEFINE n == attempt + 1
<1>1. /\ script = "launch" /\ script' = "wait" /\ n \in Processes /\ attempt' = n
      /\ place' = [place EXCEPT ![n] = Place]
      /\ life' = [life EXCEPT ![n] = "started"]
      /\ UNCHANGED <<log, buffer, code, session, worklist, call, index>>
  BY DEF Launch, Start, Place, runVars
<1>2. /\ attempt \in Nat /\ place = [p \in Processes |-> place[p]] /\ life = [p \in Processes |-> life[p]]
      /\ Started \subseteq Processes /\ worklist # <<>>
  BY <1>1 DEF RunnerTypes
<1>3. Started' = Started \cup {n} /\ n \notin Started /\ n \in Nat /\ \A p \in Started : p < n
  BY <1>1, <1>2 DEF Started
<1>4. place'[n] = Place /\ \A p \in Started : place'[p] = place[p]
  BY <1>1, <1>2, <1>3
<1>5. Place \in Nat \X Nat \X Nat \X Nat /\ Place' = Place
  BY <1>1 DEF Place, RunnerTypes
<1>6. place' = [p \in Processes |-> place'[p]] /\ life' = [p \in Processes |-> life'[p]]
  BY <1>1, <1>2
<1>7. RunnerTypes'
  <2>1. \A p \in Started' : place'[p] \in Nat \X Nat \X Nat \X Nat
    BY <1>3, <1>4, <1>5 DEF RunnerTypes
  <2>2. Started' \subseteq Processes
    BY <1>1, <1>2, <1>3
  <2> QED BY <1>1, <1>3, <1>6, <2>1, <2>2 DEF RunnerTypes
<1>8. ASSUME NEW p \in Started
      PROVE  IsDone(p)' /\ (place[p] = Place => code[p] = Killed)
  <2>1. IsPassed(place[p]) \/ (place[p] = Place /\ code[p] = Killed)
    BY <1>1 DEF ScriptInv, PlacesMatch, IsCurrent, IsDone
  <2>2. ASSUME place[p] = Place  PROVE ~IsPassed(place[p])
    <3>1. InCall(place[p]) /\ place[p][4] = index
      BY <2>2, PlaceFacts
    <3>2. session \in Nat /\ Len(worklist) \in Nat /\ call \in Nat /\ index \in Nat
      BY DEF RunnerTypes
    <3> QED BY <1>1, <3>1, <3>2 DEF IsPassed, InCall
  <2>3. IsPassed(place[p]) => IsPassed(place[p])'
    BY <1>1, <1>4 DEF IsPassed
  <2> QED BY <1>1, <1>4, <1>5, <2>1, <2>2, <2>3 DEF IsDone
<1>9. PlacesMatch'
  <2>1. \A p \in Started' : IsCurrent(p)' \/ IsDone(p)'
    BY <1>1, <1>3, <1>8 DEF IsCurrent
  <2>2. attempt' > 0 /\ place'[attempt'] = Place'
    BY <1>1, <1>2, <1>4, <1>5
  <2>3. ASSUME NEW p \in Started', NEW q \in Started', p < q, place'[p] = place'[q]  PROVE code'[p] = Killed
    <3>1. p \in Started
      BY <1>3, <2>3 DEF Started
    <3>2. CASE q = n
      BY <1>1, <1>4, <1>8, <2>3, <3>1, <3>2
    <3>3. CASE q # n
      <4>1. q \in Started
        BY <1>3, <3>3
      <4> QED BY <1>1, <1>4, <2>3, <3>1, <4>1 DEF ScriptInv, PlacesMatch
    <3> QED BY <3>2, <3>3
  <2> QED BY <1>1, <2>1, <2>2, <2>3 DEF PlacesMatch
<1>10. ReachedMatches'
  <2>1. OfThisCall \subseteq Started
    BY DEF OfThisCall
  <2>2. SubSeq(Place, 1, 3) = <<session, Len(worklist), call>> /\ Place[4] = index
    <3>1. SubSeq(Place, 1, 3) = <<Place[1], Place[2], Place[3]>>
      BY <1>5, FirstThree
    <3>2. Place[1] = session /\ Place[2] = Len(worklist) /\ Place[3] = call /\ Place[4] = index
      BY DEF Place
    <3> QED BY <3>1, <3>2
  <2>5. OfThisCall' = OfThisCall \cup {n}
    <3> HIDE DEF n
    <3>1. OfThisCall' = {p \in Started \cup {n} : SubSeq(place'[p], 1, 3) = <<session, Len(worklist), call>>}
      BY <1>1, <1>3 DEF OfThisCall
    <3>2. SubSeq(place'[n], 1, 3) = <<session, Len(worklist), call>>
      BY <1>4, <2>2
    <3> QED BY <1>3, <1>4, <3>1, <3>2 DEF OfThisCall
  <2>6. Reached' = Reached \cup {index}
    <3>1. place'[n][4] = index
      BY <1>4, <2>2
    <3> HIDE DEF n
    <3> QED BY <1>4, <2>1, <2>5, <3>1 DEF Reached
  <2>7. index >= Start0 /\ Reached \in {Start0 .. index - 1, Start0 .. index} /\ Start0' = Start0
    BY <1>1 DEF ScriptInv, ReachedMatches, Start0, Calls, CurrentBenchmark
  <2>8. Start0 \in Nat /\ index \in Nat
    BY <1>2, Start0Facts DEF RunnerTypes
  <2>9. Reached' = Start0 .. index
    BY <2>6, <2>7, <2>8
  <2> QED BY <1>1, <2>7, <2>9 DEF ReachedMatches
<1> QED BY <1>7, <1>9, <1>10 DEF ScriptInv

(* The user is asked about the process that has just ended.                *)
LEMMA UserIsAsked ==
  ASSUME RunnerTypes, ScriptInv, script = "wait", script' = "ask",
         UNCHANGED <<session, worklist, call, index, place, attempt>>,
         \A p \in Started : p # attempt => code'[p] = code[p],
         cause' # "code" => code'[attempt] = Killed
  PROVE  ScriptInv'
<1>1. Started' = Started /\ attempt \in Nat
  BY DEF Started, RunnerTypes
<1>2. ASSUME NEW p \in Started  PROVE IsCurrent(p)' \/ IsDone(p)'
  <2>1. IsPassed(place[p]) => IsPassed(place[p])'
    BY DEF IsPassed
  <2>2. p = attempt \/ code'[p] = code[p]
    OBVIOUS
  <2> QED BY <2>1, <2>2 DEF ScriptInv, PlacesMatch, IsCurrent, IsDone, Place
<1>3. \A p, q \in Started : p < q /\ place[p] = place[q] => code'[p] = Killed
  <2>1. \A p, q \in Started : p < q => p # attempt
    BY <1>1 DEF Started
  <2> QED BY <2>1 DEF ScriptInv, PlacesMatch
<1>4. PlacesMatch'
  BY <1>1, <1>2, <1>3 DEF ScriptInv, PlacesMatch, Place
<1>5. ReachedMatches'
  BY <1>1 DEF ScriptInv, ReachedMatches, Reached, OfThisCall, Start0, Calls, CurrentBenchmark
<1> QED BY <1>4, <1>5 DEF ScriptInv

(* A process goes on while the script waits for it.                        *)
LEMMA ScriptWaits ==
  ASSUME RunnerTypes, ScriptInv, script = "wait",
         UNCHANGED <<script, session, worklist, call, index, place, attempt>>,
         \A p \in Started : p # attempt => code'[p] = code[p]
  PROVE  ScriptInv'
<1>1. Started' = Started /\ attempt \in Nat
  BY DEF Started, RunnerTypes
<1>2. ASSUME NEW p \in Started  PROVE IsCurrent(p)' \/ IsDone(p)'
  <2>1. IsPassed(place[p]) => IsPassed(place[p])'
    BY DEF IsPassed
  <2>2. p = attempt \/ code'[p] = code[p]
    OBVIOUS
  <2> QED BY <2>1, <2>2 DEF ScriptInv, PlacesMatch, IsCurrent, IsDone, Place
<1>3. \A p, q \in Started : p < q /\ place[p] = place[q] => code'[p] = Killed
  <2>1. \A p, q \in Started : p < q => p # attempt
    BY <1>1 DEF Started
  <2> QED BY <2>1 DEF ScriptInv, PlacesMatch
<1>4. PlacesMatch'
  BY <1>1, <1>2, <1>3 DEF ScriptInv, PlacesMatch, Place
<1>5. ReachedMatches'
  BY <1>1 DEF ScriptInv, ReachedMatches, Reached, OfThisCall, Start0, Calls, CurrentBenchmark
<1> QED BY <1>4, <1>5 DEF ScriptInv

(* The program is started again for the experiment that was killed.        *)
LEMMA StartsAgain ==
  ASSUME RunnerTypes, ScriptInv, script = "ask", cause # "code", script' = "launch",
         UNCHANGED <<session, worklist, call, index, place, attempt, code>>
  PROVE  ScriptInv'
<1>1. Started' = Started
  BY DEF Started
<1>2. ASSUME NEW p \in Started  PROVE IsDone(p)'
  <2>1. IsPassed(place[p]) => IsPassed(place[p])'
    BY DEF IsPassed
  <2> QED BY <2>1 DEF ScriptInv, PlacesMatch, IsCurrent, IsDone, Place
<1>3. PlacesMatch'
  BY <1>1, <1>2 DEF ScriptInv, PlacesMatch
<1>4. ReachedMatches'
  BY <1>1 DEF ScriptInv, ReachedMatches, Reached, OfThisCall, Start0, Calls, CurrentBenchmark
<1> QED BY <1>3, <1>4 DEF ScriptInv

(* Nothing changes.                                                        *)
LEMMA RunnerRests ==
  ASSUME RunnerInv, UNCHANGED runnerVars
  PROVE  RunnerInv'
<1>1. UNCHANGED <<log, life, buffer, code, script, session, worklist, call, index, attempt, place, cause>>
  BY DEF runnerVars, logVars, runVars, histVars
<1>2. Started' = Started
  BY <1>1 DEF Started
<1>3. RunnerTypes'
  BY <1>1, <1>2 DEF RunnerInv, RunnerTypes
<1>4. ProcessesInv'
  BY <1>1, <1>2 DEF RunnerInv, ProcessesInv, OneAfterTheOther, BuffersMatch, LogMatches, HeaderOf
<1>5. PlacesMatch'
  BY <1>1, <1>2 DEF RunnerInv, ScriptInv, PlacesMatch, Place, IsDone, IsPassed, IsCurrent
<1>6. ReachedMatches'
  BY <1>1, <1>2 DEF RunnerInv, ScriptInv, ReachedMatches, Reached, OfThisCall, Start0, Calls, CurrentBenchmark
<1> QED BY <1>3, <1>4, <1>5, <1>6 DEF RunnerInv, ScriptInv

(* The invariant of the script: the processes come one after the other,    *)
(* what they write depends on the log only when no other is alive, the     *)
(* script never comes back to an experiment but after a kill, and passes   *)
(* over none from the start index on.                                      *)
THEOREM RunnerInvHolds == RunnerSpec => []RunnerInv
<1>1. RunnerInit => RunnerInv
  BY RunnerStarts
<1>2. RunnerInv /\ [RunnerNext]_runnerVars => RunnerInv'
  <2> SUFFICES ASSUME RunnerInv, [RunnerNext]_runnerVars  PROVE RunnerInv'
    OBVIOUS
  <2>a. RunnerTypes /\ ProcessesInv /\ ScriptInv
    BY DEF RunnerInv
  <2>b. session \in Nat /\ call \in Nat /\ index \in Nat /\ attempt \in Nat /\ index + 1 \in Nat
    BY <2>a DEF RunnerTypes
  <2>c. ASSUME UNCHANGED <<log, life, buffer, code, session, worklist, call, attempt, place>>,
               index' \in Nat, script' \in {"over", "main", "stage", "loop", "launch", "wait", "ask"},
               script' \notin {"over", "main"} => worklist # <<>>
        PROVE  RunnerTypes'
    <3>1. Started' = Started
      BY <2>c DEF Started
    <3> QED BY <2>a, <2>c, <3>1 DEF RunnerTypes
  <2>d. script = "wait" => life[attempt] # "unborn"
    BY <2>a DEF ProcessesInv, OneAfterTheOther
  <2>1. CASE UNCHANGED runnerVars
    BY <2>1, RunnerRests
  <2>2. CASE \E line \in CommandLines : StartSession(line)
    <3>1. PICK line \in CommandLines : StartSession(line)
      BY <2>2
    <3>2. RunnerTypes' /\ ScriptInv'
      BY <2>a, <3>1, SessionStarts
    <3>3. UNCHANGED <<log, life, buffer, attempt>> /\ script' # "wait" /\ script = "over"
      BY <3>1 DEF StartSession, logVars, histVars
    <3> QED BY <2>a, <3>2, <3>3, ProcessesStay DEF RunnerInv
  <2>3. CASE NextBenchmark
    <3>1. RunnerTypes' /\ ScriptInv'
      BY <2>a, <2>3, BenchmarkStarts
    <3>2. UNCHANGED <<log, life, buffer, attempt>> /\ script' # "wait" /\ script = "main"
      BY <2>3 DEF NextBenchmark, logVars, histVars
    <3> QED BY <2>a, <3>1, <3>2, ProcessesStay DEF RunnerInv
  <2>4. CASE BeginRun
    <3>1. RunnerTypes' /\ ScriptInv'
      BY <2>a, <2>4, RunStarts
    <3>2. UNCHANGED <<log, life, buffer, attempt>> /\ script' # "wait" /\ script = "stage"
      BY <2>4 DEF BeginRun, logVars, histVars
    <3> QED BY <2>a, <3>1, <3>2, ProcessesStay DEF RunnerInv
  <2>5. CASE EndBenchmark
    <3>1. RunnerTypes' /\ ScriptInv'
      BY <2>a, <2>5, BenchmarkEnds
    <3>2. UNCHANGED <<log, life, buffer, attempt>> /\ script' # "wait" /\ script = "stage"
      BY <2>5 DEF EndBenchmark, logVars, histVars
    <3> QED BY <2>a, <3>1, <3>2, ProcessesStay DEF RunnerInv
  <2>6. CASE Visit
    <3>1. RunnerTypes' /\ ScriptInv'
      BY <2>a, <2>6, ExperimentIsVisited
    <3>2. UNCHANGED <<log, life, buffer, attempt>> /\ script' # "wait" /\ script = "loop"
      BY <2>6 DEF Visit, logVars, histVars
    <3> QED BY <2>a, <3>1, <3>2, ProcessesStay DEF RunnerInv
  <2>7. CASE EndRun
    <3>1. RunnerTypes' /\ ScriptInv'
      BY <2>a, <2>7, RunEnds
    <3>2. UNCHANGED <<log, life, buffer, attempt>> /\ script' # "wait" /\ script = "loop"
      BY <2>7 DEF EndRun, logVars, histVars
    <3> QED BY <2>a, <3>1, <3>2, ProcessesStay DEF RunnerInv
  <2>8. CASE Launch
    BY <2>a, <2>8, ExperimentIsStarted, ProcessesLaunch DEF RunnerInv
  <2>9. CASE Finish \/ Abandon
    <3>1. /\ UNCHANGED <<log, life, buffer, code, session, worklist, call, index, attempt, place>>
          /\ script' = "over" /\ script \notin {"over", "wait"}
      BY <2>9 DEF Finish, Abandon, logVars, runVars, histVars
    <3> QED BY <2>a, <2>b, <2>c, <3>1, ProcessesStay, SessionEnds DEF RunnerInv
  <2>10. CASE AnswerExit
    <3>1. /\ UNCHANGED <<log, life, buffer, code, session, worklist, call, index, attempt, place>>
          /\ script' = "over" /\ script = "ask"
      BY <2>10 DEF AnswerExit, logVars, runVars, histVars
    <3> QED BY <2>a, <2>b, <2>c, <3>1, ProcessesStay, SessionEnds DEF RunnerInv
  <2>11. ASSUME GoOn, script \in {"wait", "ask"}, script = "wait" => life[attempt] = "gone",
                UNCHANGED <<log, life, buffer, code, session, worklist, call, attempt, place>>
         PROVE  RunnerInv'
    <3>1. script' = "loop" /\ index' = index + 1 /\ worklist # <<>>
      BY <2>a, <2>11 DEF GoOn, RunnerTypes
    <3>2. ScriptInv'
      BY <2>a, <2>11, <3>1, NextExperiment
    <3>3. ProcessesInv'
      BY <2>a, <2>11, <3>1, ProcessesStay
    <3>4. RunnerTypes'
      BY <2>b, <2>c, <2>11, <3>1
    <3> QED BY <3>2, <3>3, <3>4 DEF RunnerInv
  <2>12. CASE AnswerSkip
    BY <2>11, <2>12 DEF AnswerSkip, logVars, histVars
  <2>13. CASE AnswerRestart
    <3>1. /\ UNCHANGED <<log, life, buffer, code, session, worklist, call, attempt, place>> /\ script = "ask"
          /\ GoOn \/ (cause # "code" /\ script' = "launch" /\ index' = index)
      BY <2>13 DEF AnswerRestart, logVars, histVars
    <3>2. CASE GoOn
      BY <2>11, <3>1, <3>2
    <3>3. CASE cause # "code" /\ script' = "launch" /\ index' = index
      <4>1. ScriptInv'
        BY <2>a, <3>1, <3>3, StartsAgain
      <4>2. ProcessesInv'
        BY <2>a, <3>1, <3>3, ProcessesStay
      <4>3. worklist # <<>>
        BY <2>a, <3>1 DEF RunnerTypes
      <4>4. RunnerTypes'
        BY <2>b, <2>c, <3>1, <3>3, <4>3
      <4> QED BY <4>1, <4>2, <4>4 DEF RunnerInv
    <3> QED BY <3>1, <3>2, <3>3
  <2>14. CASE Returned
    <3>1. /\ UNCHANGED <<log, life, buffer, code, session, worklist, call, attempt, place>>
          /\ script = "wait" /\ life[attempt] = "gone"
          /\ GoOn \/ (script' = "ask" /\ cause' = "code" /\ UNCHANGED index)
      BY <2>14 DEF Returned, logVars, histVars
    <3>2. CASE GoOn
      BY <2>11, <3>1, <3>2
    <3>3. CASE script' = "ask" /\ cause' = "code" /\ UNCHANGED index
      <4>1. ScriptInv'
        BY <2>a, <3>1, <3>3, UserIsAsked
      <4>2. ProcessesInv'
        BY <2>a, <3>1, <3>3, ProcessesStay
      <4>3. worklist # <<>>
        BY <2>a, <3>1 DEF RunnerTypes
      <4>4. RunnerTypes'
        BY <2>b, <2>c, <3>1, <3>3, <4>3
      <4> QED BY <4>1, <4>2, <4>4 DEF RunnerInv
    <3> QED BY <3>1, <3>2, <3>3
  <2>15. CASE Timeout \/ Interrupt
    <3>1. /\ UNCHANGED <<session, worklist, call, index, attempt, place>> /\ script = "wait" /\ script' = "ask"
          /\ Kill(attempt) /\ cause' # "code"
      BY <2>15 DEF Timeout, Interrupt, runVars, histVars
    <3>2. attempt \in Processes /\ worklist # <<>>
      <4>1. attempt > 0
        BY <2>a, <3>1 DEF ProcessesInv, OneAfterTheOther
      <4>2. attempt \in Started
        BY <2>b, <4>1 DEF Started
      <4> QED BY <2>a, <3>1, <4>2 DEF RunnerTypes
    <3>3. /\ ProcessesInv'
          /\ life' = [q \in Processes |-> life'[q]] /\ buffer' = [q \in Processes |-> buffer'[q]]
          /\ code' = [q \in Processes |-> code'[q]]
          /\ \A q \in Started : q # attempt => code'[q] = code[q]
      BY <2>a, <3>1, <3>2, ProcessesStep
    <3>4. code'[attempt] = Killed
      BY <2>a, <3>1, <3>2 DEF Kill, RunnerTypes
    <3>5. ScriptInv'
      BY <2>a, <3>1, <3>3, <3>4, UserIsAsked
    <3>6. RunnerTypes'
      <4>1. Started' = Started
        BY <3>1 DEF Started
      <4> QED BY <2>a, <3>1, <3>2, <3>3, <4>1 DEF RunnerTypes
    <3> QED BY <3>3, <3>5, <3>6 DEF RunnerInv
  <2>16. CASE ProcessStep
    <3>1. PICK p \in Processes : Works(p) \/ Fails(p)
      BY <2>16 DEF ProcessStep
    <3>2. UNCHANGED <<script, session, worklist, call, index, attempt, place>>
      BY <2>16 DEF ProcessStep, runVars, histVars
    <3>3. /\ ProcessesInv' /\ script = "wait" /\ p = attempt
          /\ life' = [q \in Processes |-> life'[q]] /\ buffer' = [q \in Processes |-> buffer'[q]]
          /\ code' = [q \in Processes |-> code'[q]]
          /\ \A q \in Started : q # p => code'[q] = code[q]
      BY <2>a, <3>1, <3>2, ProcessesStep
    <3>4. ScriptInv'
      BY <2>a, <3>2, <3>3, ScriptWaits
    <3>5. RunnerTypes'
      <4>1. Started' = Started
        BY <3>2 DEF Started
      <4> QED BY <2>a, <3>2, <3>3, <4>1 DEF RunnerTypes
    <3> QED BY <3>3, <3>4, <3>5 DEF RunnerInv
  <2> QED BY <2>1, <2>2, <2>3, <2>4, <2>5, <2>6, <2>7, <2>8, <2>9, <2>10, <2>12, <2>13, <2>14, <2>15, <2>16
       DEF RunnerNext, ScriptStep, Answer
<1> QED BY <1>1, <1>2, PTL DEF RunnerSpec

(* The processes have the machine one after the other, the log has its     *)
(* header once and their rows in the order in which they were started, and *)
(* an experiment is started again in a session only after a kill: what the *)
(* scripts that read the log take it for (csv_logger.h:17, runner.py:337). *)
THEOREM LogIsRight == RunnerSpec => []LogIsInOrder
<1>1. RunnerInv => LogIsInOrder
  <2> SUFFICES ASSUME RunnerInv  PROVE LogIsInOrder
    OBVIOUS
  <2>1. OneAtATime
    <3> DEFINE A == {p \in Processes : Alive(p)}
    <3>1. A \subseteq {attempt}
      BY OneIsAlive DEF RunnerInv, ProcessesInv, Alive
    <3>2. IsFiniteSet({attempt}) /\ Cardinality({attempt}) = 1
      BY FS_Singleton
    <3>3. Cardinality(A) <= 1
      <4> HIDE DEF A
      <4> QED BY <3>1, <3>2, FS_Subset
    <3> QED BY <3>3 DEF OneAtATime
  <2>2. LogMatches /\ PlacesMatch
    BY DEF RunnerInv, ProcessesInv, ScriptInv
  <2>3. \A n \in DOMAIN log : log[n] = Header <=> n = 1
    <3>1. DOMAIN log = 1 .. Len(log) /\ Len(log) \in Nat
      BY <2>2 DEF LogMatches
    <3>2. ASSUME NEW n \in 2 .. Len(log)  PROVE log[n] # Header
      BY <2>2, RowFacts DEF LogMatches
    <3>3. \A n \in 1 .. Len(log) : n = 1 \/ n \in 2 .. Len(log)
      BY <3>1
    <3> QED BY <2>2, <3>1, <3>2, <3>3 DEF LogMatches
  <2>4. OneHeaderAndRowsInOrder
    BY <2>2, <2>3 DEF LogMatches, OneHeaderAndRowsInOrder
  <2>5. TwoRowsOnlyAfterAKill
    BY <2>2 DEF PlacesMatch, TwoRowsOnlyAfterAKill
  <2> QED BY <2>1, <2>4, <2>5 DEF LogIsInOrder
<1> QED BY <1>1, RunnerInvHolds, PTL

(* No experiment from the start index on is left out, however many failed, *)
(* were killed or started again (runner.py:271): the first half of         *)
(* EveryExperimentIsMade.                                                  *)
THEOREM NoExperimentIsLeftOut == RunnerSpec => []NoneLeftOut
<1>1. RunnerInv => NoneLeftOut
  BY DEF RunnerInv, ScriptInv, ReachedMatches, Reached, NoneLeftOut
<1> QED BY <1>1, RunnerInvHolds, PTL
=============================================================================
