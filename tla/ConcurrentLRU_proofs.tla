------------------------ MODULE ConcurrentLRU_proofs ------------------------
(***************************************************************************)
(* Proofs about ConcurrentLRU.                                             *)
(***************************************************************************)
EXTENDS ConcurrentLRUProperties, ListLemmas, FiniteSetTheorems

(* What a thread knows of the shared state from the locks it holds, at     *)
(* each point of the code.                                                 *)
InHandPcs == {"append_read", "append_prev", "append_node", "append_link",
              "ht_remove", "ht_unlink", "fill"}
Appending == {"append_read", "append_prev", "append_node", "append_link"}
Removing == {"remove_prev", "remove_wait", "remove_relock", "remove_again", "remove_next",
             "remove_unlink"}
Evicting == {"evict_prev", "evict_node", "evict_next", "evict_unlink"}

LocalsAreSet(t) ==
  /\ pc[t] # "idle" => req[t] \in Keys
  /\ pc[t] \notin {"idle", "evict_prev"} => node[t] \in Nodes
  /\ pc[t] \in Evicting => prev[t] \in {LruHead, PoolHead}
  /\ pc[t] \in {"remove_wait", "append_prev"} => prev[t] \in Cells
  /\ HoldsPrev(t) => prev[t] \in Cells
  /\ pc[t] \in Removing => hit[t]
  /\ pc[t] \notin Removing \cup Appending => ~hit[t]

PrevLeadsOn(t) ==
  /\ pc[t] \in {"remove_relock", "remove_next", "remove_unlink",
                "evict_node", "evict_next", "evict_unlink"} => lru_next[prev[t]] = node[t]
  /\ pc[t] \in {"append_node", "append_link"} => lru_next[prev[t]] = LruTail
  /\ pc[t] = "ht_unlink" => prev[t] \in Nodes /\ Pred(node[t], prev[t])

NodeIsAsLeft(t) ==
  LET n == node[t] IN
  /\ pc[t] \in {"remove_prev", "remove_next", "remove_unlink"} =>
       lru_flag[n] /\ lru_next[n] # NULL
  /\ pc[t] \in {"ht_remove", "ht_unlink"} => ~lru_flag[n] /\ ht_flag[n]
  /\ pc[t] = "fill" => ~lru_flag[n] /\ ~ht_flag[n]
  /\ pc[t] \in Appending => lru_flag[n] /\ (ht_flag[n] <=> hit[t])
  /\ pc[t] = "ht_insert" => lru_flag[n] /\ ~ht_flag[n] /\ lru_next[n] # NULL
  /\ pc[t] \in InHandPcs => lru_next[n] = NULL
  /\ pc[t] \in Appending \cup {"ht_insert"} /\ ~hit[t] => key[n] = req[t]

Local(t) == LocalsAreSet(t) /\ PrevLeadsOn(t) /\ NodeIsAsLeft(t)

(* A list is a sequence of nodes between its two sentinels.                *)
Cell(q, head, i) == IF i = 0 THEN head ELSE IF i = Len(q) + 1 THEN LastOf(head) ELSE q[i]
IsList(q, head) ==
  /\ q \in Seq(Nodes)
  /\ \A i, j \in 1 .. Len(q) : q[i] = q[j] => i = j
  /\ \A i \in 0 .. Len(q) : /\ lru_next[Cell(q, head, i)] = Cell(q, head, i + 1)
                            /\ lru_prev[Cell(q, head, i + 1)] = Cell(q, head, i)
  /\ lru_prev[head] = NULL /\ lru_next[LastOf(head)] = NULL
Holds(q, S) == \A n \in Nodes : n \in S <=> \E i \in 1 .. Len(q) : q[i] = n
ListHolds(head, S) == \E q \in Seq(Nodes) : IsList(q, head) /\ Holds(q, S)

InList == {n \in Nodes : lru_next[n] # NULL}
LinksAreLists ==
  /\ ListHolds(LruHead, {n \in InList : lru_flag[n]})
  /\ ListHolds(PoolHead, {n \in InList : ~lru_flag[n]})
  /\ \A n \in Nodes : lru_next[n] = NULL <=> lru_prev[n] = NULL

(* Out of a thread's work a node is in a list, and its flags agree.        *)
WorksOn(t, n) == node[t] = n /\ pc[t] \in InHandPcs \cup {"ht_insert"}
NodesAreSettled ==
  \A n \in Nodes : \/ n \in InList /\ (lru_flag[n] <=> ht_flag[n])
                   \/ \E t \in Threads : WorksOn(t, n)

ChainsAreRight ==
  /\ \A n \in Nodes : ht_flag[n] => key[n] \in Keys
  /\ \A b \in Buckets :
       /\ \A i, j \in 1 .. Len(chain[b]) : chain[b][i] = chain[b][j] => i = j
       /\ \A n \in Nodes :
            (\E i \in 1 .. Len(chain[b]) : chain[b][i] = n) <=> ht_flag[n] /\ BucketOf[key[n]] = b

IInv ==
  /\ TypeOK /\ LockDiscipline
  /\ \A t \in Threads : Local(t)
  /\ LinksAreLists /\ NodesAreSettled /\ ChainsAreRight

---------------------------------------------------------------------------
(* The four sentinels are four cells, and none is a node.                  *)
LEMMA SentinelsDiffer ==
  /\ LruHead # LruTail /\ LruHead # PoolHead /\ LruHead # PoolTail
  /\ LruTail # PoolHead /\ LruTail # PoolTail /\ PoolHead # PoolTail
  /\ Sentinels \cap Nodes = {} /\ Sentinels \subseteq Cells /\ Nodes \subseteq Cells
  /\ NULL \notin Cells /\ NULL \notin Threads /\ NULL \notin Keys
<1>1. ASSUME NEW a, NEW b, NEW c, Sentinels = {a, b, c}  PROVE FALSE
  <2>1. IsFiniteSet({a}) /\ Cardinality({a}) = 1
    BY FS_Singleton
  <2>2. IsFiniteSet({a, b}) /\ Cardinality({a, b}) \in {1, 2}
    <3>1. {a} \cup {b} = {a, b}  OBVIOUS
    <3> QED BY <2>1, <3>1, FS_AddElement
  <2>3. Cardinality({a, b, c}) \in {1, 2, 3}
    <3>1. {a, b} \cup {c} = {a, b, c}  OBVIOUS
    <3> QED BY <2>2, <3>1, FS_AddElement
  <2> QED BY <1>1, <2>3, ConstantsAssumption
<1>2. /\ LruHead # LruTail /\ LruHead # PoolHead /\ LruHead # PoolTail
      /\ LruTail # PoolHead /\ LruTail # PoolTail /\ PoolHead # PoolTail
  <2>1. ASSUME LruHead = LruTail PROVE FALSE
    BY <2>1, <1>1, Sentinels = {LruHead, PoolHead, PoolTail} DEF Sentinels
  <2>2. ASSUME LruHead = PoolHead PROVE FALSE
    BY <2>2, <1>1, Sentinels = {LruHead, LruTail, PoolTail} DEF Sentinels
  <2>3. ASSUME LruHead = PoolTail PROVE FALSE
    BY <2>3, <1>1, Sentinels = {LruHead, LruTail, PoolHead} DEF Sentinels
  <2>4. ASSUME LruTail = PoolHead PROVE FALSE
    BY <2>4, <1>1, Sentinels = {LruHead, LruTail, PoolTail} DEF Sentinels
  <2>5. ASSUME LruTail = PoolTail PROVE FALSE
    BY <2>5, <1>1, Sentinels = {LruHead, LruTail, PoolHead} DEF Sentinels
  <2>6. ASSUME PoolHead = PoolTail PROVE FALSE
    BY <2>6, <1>1, Sentinels = {LruHead, LruTail, PoolHead} DEF Sentinels
  <2> QED BY <2>1, <2>2, <2>3, <2>4, <2>5, <2>6
<1>3. /\ Sentinels \cap Nodes = {} /\ Sentinels \subseteq Cells /\ Nodes \subseteq Cells
      /\ NULL \notin Cells /\ NULL \notin Threads /\ NULL \notin Keys
  BY ConstantsAssumption DEF Cells
<1> QED BY <1>2, <1>3

Heads == {LruHead, PoolHead}

(* The cells of a list are different cells.                                *)
LEMMA CellsOfList ==
  ASSUME NEW head \in Heads, NEW q, IsList(q, head)
  PROVE  /\ Len(q) \in Nat
         /\ \A i \in 1 .. Len(q) : Cell(q, head, i) = q[i] /\ q[i] \in Nodes
         /\ Cell(q, head, 0) = head /\ Cell(q, head, Len(q) + 1) = LastOf(head)
         /\ LastOf(head) \in Sentinels /\ LastOf(head) # head
         /\ \A i, j \in 0 .. Len(q) + 1 : Cell(q, head, i) = Cell(q, head, j) => i = j
         /\ \A i \in 0 .. Len(q) + 1 : Cell(q, head, i) \in Cells
<1>1. /\ Len(q) \in Nat
      /\ \A i \in 1 .. Len(q) : q[i] \in Nodes
  BY DEF IsList
<1>2. /\ \A i \in 1 .. Len(q) : Cell(q, head, i) = q[i]
      /\ Cell(q, head, 0) = head /\ Cell(q, head, Len(q) + 1) = LastOf(head)
  BY <1>1 DEF Cell
<1>3. LastOf(head) \in Sentinels /\ LastOf(head) # head /\ head \in Sentinels
  BY SentinelsDiffer DEF Heads, LastOf, Sentinels
<1>4. \A i \in 0 .. Len(q) + 1 : i = 0 \/ i = Len(q) + 1 \/ i \in 1 .. Len(q)
  BY <1>1
<1>5. \A i, j \in 1 .. Len(q) : q[i] = q[j] => i = j
  BY DEF IsList
<1>6. \A i, j \in 0 .. Len(q) + 1 : Cell(q, head, i) = Cell(q, head, j) => i = j
  BY <1>1, <1>2, <1>3, <1>4, <1>5, SentinelsDiffer
<1>7. \A i \in 0 .. Len(q) + 1 : Cell(q, head, i) \in Cells
  BY <1>1, <1>2, <1>3, <1>4, SentinelsDiffer
<1> QED BY <1>1, <1>2, <1>3, <1>6, <1>7

(* The neighbours of a cell in a list that holds S.                        *)
LEMMA OneList ==
  ASSUME NEW head \in Heads, NEW S \in SUBSET Nodes, NEW q, IsList(q, head), Holds(q, S)
  PROVE  /\ \A c \in S \cup {head} :
              /\ lru_next[c] \in S \cup {LastOf(head)}
              /\ lru_prev[lru_next[c]] = c /\ lru_next[c] # c
         /\ \A c \in S \cup {LastOf(head)} :
              /\ lru_prev[c] \in S \cup {head}
              /\ lru_next[lru_prev[c]] = c
         /\ \A c \in S : lru_prev[c] # lru_next[c]
         /\ lru_next[LastOf(head)] = NULL /\ lru_prev[head] = NULL
<1> DEFINE C(i) == Cell(q, head, i)
<1>1. /\ Len(q) \in Nat
      /\ \A i \in 1 .. Len(q) : C(i) = q[i]
      /\ C(0) = head /\ C(Len(q) + 1) = LastOf(head)
      /\ \A i, j \in 0 .. Len(q) + 1 : C(i) = C(j) => i = j
  BY CellsOfList
<1>2. \A i \in 0 .. Len(q) : lru_next[C(i)] = C(i + 1) /\ lru_prev[C(i + 1)] = C(i)
  BY DEF IsList
<1>3. \A n \in S : \E i \in 1 .. Len(q) : C(i) = n
  BY <1>1 DEF Holds
<1>4. \A i \in 1 .. Len(q) : C(i) \in S
  BY <1>1 DEF Holds, IsList
<1> HIDE DEF C
<1>5. ASSUME NEW c \in S \cup {head}
      PROVE  /\ lru_next[c] \in S \cup {LastOf(head)}
             /\ lru_prev[lru_next[c]] = c /\ lru_next[c] # c
  <2>1. PICK i \in 0 .. Len(q) : C(i) = c
    BY <1>1, <1>3
  <2>2. lru_next[c] = C(i + 1) /\ lru_prev[C(i + 1)] = c
    BY <1>2, <2>1
  <2>3. C(i + 1) # C(i)
    BY <1>1
  <2>4. i + 1 \in 1 .. Len(q) \/ i + 1 = Len(q) + 1
    BY <1>1
  <2> QED BY <1>1, <1>4, <2>1, <2>2, <2>3, <2>4
<1>6. ASSUME NEW c \in S \cup {LastOf(head)}
      PROVE  lru_prev[c] \in S \cup {head} /\ lru_next[lru_prev[c]] = c
  <2>1. PICK i \in 0 .. Len(q) : C(i + 1) = c
    <3>1. CASE c \in S
      <4>1. PICK j \in 1 .. Len(q) : C(j) = c  BY <1>3, <3>1
      <4>2. j - 1 \in 0 .. Len(q) /\ (j - 1) + 1 = j  BY <1>1
      <4> QED BY <4>1, <4>2
    <3>2. CASE c = LastOf(head)
      BY <3>2, <1>1
    <3> QED BY <3>1, <3>2
  <2>2. lru_prev[c] = C(i) /\ lru_next[C(i)] = c
    BY <1>2, <2>1
  <2>3. i \in 1 .. Len(q) \/ i = 0
    BY <1>1
  <2> QED BY <1>1, <1>4, <2>2, <2>3
<1>7. ASSUME NEW c \in S  PROVE lru_prev[c] # lru_next[c]
  <2>1. PICK i \in 1 .. Len(q) : C(i) = c
    BY <1>3
  <2>2. lru_next[c] = C(i + 1)
    BY <1>1, <1>2, <2>1
  <2>3. lru_prev[c] = C(i - 1)
    <3>1. i - 1 \in 0 .. Len(q) /\ (i - 1) + 1 = i  BY <1>1
    <3> QED BY <1>2, <2>1, <3>1
  <2>4. i - 1 \in 0 .. Len(q) + 1 /\ i + 1 \in 0 .. Len(q) + 1 /\ i - 1 # i + 1
    BY <1>1
  <2> QED BY <1>1, <2>2, <2>3, <2>4
<1>8. lru_next[LastOf(head)] = NULL /\ lru_prev[head] = NULL
  BY DEF IsList
<1> QED BY <1>5, <1>6, <1>7, <1>8

Tails == {LruTail, PoolTail}

(* The same of both lists.                                                 *)
LEMMA ListFacts ==
  ASSUME TypeOK, LinksAreLists
  PROVE  /\ \A c \in Cells : lru_next[c] # NULL =>
              /\ lru_next[c] \in Cells \ Heads /\ c \notin Tails
              /\ lru_prev[lru_next[c]] = c /\ lru_next[c] # c
         /\ \A c \in Cells : lru_prev[c] # NULL =>
              /\ lru_prev[c] \in Cells \ Tails /\ c \notin Heads
              /\ lru_next[lru_prev[c]] = c
         /\ \A n \in Nodes : lru_next[n] = NULL <=> lru_prev[n] = NULL
         /\ \A n \in InList : lru_prev[n] # lru_next[n]
         /\ \A c \in Heads : lru_next[c] # NULL /\ lru_prev[c] = NULL
         /\ \A c \in Tails : lru_prev[c] # NULL /\ lru_next[c] = NULL
         /\ \A n \in InList \cup {LruHead} :
              n = LruHead \/ lru_flag[n] =>
                lru_next[n] = LruTail \/ (lru_next[n] \in InList /\ lru_flag[lru_next[n]])
         /\ \A n \in InList \cup {PoolHead} :
              n = PoolHead \/ ~lru_flag[n] =>
                lru_next[n] = PoolTail \/ (lru_next[n] \in InList /\ ~lru_flag[lru_next[n]])
<1> DEFINE L == {n \in InList : lru_flag[n]}
           P == {n \in InList : ~lru_flag[n]}
<1>1. L \in SUBSET Nodes /\ P \in SUBSET Nodes /\ L \cup P = InList
  BY DEF InList
<1>2. /\ LruHead \in Heads /\ PoolHead \in Heads
      /\ LastOf(LruHead) = LruTail /\ LastOf(PoolHead) = PoolTail
  BY SentinelsDiffer DEF Heads, LastOf
<1>3. PICK q \in Seq(Nodes) : IsList(q, LruHead) /\ Holds(q, L)
  BY DEF LinksAreLists, ListHolds
<1>4. PICK r \in Seq(Nodes) : IsList(r, PoolHead) /\ Holds(r, P)
  BY DEF LinksAreLists, ListHolds
<1>5. /\ \A c \in L \cup {LruHead} :
           /\ lru_next[c] \in L \cup {LruTail}
           /\ lru_prev[lru_next[c]] = c /\ lru_next[c] # c
      /\ \A c \in L \cup {LruTail} : lru_prev[c] \in L \cup {LruHead} /\ lru_next[lru_prev[c]] = c
      /\ \A c \in L : lru_prev[c] # lru_next[c]
      /\ lru_next[LruTail] = NULL /\ lru_prev[LruHead] = NULL
  <2> HIDE DEF L
  <2>1. /\ \A c \in L \cup {LruHead} :
             /\ lru_next[c] \in L \cup {LastOf(LruHead)}
             /\ lru_prev[lru_next[c]] = c /\ lru_next[c] # c
        /\ \A c \in L \cup {LastOf(LruHead)} :
             lru_prev[c] \in L \cup {LruHead} /\ lru_next[lru_prev[c]] = c
        /\ \A c \in L : lru_prev[c] # lru_next[c]
        /\ lru_next[LastOf(LruHead)] = NULL /\ lru_prev[LruHead] = NULL
    BY <1>1, <1>2, <1>3, OneList
  <2> QED BY <2>1, <1>2
<1>6. /\ \A c \in P \cup {PoolHead} :
           /\ lru_next[c] \in P \cup {PoolTail}
           /\ lru_prev[lru_next[c]] = c /\ lru_next[c] # c
      /\ \A c \in P \cup {PoolTail} : lru_prev[c] \in P \cup {PoolHead} /\ lru_next[lru_prev[c]] = c
      /\ \A c \in P : lru_prev[c] # lru_next[c]
      /\ lru_next[PoolTail] = NULL /\ lru_prev[PoolHead] = NULL
  <2> HIDE DEF P
  <2>1. /\ \A c \in P \cup {PoolHead} :
             /\ lru_next[c] \in P \cup {LastOf(PoolHead)}
             /\ lru_prev[lru_next[c]] = c /\ lru_next[c] # c
        /\ \A c \in P \cup {LastOf(PoolHead)} :
             lru_prev[c] \in P \cup {PoolHead} /\ lru_next[lru_prev[c]] = c
        /\ \A c \in P : lru_prev[c] # lru_next[c]
        /\ lru_next[LastOf(PoolHead)] = NULL /\ lru_prev[PoolHead] = NULL
    BY <1>1, <1>2, <1>4, OneList
  <2> QED BY <2>1, <1>2
<1>7. \A n \in Nodes : lru_next[n] = NULL <=> lru_prev[n] = NULL
  BY DEF LinksAreLists
<1>9. \A n \in InList : n \in Nodes /\ n \in Cells /\ lru_next[n] # NULL
  BY DEF InList, Cells
<1>a. \A n \in L : n \in InList /\ lru_flag[n]
  OBVIOUS
<1>b. \A n \in P : n \in InList /\ ~lru_flag[n]
  OBVIOUS
<1>c. \A n \in InList : n \in L \/ n \in P
  OBVIOUS
<1>d. \A n \in InList : (lru_flag[n] => n \in L) /\ (~lru_flag[n] => n \in P)
  OBVIOUS
<1>e. \A n \in Nodes : n \in InList \/ lru_next[n] = NULL
  BY DEF InList
<1> HIDE DEF L, P
<1>8. \A c \in Cells : c \in L \cup {LruHead} \/ c \in P \cup {PoolHead} \/ c \in Tails
                       \/ (c \in Nodes /\ lru_next[c] = NULL)
  BY <1>c, <1>e DEF Cells, Sentinels, Tails
<1>10. \A c \in Cells : lru_next[c] # NULL =>
          /\ lru_next[c] \in Cells \ Heads /\ c \notin Tails
          /\ lru_prev[lru_next[c]] = c /\ lru_next[c] # c
  BY <1>5, <1>6, <1>8, <1>9, <1>a, <1>b, SentinelsDiffer DEF Heads, Tails, Sentinels
<1>11. \A c \in Cells : lru_prev[c] # NULL =>
          /\ lru_prev[c] \in Cells \ Tails /\ c \notin Heads
          /\ lru_next[lru_prev[c]] = c
  BY <1>5, <1>6, <1>7, <1>8, <1>9, <1>a, <1>b, SentinelsDiffer DEF Heads, Tails, Sentinels
<1>12. \A n \in InList : lru_prev[n] # lru_next[n]
  BY <1>5, <1>6, <1>c
<1>13. /\ \A c \in Heads : lru_next[c] # NULL /\ lru_prev[c] = NULL
       /\ \A c \in Tails : lru_prev[c] # NULL /\ lru_next[c] = NULL
  BY <1>5, <1>6, <1>9, <1>a, <1>b, SentinelsDiffer DEF Heads, Tails, Sentinels
<1>14. \A n \in InList \cup {LruHead} :
         n = LruHead \/ lru_flag[n] =>
           lru_next[n] = LruTail \/ (lru_next[n] \in InList /\ lru_flag[lru_next[n]])
  <2>1. ASSUME NEW n \in InList \cup {LruHead}, n = LruHead \/ lru_flag[n]
        PROVE  lru_next[n] \in L \cup {LruTail}
    BY <2>1, <1>5, <1>d
  <2> QED BY <2>1, <1>a
<1>15. \A n \in InList \cup {PoolHead} :
         n = PoolHead \/ ~lru_flag[n] =>
           lru_next[n] = PoolTail \/ (lru_next[n] \in InList /\ ~lru_flag[lru_next[n]])
  <2>1. ASSUME NEW n \in InList \cup {PoolHead}, n = PoolHead \/ ~lru_flag[n]
        PROVE  lru_next[n] \in P \cup {PoolTail}
    BY <2>1, <1>6, <1>d
  <2> QED BY <2>1, <1>b
<1> QED BY <1>7, <1>10, <1>11, <1>12, <1>13, <1>14, <1>15

---------------------------------------------------------------------------
(* A step of t: what the others have locked, and their locals, stay.       *)
LocalsOfOthersStay(t) ==
  \A u \in Threads \ {t} :
    /\ pc'[u] = pc[u] /\ req'[u] = req[u] /\ hit'[u] = hit[u]
    /\ node'[u] = node[u] /\ prev'[u] = prev[u]
LocksOfOthersStay(t) ==
  /\ \A c \in Cells : IF lock[c] \in {NULL, t} THEN lock'[c] \in {NULL, t} ELSE lock'[c] = lock[c]
  /\ \A b \in Buckets : IF bucket_lock[b] \in {NULL, t} THEN bucket_lock'[b] \in {NULL, t}
                        ELSE bucket_lock'[b] = bucket_lock[b]
DataOfOthersStays(t) ==
  /\ \A c \in Cells : lock[c] # t => lru_next'[c] = lru_next[c]
  /\ \A n \in Nodes : lock[n] # t =>
       key'[n] = key[n] /\ lru_flag'[n] = lru_flag[n] /\ ht_flag'[n] = ht_flag[n]
  /\ \A b \in Buckets : bucket_lock[b] \notin {NULL, t} => chain'[b] = chain[b]
OthersStay(t) == LocalsOfOthersStay(t) /\ LocksOfOthersStay(t) /\ DataOfOthersStays(t)

LocksOf(t) ==
  /\ \A c \in Cells : lock[c] = t <=> c \in Held(t)
  /\ \A b \in Buckets :
       bucket_lock[b] = t <=> (pc[t] = "ht_unlink" /\ BucketOf[key[node[t]]] = b)

(* The locks after a step of t, and its locals.                            *)
LocksAreRight(t) ==
  /\ LocksOfOthersStay(t) /\ LocksOf(t)'
  /\ lock' \in [Cells -> Threads \cup {NULL}]
  /\ bucket_lock' \in [Buckets -> Threads \cup {NULL}]
LocalsTyped ==
  /\ pc \in [Threads -> PcValues]
  /\ req \in [Threads -> Keys \cup {NULL}] /\ hit \in [Threads -> BOOLEAN]
  /\ node \in [Threads -> Nodes \cup {NULL}] /\ prev \in [Threads -> Cells \cup {NULL}]

(* What a thread has locked.                                               *)
LEMMA HeldFacts ==
  ASSUME IInv, NEW t \in Threads
  PROVE  /\ HoldsNode(t) => node[t] \in Nodes /\ node[t] \in Cells /\ lock[node[t]] = t
         /\ HoldsPrev(t) => prev[t] \in Cells /\ lock[prev[t]] = t
         /\ pc[t] \in {"remove_unlink", "evict_unlink"} =>
              /\ lru_next[node[t]] \in Cells /\ lock[lru_next[node[t]]] = t
         /\ pc[t] = "append_link" => lock[LruTail] = t
         /\ pc[t] = "ht_unlink" =>
              /\ ht_flag[node[t]] /\ key[node[t]] \in Keys
              /\ BucketOf[key[node[t]]] \in Buckets
              /\ bucket_lock[BucketOf[key[node[t]]]] = t
<1>1. LocksOf(t)
  BY DEF IInv, LockDiscipline, LocksOf
<1>2. HoldsNode(t) => node[t] \in Nodes
  BY DEF IInv, Local, LocalsAreSet, HoldsNode
<1>3. HoldsPrev(t) => prev[t] \in Cells
  BY DEF IInv, Local, LocalsAreSet
<1>4. pc[t] = "ht_unlink" => ht_flag[node[t]] /\ key[node[t]] \in Keys
  BY <1>2 DEF IInv, Local, NodeIsAsLeft, ChainsAreRight, HoldsNode
<1>5. pc[t] = "evict_unlink" => lru_next[node[t]] # NULL
  <2>1. pc[t] = "evict_unlink" => lru_next[prev[t]] = node[t] /\ prev[t] \in Cells /\ node[t] \in Nodes
    BY <1>2, <1>3 DEF IInv, Local, PrevLeadsOn, HoldsNode, HoldsPrev
  <2>2. pc[t] = "evict_unlink" => lru_prev[node[t]] # NULL
    BY <2>1, ListFacts, SentinelsDiffer DEF IInv
  <2> QED BY <2>1, <2>2, ListFacts DEF IInv
<1>6. pc[t] = "remove_unlink" => lru_next[node[t]] # NULL
  BY DEF IInv, Local, NodeIsAsLeft
<1>7. pc[t] \in {"remove_unlink", "evict_unlink"} => lru_next[node[t]] \in Cells
  BY <1>2, <1>5, <1>6, SentinelsDiffer DEF IInv, TypeOK, HoldsNode
<1>8. node[t] \in Nodes => node[t] \in Cells
  BY SentinelsDiffer
<1>9. LruTail \in Cells
  BY SentinelsDiffer DEF Sentinels
<1>10. pc[t] = "ht_unlink" => BucketOf[key[node[t]]] \in Buckets
  BY <1>4, ConstantsAssumption
<1> QED BY <1>1, <1>2, <1>3, <1>4, <1>7, <1>8, <1>9, <1>10 DEF LocksOf, Held

(* A step of one thread leaves what another knows, and its locks.          *)
LEMMA OthersKeep ==
  ASSUME IInv, NEW t \in Threads, OthersStay(t), NEW u \in Threads \ {t}
  PROVE  Local(u)' /\ LocksOf(u)'
<1>1. /\ pc'[u] = pc[u] /\ req'[u] = req[u] /\ hit'[u] = hit[u]
      /\ node'[u] = node[u] /\ prev'[u] = prev[u]
  BY DEF OthersStay, LocalsOfOthersStay
<1>2. Local(u) /\ LocksOf(u) /\ t # u /\ u # NULL
  BY SentinelsDiffer DEF IInv, LockDiscipline, LocksOf
<1>3. HoldsNode(u) => lru_next'[node[u]] = lru_next[node[u]]
  BY <1>2, HeldFacts DEF OthersStay, DataOfOthersStays
<1>4. HoldsNode(u) => /\ key'[node[u]] = key[node[u]] /\ lru_flag'[node[u]] = lru_flag[node[u]]
                      /\ ht_flag'[node[u]] = ht_flag[node[u]]
  BY <1>2, HeldFacts DEF OthersStay, DataOfOthersStays
<1>5. HoldsPrev(u) => lru_next'[prev[u]] = lru_next[prev[u]]
  BY <1>2, HeldFacts DEF OthersStay, DataOfOthersStays
<1>6. pc[u] = "ht_unlink" => /\ key'[node[u]] = key[node[u]]
                             /\ chain'[BucketOf[key[node[u]]]] = chain[BucketOf[key[node[u]]]]
  BY <1>2, <1>4, HeldFacts DEF OthersStay, DataOfOthersStays, HoldsNode
<1>7. (HoldsNode(u)' <=> HoldsNode(u)) /\ (HoldsPrev(u)' <=> HoldsPrev(u))
  BY <1>1 DEF HoldsNode, HoldsPrev
<1>8. LocalsAreSet(u)'
  BY <1>1, <1>2, <1>7 DEF Local, LocalsAreSet
<1>9. PrevLeadsOn(u)'
  BY <1>1, <1>2, <1>5, <1>6 DEF Local, PrevLeadsOn, Pred, ChainOf, HoldsPrev
<1>10. NodeIsAsLeft(u)'
  BY <1>1, <1>2, <1>3, <1>4 DEF Local, NodeIsAsLeft, HoldsNode, InHandPcs, Appending
<1>11. Held(u)' = Held(u)
  BY <1>1, <1>3, <1>7 DEF Held, HoldsNode
<1>12. \A c \in Cells : lock'[c] = u <=> lock[c] = u
  BY <1>2 DEF OthersStay, LocksOfOthersStay
<1>13. \A b \in Buckets : bucket_lock'[b] = u <=> bucket_lock[b] = u
  BY <1>2 DEF OthersStay, LocksOfOthersStay
<1>14. LocksOf(u)'
  BY <1>1, <1>2, <1>6, <1>11, <1>12, <1>13 DEF LocksOf
<1> QED BY <1>8, <1>9, <1>10, <1>14 DEF Local

(* So a step need only be looked at from the thread that makes it.         *)
LEMMA StepKeeps ==
  ASSUME IInv, NEW t \in Threads, OthersStay(t), TypeOK', Local(t)', LocksOf(t)',
         LinksAreLists', NodesAreSettled', ChainsAreRight'
  PROVE  IInv'
<1>1. \A u \in Threads : Local(u)' /\ LocksOf(u)'
  BY OthersKeep
<1>2. LockDiscipline'
  BY <1>1 DEF LockDiscipline, LocksOf
<1> QED BY <1>1, <1>2 DEF IInv

(* A step that only takes or frees locks.                                  *)
LEMMA QuietStepKeeps ==
  ASSUME IInv, NEW t \in Threads,
         UNCHANGED <<key, lru_flag, ht_flag, chain, links>>,
         LocalsOfOthersStay(t), LocalsTyped', LocksAreRight(t), Local(t)',
         pc[t] \in InHandPcs \cup {"ht_insert"} =>
           pc'[t] \in InHandPcs \cup {"ht_insert"} /\ node'[t] = node[t]
  PROVE  IInv'
<1>1. OthersStay(t)
  BY DEF OthersStay, DataOfOthersStays, LocksAreRight, links
<1>2. LinksAreLists'
  <2>1. \A q, head : IsList(q, head)' <=> IsList(q, head)
    BY DEF IsList, Cell, LastOf, links
  <2>2. InList' = InList /\ lru_flag' = lru_flag
    BY DEF InList, links
  <2>3. \A S, head : ListHolds(head, S)' <=> ListHolds(head, S)
    BY <2>1 DEF ListHolds, Holds
  <2> QED BY <2>2, <2>3 DEF IInv, LinksAreLists, links
<1>3. \A u \in Threads, n \in Nodes : WorksOn(u, n) => WorksOn(u, n)'
  BY DEF WorksOn, LocalsOfOthersStay
<1>4. InList' = InList /\ lru_flag' = lru_flag /\ ht_flag' = ht_flag
  BY DEF InList, links
<1>5. NodesAreSettled'
  BY <1>3, <1>4 DEF IInv, NodesAreSettled
<1>6. ChainsAreRight'
  BY DEF IInv, ChainsAreRight
<1>7. TypeOK'
  BY DEF IInv, TypeOK, LocalsTyped, LocksAreRight, links
<1> QED BY <1>1, <1>2, <1>5, <1>6, <1>7, StepKeeps DEF LocksAreRight

(* The locks of a step that leaves the buckets alone.                      *)
LEMMA LocksMove ==
  ASSUME IInv, NEW t \in Threads, UNCHANGED bucket_lock,
         pc[t] # "ht_unlink", pc'[t] # "ht_unlink",
         Held(t)' \subseteq Cells, \A c \in Held(t)' : lock[c] \in {NULL, t},
         lock' = [c \in Cells |-> IF c \in Held(t)' THEN t
                                  ELSE IF lock[c] = t THEN NULL ELSE lock[c]]
  PROVE  LocksAreRight(t)
<1> DEFINE H == Held(t)'
<1>1. t # NULL /\ lock \in [Cells -> Threads \cup {NULL}]
      /\ bucket_lock \in [Buckets -> Threads \cup {NULL}]
  BY SentinelsDiffer DEF IInv, TypeOK
<1>2. \A b \in Buckets : bucket_lock[b] # t
  BY DEF IInv, LockDiscipline
<1> HIDE DEF H
<1>3. \A c \in Cells : lock'[c] = IF c \in H THEN t ELSE IF lock[c] = t THEN NULL ELSE lock[c]
  BY DEF H
<1>4. LocksOfOthersStay(t)
  BY <1>1, <1>3 DEF LocksOfOthersStay, H
<1>5. LocksOf(t)'
  BY <1>1, <1>2, <1>3 DEF LocksOf, H
<1>6. lock' \in [Cells -> Threads \cup {NULL}]
  BY <1>1 DEF H
<1> QED BY <1>1, <1>4, <1>5, <1>6 DEF LocksAreRight

(* The three ways a step treats the node locks: it moves none of them,     *)
LEMMA NoLockMoves ==
  ASSUME IInv, NEW t \in Threads, UNCHANGED <<bucket_lock, lock>>,
         pc[t] # "ht_unlink", pc'[t] # "ht_unlink", Held(t)' = Held(t), Held(t) \subseteq Cells
  PROVE  LocksAreRight(t)
<1>1. \A c \in Cells : lock[c] = t <=> c \in Held(t)
  BY DEF IInv, LockDiscipline
<1>2. lock \in [Cells -> Threads \cup {NULL}]
  BY DEF IInv, TypeOK
<1>3. lock' = [c \in Cells |-> IF c \in Held(t)' THEN t ELSE IF lock[c] = t THEN NULL ELSE lock[c]]
  BY <1>1, <1>2
<1> QED BY <1>1, <1>3, LocksMove

(* it takes one,                                                           *)
LEMMA AcquireMoves ==
  ASSUME IInv, NEW t \in Threads, UNCHANGED bucket_lock, NEW c \in Cells, Acquire(t, c),
         pc[t] # "ht_unlink", pc'[t] # "ht_unlink",
         Held(t)' = Held(t) \cup {c}, Held(t) \subseteq Cells
  PROVE  LocksAreRight(t)
<1>1. \A d \in Cells : lock[d] = t <=> d \in Held(t)
  BY DEF IInv, LockDiscipline
<1>2. lock \in [Cells -> Threads \cup {NULL}]
  BY DEF IInv, TypeOK
<1>3. lock' = [lock EXCEPT ![c] = t] /\ lock[c] = NULL
  BY DEF Acquire, Free
<1>4. lock' = [d \in Cells |-> IF d \in Held(t)' THEN t ELSE IF lock[d] = t THEN NULL ELSE lock[d]]
  BY <1>1, <1>2, <1>3
<1> QED BY <1>1, <1>3, <1>4, LocksMove

(* or it lets go of some of its own.                                       *)
LEMMA ReleaseMoves ==
  ASSUME IInv, NEW t \in Threads, UNCHANGED bucket_lock, NEW S, Release(S),
         \A c \in S : lock[c] \in {NULL, t},
         pc[t] # "ht_unlink", pc'[t] # "ht_unlink",
         Held(t)' = Held(t) \ S, Held(t) \subseteq Cells
  PROVE  LocksAreRight(t)
<1>1. \A c \in Cells : lock[c] = t <=> c \in Held(t)
  BY DEF IInv, LockDiscipline
<1>2. lock \in [Cells -> Threads \cup {NULL}]
  BY DEF IInv, TypeOK
<1>3. lock' = [c \in Cells |-> IF c \in S THEN NULL ELSE lock[c]]
  BY DEF Release
<1>4. lock' = [c \in Cells |-> IF c \in Held(t)' THEN t ELSE IF lock[c] = t THEN NULL ELSE lock[c]]
  BY <1>1, <1>2, <1>3
<1> QED BY <1>1, <1>4, LocksMove

(* A node nobody has locked is in a list.                                  *)
LEMMA FreeIsListed ==
  ASSUME IInv, NEW n \in Nodes, lock[n] = NULL
  PROVE  n \in InList /\ lru_next[n] # NULL /\ (lru_flag[n] <=> ht_flag[n])
<1>1. ASSUME NEW t \in Threads, WorksOn(t, n)  PROVE FALSE
  <2>1. HoldsNode(t) /\ node[t] = n
    BY <1>1 DEF WorksOn, InHandPcs, HoldsNode
  <2> QED BY <2>1, HeldFacts, SentinelsDiffer
<1> QED BY <1>1 DEF IInv, NodesAreSettled, InList

(* IInv is kept by FindMiss.                                               *)
LEMMA FindMissKeeps ==
  ASSUME IInv, NEW t \in Threads, NEW k \in Keys, FindMiss(t, k)
  PROVE  IInv'
<1> USE DEF FindMiss, Step, Goto, At, locals, table, links
<1>1. TypeOK /\ Local(t) /\ LinksAreLists
  BY DEF IInv
<1>2. /\ pc[t] = "idle" /\ pc'[t] = "evict_prev"
      /\ req'[t] = k /\ hit'[t] = hit[t]
      /\ node'[t] = node[t] /\ prev'[t] = PoolHead
  BY <1>1 DEF TypeOK
<1>3. LocalsOfOthersStay(t)
  BY <1>1 DEF LocalsOfOthersStay, TypeOK
<1>4. LocalsTyped'
  <2>1. pc' \in [Threads -> PcValues]
    BY <1>1 DEF TypeOK, PcValues
  <2>2. req' \in [Threads -> Keys \cup {NULL}] /\ hit' \in [Threads -> BOOLEAN]
    BY <1>1 DEF TypeOK
  <2>3. node' \in [Threads -> Nodes \cup {NULL}] /\ prev' \in [Threads -> Cells \cup {NULL}]
    BY <1>1, SentinelsDiffer DEF TypeOK, Sentinels
  <2> QED BY <2>1, <2>2, <2>3 DEF LocalsTyped
<1>5. LocksAreRight(t)
  <2>1. Held(t) = {} /\ Held(t)' = {}
    BY <1>2 DEF Held, HoldsNode, HoldsPrev
  <2>2. Held(t) \subseteq Cells
    BY <1>2, <2>1, HeldFacts DEF HoldsNode, HoldsPrev
  <2> QED BY <1>2, <2>1, <2>2, NoLockMoves
<1>6. Local(t)'
  <2>1. LocalsAreSet(t)'
    BY <1>1, <1>2, SentinelsDiffer
    DEF Local, LocalsAreSet, HoldsPrev, Evicting, Removing, Appending, Sentinels
  <2>2. PrevLeadsOn(t)'
    BY <1>1, <1>2 DEF Local, PrevLeadsOn
  <2>3. NodeIsAsLeft(t)'
    BY <1>1, <1>2 DEF Local, LocalsAreSet, NodeIsAsLeft, InHandPcs, Appending, Removing
  <2> QED BY <2>1, <2>2, <2>3 DEF Local
<1> QED BY <1>2, <1>3, <1>4, <1>5, <1>6, QuietStepKeeps DEF InHandPcs

(* IInv is kept by FindNode.                                               *)
LEMMA FindNodeKeeps ==
  ASSUME IInv, NEW t \in Threads, NEW k \in Keys, FindNode(t, k)
  PROVE  IInv'
<1> USE DEF FindNode, Step, Goto, At, locals, table, links
<1>1. TypeOK /\ Local(t) /\ LinksAreLists
  BY DEF IInv
<1>2. /\ pc[t] = "idle" /\ pc'[t] = "find_lock"
      /\ req'[t] = k /\ hit'[t] = hit[t]
      /\ prev'[t] = prev[t]
  BY <1>1 DEF TypeOK
<1>3. node'[t] \in Nodes
  BY <1>1 DEF TypeOK
<1>4. LocalsOfOthersStay(t)
  BY <1>1 DEF LocalsOfOthersStay, TypeOK
<1>5. LocalsTyped'
  <2>1. pc' \in [Threads -> PcValues]
    BY <1>1 DEF TypeOK, PcValues
  <2>2. req' \in [Threads -> Keys \cup {NULL}] /\ hit' \in [Threads -> BOOLEAN]
    BY <1>1 DEF TypeOK
  <2>3. node' \in [Threads -> Nodes \cup {NULL}] /\ prev' \in [Threads -> Cells \cup {NULL}]
    BY <1>1, <1>3, SentinelsDiffer DEF TypeOK, Sentinels
  <2> QED BY <2>1, <2>2, <2>3 DEF LocalsTyped
<1>6. LocksAreRight(t)
  <2>1. Held(t) = {} /\ Held(t)' = {}
    BY <1>2 DEF Held, HoldsNode, HoldsPrev
  <2>2. Held(t) \subseteq Cells
    BY <1>2, <2>1, HeldFacts DEF HoldsNode, HoldsPrev
  <2> QED BY <1>2, <2>1, <2>2, NoLockMoves
<1>7. Local(t)'
  <2>1. LocalsAreSet(t)'
    BY <1>1, <1>2, <1>3, SentinelsDiffer
    DEF Local, LocalsAreSet, HoldsPrev, Evicting, Removing, Appending, Sentinels
  <2>2. PrevLeadsOn(t)'
    BY <1>1, <1>2, <1>3 DEF Local, PrevLeadsOn
  <2>3. NodeIsAsLeft(t)'
    BY <1>1, <1>2, <1>3 DEF Local, LocalsAreSet, NodeIsAsLeft, InHandPcs, Appending, Removing
  <2> QED BY <2>1, <2>2, <2>3 DEF Local
<1> QED BY <1>2, <1>4, <1>5, <1>6, <1>7, QuietStepKeeps DEF InHandPcs

(* IInv is kept by FindStale.                                              *)
LEMMA FindStaleKeeps ==
  ASSUME IInv, NEW t \in Threads, FindStale(t)
  PROVE  IInv'
<1> USE DEF FindStale, Step, Goto, At, locals, table, links
<1>1. TypeOK /\ Local(t) /\ LinksAreLists
  BY DEF IInv
<1>2. /\ pc[t] = "find_lock" /\ pc'[t] = "evict_prev"
      /\ req'[t] = req[t] /\ hit'[t] = hit[t]
      /\ node'[t] = NULL /\ prev'[t] = PoolHead
  BY <1>1 DEF TypeOK
<1>3. LocalsOfOthersStay(t)
  BY <1>1 DEF LocalsOfOthersStay, TypeOK
<1>4. LocalsTyped'
  <2>1. pc' \in [Threads -> PcValues]
    BY <1>1 DEF TypeOK, PcValues
  <2>2. req' \in [Threads -> Keys \cup {NULL}] /\ hit' \in [Threads -> BOOLEAN]
    BY <1>1 DEF TypeOK
  <2>3. node' \in [Threads -> Nodes \cup {NULL}] /\ prev' \in [Threads -> Cells \cup {NULL}]
    BY <1>1, SentinelsDiffer DEF TypeOK, Sentinels
  <2> QED BY <2>1, <2>2, <2>3 DEF LocalsTyped
<1>5. LocksAreRight(t)
  <2>1. Held(t) = {} /\ Held(t)' = {}
    BY <1>2 DEF Held, HoldsNode, HoldsPrev
  <2>2. Held(t) \subseteq Cells
    BY <1>2, <2>1, HeldFacts DEF HoldsNode, HoldsPrev
  <2> QED BY <1>2, <2>1, <2>2, NoLockMoves
<1>6. Local(t)'
  <2>1. LocalsAreSet(t)'
    BY <1>1, <1>2, SentinelsDiffer
    DEF Local, LocalsAreSet, HoldsPrev, Evicting, Removing, Appending, Sentinels
  <2>2. PrevLeadsOn(t)'
    BY <1>1, <1>2 DEF Local, PrevLeadsOn
  <2>3. NodeIsAsLeft(t)'
    BY <1>1, <1>2 DEF Local, LocalsAreSet, NodeIsAsLeft, InHandPcs, Appending, Removing
  <2> QED BY <2>1, <2>2, <2>3 DEF Local
<1> QED BY <1>2, <1>3, <1>4, <1>5, <1>6, QuietStepKeeps DEF InHandPcs

(* IInv is kept by FindHit.                                                *)
LEMMA FindHitKeeps ==
  ASSUME IInv, NEW t \in Threads, FindHit(t)
  PROVE  IInv'
<1> USE DEF FindHit, Step, Goto, At, locals, table, links
<1>1. TypeOK /\ Local(t) /\ LinksAreLists
  BY DEF IInv
<1>2. /\ pc[t] = "find_lock" /\ pc'[t] = "remove_prev"
      /\ req'[t] = req[t] /\ hit'[t] = TRUE
      /\ node'[t] = node[t] /\ prev'[t] = prev[t]
  BY <1>1 DEF TypeOK
<1>3. /\ node[t] \in Nodes /\ node[t] \in Cells /\ Acquire(t, node[t])
      /\ lru_flag[node[t]] /\ lru_next[node[t]] # NULL
  BY <1>1, <1>2, FreeIsListed, SentinelsDiffer
  DEF Local, LocalsAreSet, Evicting, Acquire, Free, DataIsValidForKey
<1>4. LocalsOfOthersStay(t)
  BY <1>1 DEF LocalsOfOthersStay, TypeOK
<1>5. LocalsTyped'
  <2>1. pc' \in [Threads -> PcValues]
    BY <1>1 DEF TypeOK, PcValues
  <2>2. req' \in [Threads -> Keys \cup {NULL}] /\ hit' \in [Threads -> BOOLEAN]
    BY <1>1 DEF TypeOK
  <2>3. node' \in [Threads -> Nodes \cup {NULL}] /\ prev' \in [Threads -> Cells \cup {NULL}]
    BY <1>1, <1>3, SentinelsDiffer DEF TypeOK, Sentinels
  <2> QED BY <2>1, <2>2, <2>3 DEF LocalsTyped
<1>6. LocksAreRight(t)
  <2>1. Held(t) = {} /\ Held(t)' = {node[t]}
    BY <1>2 DEF Held, HoldsNode, HoldsPrev
  <2>2. Held(t) \subseteq Cells
    BY <1>2, <2>1, HeldFacts DEF HoldsNode, HoldsPrev
  <2> QED BY <1>2, <1>3, <2>1, <2>2, AcquireMoves
<1>7. Local(t)'
  <2>1. LocalsAreSet(t)'
    BY <1>1, <1>2, <1>3, SentinelsDiffer
    DEF Local, LocalsAreSet, HoldsPrev, Evicting, Removing, Appending, Sentinels
  <2>2. PrevLeadsOn(t)'
    BY <1>1, <1>2, <1>3 DEF Local, PrevLeadsOn
  <2>3. NodeIsAsLeft(t)'
    BY <1>1, <1>2, <1>3 DEF Local, LocalsAreSet, NodeIsAsLeft, InHandPcs, Appending, Removing
  <2> QED BY <2>1, <2>2, <2>3 DEF Local
<1> QED BY <1>2, <1>4, <1>5, <1>6, <1>7, QuietStepKeeps DEF InHandPcs

(* IInv is kept by RemovePrev.                                             *)
LEMMA RemovePrevKeeps ==
  ASSUME IInv, NEW t \in Threads, RemovePrev(t)
  PROVE  IInv'
<1> USE DEF RemovePrev, Step, Goto, At, locals, table, links
<1>1. TypeOK /\ Local(t) /\ LinksAreLists
  BY DEF IInv
<1>2. /\ pc[t] = "remove_prev" /\ pc'[t] = "remove_next"
      /\ req'[t] = req[t] /\ hit'[t] = hit[t]
      /\ node'[t] = node[t] /\ prev'[t] = lru_prev[node[t]]
  BY <1>1 DEF TypeOK
<1>3. /\ lru_prev[node[t]] \in Cells /\ lru_next[lru_prev[node[t]]] = node[t]
      /\ Acquire(t, lru_prev[node[t]])
  BY <1>1, <1>2, ListFacts, SentinelsDiffer DEF Local, LocalsAreSet, NodeIsAsLeft, Evicting
<1>4. LocalsOfOthersStay(t)
  BY <1>1 DEF LocalsOfOthersStay, TypeOK
<1>5. LocalsTyped'
  <2>1. pc' \in [Threads -> PcValues]
    BY <1>1 DEF TypeOK, PcValues
  <2>2. req' \in [Threads -> Keys \cup {NULL}] /\ hit' \in [Threads -> BOOLEAN]
    BY <1>1 DEF TypeOK
  <2>3. node' \in [Threads -> Nodes \cup {NULL}] /\ prev' \in [Threads -> Cells \cup {NULL}]
    BY <1>1, <1>3, SentinelsDiffer DEF TypeOK, Sentinels
  <2> QED BY <2>1, <2>2, <2>3 DEF LocalsTyped
<1>6. LocksAreRight(t)
  <2>1. Held(t) = {node[t]} /\ Held(t)' = {node[t], lru_prev[node[t]]}
    BY <1>2 DEF Held, HoldsNode, HoldsPrev
  <2>2. Held(t) \subseteq Cells
    BY <1>2, <2>1, HeldFacts DEF HoldsNode, HoldsPrev
  <2> QED BY <1>2, <1>3, <2>1, <2>2, AcquireMoves
<1>7. Local(t)'
  <2>1. LocalsAreSet(t)'
    BY <1>1, <1>2, <1>3, SentinelsDiffer
    DEF Local, LocalsAreSet, HoldsPrev, Evicting, Removing, Appending, Sentinels
  <2>2. PrevLeadsOn(t)'
    BY <1>1, <1>2, <1>3 DEF Local, PrevLeadsOn
  <2>3. NodeIsAsLeft(t)'
    BY <1>1, <1>2, <1>3 DEF Local, LocalsAreSet, NodeIsAsLeft, InHandPcs, Appending, Removing
  <2> QED BY <2>1, <2>2, <2>3 DEF Local
<1> QED BY <1>2, <1>4, <1>5, <1>6, <1>7, QuietStepKeeps DEF InHandPcs

(* IInv is kept by RemoveBackOff.                                          *)
LEMMA RemoveBackOffKeeps ==
  ASSUME IInv, NEW t \in Threads, RemoveBackOff(t)
  PROVE  IInv'
<1> USE DEF RemoveBackOff, Step, Goto, At, locals, table, links
<1>1. TypeOK /\ Local(t) /\ LinksAreLists
  BY DEF IInv
<1>2. /\ pc[t] = "remove_prev" /\ pc'[t] = "remove_wait"
      /\ req'[t] = req[t] /\ hit'[t] = hit[t]
      /\ node'[t] = node[t] /\ prev'[t] = lru_prev[node[t]]
  BY <1>1 DEF TypeOK
<1>3. lru_prev[node[t]] \in Cells /\ Release({node[t]})
  BY <1>1, <1>2, ListFacts, SentinelsDiffer DEF Local, LocalsAreSet, NodeIsAsLeft, Evicting
<1>4. LocalsOfOthersStay(t)
  BY <1>1 DEF LocalsOfOthersStay, TypeOK
<1>5. LocalsTyped'
  <2>1. pc' \in [Threads -> PcValues]
    BY <1>1 DEF TypeOK, PcValues
  <2>2. req' \in [Threads -> Keys \cup {NULL}] /\ hit' \in [Threads -> BOOLEAN]
    BY <1>1 DEF TypeOK
  <2>3. node' \in [Threads -> Nodes \cup {NULL}] /\ prev' \in [Threads -> Cells \cup {NULL}]
    BY <1>1, <1>3, SentinelsDiffer DEF TypeOK, Sentinels
  <2> QED BY <2>1, <2>2, <2>3 DEF LocalsTyped
<1>6. LocksAreRight(t)
  <2>1. Held(t) = {node[t]} /\ Held(t)' = {}
    BY <1>2 DEF Held, HoldsNode, HoldsPrev
  <2>2. Held(t) \subseteq Cells
    BY <1>2, <2>1, HeldFacts DEF HoldsNode, HoldsPrev
  <2> QED BY <1>2, <1>3, <2>1, <2>2, HeldFacts, ReleaseMoves DEF HoldsNode
<1>7. Local(t)'
  <2>1. LocalsAreSet(t)'
    BY <1>1, <1>2, <1>3, SentinelsDiffer
    DEF Local, LocalsAreSet, HoldsPrev, Evicting, Removing, Appending, Sentinels
  <2>2. PrevLeadsOn(t)'
    BY <1>1, <1>2, <1>3 DEF Local, PrevLeadsOn
  <2>3. NodeIsAsLeft(t)'
    BY <1>1, <1>2, <1>3 DEF Local, LocalsAreSet, NodeIsAsLeft, InHandPcs, Appending, Removing
  <2> QED BY <2>1, <2>2, <2>3 DEF Local
<1> QED BY <1>2, <1>4, <1>5, <1>6, <1>7, QuietStepKeeps DEF InHandPcs

(* IInv is kept by RemoveNext.                                             *)
LEMMA RemoveNextKeeps ==
  ASSUME IInv, NEW t \in Threads, RemoveNext(t)
  PROVE  IInv'
<1> USE DEF RemoveNext, Step, Goto, At, locals, table, links
<1>1. TypeOK /\ Local(t) /\ LinksAreLists
  BY DEF IInv
<1>2. /\ pc[t] = "remove_next" /\ pc'[t] = "remove_unlink"
      /\ req'[t] = req[t] /\ hit'[t] = hit[t]
      /\ node'[t] = node[t] /\ prev'[t] = prev[t]
  BY <1>1 DEF TypeOK
<1>3. /\ lru_next[node[t]] \in Cells /\ Acquire(t, lru_next[node[t]])
      /\ UNCHANGED <<key, bucket_lock>>
  BY <1>1, <1>2, ListFacts, SentinelsDiffer DEF Local, LocalsAreSet, NodeIsAsLeft, Evicting
<1>4. LocalsOfOthersStay(t)
  BY <1>1 DEF LocalsOfOthersStay, TypeOK
<1>5. LocalsTyped'
  <2>1. pc' \in [Threads -> PcValues]
    BY <1>1 DEF TypeOK, PcValues
  <2>2. req' \in [Threads -> Keys \cup {NULL}] /\ hit' \in [Threads -> BOOLEAN]
    BY <1>1 DEF TypeOK
  <2>3. node' \in [Threads -> Nodes \cup {NULL}] /\ prev' \in [Threads -> Cells \cup {NULL}]
    BY <1>1, SentinelsDiffer DEF TypeOK, Sentinels
  <2> QED BY <2>1, <2>2, <2>3 DEF LocalsTyped
<1>6. LocksAreRight(t)
  <2>1. Held(t) = {node[t], prev[t]} /\ Held(t)' = {node[t], prev[t], lru_next[node[t]]}
    BY <1>2 DEF Held, HoldsNode, HoldsPrev
  <2>2. Held(t) \subseteq Cells
    BY <1>2, <2>1, HeldFacts DEF HoldsNode, HoldsPrev
  <2> QED BY <1>2, <1>3, <2>1, <2>2, AcquireMoves
<1>7. Local(t)'
  <2>1. LocalsAreSet(t)'
    BY <1>1, <1>2, SentinelsDiffer
    DEF Local, LocalsAreSet, HoldsPrev, Evicting, Removing, Appending, Sentinels
  <2>2. PrevLeadsOn(t)'
    BY <1>1, <1>2 DEF Local, PrevLeadsOn
  <2>3. NodeIsAsLeft(t)'
    BY <1>1, <1>2 DEF Local, LocalsAreSet, NodeIsAsLeft, InHandPcs, Appending, Removing
  <2> QED BY <2>1, <2>2, <2>3 DEF Local
<1> QED BY <1>2, <1>4, <1>5, <1>6, <1>7, QuietStepKeeps DEF InHandPcs

(* IInv is kept by AppendRead.                                             *)
LEMMA AppendReadKeeps ==
  ASSUME IInv, NEW t \in Threads, AppendRead(t)
  PROVE  IInv'
<1> USE DEF AppendRead, Step, Goto, At, locals, table, links
<1>1. TypeOK /\ Local(t) /\ LinksAreLists
  BY DEF IInv
<1>2. /\ pc[t] = "append_read" /\ pc'[t] = "append_prev"
      /\ req'[t] = req[t] /\ hit'[t] = hit[t]
      /\ node'[t] = node[t] /\ prev'[t] = lru_prev[LruTail]
  BY <1>1 DEF TypeOK
<1>3. lru_prev[LruTail] \in Cells
  BY <1>1, ListFacts, SentinelsDiffer DEF Tails, Sentinels
<1>4. LocalsOfOthersStay(t)
  BY <1>1 DEF LocalsOfOthersStay, TypeOK
<1>5. LocalsTyped'
  <2>1. pc' \in [Threads -> PcValues]
    BY <1>1 DEF TypeOK, PcValues
  <2>2. req' \in [Threads -> Keys \cup {NULL}] /\ hit' \in [Threads -> BOOLEAN]
    BY <1>1 DEF TypeOK
  <2>3. node' \in [Threads -> Nodes \cup {NULL}] /\ prev' \in [Threads -> Cells \cup {NULL}]
    BY <1>1, <1>3, SentinelsDiffer DEF TypeOK, Sentinels
  <2> QED BY <2>1, <2>2, <2>3 DEF LocalsTyped
<1>6. LocksAreRight(t)
  <2>1. Held(t) = {node[t]} /\ Held(t)' = {node[t]}
    BY <1>2 DEF Held, HoldsNode, HoldsPrev
  <2>2. Held(t) \subseteq Cells
    BY <1>2, <2>1, HeldFacts DEF HoldsNode, HoldsPrev
  <2> QED BY <1>2, <2>1, <2>2, NoLockMoves
<1>7. Local(t)'
  <2>1. LocalsAreSet(t)'
    BY <1>1, <1>2, <1>3, SentinelsDiffer
    DEF Local, LocalsAreSet, HoldsPrev, Evicting, Removing, Appending, Sentinels
  <2>2. PrevLeadsOn(t)'
    BY <1>1, <1>2, <1>3 DEF Local, PrevLeadsOn
  <2>3. NodeIsAsLeft(t)'
    BY <1>1, <1>2, <1>3 DEF Local, LocalsAreSet, NodeIsAsLeft, InHandPcs, Appending, Removing
  <2> QED BY <2>1, <2>2, <2>3 DEF Local
<1> QED BY <1>2, <1>4, <1>5, <1>6, <1>7, QuietStepKeeps DEF InHandPcs

(* IInv is kept by AppendNode.                                             *)
LEMMA AppendNodeKeeps ==
  ASSUME IInv, NEW t \in Threads, AppendNode(t)
  PROVE  IInv'
<1> USE DEF AppendNode, Step, Goto, At, locals, table, links
<1>1. TypeOK /\ Local(t) /\ LinksAreLists
  BY DEF IInv
<1>2. /\ pc[t] = "append_node" /\ pc'[t] = "append_link"
      /\ req'[t] = req[t] /\ hit'[t] = hit[t]
      /\ node'[t] = node[t] /\ prev'[t] = prev[t]
  BY <1>1 DEF TypeOK
<1>3. LruTail \in Cells /\ Acquire(t, LruTail) /\ UNCHANGED <<key, bucket_lock>>
  BY SentinelsDiffer DEF Sentinels
<1>4. LocalsOfOthersStay(t)
  BY <1>1 DEF LocalsOfOthersStay, TypeOK
<1>5. LocalsTyped'
  <2>1. pc' \in [Threads -> PcValues]
    BY <1>1 DEF TypeOK, PcValues
  <2>2. req' \in [Threads -> Keys \cup {NULL}] /\ hit' \in [Threads -> BOOLEAN]
    BY <1>1 DEF TypeOK
  <2>3. node' \in [Threads -> Nodes \cup {NULL}] /\ prev' \in [Threads -> Cells \cup {NULL}]
    BY <1>1, SentinelsDiffer DEF TypeOK, Sentinels
  <2> QED BY <2>1, <2>2, <2>3 DEF LocalsTyped
<1>6. LocksAreRight(t)
  <2>1. Held(t) = {node[t], prev[t]} /\ Held(t)' = {node[t], prev[t], LruTail}
    BY <1>2 DEF Held, HoldsNode, HoldsPrev
  <2>2. Held(t) \subseteq Cells
    BY <1>2, <2>1, HeldFacts DEF HoldsNode, HoldsPrev
  <2> QED BY <1>2, <1>3, <2>1, <2>2, AcquireMoves
<1>7. Local(t)'
  <2>1. LocalsAreSet(t)'
    BY <1>1, <1>2, SentinelsDiffer
    DEF Local, LocalsAreSet, HoldsPrev, Evicting, Removing, Appending, Sentinels
  <2>2. PrevLeadsOn(t)'
    BY <1>1, <1>2 DEF Local, PrevLeadsOn
  <2>3. NodeIsAsLeft(t)'
    BY <1>1, <1>2 DEF Local, LocalsAreSet, NodeIsAsLeft, InHandPcs, Appending, Removing
  <2> QED BY <2>1, <2>2, <2>3 DEF Local
<1> QED BY <1>2, <1>4, <1>5, <1>6, <1>7, QuietStepKeeps DEF InHandPcs

(* IInv is kept by EvictNode.                                              *)
LEMMA EvictNodeKeeps ==
  ASSUME IInv, NEW t \in Threads, EvictNode(t)
  PROVE  IInv'
<1> USE DEF EvictNode, Step, Goto, At, locals, table, links
<1>1. TypeOK /\ Local(t) /\ LinksAreLists
  BY DEF IInv
<1>2. /\ pc[t] = "evict_node" /\ pc'[t] = "evict_next"
      /\ req'[t] = req[t] /\ hit'[t] = hit[t]
      /\ node'[t] = node[t] /\ prev'[t] = prev[t]
  BY <1>1 DEF TypeOK
<1>3. node[t] \in Cells /\ Acquire(t, node[t]) /\ UNCHANGED <<key, bucket_lock>>
  BY <1>1, <1>2, SentinelsDiffer DEF Local, LocalsAreSet
<1>4. LocalsOfOthersStay(t)
  BY <1>1 DEF LocalsOfOthersStay, TypeOK
<1>5. LocalsTyped'
  <2>1. pc' \in [Threads -> PcValues]
    BY <1>1 DEF TypeOK, PcValues
  <2>2. req' \in [Threads -> Keys \cup {NULL}] /\ hit' \in [Threads -> BOOLEAN]
    BY <1>1 DEF TypeOK
  <2>3. node' \in [Threads -> Nodes \cup {NULL}] /\ prev' \in [Threads -> Cells \cup {NULL}]
    BY <1>1, SentinelsDiffer DEF TypeOK, Sentinels
  <2> QED BY <2>1, <2>2, <2>3 DEF LocalsTyped
<1>6. LocksAreRight(t)
  <2>1. Held(t) = {prev[t]} /\ Held(t)' = {prev[t], node[t]}
    BY <1>2 DEF Held, HoldsNode, HoldsPrev
  <2>2. Held(t) \subseteq Cells
    BY <1>2, <2>1, HeldFacts DEF HoldsNode, HoldsPrev
  <2> QED BY <1>2, <1>3, <2>1, <2>2, AcquireMoves
<1>7. Local(t)'
  <2>1. LocalsAreSet(t)'
    BY <1>1, <1>2, SentinelsDiffer
    DEF Local, LocalsAreSet, HoldsPrev, Evicting, Removing, Appending, Sentinels
  <2>2. PrevLeadsOn(t)'
    BY <1>1, <1>2 DEF Local, PrevLeadsOn
  <2>3. NodeIsAsLeft(t)'
    BY <1>1, <1>2 DEF Local, LocalsAreSet, NodeIsAsLeft, InHandPcs, Appending, Removing
  <2> QED BY <2>1, <2>2, <2>3 DEF Local
<1> QED BY <1>2, <1>4, <1>5, <1>6, <1>7, QuietStepKeeps DEF InHandPcs

(* IInv is kept by EvictNext.                                              *)
LEMMA EvictNextKeeps ==
  ASSUME IInv, NEW t \in Threads, EvictNext(t)
  PROVE  IInv'
<1> USE DEF EvictNext, Step, Goto, At, locals, table, links
<1>1. TypeOK /\ Local(t) /\ LinksAreLists
  BY DEF IInv
<1>2. /\ pc[t] = "evict_next" /\ pc'[t] = "evict_unlink"
      /\ req'[t] = req[t] /\ hit'[t] = hit[t]
      /\ node'[t] = node[t] /\ prev'[t] = prev[t]
  BY <1>1 DEF TypeOK
<1>3. /\ lru_next[node[t]] \in Cells /\ Acquire(t, lru_next[node[t]])
      /\ UNCHANGED <<key, bucket_lock>>
  <2>1. prev[t] \in Cells /\ node[t] \in Nodes /\ lru_next[prev[t]] = node[t]
    BY <1>1, <1>2 DEF Local, LocalsAreSet, PrevLeadsOn, HoldsPrev
  <2>2. lru_next[node[t]] # NULL
    BY <1>1, <2>1, ListFacts, SentinelsDiffer
  <2> QED BY <1>1, <2>1, <2>2, ListFacts, SentinelsDiffer
<1>4. LocalsOfOthersStay(t)
  BY <1>1 DEF LocalsOfOthersStay, TypeOK
<1>5. LocalsTyped'
  <2>1. pc' \in [Threads -> PcValues]
    BY <1>1 DEF TypeOK, PcValues
  <2>2. req' \in [Threads -> Keys \cup {NULL}] /\ hit' \in [Threads -> BOOLEAN]
    BY <1>1 DEF TypeOK
  <2>3. node' \in [Threads -> Nodes \cup {NULL}] /\ prev' \in [Threads -> Cells \cup {NULL}]
    BY <1>1, SentinelsDiffer DEF TypeOK, Sentinels
  <2> QED BY <2>1, <2>2, <2>3 DEF LocalsTyped
<1>6. LocksAreRight(t)
  <2>1. Held(t) = {node[t], prev[t]} /\ Held(t)' = {node[t], prev[t], lru_next[node[t]]}
    BY <1>2 DEF Held, HoldsNode, HoldsPrev
  <2>2. Held(t) \subseteq Cells
    BY <1>2, <2>1, HeldFacts DEF HoldsNode, HoldsPrev
  <2> QED BY <1>2, <1>3, <2>1, <2>2, AcquireMoves
<1>7. Local(t)'
  <2>1. LocalsAreSet(t)'
    BY <1>1, <1>2, SentinelsDiffer
    DEF Local, LocalsAreSet, HoldsPrev, Evicting, Removing, Appending, Sentinels
  <2>2. PrevLeadsOn(t)'
    BY <1>1, <1>2 DEF Local, PrevLeadsOn
  <2>3. NodeIsAsLeft(t)'
    BY <1>1, <1>2 DEF Local, LocalsAreSet, NodeIsAsLeft, InHandPcs, Appending, Removing
  <2> QED BY <2>1, <2>2, <2>3 DEF Local
<1> QED BY <1>2, <1>4, <1>5, <1>6, <1>7, QuietStepKeeps DEF InHandPcs

(* IInv is kept by RemoveWait.                                             *)
LEMMA RemoveWaitKeeps ==
  ASSUME IInv, NEW t \in Threads, RemoveWait(t)
  PROVE  IInv'
<1> USE DEF RemoveWait, Step, Goto, At, locals, table, links
<1>1. TypeOK /\ Local(t) /\ LinksAreLists
  BY DEF IInv
<1>2. CASE lru_next[prev[t]] = node[t]
  <2>2. /\ pc[t] = "remove_wait" /\ pc'[t] = "remove_relock"
        /\ req'[t] = req[t] /\ hit'[t] = hit[t]
        /\ node'[t] = node[t] /\ prev'[t] = prev[t]
    BY <1>1, <1>2 DEF TypeOK
  <2>3. /\ prev[t] \in Cells /\ Acquire(t, prev[t])
        /\ UNCHANGED <<key, bucket_lock>>
    BY <1>1, <1>2, <2>2 DEF Local, LocalsAreSet
  <2>4. LocalsOfOthersStay(t)
    BY <1>1, <1>2 DEF LocalsOfOthersStay, TypeOK
  <2>5. LocalsTyped'
    <3>1. pc' \in [Threads -> PcValues]
      BY <1>1, <1>2 DEF TypeOK, PcValues
    <3>2. req' \in [Threads -> Keys \cup {NULL}] /\ hit' \in [Threads -> BOOLEAN]
      BY <1>1, <1>2 DEF TypeOK
    <3>3. node' \in [Threads -> Nodes \cup {NULL}] /\ prev' \in [Threads -> Cells \cup {NULL}]
      BY <1>1, <1>2, <2>3, SentinelsDiffer DEF TypeOK, Sentinels
    <3> QED BY <3>1, <3>2, <3>3 DEF LocalsTyped
  <2>6. LocksAreRight(t)
    <3>1. Held(t) = {} /\ Held(t)' = {prev[t]}
      BY <2>2 DEF Held, HoldsNode, HoldsPrev
    <3>2. Held(t) \subseteq Cells
      BY <2>2, <3>1, HeldFacts DEF HoldsNode, HoldsPrev
    <3> QED BY <2>2, <2>3, <3>1, <3>2, AcquireMoves
  <2>7. Local(t)'
    <3>1. LocalsAreSet(t)'
      BY <1>1, <1>2, <2>2, <2>3, SentinelsDiffer
      DEF Local, LocalsAreSet, HoldsPrev, Evicting, Removing, Appending, Sentinels
    <3>2. PrevLeadsOn(t)'
      BY <1>1, <1>2, <2>2, <2>3 DEF Local, PrevLeadsOn
    <3>3. NodeIsAsLeft(t)'
      BY <1>1, <1>2, <2>2, <2>3 DEF Local, LocalsAreSet, NodeIsAsLeft, InHandPcs, Appending, Removing
    <3> QED BY <3>1, <3>2, <3>3 DEF Local
  <2> QED BY <2>2, <2>4, <2>5, <2>6, <2>7, QuietStepKeeps DEF InHandPcs
<1>3. CASE lru_next[prev[t]] # node[t]
  <2>2. /\ pc[t] = "remove_wait" /\ pc'[t] = "remove_again"
        /\ req'[t] = req[t] /\ hit'[t] = hit[t]
        /\ node'[t] = node[t] /\ prev'[t] = prev[t]
    BY <1>1, <1>3 DEF TypeOK
  <2>3. UNCHANGED <<key, bucket_lock, lock>>
    BY <1>1, <1>3
  <2>4. LocalsOfOthersStay(t)
    BY <1>1, <1>3 DEF LocalsOfOthersStay, TypeOK
  <2>5. LocalsTyped'
    <3>1. pc' \in [Threads -> PcValues]
      BY <1>1, <1>3 DEF TypeOK, PcValues
    <3>2. req' \in [Threads -> Keys \cup {NULL}] /\ hit' \in [Threads -> BOOLEAN]
      BY <1>1, <1>3 DEF TypeOK
    <3>3. node' \in [Threads -> Nodes \cup {NULL}] /\ prev' \in [Threads -> Cells \cup {NULL}]
      BY <1>1, <1>3, SentinelsDiffer DEF TypeOK, Sentinels
    <3> QED BY <3>1, <3>2, <3>3 DEF LocalsTyped
  <2>6. LocksAreRight(t)
    <3>1. Held(t) = {} /\ Held(t)' = {}
      BY <2>2 DEF Held, HoldsNode, HoldsPrev
    <3>2. Held(t) \subseteq Cells
      BY <2>2, <3>1, HeldFacts DEF HoldsNode, HoldsPrev
    <3> QED BY <2>2, <2>3, <3>1, <3>2, NoLockMoves
  <2>7. Local(t)'
    <3>1. LocalsAreSet(t)'
      BY <1>1, <1>3, <2>2, SentinelsDiffer
      DEF Local, LocalsAreSet, HoldsPrev, Evicting, Removing, Appending, Sentinels
    <3>2. PrevLeadsOn(t)'
      BY <1>1, <1>3, <2>2 DEF Local, PrevLeadsOn
    <3>3. NodeIsAsLeft(t)'
      BY <1>1, <1>3, <2>2 DEF Local, LocalsAreSet, NodeIsAsLeft, InHandPcs, Appending, Removing
    <3> QED BY <3>1, <3>2, <3>3 DEF Local
  <2> QED BY <2>2, <2>4, <2>5, <2>6, <2>7, QuietStepKeeps DEF InHandPcs
<1> QED BY <1>2, <1>3

(* IInv is kept by AppendPrev.                                             *)
LEMMA AppendPrevKeeps ==
  ASSUME IInv, NEW t \in Threads, AppendPrev(t)
  PROVE  IInv'
<1> USE DEF AppendPrev, Step, Goto, At, locals, table, links
<1>1. TypeOK /\ Local(t) /\ LinksAreLists
  BY DEF IInv
<1>2. CASE lru_next[prev[t]] = LruTail
  <2>2. /\ pc[t] = "append_prev" /\ pc'[t] = "append_node"
        /\ req'[t] = req[t] /\ hit'[t] = hit[t]
        /\ node'[t] = node[t] /\ prev'[t] = prev[t]
    BY <1>1, <1>2 DEF TypeOK
  <2>3. /\ prev[t] \in Cells /\ Acquire(t, prev[t])
        /\ UNCHANGED <<key, bucket_lock>>
    BY <1>1, <1>2, <2>2 DEF Local, LocalsAreSet
  <2>4. LocalsOfOthersStay(t)
    BY <1>1, <1>2 DEF LocalsOfOthersStay, TypeOK
  <2>5. LocalsTyped'
    <3>1. pc' \in [Threads -> PcValues]
      BY <1>1, <1>2 DEF TypeOK, PcValues
    <3>2. req' \in [Threads -> Keys \cup {NULL}] /\ hit' \in [Threads -> BOOLEAN]
      BY <1>1, <1>2 DEF TypeOK
    <3>3. node' \in [Threads -> Nodes \cup {NULL}] /\ prev' \in [Threads -> Cells \cup {NULL}]
      BY <1>1, <1>2, <2>3, SentinelsDiffer DEF TypeOK, Sentinels
    <3> QED BY <3>1, <3>2, <3>3 DEF LocalsTyped
  <2>6. LocksAreRight(t)
    <3>1. Held(t) = {node[t]} /\ Held(t)' = {node[t], prev[t]}
      BY <2>2 DEF Held, HoldsNode, HoldsPrev
    <3>2. Held(t) \subseteq Cells
      BY <2>2, <3>1, HeldFacts DEF HoldsNode, HoldsPrev
    <3> QED BY <2>2, <2>3, <3>1, <3>2, AcquireMoves
  <2>7. Local(t)'
    <3>1. LocalsAreSet(t)'
      BY <1>1, <1>2, <2>2, <2>3, SentinelsDiffer
      DEF Local, LocalsAreSet, HoldsPrev, Evicting, Removing, Appending, Sentinels
    <3>2. PrevLeadsOn(t)'
      BY <1>1, <1>2, <2>2, <2>3 DEF Local, PrevLeadsOn
    <3>3. NodeIsAsLeft(t)'
      BY <1>1, <1>2, <2>2, <2>3 DEF Local, LocalsAreSet, NodeIsAsLeft, InHandPcs, Appending, Removing
    <3> QED BY <3>1, <3>2, <3>3 DEF Local
  <2> QED BY <2>2, <2>4, <2>5, <2>6, <2>7, QuietStepKeeps DEF InHandPcs
<1>3. CASE lru_next[prev[t]] # LruTail
  <2>2. /\ pc[t] = "append_prev" /\ pc'[t] = "append_read"
        /\ req'[t] = req[t] /\ hit'[t] = hit[t]
        /\ node'[t] = node[t] /\ prev'[t] = prev[t]
    BY <1>1, <1>3 DEF TypeOK
  <2>3. UNCHANGED <<key, bucket_lock, lock>>
    BY <1>1, <1>3
  <2>4. LocalsOfOthersStay(t)
    BY <1>1, <1>3 DEF LocalsOfOthersStay, TypeOK
  <2>5. LocalsTyped'
    <3>1. pc' \in [Threads -> PcValues]
      BY <1>1, <1>3 DEF TypeOK, PcValues
    <3>2. req' \in [Threads -> Keys \cup {NULL}] /\ hit' \in [Threads -> BOOLEAN]
      BY <1>1, <1>3 DEF TypeOK
    <3>3. node' \in [Threads -> Nodes \cup {NULL}] /\ prev' \in [Threads -> Cells \cup {NULL}]
      BY <1>1, <1>3, SentinelsDiffer DEF TypeOK, Sentinels
    <3> QED BY <3>1, <3>2, <3>3 DEF LocalsTyped
  <2>6. LocksAreRight(t)
    <3>1. Held(t) = {node[t]} /\ Held(t)' = {node[t]}
      BY <2>2 DEF Held, HoldsNode, HoldsPrev
    <3>2. Held(t) \subseteq Cells
      BY <2>2, <3>1, HeldFacts DEF HoldsNode, HoldsPrev
    <3> QED BY <2>2, <2>3, <3>1, <3>2, NoLockMoves
  <2>7. Local(t)'
    <3>1. LocalsAreSet(t)'
      BY <1>1, <1>3, <2>2, SentinelsDiffer
      DEF Local, LocalsAreSet, HoldsPrev, Evicting, Removing, Appending, Sentinels
    <3>2. PrevLeadsOn(t)'
      BY <1>1, <1>3, <2>2 DEF Local, PrevLeadsOn
    <3>3. NodeIsAsLeft(t)'
      BY <1>1, <1>3, <2>2 DEF Local, LocalsAreSet, NodeIsAsLeft, InHandPcs, Appending, Removing
    <3> QED BY <3>1, <3>2, <3>3 DEF Local
  <2> QED BY <2>2, <2>4, <2>5, <2>6, <2>7, QuietStepKeeps DEF InHandPcs
<1> QED BY <1>2, <1>3

(* IInv is kept by RemoveRelock.                                           *)
LEMMA RemoveRelockKeeps ==
  ASSUME IInv, NEW t \in Threads, RemoveRelock(t)
  PROVE  IInv'
<1> USE DEF RemoveRelock, Step, Goto, At, RemoveAbandoned, Finish, locals, table, links
<1>1. TypeOK /\ Local(t) /\ LinksAreLists
  BY DEF IInv
<1>2. CASE lru_flag[node[t]]
  <2>2. /\ pc[t] = "remove_relock" /\ pc'[t] = "remove_next"
        /\ req'[t] = req[t] /\ hit'[t] = hit[t]
        /\ node'[t] = node[t] /\ prev'[t] = prev[t]
    BY <1>1, <1>2 DEF TypeOK
  <2>3. /\ node[t] \in Nodes /\ node[t] \in Cells /\ Acquire(t, node[t])
        /\ lru_next[node[t]] # NULL /\ UNCHANGED <<key, bucket_lock>>
    BY <1>1, <1>2, <2>2, FreeIsListed, SentinelsDiffer DEF Local, LocalsAreSet, Evicting, Acquire, Free
  <2>4. LocalsOfOthersStay(t)
    BY <1>1, <1>2 DEF LocalsOfOthersStay, TypeOK
  <2>5. LocalsTyped'
    <3>1. pc' \in [Threads -> PcValues]
      BY <1>1, <1>2 DEF TypeOK, PcValues
    <3>2. req' \in [Threads -> Keys \cup {NULL}] /\ hit' \in [Threads -> BOOLEAN]
      BY <1>1, <1>2 DEF TypeOK
    <3>3. node' \in [Threads -> Nodes \cup {NULL}] /\ prev' \in [Threads -> Cells \cup {NULL}]
      BY <1>1, <1>2, <2>3, SentinelsDiffer DEF TypeOK, Sentinels
    <3> QED BY <3>1, <3>2, <3>3 DEF LocalsTyped
  <2>6. LocksAreRight(t)
    <3>1. Held(t) = {prev[t]} /\ Held(t)' = {prev[t], node[t]}
      BY <2>2 DEF Held, HoldsNode, HoldsPrev
    <3>2. Held(t) \subseteq Cells
      BY <2>2, <3>1, HeldFacts DEF HoldsNode, HoldsPrev
    <3> QED BY <2>2, <2>3, <3>1, <3>2, AcquireMoves
  <2>7. Local(t)'
    <3>1. LocalsAreSet(t)'
      BY <1>1, <1>2, <2>2, <2>3, SentinelsDiffer
      DEF Local, LocalsAreSet, HoldsPrev, Evicting, Removing, Appending, Sentinels
    <3>2. PrevLeadsOn(t)'
      BY <1>1, <1>2, <2>2, <2>3 DEF Local, PrevLeadsOn
    <3>3. NodeIsAsLeft(t)'
      BY <1>1, <1>2, <2>2, <2>3 DEF Local, LocalsAreSet, NodeIsAsLeft, InHandPcs, Appending, Removing
    <3> QED BY <3>1, <3>2, <3>3 DEF Local
  <2> QED BY <2>2, <2>4, <2>5, <2>6, <2>7, QuietStepKeeps DEF InHandPcs
<1>3. CASE ~lru_flag[node[t]]
  <2>2. /\ pc[t] = "remove_relock" /\ pc'[t] = "idle"
        /\ req'[t] = NULL /\ hit'[t] = FALSE
        /\ node'[t] = NULL /\ prev'[t] = NULL
    BY <1>1, <1>3 DEF TypeOK
  <2>3. Release({prev[t], node[t]}) /\ Finish(t) /\ lock[node[t]] = NULL
    BY <1>1, <1>3 DEF Free
  <2>4. LocalsOfOthersStay(t)
    BY <1>1, <1>3 DEF LocalsOfOthersStay, TypeOK
  <2>5. LocalsTyped'
    <3>1. pc' \in [Threads -> PcValues]
      BY <1>1, <1>3 DEF TypeOK, PcValues
    <3>2. req' \in [Threads -> Keys \cup {NULL}] /\ hit' \in [Threads -> BOOLEAN]
      BY <1>1, <1>3 DEF TypeOK
    <3>3. node' \in [Threads -> Nodes \cup {NULL}] /\ prev' \in [Threads -> Cells \cup {NULL}]
      BY <1>1, <1>3, SentinelsDiffer DEF TypeOK, Sentinels
    <3> QED BY <3>1, <3>2, <3>3 DEF LocalsTyped
  <2>6. LocksAreRight(t)
    <3>1. Held(t) = {prev[t]} /\ Held(t)' = {}
      BY <2>2 DEF Held, HoldsNode, HoldsPrev
    <3>2. Held(t) \subseteq Cells
      BY <2>2, <3>1, HeldFacts DEF HoldsNode, HoldsPrev
    <3> QED BY <2>2, <2>3, <3>1, <3>2, HeldFacts, ReleaseMoves DEF HoldsPrev
  <2>7. Local(t)'
    <3>1. LocalsAreSet(t)'
      BY <1>1, <1>3, <2>2, SentinelsDiffer
      DEF Local, LocalsAreSet, HoldsPrev, Evicting, Removing, Appending, Sentinels
    <3>2. PrevLeadsOn(t)'
      BY <1>1, <1>3, <2>2 DEF Local, PrevLeadsOn
    <3>3. NodeIsAsLeft(t)'
      BY <1>1, <1>3, <2>2 DEF Local, LocalsAreSet, NodeIsAsLeft, InHandPcs, Appending, Removing
    <3> QED BY <3>1, <3>2, <3>3 DEF Local
  <2> QED BY <2>2, <2>4, <2>5, <2>6, <2>7, QuietStepKeeps DEF InHandPcs
<1> QED BY <1>2, <1>3

(* IInv is kept by RemoveAgain.                                            *)
LEMMA RemoveAgainKeeps ==
  ASSUME IInv, NEW t \in Threads, RemoveAgain(t)
  PROVE  IInv'
<1> USE DEF RemoveAgain, Step, Goto, At, RemoveAbandoned, Finish, locals, table, links
<1>1. TypeOK /\ Local(t) /\ LinksAreLists
  BY DEF IInv
<1>2. CASE lru_flag[node[t]]
  <2>2. /\ pc[t] = "remove_again" /\ pc'[t] = "remove_prev"
        /\ req'[t] = req[t] /\ hit'[t] = hit[t]
        /\ node'[t] = node[t] /\ prev'[t] = prev[t]
    BY <1>1, <1>2 DEF TypeOK
  <2>3. /\ node[t] \in Nodes /\ node[t] \in Cells /\ Acquire(t, node[t])
        /\ lru_next[node[t]] # NULL /\ UNCHANGED <<key, bucket_lock>>
    BY <1>1, <1>2, <2>2, FreeIsListed, SentinelsDiffer DEF Local, LocalsAreSet, Evicting, Acquire, Free
  <2>4. LocalsOfOthersStay(t)
    BY <1>1, <1>2 DEF LocalsOfOthersStay, TypeOK
  <2>5. LocalsTyped'
    <3>1. pc' \in [Threads -> PcValues]
      BY <1>1, <1>2 DEF TypeOK, PcValues
    <3>2. req' \in [Threads -> Keys \cup {NULL}] /\ hit' \in [Threads -> BOOLEAN]
      BY <1>1, <1>2 DEF TypeOK
    <3>3. node' \in [Threads -> Nodes \cup {NULL}] /\ prev' \in [Threads -> Cells \cup {NULL}]
      BY <1>1, <1>2, <2>3, SentinelsDiffer DEF TypeOK, Sentinels
    <3> QED BY <3>1, <3>2, <3>3 DEF LocalsTyped
  <2>6. LocksAreRight(t)
    <3>1. Held(t) = {} /\ Held(t)' = {node[t]}
      BY <2>2 DEF Held, HoldsNode, HoldsPrev
    <3>2. Held(t) \subseteq Cells
      BY <2>2, <3>1, HeldFacts DEF HoldsNode, HoldsPrev
    <3> QED BY <2>2, <2>3, <3>1, <3>2, AcquireMoves
  <2>7. Local(t)'
    <3>1. LocalsAreSet(t)'
      BY <1>1, <1>2, <2>2, <2>3, SentinelsDiffer
      DEF Local, LocalsAreSet, HoldsPrev, Evicting, Removing, Appending, Sentinels
    <3>2. PrevLeadsOn(t)'
      BY <1>1, <1>2, <2>2, <2>3 DEF Local, PrevLeadsOn
    <3>3. NodeIsAsLeft(t)'
      BY <1>1, <1>2, <2>2, <2>3 DEF Local, LocalsAreSet, NodeIsAsLeft, InHandPcs, Appending, Removing
    <3> QED BY <3>1, <3>2, <3>3 DEF Local
  <2> QED BY <2>2, <2>4, <2>5, <2>6, <2>7, QuietStepKeeps DEF InHandPcs
<1>3. CASE ~lru_flag[node[t]]
  <2>2. /\ pc[t] = "remove_again" /\ pc'[t] = "idle"
        /\ req'[t] = NULL /\ hit'[t] = FALSE
        /\ node'[t] = NULL /\ prev'[t] = NULL
    BY <1>1, <1>3 DEF TypeOK
  <2>3. Release({node[t]}) /\ Finish(t) /\ lock[node[t]] = NULL
    BY <1>1, <1>3 DEF Free
  <2>4. LocalsOfOthersStay(t)
    BY <1>1, <1>3 DEF LocalsOfOthersStay, TypeOK
  <2>5. LocalsTyped'
    <3>1. pc' \in [Threads -> PcValues]
      BY <1>1, <1>3 DEF TypeOK, PcValues
    <3>2. req' \in [Threads -> Keys \cup {NULL}] /\ hit' \in [Threads -> BOOLEAN]
      BY <1>1, <1>3 DEF TypeOK
    <3>3. node' \in [Threads -> Nodes \cup {NULL}] /\ prev' \in [Threads -> Cells \cup {NULL}]
      BY <1>1, <1>3, SentinelsDiffer DEF TypeOK, Sentinels
    <3> QED BY <3>1, <3>2, <3>3 DEF LocalsTyped
  <2>6. LocksAreRight(t)
    <3>1. Held(t) = {} /\ Held(t)' = {}
      BY <2>2 DEF Held, HoldsNode, HoldsPrev
    <3>2. Held(t) \subseteq Cells
      BY <2>2, <3>1, HeldFacts DEF HoldsNode, HoldsPrev
    <3> QED BY <2>2, <2>3, <3>1, <3>2, HeldFacts, ReleaseMoves DEF HoldsPrev
  <2>7. Local(t)'
    <3>1. LocalsAreSet(t)'
      BY <1>1, <1>3, <2>2, SentinelsDiffer
      DEF Local, LocalsAreSet, HoldsPrev, Evicting, Removing, Appending, Sentinels
    <3>2. PrevLeadsOn(t)'
      BY <1>1, <1>3, <2>2 DEF Local, PrevLeadsOn
    <3>3. NodeIsAsLeft(t)'
      BY <1>1, <1>3, <2>2 DEF Local, LocalsAreSet, NodeIsAsLeft, InHandPcs, Appending, Removing
    <3> QED BY <3>1, <3>2, <3>3 DEF Local
  <2> QED BY <2>2, <2>4, <2>5, <2>6, <2>7, QuietStepKeeps DEF InHandPcs
<1> QED BY <1>2, <1>3

(* IInv is kept by EvictPrev.                                              *)
LEMMA EvictPrevKeeps ==
  ASSUME IInv, NEW t \in Threads, EvictPrev(t)
  PROVE  IInv'
<1> USE DEF EvictPrev, Step, Goto, At, locals, table, links
<1>1. TypeOK /\ Local(t) /\ LinksAreLists
  BY DEF IInv
<1>2. CASE lru_next[prev[t]] = LastOf(prev[t])
  <2>2. /\ pc[t] = "evict_prev" /\ pc'[t] = "evict_prev"
        /\ req'[t] = req[t] /\ hit'[t] = hit[t]
        /\ node'[t] = node[t] /\ prev'[t] = Other(prev[t])
    BY <1>1, <1>2 DEF TypeOK
  <2>3. Other(prev[t]) \in {LruHead, PoolHead} /\ UNCHANGED <<key, bucket_lock, lock>>
    BY <1>1, <1>2 DEF Other
  <2>4. LocalsOfOthersStay(t)
    BY <1>1, <1>2 DEF LocalsOfOthersStay, TypeOK
  <2>5. LocalsTyped'
    <3>1. pc' \in [Threads -> PcValues]
      BY <1>1, <1>2 DEF TypeOK, PcValues
    <3>2. req' \in [Threads -> Keys \cup {NULL}] /\ hit' \in [Threads -> BOOLEAN]
      BY <1>1, <1>2 DEF TypeOK
    <3>3. node' \in [Threads -> Nodes \cup {NULL}] /\ prev' \in [Threads -> Cells \cup {NULL}]
      BY <1>1, <1>2, <2>3, SentinelsDiffer DEF TypeOK, Sentinels
    <3> QED BY <3>1, <3>2, <3>3 DEF LocalsTyped
  <2>6. LocksAreRight(t)
    <3>1. Held(t) = {} /\ Held(t)' = {}
      BY <2>2 DEF Held, HoldsNode, HoldsPrev
    <3>2. Held(t) \subseteq Cells
      BY <2>2, <3>1, HeldFacts DEF HoldsNode, HoldsPrev
    <3> QED BY <2>2, <2>3, <3>1, <3>2, NoLockMoves
  <2>7. Local(t)'
    <3>1. LocalsAreSet(t)'
      BY <1>1, <1>2, <2>2, <2>3, SentinelsDiffer
      DEF Local, LocalsAreSet, HoldsPrev, Evicting, Removing, Appending, Sentinels
    <3>2. PrevLeadsOn(t)'
      BY <1>1, <1>2, <2>2, <2>3 DEF Local, PrevLeadsOn
    <3>3. NodeIsAsLeft(t)'
      BY <1>1, <1>2, <2>2, <2>3 DEF Local, LocalsAreSet, NodeIsAsLeft, InHandPcs, Appending, Removing
    <3> QED BY <3>1, <3>2, <3>3 DEF Local
  <2> QED BY <2>2, <2>4, <2>5, <2>6, <2>7, QuietStepKeeps DEF InHandPcs
<1>3. CASE lru_next[prev[t]] # LastOf(prev[t])
  <2>2. /\ pc[t] = "evict_prev" /\ pc'[t] = "evict_node"
        /\ req'[t] = req[t] /\ hit'[t] = hit[t]
        /\ node'[t] = lru_next[prev[t]] /\ prev'[t] = prev[t]
    BY <1>1, <1>3 DEF TypeOK
  <2>3. /\ prev[t] \in Cells /\ Acquire(t, prev[t]) /\ lru_next[prev[t]] \in Nodes
        /\ UNCHANGED <<key, bucket_lock>>
    BY <1>1, <1>3, <2>2, ListFacts, SentinelsDiffer
    DEF Local, LocalsAreSet, Evicting, LastOf, InList, Heads, Sentinels
  <2>4. LocalsOfOthersStay(t)
    BY <1>1, <1>3 DEF LocalsOfOthersStay, TypeOK
  <2>5. LocalsTyped'
    <3>1. pc' \in [Threads -> PcValues]
      BY <1>1, <1>3 DEF TypeOK, PcValues
    <3>2. req' \in [Threads -> Keys \cup {NULL}] /\ hit' \in [Threads -> BOOLEAN]
      BY <1>1, <1>3 DEF TypeOK
    <3>3. node' \in [Threads -> Nodes \cup {NULL}] /\ prev' \in [Threads -> Cells \cup {NULL}]
      BY <1>1, <1>3, <2>3, SentinelsDiffer DEF TypeOK, Sentinels
    <3> QED BY <3>1, <3>2, <3>3 DEF LocalsTyped
  <2>6. LocksAreRight(t)
    <3>1. Held(t) = {} /\ Held(t)' = {prev[t]}
      BY <2>2 DEF Held, HoldsNode, HoldsPrev
    <3>2. Held(t) \subseteq Cells
      BY <2>2, <3>1, HeldFacts DEF HoldsNode, HoldsPrev
    <3> QED BY <2>2, <2>3, <3>1, <3>2, AcquireMoves
  <2>7. Local(t)'
    <3>1. LocalsAreSet(t)'
      BY <1>1, <1>3, <2>2, <2>3, SentinelsDiffer
      DEF Local, LocalsAreSet, HoldsPrev, Evicting, Removing, Appending, Sentinels
    <3>2. PrevLeadsOn(t)'
      BY <1>1, <1>3, <2>2, <2>3 DEF Local, PrevLeadsOn
    <3>3. NodeIsAsLeft(t)'
      BY <1>1, <1>3, <2>2, <2>3 DEF Local, LocalsAreSet, NodeIsAsLeft, InHandPcs, Appending, Removing
    <3> QED BY <3>1, <3>2, <3>3 DEF Local
  <2> QED BY <2>2, <2>4, <2>5, <2>6, <2>7, QuietStepKeeps DEF InHandPcs
<1> QED BY <1>2, <1>3

(* IInv is kept by HtRemoveLock.                                           *)
LEMMA HtRemoveLockKeeps ==
  ASSUME IInv, NEW t \in Threads, HtRemoveLock(t)
  PROVE  IInv'
<1> USE DEF HtRemoveLock, Step, Goto, At, links
<1> DEFINE B == BucketOf[key[node[t]]]
<1>1. TypeOK /\ Local(t) /\ ChainsAreRight
  BY DEF IInv
<1>2. PICK p \in Nodes : /\ Pred(node[t], p) /\ Acquire(t, p)
                         /\ prev' = [prev EXCEPT ![t] = p]
  OBVIOUS
<1>3. /\ pc[t] = "ht_remove" /\ pc'[t] = "ht_unlink" /\ prev'[t] = p
      /\ req'[t] = req[t] /\ hit'[t] = hit[t] /\ node'[t] = node[t] /\ p \in Cells
  BY <1>1, <1>2, SentinelsDiffer DEF TypeOK
<1>4. /\ node[t] \in Nodes /\ node[t] \in Cells /\ ht_flag[node[t]]
      /\ key[node[t]] \in Keys /\ B \in Buckets
  BY <1>1, <1>3, SentinelsDiffer, ConstantsAssumption
  DEF Local, LocalsAreSet, Evicting, ChainsAreRight
<1>5. LocalsOfOthersStay(t)
  BY <1>1, <1>2 DEF LocalsOfOthersStay, TypeOK
<1>6. LocalsTyped'
  BY <1>1, <1>2, <1>3 DEF TypeOK, LocalsTyped, PcValues
<1>7. LocksAreRight(t)
  <2>1. Held(t) = {node[t]} /\ Held(t)' = {node[t], p}
    BY <1>3 DEF Held, HoldsNode, HoldsPrev
  <2>2. \A c \in Cells : (lock[c] = t) <=> (c = node[t])
    BY <2>1, <1>4 DEF IInv, LockDiscipline
  <2>3. \A b \in Buckets : bucket_lock[b] # t
    BY <1>3 DEF IInv, LockDiscipline
  <2>4. lock[p] = NULL /\ lock' = [lock EXCEPT ![p] = t]
    BY <1>2 DEF Acquire, Free
  <2>5. bucket_lock[B] = NULL /\ bucket_lock' = [bucket_lock EXCEPT ![B] = t]
    BY DEF BucketFree
  <2>6. t # NULL
    BY SentinelsDiffer
  <2> HIDE DEF HtRemoveLock, B
  <2>7. lock' \in [Cells -> Threads \cup {NULL}] /\ \A c \in Cells : lock'[c] = IF c = p THEN t ELSE lock[c]
    BY <1>1, <1>3, <2>4 DEF TypeOK
  <2>8. /\ bucket_lock' \in [Buckets -> Threads \cup {NULL}]
        /\ \A b \in Buckets : bucket_lock'[b] = IF b = B THEN t ELSE bucket_lock[b]
    BY <1>1, <1>4, <2>5 DEF TypeOK
  <2>9. LocksOfOthersStay(t)
    BY <2>4, <2>5, <2>6, <2>7, <2>8 DEF LocksOfOthersStay
  <2>10. (BucketOf[key[node[t]]])' = B
    BY <1>3 DEF HtRemoveLock, B
  <2>11. LocksOf(t)'
    BY <1>3, <2>1, <2>2, <2>3, <2>7, <2>8, <2>10 DEF LocksOf
  <2> QED BY <2>7, <2>8, <2>9, <2>11 DEF LocksAreRight
<1>8. Local(t)'
  <2>1. LocalsAreSet(t)'
    BY <1>1, <1>3, <1>4
    DEF Local, LocalsAreSet, HoldsPrev, Evicting, Removing, Appending
  <2>2. PrevLeadsOn(t)'
    BY <1>1, <1>2, <1>3, ZenonT(60) DEF Local, PrevLeadsOn, Pred, ChainOf
  <2>3. NodeIsAsLeft(t)'
    BY <1>1, <1>3 DEF Local, NodeIsAsLeft, InHandPcs, Appending
  <2> QED BY <2>1, <2>2, <2>3 DEF Local
<1> QED BY <1>3, <1>5, <1>6, <1>7, <1>8, QuietStepKeeps DEF InHandPcs

---------------------------------------------------------------------------
(* A node taken out of one list: that list loses the node, the order of    *)
(* the others stays; the other list stays.                                 *)
LEMMA UnlinkInList ==
  ASSUME TypeOK, LinksAreLists, NEW p \in Cells, NEW n \in Nodes,
         lru_next[p] = n, Unlink(p, n),
         NEW head \in Heads, NEW q \in Seq(Nodes), IsList(q, head), NEW k \in 1 .. Len(q), q[k] = n
  PROVE  IsList(RemoveAt(q, k), head)'
<1> DEFINE C(i) == Cell(q, head, i)
           r == RemoveAt(q, k)
           D(i) == Cell(r, head, i)
<1>1. /\ Len(q) \in Nat /\ C(0) = head /\ C(Len(q) + 1) = LastOf(head)
      /\ \A i \in 1 .. Len(q) : C(i) = q[i] /\ q[i] \in Nodes
      /\ \A i, j \in 0 .. Len(q) + 1 : C(i) = C(j) => i = j
      /\ \A i \in 0 .. Len(q) + 1 : C(i) \in Cells
  <2>1. \A i \in 0 .. Len(q) + 1 : C(i) \in Cells
    BY CellsOfList, SentinelsDiffer DEF Cell, Heads, Sentinels
  <2> QED BY <2>1, CellsOfList
<1>2. \A i \in 0 .. Len(q) : lru_next[C(i)] = C(i + 1) /\ lru_prev[C(i + 1)] = C(i)
  BY DEF IsList
<1>3. r \in Seq(Nodes) /\ Len(r) = Len(q) - 1
      /\ \A i \in 1 .. Len(q) - 1 : r[i] = IF i < k THEN q[i] ELSE q[i + 1]
  BY RemoveAtFacts
<1>4. \A i \in 0 .. Len(q) : D(i) = IF i < k THEN C(i) ELSE C(i + 1)
  <2> TAKE i \in 0 .. Len(q)
  <2> HIDE DEF r
  <2>1. CASE i = 0
    BY <1>1, <1>3, <2>1 DEF Cell
  <2>2. CASE i \in 1 .. Len(q) - 1
    <3>1. D(i) = r[i]
      BY <1>1, <1>3, <2>2 DEF Cell
    <3>2. i < k => D(i) = C(i)
      BY <1>1, <1>3, <2>2, <3>1
    <3>3. i + 1 \in 1 .. Len(q)
      BY <1>1, <2>2
    <3>4. ~(i < k) => D(i) = C(i + 1)
      BY <1>1, <1>3, <2>2, <3>1, <3>3
    <3> QED BY <3>2, <3>4
  <2>3. CASE i = Len(q)
    <3>1. D(i) = LastOf(head) /\ ~(i < k)
      BY <1>1, <1>3, <2>3 DEF Cell
    <3> QED BY <1>1, <2>3, <3>1
  <2> QED BY <1>1, <2>1, <2>2, <2>3
<1>5. n = C(k) /\ p = C(k - 1) /\ lru_next[n] = C(k + 1)
  <2>1. n = C(k)
    BY <1>1
  <2>2. k - 1 \in 0 .. Len(q) /\ (k - 1) + 1 = k
    BY <1>1
  <2>3. lru_prev[n] = C(k - 1) /\ lru_next[n] = C(k + 1)
    BY <1>1, <1>2, <2>1, <2>2
  <2>4. lru_prev[n] = p
    BY ListFacts, SentinelsDiffer
  <2> QED BY <2>1, <2>3, <2>4
<1>6. /\ lru_next' = [lru_next EXCEPT ![p] = C(k + 1), ![n] = NULL]
      /\ lru_prev' = [lru_prev EXCEPT ![C(k + 1)] = p, ![n] = NULL]
  BY <1>5 DEF Unlink
<1>7. lru_next \in [Cells -> Cells \cup {NULL}] /\ lru_prev \in [Cells -> Cells \cup {NULL}]
  BY DEF TypeOK
<1> HIDE DEF C, D, r
<1>8. ASSUME NEW i \in 0 .. Len(q) - 1
      PROVE  lru_next'[D(i)] = D(i + 1) /\ lru_prev'[D(i + 1)] = D(i)
  <2>1. CASE i < k - 1
    <3>1. /\ D(i) = C(i) /\ D(i + 1) = C(i + 1) /\ lru_next[C(i)] = C(i + 1)
          /\ lru_prev[C(i + 1)] = C(i) /\ C(i) \in Cells /\ C(i + 1) \in Cells
      BY <1>1, <1>2, <1>4, <2>1
    <3>2. C(i) # C(k - 1) /\ C(i) # C(k) /\ C(i + 1) # C(k) /\ C(i + 1) # C(k + 1)
      BY <1>1, <2>1
    <3> QED BY <1>5, <1>6, <1>7, <3>1, <3>2
  <2>2. CASE i = k - 1
    <3>1. D(i) = C(k - 1) /\ D(i + 1) = C(k + 1) /\ C(k - 1) \in Cells /\ C(k + 1) \in Cells
      BY <1>1, <1>4, <2>2
    <3>2. C(k - 1) # C(k) /\ C(k) # C(k + 1)
      BY <1>1
    <3> QED BY <1>5, <1>6, <1>7, <3>1, <3>2
  <2>3. CASE i > k - 1
    <3>1. /\ D(i) = C(i + 1) /\ D(i + 1) = C(i + 2) /\ lru_next[C(i + 1)] = C(i + 2)
          /\ lru_prev[C(i + 2)] = C(i + 1) /\ C(i + 1) \in Cells /\ C(i + 2) \in Cells
      <4>1. (i + 1) + 1 = i + 2 /\ i + 1 \in 0 .. Len(q) /\ ~(i < k) /\ ~(i + 1 < k)
        BY <1>1, <2>3
      <4> QED BY <1>1, <1>2, <1>4, <4>1
    <3>2. /\ C(i + 1) # C(k - 1) /\ C(i + 1) # C(k)
          /\ C(i + 2) # C(k) /\ C(i + 2) # C(k + 1)
      BY <1>1, <2>3
    <3> QED BY <1>5, <1>6, <1>7, <3>1, <3>2
  <2> QED BY <2>1, <2>2, <2>3
<1>9. \A i, j \in 1 .. Len(r) : r[i] = r[j] => i = j
  <2>1. SUFFICES ASSUME NEW i \in 1 .. Len(r), NEW j \in 1 .. Len(r), r[i] = r[j]
                 PROVE  i = j
    OBVIOUS
  <2>2. ASSUME NEW m \in 1 .. Len(r)
        PROVE  \E a \in 1 .. Len(q) : r[m] = C(a) /\ a = IF m < k THEN m ELSE m + 1
    <3>1. (IF m < k THEN m ELSE m + 1) \in 1 .. Len(q)
      BY <1>1, <1>3
    <3> QED BY <1>1, <1>3, <3>1
  <2>3. PICK a \in 1 .. Len(q) : r[i] = C(a) /\ a = IF i < k THEN i ELSE i + 1
    BY <2>2
  <2>4. PICK b \in 1 .. Len(q) : r[j] = C(b) /\ b = IF j < k THEN j ELSE j + 1
    BY <2>2
  <2>5. a = b
    <3>1. C(a) = C(b)
      BY <2>1, <2>3, <2>4
    <3>2. a \in 0 .. Len(q) + 1 /\ b \in 0 .. Len(q) + 1
      BY <1>1
    <3> QED BY <1>1, <3>1, <3>2
  <2> QED BY <1>1, <1>3, <2>3, <2>4, <2>5
<1>10. lru_prev'[head] = NULL /\ lru_next'[LastOf(head)] = NULL
  <2>1. lru_prev[head] = NULL /\ lru_next[LastOf(head)] = NULL
    BY DEF IsList
  <2>2. head = C(0) /\ LastOf(head) = C(Len(q) + 1) /\ head \in Cells /\ LastOf(head) \in Cells
    BY <1>1, CellsOfList, SentinelsDiffer
  <2>3. C(0) # C(k) /\ C(0) # C(k + 1) /\ C(Len(q) + 1) # C(k) /\ C(Len(q) + 1) # C(k - 1)
    BY <1>1
  <2> QED BY <1>5, <1>6, <1>7, <2>1, <2>2, <2>3
<1> QED BY <1>3, <1>8, <1>9, <1>10 DEF IsList, r, D

(* A list without the node reads as before when the node leaves the other  *)
(* one.                                                                    *)
LEMMA UnlinkElsewhere ==
  ASSUME TypeOK, LinksAreLists, NEW p \in Cells, NEW n \in Nodes,
         lru_next[p] = n, Unlink(p, n),
         NEW head \in Heads, NEW q \in Seq(Nodes), IsList(q, head), \A i \in 1 .. Len(q) : q[i] # n
  PROVE  IsList(q, head)'
<1> DEFINE C(i) == Cell(q, head, i)
<1>1. /\ Len(q) \in Nat /\ C(0) = head /\ C(Len(q) + 1) = LastOf(head)
      /\ \A i \in 1 .. Len(q) : C(i) = q[i] /\ q[i] \in Nodes
      /\ \A i \in 0 .. Len(q) + 1 : C(i) \in Cells /\ C(i) # n
      /\ head \in Cells /\ LastOf(head) \in Cells /\ head # n /\ LastOf(head) # n
  <2>1. \A i \in 0 .. Len(q) + 1 : C(i) \in Cells /\ C(i) # n
    BY CellsOfList, SentinelsDiffer DEF Cell, Heads, Sentinels
  <2> QED BY <2>1, CellsOfList
<1>2. /\ \A i \in 0 .. Len(q) : lru_next[C(i)] = C(i + 1) /\ lru_prev[C(i + 1)] = C(i)
      /\ lru_prev[head] = NULL /\ lru_next[LastOf(head)] = NULL
  BY DEF IsList
<1> HIDE DEF C
<1>3. lru_next \in [Cells -> Cells \cup {NULL}] /\ lru_prev \in [Cells -> Cells \cup {NULL}]
  BY DEF TypeOK
<1>4. lru_prev[n] = p /\ lru_next[n] \in Cells /\ lru_prev[lru_next[n]] = n
  BY <1>3, ListFacts, SentinelsDiffer
<1>5. \A i \in 0 .. Len(q) : C(i) # p /\ C(i + 1) # lru_next[n]
  BY <1>1, <1>2, <1>4
<1>6. head # lru_next[n] /\ LastOf(head) # p
  BY <1>2, <1>3, <1>4, SentinelsDiffer
<1>7. \A i \in 0 .. Len(q) : lru_next'[C(i)] = C(i + 1) /\ lru_prev'[C(i + 1)] = C(i)
  BY <1>1, <1>2, <1>3, <1>5 DEF Unlink
<1>8. lru_prev'[head] = NULL /\ lru_next'[LastOf(head)] = NULL
  BY <1>1, <1>2, <1>3, <1>6 DEF Unlink
<1> QED BY <1>7, <1>8 DEF IsList, C

(* Whatever node leaves its list, both stay lists.                         *)
LEMMA UnlinkKeepsLists ==
  ASSUME TypeOK, LinksAreLists, NEW p \in Cells, NEW n \in Nodes, lru_next[p] = n, Unlink(p, n),
         \A m \in Nodes \ {n} : lru_flag'[m] = lru_flag[m]
  PROVE  /\ LinksAreLists' /\ InList' = InList \ {n}
         /\ lru_next'[n] = NULL
         /\ \A c \in Cells \ {p, n} : lru_next'[c] = lru_next[c]
         /\ lru_next' \in [Cells -> Cells \cup {NULL}] /\ lru_prev' \in [Cells -> Cells \cup {NULL}]
<1>1. /\ lru_next \in [Cells -> Cells \cup {NULL}] /\ lru_prev \in [Cells -> Cells \cup {NULL}]
      /\ Nodes \subseteq Cells /\ n # NULL /\ p # NULL
  BY SentinelsDiffer DEF TypeOK
<1>2. lru_prev[n] = p /\ lru_next[n] \in Cells /\ lru_prev[lru_next[n]] = n /\ p # n /\ lru_next[n] # n
  BY <1>1, ListFacts, SentinelsDiffer
<1>3. /\ lru_next' \in [Cells -> Cells \cup {NULL}] /\ lru_prev' \in [Cells -> Cells \cup {NULL}]
      /\ lru_next'[n] = NULL /\ lru_prev'[n] = NULL
      /\ lru_next'[p] = lru_next[n] /\ lru_prev'[lru_next[n]] = p
      /\ \A c \in Cells \ {p, n} : lru_next'[c] = lru_next[c]
      /\ \A c \in Cells \ {lru_next[n], n} : lru_prev'[c] = lru_prev[c]
  BY <1>1, <1>2 DEF Unlink
<1>4. InList' = InList \ {n}
  BY <1>1, <1>2, <1>3, SentinelsDiffer DEF InList
<1>5. \A m \in Nodes : lru_next'[m] = NULL <=> lru_prev'[m] = NULL
  <2>1. \A m \in Nodes : lru_next[m] = NULL <=> lru_prev[m] = NULL
    BY DEF LinksAreLists
  <2>2. p \in Nodes => lru_prev[p] # NULL
    BY <2>1, <1>1
  <2>3. lru_next[n] \in Nodes => lru_next[lru_next[n]] # NULL
    BY <2>1, <1>1, <1>2
  <2>4. \A m \in Nodes \ {n} : lru_next'[m] = NULL <=> lru_next[m] = NULL
    BY <1>1, <1>2, <1>3, SentinelsDiffer
  <2>5. \A m \in Nodes \ {n} : lru_prev'[m] = NULL <=> lru_prev[m] = NULL
    BY <1>1, <1>2, <1>3, SentinelsDiffer
  <2> QED BY <1>3, <2>1, <2>4, <2>5
<1>6. ASSUME NEW head \in Heads, NEW S \in SUBSET Nodes, ListHolds(head, S)
      PROVE  \E q \in Seq(Nodes) : IsList(q, head)' /\ Holds(q, S \ {n})
  <2>1. PICK q \in Seq(Nodes) : IsList(q, head) /\ Holds(q, S)
    BY <1>6 DEF ListHolds
  <2>2. CASE \E k \in 1 .. Len(q) : q[k] = n
    <3>1. PICK k \in 1 .. Len(q) : q[k] = n
      BY <2>2
    <3>2. IsList(RemoveAt(q, k), head)'
      BY <2>1, <3>1, UnlinkInList
    <3>3. RemoveAt(q, k) \in Seq(Nodes) /\ Len(RemoveAt(q, k)) = Len(q) - 1
      BY RemoveAtFacts
    <3>4. \A i \in 1 .. Len(q) : i # k <=> q[i] # n
      BY <2>1, <3>1 DEF IsList
    <3>5. ASSUME NEW m \in Nodes
          PROVE  m \in S \ {n} <=> \E i \in 1 .. Len(q) - 1 : RemoveAt(q, k)[i] = m
      <4>1. (\E i \in 1 .. Len(q) - 1 : RemoveAt(q, k)[i] = m)
              <=> (\E i \in 1 .. Len(q) : i # k /\ q[i] = m)
        BY RemoveAtKeepsOthers
      <4>2. m \in S <=> \E i \in 1 .. Len(q) : q[i] = m
        BY <2>1 DEF Holds
      <4> QED BY <3>1, <3>4, <4>1, <4>2
    <3>6. Holds(RemoveAt(q, k), S \ {n})
      BY <3>3, <3>5 DEF Holds
    <3> QED BY <3>2, <3>3, <3>6
  <2>3. CASE \A k \in 1 .. Len(q) : q[k] # n
    <3>1. IsList(q, head)'
      BY <2>1, <2>3, UnlinkElsewhere
    <3>2. Holds(q, S \ {n})
      BY <2>1, <2>3 DEF Holds
    <3> QED BY <3>1, <3>2
  <2> QED BY <2>2, <2>3
<1>7. LinksAreLists'
  <2>1. {m \in InList : lru_flag[m]} \in SUBSET Nodes /\ {m \in InList : ~lru_flag[m]} \in SUBSET Nodes
    BY DEF InList
  <2>2. /\ {m \in InList : lru_flag[m]}' = {m \in InList : lru_flag[m]} \ {n}
        /\ {m \in InList : ~lru_flag[m]}' = {m \in InList : ~lru_flag[m]} \ {n}
    BY <1>4 DEF InList
  <2>3. /\ ListHolds(LruHead, {m \in InList : lru_flag[m]})
        /\ ListHolds(PoolHead, {m \in InList : ~lru_flag[m]})
    BY DEF LinksAreLists
  <2>4. \E q \in Seq(Nodes) : IsList(q, LruHead)' /\ Holds(q, {m \in InList : lru_flag[m]} \ {n})
    BY <1>6, <2>1, <2>3 DEF Heads
  <2>5. \E q \in Seq(Nodes) : IsList(q, PoolHead)' /\ Holds(q, {m \in InList : ~lru_flag[m]} \ {n})
    BY <1>6, <2>1, <2>3 DEF Heads
  <2>6. ListHolds(LruHead, {m \in InList : lru_flag[m]})'
    BY <2>2, <2>4 DEF ListHolds, Holds
  <2>7. ListHolds(PoolHead, {m \in InList : ~lru_flag[m]})'
    BY <2>2, <2>5 DEF ListHolds, Holds
  <2> QED BY <1>5, <2>6, <2>7 DEF LinksAreLists
<1> QED BY <1>3, <1>4, <1>7

(* A node put at the end of the LRU list.                                  *)
LinkLast(p, n) ==
  /\ lru_next' = [lru_next EXCEPT ![p] = n, ![n] = LruTail]
  /\ lru_prev' = [lru_prev EXCEPT ![LruTail] = n, ![n] = p]

(* The LRU list with a node linked in before its tail.                     *)
LEMMA LinkInList ==
  ASSUME TypeOK, LinksAreLists, NEW p \in Cells, NEW n \in Nodes,
         lru_next[p] = LruTail, lru_next[n] = NULL, LinkLast(p, n),
         NEW q \in Seq(Nodes), IsList(q, LruHead)
  PROVE  IsList(Append(q, n), LruHead)'
<1> DEFINE C(i) == Cell(q, LruHead, i)
           r == Append(q, n)
           D(i) == Cell(r, LruHead, i)
<1>1. LruHead \in Heads /\ LastOf(LruHead) = LruTail
  BY SentinelsDiffer DEF Heads, LastOf
<1>2. /\ Len(q) \in Nat /\ C(0) = LruHead /\ C(Len(q) + 1) = LruTail
      /\ \A i \in 1 .. Len(q) : C(i) = q[i] /\ q[i] \in Nodes
      /\ \A i, j \in 0 .. Len(q) + 1 : C(i) = C(j) => i = j
      /\ \A i \in 0 .. Len(q) + 1 : C(i) \in Cells
  <2>1. \A i \in 0 .. Len(q) + 1 : C(i) \in Cells
    BY <1>1, CellsOfList, SentinelsDiffer DEF Cell, Heads, Sentinels
  <2> QED BY <1>1, <2>1, CellsOfList
<1>3. /\ \A i \in 0 .. Len(q) : lru_next[C(i)] = C(i + 1) /\ lru_prev[C(i + 1)] = C(i)
      /\ lru_prev[LruHead] = NULL /\ lru_next[LruTail] = NULL
      /\ \A i, j \in 1 .. Len(q) : q[i] = q[j] => i = j
  BY <1>1 DEF IsList
<1>4. \A i \in 0 .. Len(q) : C(i) # n
  <2>1. \A i \in 0 .. Len(q) : C(i + 1) # NULL
    BY <1>2, SentinelsDiffer
  <2> QED BY <1>3, <2>1
<1>5. p = C(Len(q)) /\ p # n /\ n # LruTail /\ p # LruTail /\ n # LruHead /\ LruHead # LruTail
  <2>1. lru_prev[LruTail] = p
    BY ListFacts, SentinelsDiffer DEF Sentinels
  <2>2. p = C(Len(q))
    BY <1>2, <1>3, <2>1
  <2>3. p # LruTail
    BY <1>2, <1>3, SentinelsDiffer
  <2> QED BY <1>2, <1>4, <2>2, <2>3, SentinelsDiffer DEF Sentinels
<1>6. r \in Seq(Nodes) /\ Len(r) = Len(q) + 1
      /\ \A i \in 1 .. Len(q) + 1 : r[i] = IF i = Len(q) + 1 THEN n ELSE q[i]
  BY <1>2
<1>7. /\ \A i \in 0 .. Len(q) : D(i) = C(i)
      /\ D(Len(q) + 1) = n /\ D(Len(q) + 2) = LruTail
  <2> HIDE DEF r
  <2> QED BY <1>1, <1>2, <1>6 DEF Cell
<1>8. /\ lru_next \in [Cells -> Cells \cup {NULL}] /\ lru_prev \in [Cells -> Cells \cup {NULL}]
      /\ n \in Cells /\ LruTail \in Cells /\ LruHead \in Cells
  BY SentinelsDiffer DEF TypeOK, Sentinels
<1> HIDE DEF C, D, r
<1>9. ASSUME NEW i \in 0 .. Len(q) + 1
      PROVE  lru_next'[D(i)] = D(i + 1) /\ lru_prev'[D(i + 1)] = D(i)
  <2>1. CASE i < Len(q)
    <3>1. /\ D(i) = C(i) /\ D(i + 1) = C(i + 1) /\ lru_next[C(i)] = C(i + 1)
          /\ lru_prev[C(i + 1)] = C(i) /\ C(i) \in Cells /\ C(i + 1) \in Cells
      BY <1>2, <1>3, <1>7, <2>1
    <3>2. C(i) # C(Len(q)) /\ C(i) # n /\ C(i + 1) # n /\ C(i + 1) # C(Len(q) + 1)
      BY <1>2, <1>4, <2>1
    <3> QED BY <1>2, <1>5, <1>8, <3>1, <3>2 DEF LinkLast
  <2>2. CASE i = Len(q)
    <3>1. D(i) = p /\ D(i + 1) = n
      BY <1>2, <1>5, <1>7, <2>2
    <3> QED BY <1>5, <1>8, <3>1 DEF LinkLast
  <2>3. CASE i = Len(q) + 1
    <3>1. D(i) = n /\ D(i + 1) = LruTail
      <4>1. (Len(q) + 1) + 1 = Len(q) + 2
        BY <1>2
      <4> QED BY <1>7, <2>3, <4>1
    <3> QED BY <1>5, <1>8, <3>1 DEF LinkLast
  <2> QED BY <1>2, <2>1, <2>2, <2>3
<1>10. \A i, j \in 1 .. Len(r) : r[i] = r[j] => i = j
  <2>1. \A i \in 1 .. Len(q) : q[i] # n
    BY <1>2, <1>4
  <2> QED BY <1>2, <1>3, <1>6, <2>1
<1>11. lru_prev'[LruHead] = NULL /\ lru_next'[LruTail] = NULL
  BY <1>3, <1>5, <1>8 DEF LinkLast
<1> QED BY <1>1, <1>6, <1>9, <1>10, <1>11 DEF IsList, r, D

(* The pool reads as before when a node joins the LRU list.                *)
LEMMA LinkElsewhere ==
  ASSUME TypeOK, LinksAreLists, NEW p \in Cells, NEW n \in Nodes,
         lru_next[p] = LruTail, lru_next[n] = NULL, LinkLast(p, n),
         NEW q \in Seq(Nodes), IsList(q, PoolHead)
  PROVE  IsList(q, PoolHead)'
<1> DEFINE C(i) == Cell(q, PoolHead, i)
<1>1. PoolHead \in Heads /\ LastOf(PoolHead) = PoolTail
  BY DEF Heads, LastOf
<1>2. /\ Len(q) \in Nat /\ C(0) = PoolHead /\ C(Len(q) + 1) = PoolTail
      /\ \A i \in 1 .. Len(q) : C(i) = q[i] /\ q[i] \in Nodes
      /\ \A i \in 0 .. Len(q) + 1 : C(i) \in Cells /\ C(i) # LruTail
      /\ PoolHead \in Cells /\ PoolTail \in Cells /\ LruTail \in Cells
  <2>1. \A i \in 0 .. Len(q) + 1 : C(i) \in Cells /\ C(i) # LruTail
    BY <1>1, CellsOfList, SentinelsDiffer DEF Cell, Sentinels
  <2> QED BY <1>1, <2>1, CellsOfList, SentinelsDiffer DEF Sentinels
<1>3. /\ \A i \in 0 .. Len(q) : lru_next[C(i)] = C(i + 1) /\ lru_prev[C(i + 1)] = C(i)
      /\ lru_prev[PoolHead] = NULL /\ lru_next[PoolTail] = NULL
  BY <1>1 DEF IsList
<1>4. \A i \in 0 .. Len(q) : C(i) # n /\ C(i) # p /\ C(i + 1) # n /\ C(i + 1) # LruTail
  <2>1. \A i \in 0 .. Len(q) : C(i + 1) # NULL /\ C(i) # NULL /\ C(i + 1) # LruTail
    BY <1>2, SentinelsDiffer
  <2>2. lru_prev[n] = NULL
    BY DEF LinksAreLists
  <2> QED BY <1>3, <2>1, <2>2
<1>5. /\ PoolHead # n /\ PoolTail # n /\ PoolTail # p /\ PoolHead # LruTail
      /\ lru_next \in [Cells -> Cells \cup {NULL}] /\ lru_prev \in [Cells -> Cells \cup {NULL}]
      /\ n \in Cells
  BY <1>2, <1>3, SentinelsDiffer DEF TypeOK, Sentinels
<1> HIDE DEF C
<1>6. \A i \in 0 .. Len(q) : lru_next'[C(i)] = C(i + 1) /\ lru_prev'[C(i + 1)] = C(i)
  BY <1>2, <1>3, <1>4, <1>5 DEF LinkLast
<1>7. lru_prev'[PoolHead] = NULL /\ lru_next'[PoolTail] = NULL
  BY <1>2, <1>3, <1>5 DEF LinkLast
<1> QED BY <1>1, <1>6, <1>7 DEF IsList, C

(* Linking a loose node in leaves two lists, with this node besides the    *)
(* others.                                                                 *)
LEMMA LinkKeepsLists ==
  ASSUME TypeOK, LinksAreLists, NEW p \in Cells, NEW n \in Nodes,
         lru_next[p] = LruTail, lru_next[n] = NULL, LinkLast(p, n), lru_flag[n], UNCHANGED lru_flag
  PROVE  /\ LinksAreLists' /\ InList' = InList \cup {n}
         /\ lru_next'[n] = LruTail
         /\ \A c \in Cells \ {p, n} : lru_next'[c] = lru_next[c]
         /\ lru_next' \in [Cells -> Cells \cup {NULL}] /\ lru_prev' \in [Cells -> Cells \cup {NULL}]
<1>1. /\ lru_next \in [Cells -> Cells \cup {NULL}] /\ lru_prev \in [Cells -> Cells \cup {NULL}]
      /\ n \in Cells /\ LruTail \in Cells /\ p # n /\ n # LruTail /\ LruTail # NULL /\ p # NULL /\ n # NULL
      /\ Nodes \subseteq Cells /\ LruTail \notin Nodes
  BY SentinelsDiffer DEF TypeOK, Sentinels
<1>2. /\ lru_next' \in [Cells -> Cells \cup {NULL}] /\ lru_prev' \in [Cells -> Cells \cup {NULL}]
      /\ lru_next'[n] = LruTail /\ lru_prev'[n] = p /\ lru_next'[p] = n
      /\ \A c \in Cells \ {p, n} : lru_next'[c] = lru_next[c]
      /\ \A c \in Cells \ {LruTail, n} : lru_prev'[c] = lru_prev[c]
  BY <1>1 DEF LinkLast
<1>3. InList' = InList \cup {n}
  <2>1. \A m \in Nodes \ {n} : lru_next'[m] = NULL <=> lru_next[m] = NULL
    BY <1>1, <1>2
  <2> QED BY <1>1, <1>2, <2>1 DEF InList
<1>4. \A m \in Nodes : lru_next'[m] = NULL <=> lru_prev'[m] = NULL
  <2>1. \A m \in Nodes \ {n} : lru_next'[m] = NULL <=> lru_next[m] = NULL
    BY <1>1, <1>2
  <2>2. \A m \in Nodes \ {n} : lru_prev'[m] = lru_prev[m]
    BY <1>1, <1>2
  <2> QED BY <1>1, <1>2, <2>1, <2>2 DEF LinksAreLists
<1>5. ListHolds(LruHead, {m \in InList : lru_flag[m]})'
  <2>1. PICK q \in Seq(Nodes) : IsList(q, LruHead) /\ Holds(q, {m \in InList : lru_flag[m]})
    BY DEF LinksAreLists, ListHolds
  <2>2. IsList(Append(q, n), LruHead)'
    BY <2>1, LinkInList
  <2>3. /\ Append(q, n) \in Seq(Nodes) /\ Len(Append(q, n)) = Len(q) + 1 /\ Len(q) \in Nat
        /\ \A i \in 1 .. Len(q) + 1 : Append(q, n)[i] = IF i = Len(q) + 1 THEN n ELSE q[i]
    OBVIOUS
  <2>4. ASSUME NEW m \in Nodes
        PROVE  (m \in InList' /\ lru_flag'[m])
                 <=> \E i \in 1 .. Len(q) + 1 : Append(q, n)[i] = m
    <3>1. (m \in InList /\ lru_flag[m]) <=> \E i \in 1 .. Len(q) : q[i] = m
      BY <2>1 DEF Holds
    <3>2. (\E i \in 1 .. Len(q) + 1 : Append(q, n)[i] = m)
            <=> m = n \/ \E i \in 1 .. Len(q) : q[i] = m
      BY <2>3
    <3>3. (m \in InList' /\ lru_flag'[m]) <=> (m = n \/ (m \in InList /\ lru_flag[m]))
      <4>1. m \in InList' <=> (m = n \/ m \in InList)
        BY <1>3
      <4>2. lru_flag'[m] = lru_flag[m]
        OBVIOUS
      <4> QED BY <4>1, <4>2
    <3> QED BY <3>1, <3>2, <3>3
  <2>5. Holds(Append(q, n), {m \in InList' : lru_flag'[m]})
    BY <2>3, <2>4 DEF Holds
  <2> QED BY <2>2, <2>3, <2>5 DEF ListHolds, Holds
<1>6. ListHolds(PoolHead, {m \in InList : ~lru_flag[m]})'
  <2>1. PICK q \in Seq(Nodes) : IsList(q, PoolHead) /\ Holds(q, {m \in InList : ~lru_flag[m]})
    BY DEF LinksAreLists, ListHolds
  <2>2. IsList(q, PoolHead)'
    BY <2>1, LinkElsewhere
  <2>3. {m \in InList : ~lru_flag[m]}' = {m \in InList : ~lru_flag[m]}
    BY <1>3
  <2> QED BY <2>1, <2>2, <2>3 DEF ListHolds, Holds
<1> QED BY <1>2, <1>3, <1>4, <1>5, <1>6 DEF LinksAreLists

---------------------------------------------------------------------------
(* A node a thread has locked in its list.                                 *)
LEMMA LockedIsListed ==
  ASSUME IInv, NEW t \in Threads, HoldsNode(t), pc[t] \notin InHandPcs \cup {"ht_insert"}
  PROVE  node[t] \in InList /\ (lru_flag[node[t]] <=> ht_flag[node[t]])
<1>1. node[t] \in Nodes /\ lock[node[t]] = t
  BY HeldFacts
<1>2. ASSUME NEW u \in Threads, WorksOn(u, node[t])  PROVE FALSE
  <2>1. HoldsNode(u) /\ node[u] = node[t]
    BY <1>2 DEF WorksOn, InHandPcs, HoldsNode
  <2>2. lock[node[t]] = u
    BY <2>1, HeldFacts
  <2> QED BY <1>1, <1>2, <2>2 DEF WorksOn
<1> QED BY <1>1, <1>2 DEF IInv, NodesAreSettled

(* IInv is kept by RemoveUnlink.                                           *)
LEMMA RemoveUnlinkKeeps ==
  ASSUME IInv, NEW t \in Threads, RemoveUnlink(t)
  PROVE  IInv'
<1> USE DEF RemoveUnlink, Step, Goto, At, locals, table
<1> DEFINE n == node[t]
           p == prev[t]
           x == lru_next[n]
<1>1. TypeOK /\ Local(t) /\ LinksAreLists /\ NodesAreSettled /\ ChainsAreRight
  BY DEF IInv
<1>2. /\ pc[t] = "remove_unlink" /\ pc'[t] = "append_read"
      /\ req'[t] = req[t] /\ hit'[t] = hit[t] /\ node'[t] = n /\ prev'[t] = p
  BY <1>1 DEF TypeOK
<1>3. /\ n \in Nodes /\ n \in Cells /\ p \in Cells /\ x \in Cells
      /\ lock[n] = t /\ lock[p] = t /\ lock[x] = t
  BY <1>2, HeldFacts DEF HoldsNode, HoldsPrev
<1>4. lru_next[p] = n /\ hit[t] /\ lru_flag[n] /\ ht_flag[n] /\ n # p /\ n # x
  <2>1. lru_next[p] = n /\ hit[t] /\ lru_flag[n]
    BY <1>1, <1>2 DEF Local, LocalsAreSet, PrevLeadsOn, NodeIsAsLeft, Removing
  <2>2. ht_flag[n]
    BY <1>2, <2>1, LockedIsListed DEF HoldsNode, InHandPcs
  <2>3. n # p /\ n # x
    BY <1>1, <1>3, <2>1, ListFacts, SentinelsDiffer
  <2> QED BY <2>1, <2>2, <2>3
<1>5. /\ LinksAreLists' /\ InList' = InList \ {n} /\ lru_next'[n] = NULL
      /\ \A c \in Cells \ {p, n} : lru_next'[c] = lru_next[c]
      /\ lru_next' \in [Cells -> Cells \cup {NULL}] /\ lru_prev' \in [Cells -> Cells \cup {NULL}]
  BY <1>1, <1>3, <1>4, UnlinkKeepsLists
<1>6. LocalsOfOthersStay(t)
  BY <1>1 DEF LocalsOfOthersStay, TypeOK
<1>7. LocksAreRight(t)
  <2>1. Held(t) = {n, p, x}
    BY <1>2 DEF Held, HoldsNode, HoldsPrev
  <2>2. Held(t)' = {n}
    BY <1>2 DEF Held, HoldsNode, HoldsPrev
  <2>3. Held(t)' = Held(t) \ {p, x} /\ Held(t) \subseteq Cells
    BY <1>3, <1>4, <2>1, <2>2
  <2>4. Release({p, x}) /\ UNCHANGED bucket_lock
    OBVIOUS
  <2> HIDE DEF RemoveUnlink
  <2> QED BY <1>2, <1>3, <2>3, <2>4, ReleaseMoves
<1>8. OthersStay(t)
  BY <1>3, <1>5, <1>6, <1>7 DEF OthersStay, LocksAreRight, DataOfOthersStays
<1>9. TypeOK'
  <2>1. pc' \in [Threads -> PcValues]
    BY <1>1 DEF TypeOK, PcValues
  <2> QED BY <1>1, <1>5, <1>7, <2>1 DEF TypeOK, LocksAreRight
<1>10. Local(t)'
  <2>1. LocalsAreSet(t)'
    BY <1>1, <1>2, <1>3 DEF Local, LocalsAreSet, HoldsPrev, Evicting, Removing, Appending
  <2>2. PrevLeadsOn(t)'
    BY <1>2 DEF PrevLeadsOn
  <2>3. NodeIsAsLeft(t)'
    BY <1>2, <1>4, <1>5 DEF NodeIsAsLeft, InHandPcs, Appending
  <2> QED BY <2>1, <2>2, <2>3 DEF Local
<1>11. NodesAreSettled'
  <2>1. \A u \in Threads, m \in Nodes : WorksOn(u, m) => WorksOn(u, m)'
    BY <1>2, <1>6 DEF WorksOn, LocalsOfOthersStay, InHandPcs
  <2>2. WorksOn(t, n)'
    BY <1>2 DEF WorksOn, InHandPcs
  <2> QED BY <1>1, <1>5, <2>1, <2>2 DEF NodesAreSettled
<1>12. ChainsAreRight'
  BY <1>1 DEF ChainsAreRight
<1> QED BY <1>5, <1>7, <1>8, <1>9, <1>10, <1>11, <1>12, StepKeeps DEF LocksAreRight

(* IInv is kept by EvictUnlink.                                            *)
LEMMA EvictUnlinkKeeps ==
  ASSUME IInv, NEW t \in Threads, EvictUnlink(t)
  PROVE  IInv'
<1> USE DEF EvictUnlink, Step, Goto, At, locals
<1> DEFINE n == node[t]
           p == prev[t]
           x == lru_next[n]
<1>1. TypeOK /\ Local(t) /\ LinksAreLists /\ NodesAreSettled /\ ChainsAreRight
  BY DEF IInv
<1>2. /\ pc[t] = "evict_unlink" /\ pc'[t] = IF p = PoolHead THEN "fill" ELSE "ht_remove"
      /\ req'[t] = req[t] /\ hit'[t] = hit[t] /\ node'[t] = n /\ prev'[t] = p
  BY <1>1 DEF TypeOK
<1>3. /\ n \in Nodes /\ n \in Cells /\ p \in Cells /\ x \in Cells
      /\ lock[n] = t /\ lock[p] = t /\ lock[x] = t
  BY <1>2, HeldFacts DEF HoldsNode, HoldsPrev
<1>4. /\ lru_next[p] = n /\ ~hit[t] /\ p \in {LruHead, PoolHead} /\ req[t] \in Keys
      /\ ht_flag[n] <=> p = LruHead
      /\ n # p /\ n # x
  <2>1. lru_next[p] = n /\ ~hit[t] /\ p \in {LruHead, PoolHead} /\ req[t] \in Keys
    BY <1>1, <1>2 DEF Local, LocalsAreSet, PrevLeadsOn, Evicting, Removing, Appending
  <2>2. ht_flag[n] <=> lru_flag[n]
    BY <1>2, LockedIsListed DEF HoldsNode, InHandPcs
  <2>3. n # p /\ n # x
    BY <1>1, <1>3, <2>1, ListFacts, SentinelsDiffer
  <2>4. lru_flag[n] <=> p = LruHead
    BY <1>1, <1>3, <2>1, ListFacts, SentinelsDiffer DEF Sentinels
  <2> QED BY <2>1, <2>2, <2>3, <2>4
<1>5. /\ LinksAreLists' /\ InList' = InList \ {n} /\ lru_next'[n] = NULL
      /\ \A c \in Cells \ {p, n} : lru_next'[c] = lru_next[c]
      /\ lru_next' \in [Cells -> Cells \cup {NULL}] /\ lru_prev' \in [Cells -> Cells \cup {NULL}]
  <2>1. \A m \in Nodes \ {n} : lru_flag'[m] = lru_flag[m]
    BY <1>1 DEF TypeOK
  <2> QED BY <1>1, <1>3, <1>4, <2>1, UnlinkKeepsLists
<1>6. LocalsOfOthersStay(t)
  BY <1>1 DEF LocalsOfOthersStay, TypeOK
<1>7. LocksAreRight(t)
  <2>1. Held(t) = {n, p, x}
    BY <1>2 DEF Held, HoldsNode, HoldsPrev
  <2>2. Held(t)' = {n}
    BY <1>2 DEF Held, HoldsNode, HoldsPrev
  <2>3. Held(t)' = Held(t) \ {p, x} /\ Held(t) \subseteq Cells
    BY <1>3, <1>4, <2>1, <2>2
  <2>4. Release({p, x}) /\ UNCHANGED bucket_lock
    OBVIOUS
  <2> HIDE DEF EvictUnlink
  <2> QED BY <1>2, <1>3, <2>3, <2>4, ReleaseMoves
<1>8. lru_flag' \in [Nodes -> BOOLEAN] /\ ~lru_flag'[n] /\ \A m \in Nodes \ {n} : lru_flag'[m] = lru_flag[m]
  BY <1>1, <1>3 DEF TypeOK
<1>9. OthersStay(t)
  BY <1>3, <1>5, <1>6, <1>7, <1>8 DEF OthersStay, LocksAreRight, DataOfOthersStays
<1>10. TypeOK'
  <2>1. pc' \in [Threads -> PcValues]
    BY <1>1 DEF TypeOK, PcValues
  <2> QED BY <1>1, <1>5, <1>7, <1>8, <2>1 DEF TypeOK, LocksAreRight
<1>11. Local(t)'
  <2>1. LocalsAreSet(t)'
    BY <1>2, <1>3, <1>4 DEF LocalsAreSet, HoldsPrev, Evicting, Removing, Appending
  <2>2. PrevLeadsOn(t)'
    BY <1>2 DEF PrevLeadsOn
  <2>3. NodeIsAsLeft(t)'
    BY <1>2, <1>4, <1>5, <1>8, SentinelsDiffer DEF NodeIsAsLeft, InHandPcs, Appending
  <2> QED BY <2>1, <2>2, <2>3 DEF Local
<1>12. NodesAreSettled'
  <2>1. \A u \in Threads, m \in Nodes : WorksOn(u, m) => WorksOn(u, m)'
    BY <1>2, <1>6 DEF WorksOn, LocalsOfOthersStay, InHandPcs
  <2>2. WorksOn(t, n)'
    BY <1>2 DEF WorksOn, InHandPcs
  <2> QED BY <1>1, <1>5, <1>8, <2>1, <2>2 DEF NodesAreSettled
<1>13. ChainsAreRight'
  BY <1>1 DEF ChainsAreRight
<1> QED BY <1>5, <1>7, <1>9, <1>10, <1>11, <1>12, <1>13, StepKeeps DEF LocksAreRight

(* IInv is kept by AppendLink.                                             *)
LEMMA AppendLinkKeeps ==
  ASSUME IInv, NEW t \in Threads, AppendLink(t)
  PROVE  IInv'
<1> USE DEF AppendLink, Step, Goto, At, locals, table, Finish
<1> DEFINE n == node[t]
           p == prev[t]
<1>1. TypeOK /\ Local(t) /\ LinksAreLists /\ NodesAreSettled /\ ChainsAreRight
  BY DEF IInv
<1>2. /\ pc[t] = "append_link" /\ pc'[t] = IF hit[t] THEN "idle" ELSE "ht_insert"
      /\ hit[t] => hit'[t] = FALSE
      /\ ~hit[t] => req'[t] = req[t] /\ hit'[t] = hit[t] /\ node'[t] = n /\ prev'[t] = p
  BY <1>1 DEF TypeOK
<1>3. /\ n \in Nodes /\ n \in Cells /\ p \in Cells /\ LruTail \in Cells
      /\ lock[n] = t /\ lock[p] = t /\ lock[LruTail] = t
  BY <1>2, HeldFacts, SentinelsDiffer DEF HoldsNode, HoldsPrev, Sentinels
<1>4. /\ lru_next[p] = LruTail /\ lru_next[n] = NULL /\ lru_flag[n]
      /\ ht_flag[n] <=> hit[t]
      /\ ~hit[t] => key[n] = req[t]
      /\ req[t] \in Keys
      /\ n # p /\ n # LruTail
  <2>1. /\ lru_next[p] = LruTail /\ lru_next[n] = NULL /\ lru_flag[n]
        /\ ht_flag[n] <=> hit[t]
        /\ ~hit[t] => key[n] = req[t]
        /\ req[t] \in Keys
    BY <1>1, <1>2 DEF Local, LocalsAreSet, PrevLeadsOn, NodeIsAsLeft, Appending, InHandPcs
  <2> QED BY <1>3, <2>1, SentinelsDiffer DEF Sentinels
<1>5. LinkLast(p, n) /\ UNCHANGED <<key, lru_flag, ht_flag, chain, bucket_lock>>
  BY DEF LinkLast
<1>6. /\ LinksAreLists' /\ InList' = InList \cup {n} /\ lru_next'[n] = LruTail
      /\ \A c \in Cells \ {p, n} : lru_next'[c] = lru_next[c]
      /\ lru_next' \in [Cells -> Cells \cup {NULL}] /\ lru_prev' \in [Cells -> Cells \cup {NULL}]
  BY <1>1, <1>3, <1>4, <1>5, LinkKeepsLists
<1>7. LocalsOfOthersStay(t)
  BY <1>1 DEF LocalsOfOthersStay, TypeOK
<1>8. LocksAreRight(t)
  <2>1. Held(t) = {n, p, LruTail}
    BY <1>2 DEF Held, HoldsNode, HoldsPrev
  <2>2. Held(t) \subseteq Cells
    BY <1>3, <2>1
  <2>3. CASE hit[t]
    <3>1. Held(t)' = Held(t) \ {p, LruTail, n}
      BY <1>2, <2>1, <2>3 DEF Held, HoldsNode, HoldsPrev
    <3>2. Release({p, LruTail, n}) /\ UNCHANGED bucket_lock
      BY <2>3
    <3> HIDE DEF AppendLink
    <3> QED BY <1>2, <1>3, <2>2, <2>3, <3>1, <3>2, ReleaseMoves
  <2>4. CASE ~hit[t]
    <3>1. Held(t)' = {n}
      BY <1>2, <2>4 DEF Held, HoldsNode, HoldsPrev
    <3>2. Held(t)' = Held(t) \ {p, LruTail}
      BY <1>4, <2>1, <3>1
    <3>3. Release({p, LruTail}) /\ UNCHANGED bucket_lock
      BY <2>4
    <3> HIDE DEF AppendLink
    <3> QED BY <1>2, <1>3, <2>2, <2>4, <3>2, <3>3, ReleaseMoves
  <2> QED BY <2>3, <2>4
<1>9. OthersStay(t)
  BY <1>3, <1>6, <1>7, <1>8 DEF OthersStay, LocksAreRight, DataOfOthersStays
<1>10. TypeOK'
  <2>1. pc' \in [Threads -> PcValues]
    BY <1>1, ZenonT(60) DEF TypeOK, PcValues
  <2>2. req' \in [Threads -> Keys \cup {NULL}] /\ hit' \in [Threads -> BOOLEAN]
    BY <1>1 DEF TypeOK
  <2>3. node' \in [Threads -> Nodes \cup {NULL}] /\ prev' \in [Threads -> Cells \cup {NULL}]
    BY <1>1 DEF TypeOK
  <2> HIDE DEF AppendLink
  <2> QED BY <1>1, <1>5, <1>6, <1>8, <2>1, <2>2, <2>3 DEF TypeOK, LocksAreRight
<1> HIDE DEF AppendLink
<1>11. Local(t)'
  <2>1. LocalsAreSet(t)'
    BY <1>2, <1>3, <1>4 DEF LocalsAreSet, HoldsPrev, Evicting, Removing, Appending
  <2>2. PrevLeadsOn(t)'
    BY <1>2 DEF PrevLeadsOn
  <2>3. NodeIsAsLeft(t)'
    BY <1>2, <1>3, <1>4, <1>5, <1>6, SentinelsDiffer DEF NodeIsAsLeft, InHandPcs, Appending
  <2> QED BY <2>1, <2>2, <2>3 DEF Local
<1>12. NodesAreSettled'
  <2>1. \A u \in Threads, m \in Nodes \ {n} : WorksOn(u, m) => WorksOn(u, m)'
    BY <1>2, <1>7 DEF WorksOn, LocalsOfOthersStay, InHandPcs
  <2>2. ~hit[t] => WorksOn(t, n)'
    BY <1>2 DEF WorksOn
  <2>3. hit[t] => n \in InList' /\ (lru_flag'[n] <=> ht_flag'[n])
    BY <1>4, <1>5, <1>6
  <2>4. \A m \in Nodes \ {n} : m \in InList' <=> m \in InList
    BY <1>6
  <2>5. ASSUME NEW m \in Nodes \ {n}
        PROVE  \/ m \in InList' /\ (lru_flag'[m] <=> ht_flag'[m])
               \/ \E u \in Threads : WorksOn(u, m)'
    <3>1. CASE \E u \in Threads : WorksOn(u, m)
      BY <2>1, <3>1
    <3>2. CASE m \in InList /\ (lru_flag[m] <=> ht_flag[m])
      BY <1>5, <2>4, <3>2
    <3> QED BY <1>1, <3>1, <3>2 DEF NodesAreSettled
  <2> QED BY <1>2, <2>2, <2>3, <2>5 DEF NodesAreSettled
<1>13. ChainsAreRight'
  BY <1>1, <1>5 DEF ChainsAreRight
<1> QED BY <1>6, <1>8, <1>9, <1>10, <1>11, <1>12, <1>13, StepKeeps DEF LocksAreRight

(* The lists of a step that changes neither a link nor the LRU flag of a   *)
(* listed node.                                                            *)
LEMMA ListsStay ==
  ASSUME LinksAreLists, UNCHANGED links, \A m \in InList : lru_flag'[m] = lru_flag[m]
  PROVE  LinksAreLists' /\ InList' = InList
<1>1. \A q, head : IsList(q, head)' <=> IsList(q, head)
  BY DEF IsList, Cell, LastOf, links
<1>2. InList' = InList
  BY DEF InList, links
<1>3. \A S, head : ListHolds(head, S)' <=> ListHolds(head, S)
  BY <1>1 DEF ListHolds, Holds
<1>4. /\ {m \in InList : lru_flag[m]}' = {m \in InList : lru_flag[m]}
      /\ {m \in InList : ~lru_flag[m]}' = {m \in InList : ~lru_flag[m]}
  BY <1>2
<1>5. /\ ListHolds(LruHead, {m \in InList : lru_flag[m]})'
      /\ ListHolds(PoolHead, {m \in InList : ~lru_flag[m]})'
  BY <1>1, <1>4 DEF LinksAreLists, ListHolds, Holds
<1> QED BY <1>2, <1>5 DEF LinksAreLists, links

(* IInv is kept by Fill.                                                   *)
LEMMA FillKeeps ==
  ASSUME IInv, NEW t \in Threads, Fill(t)
  PROVE  IInv'
<1> USE DEF Fill, Step, Goto, At, locals
<1> DEFINE n == node[t]
<1>1. TypeOK /\ Local(t) /\ LinksAreLists /\ NodesAreSettled /\ ChainsAreRight
  BY DEF IInv
<1>2. /\ pc[t] = "fill" /\ pc'[t] = "append_read"
      /\ req'[t] = req[t] /\ hit'[t] = hit[t] /\ node'[t] = n /\ prev'[t] = prev[t]
  BY <1>1 DEF TypeOK
<1>3. n \in Nodes /\ n \in Cells /\ lock[n] = t
  BY <1>2, HeldFacts DEF HoldsNode
<1>4. lru_next[n] = NULL /\ ~ht_flag[n] /\ ~hit[t] /\ req[t] \in Keys
  BY <1>1, <1>2 DEF Local, LocalsAreSet, NodeIsAsLeft, Removing, Appending, InHandPcs
<1>5. /\ key' \in [Nodes -> Keys \cup {NULL}] /\ key'[n] = req[t]
      /\ \A m \in Nodes \ {n} : key'[m] = key[m]
      /\ lru_flag' \in [Nodes -> BOOLEAN] /\ lru_flag'[n]
      /\ \A m \in Nodes \ {n} : lru_flag'[m] = lru_flag[m]
  BY <1>1, <1>3, <1>4 DEF TypeOK
<1>6. LinksAreLists' /\ InList' = InList
  <2>1. \A m \in InList : m \in Nodes \ {n}
    BY <1>4 DEF InList
  <2> QED BY <1>1, <1>5, <2>1, ListsStay
<1>7. LocalsOfOthersStay(t)
  BY <1>1 DEF LocalsOfOthersStay, TypeOK
<1>8. LocksAreRight(t)
  <2>1. Held(t) = {n} /\ Held(t)' = {n}
    BY <1>2 DEF Held, HoldsNode, HoldsPrev
  <2> QED BY <1>2, <1>3, <2>1, NoLockMoves
<1>9. OthersStay(t)
  BY <1>3, <1>5, <1>7, <1>8 DEF OthersStay, LocksAreRight, DataOfOthersStays, links
<1>10. TypeOK'
  <2>1. pc' \in [Threads -> PcValues]
    BY <1>1 DEF TypeOK, PcValues
  <2> QED BY <1>1, <1>5, <1>8, <2>1 DEF TypeOK, LocksAreRight, links
<1>11. Local(t)'
  <2>1. LocalsAreSet(t)'
    BY <1>2, <1>3, <1>4 DEF LocalsAreSet, HoldsPrev, Evicting, Removing, Appending
  <2>2. PrevLeadsOn(t)'
    BY <1>2 DEF PrevLeadsOn
  <2>3. NodeIsAsLeft(t)'
    BY <1>2, <1>4, <1>5 DEF NodeIsAsLeft, InHandPcs, Appending, links
  <2> QED BY <2>1, <2>2, <2>3 DEF Local
<1>12. NodesAreSettled'
  <2>1. \A u \in Threads, m \in Nodes : WorksOn(u, m) => WorksOn(u, m)'
    BY <1>2, <1>7 DEF WorksOn, LocalsOfOthersStay, InHandPcs
  <2>2. WorksOn(t, n)'
    BY <1>2 DEF WorksOn, InHandPcs
  <2> QED BY <1>1, <1>5, <1>6, <2>1, <2>2 DEF NodesAreSettled
<1>13. ChainsAreRight'
  BY <1>1, <1>4, <1>5 DEF ChainsAreRight
<1> QED BY <1>6, <1>8, <1>9, <1>10, <1>11, <1>12, <1>13, StepKeeps DEF LocksAreRight

---------------------------------------------------------------------------
(* A node leaves its chain, which loses nothing else.                      *)
LEMMA LeaveChainKeeps ==
  ASSUME TypeOK, ChainsAreRight, NEW n \in Nodes, ht_flag[n], LeaveChain(n), UNCHANGED key
  PROVE  /\ ChainsAreRight'
         /\ chain' \in [Buckets -> Seq(Nodes)] /\ ht_flag' \in [Nodes -> BOOLEAN]
         /\ ~ht_flag'[n] /\ \A m \in Nodes \ {n} : ht_flag'[m] = ht_flag[m]
         /\ \A b \in Buckets \ {BucketOf[key[n]]} : chain'[b] = chain[b]
<1> DEFINE B == BucketOf[key[n]]
           c == chain[B]
<1>1. key[n] \in Keys /\ B \in Buckets /\ c \in Seq(Nodes)
  BY ConstantsAssumption DEF ChainsAreRight, TypeOK
<1>2. PICK k \in 1 .. Len(c) : c[k] = n /\ chain' = [chain EXCEPT ![B] = RemoveAt(@, k)]
  <2>1. DOMAIN c = 1 .. Len(c)
    BY <1>1
  <2> QED BY <2>1 DEF LeaveChain, ChainOf
<1>3. /\ RemoveAt(c, k) \in Seq(Nodes) /\ Len(RemoveAt(c, k)) = Len(c) - 1
      /\ \A i \in 1 .. Len(c) - 1 : RemoveAt(c, k)[i] = IF i < k THEN c[i] ELSE c[i + 1]
  BY <1>1, RemoveAtFacts
<1>4. /\ chain' \in [Buckets -> Seq(Nodes)] /\ chain'[B] = RemoveAt(c, k)
      /\ \A b \in Buckets \ {B} : chain'[b] = chain[b]
  BY <1>1, <1>2, <1>3 DEF TypeOK
<1>5. /\ ht_flag' \in [Nodes -> BOOLEAN] /\ ~ht_flag'[n]
      /\ \A m \in Nodes \ {n} : ht_flag'[m] = ht_flag[m]
  BY DEF LeaveChain, TypeOK
<1>6. \A i, j \in 1 .. Len(c) : c[i] = c[j] => i = j
  BY <1>1 DEF ChainsAreRight
<1>7. \A i, j \in 1 .. Len(c) - 1 : RemoveAt(c, k)[i] = RemoveAt(c, k)[j] => i = j
  <2>1. SUFFICES ASSUME NEW i \in 1 .. Len(c) - 1, NEW j \in 1 .. Len(c) - 1,
                        RemoveAt(c, k)[i] = RemoveAt(c, k)[j]
                 PROVE  i = j
    OBVIOUS
  <2>2. PICK a \in 1 .. Len(c) : a = (IF i < k THEN i ELSE i + 1) /\ RemoveAt(c, k)[i] = c[a]
    <3>1. (IF i < k THEN i ELSE i + 1) \in 1 .. Len(c)
      BY <1>1
    <3> QED BY <1>3, <3>1
  <2>3. PICK b \in 1 .. Len(c) : b = (IF j < k THEN j ELSE j + 1) /\ RemoveAt(c, k)[j] = c[b]
    <3>1. (IF j < k THEN j ELSE j + 1) \in 1 .. Len(c)
      BY <1>1
    <3> QED BY <1>3, <3>1
  <2>4. a = b
    BY <1>6, <2>1, <2>2, <2>3
  <2> QED BY <1>1, <2>2, <2>3, <2>4
<1>8. ASSUME NEW m \in Nodes
      PROVE  (\E i \in 1 .. Len(c) - 1 : RemoveAt(c, k)[i] = m)
               <=> (m # n /\ \E i \in 1 .. Len(c) : c[i] = m)
  <2>1. (\E i \in 1 .. Len(c) - 1 : RemoveAt(c, k)[i] = m)
          <=> (\E i \in 1 .. Len(c) : i # k /\ c[i] = m)
    <3>1. c \in Seq(Nodes)
      BY <1>1
    <3> HIDE DEF c, B
    <3> QED BY ONLY <3>1, k \in 1 .. Len(c), RemoveAtKeepsOthers
  <2> QED BY <1>2, <1>6, <2>1
<1>9. ChainsAreRight'
  <2>1. ASSUME NEW m \in Nodes, ht_flag'[m]  PROVE key'[m] \in Keys
    BY <1>5, <2>1 DEF ChainsAreRight
  <2>2. ASSUME NEW b \in Buckets
        PROVE  /\ \A i, j \in 1 .. Len(chain'[b]) : chain'[b][i] = chain'[b][j] => i = j
               /\ \A m \in Nodes : (\E i \in 1 .. Len(chain'[b]) : chain'[b][i] = m)
                                     <=> ht_flag'[m] /\ BucketOf[key[m]] = b
    <3>1. /\ \A i, j \in 1 .. Len(chain[b]) : chain[b][i] = chain[b][j] => i = j
          /\ \A m \in Nodes : (\E i \in 1 .. Len(chain[b]) : chain[b][i] = m)
                                <=> ht_flag[m] /\ BucketOf[key[m]] = b
      BY DEF ChainsAreRight
    <3>2. CASE b = B
      <4>1. Len(chain'[b]) = Len(c) - 1 /\ chain'[b] = RemoveAt(c, k)
        BY <1>3, <1>4, <3>2
      <4>2. \A i, j \in 1 .. Len(chain'[b]) : chain'[b][i] = chain'[b][j] => i = j
        BY <1>7, <4>1
      <4>3. ASSUME NEW m \in Nodes
            PROVE  (\E i \in 1 .. Len(chain'[b]) : chain'[b][i] = m)
                     <=> ht_flag'[m] /\ BucketOf[key[m]] = b
        <5>1. (\E i \in 1 .. Len(chain'[b]) : chain'[b][i] = m)
                <=> (m # n /\ \E i \in 1 .. Len(c) : c[i] = m)
          BY <1>8, <4>1
        <5>2. (\E i \in 1 .. Len(c) : c[i] = m) <=> (ht_flag[m] /\ BucketOf[key[m]] = b)
          BY <3>1, <3>2
        <5>3. CASE m = n
          BY <1>5, <5>1, <5>3
        <5>4. CASE m # n
          <6>1. ht_flag'[m] = ht_flag[m]
            BY <1>5, <5>4
          <6> QED BY <5>1, <5>2, <5>4, <6>1
        <5> QED BY <5>3, <5>4
      <4> QED BY <4>2, <4>3
    <3>3. CASE b # B
      <4>1. chain'[b] = chain[b]
        BY <1>4, <3>3
      <4>2. ASSUME NEW m \in Nodes
            PROVE  (\E i \in 1 .. Len(chain'[b]) : chain'[b][i] = m)
                     <=> ht_flag'[m] /\ BucketOf[key[m]] = b
        <5>1. CASE m = n
          BY <1>5, <3>1, <3>3, <4>1, <5>1
        <5>2. CASE m # n
          <6>1. ht_flag'[m] = ht_flag[m]
            BY <1>5, <5>2
          <6> QED BY <3>1, <4>1, <6>1
        <5> QED BY <5>1, <5>2
      <4> QED BY <3>1, <4>1, <4>2
    <3> QED BY <3>2, <3>3
  <2> QED BY <2>1, <2>2 DEF ChainsAreRight
<1> QED BY <1>4, <1>5, <1>9

(* IInv is kept by HtRemoveFirst.                                          *)
LEMMA HtRemoveFirstKeeps ==
  ASSUME IInv, NEW t \in Threads, HtRemoveFirst(t)
  PROVE  IInv'
<1> USE DEF HtRemoveFirst, Step, Goto, At, locals
<1> DEFINE n == node[t]
<1>1. TypeOK /\ Local(t) /\ LinksAreLists /\ NodesAreSettled /\ ChainsAreRight
  BY DEF IInv
<1>2. /\ pc[t] = "ht_remove" /\ pc'[t] = "fill"
      /\ req'[t] = req[t] /\ hit'[t] = hit[t] /\ node'[t] = n /\ prev'[t] = prev[t]
  BY <1>1 DEF TypeOK
<1>3. n \in Nodes /\ n \in Cells /\ lock[n] = t /\ BucketOf[key[n]] \in Buckets
  BY <1>1, <1>2, HeldFacts, ConstantsAssumption DEF HoldsNode, ChainsAreRight
<1>4. lru_next[n] = NULL /\ ~lru_flag[n] /\ ~hit[t] /\ req[t] \in Keys
  BY <1>1, <1>2 DEF Local, LocalsAreSet, NodeIsAsLeft, Removing, Appending, InHandPcs
<1>5. /\ ChainsAreRight'
      /\ chain' \in [Buckets -> Seq(Nodes)] /\ ht_flag' \in [Nodes -> BOOLEAN]
      /\ ~ht_flag'[n] /\ \A m \in Nodes \ {n} : ht_flag'[m] = ht_flag[m]
      /\ \A b \in Buckets \ {BucketOf[key[n]]} : chain'[b] = chain[b]
  BY <1>1, <1>3, LeaveChainKeeps
<1>6. LinksAreLists' /\ InList' = InList
  BY <1>1, ListsStay
<1>7. LocalsOfOthersStay(t)
  BY <1>1 DEF LocalsOfOthersStay, TypeOK
<1>8. LocksAreRight(t)
  <2>1. Held(t) = {n} /\ Held(t)' = {n}
    BY <1>2 DEF Held, HoldsNode, HoldsPrev
  <2> QED BY <1>2, <1>3, <2>1, NoLockMoves
<1>9. OthersStay(t)
  BY <1>3, <1>5, <1>7, <1>8 DEF OthersStay, LocksAreRight, DataOfOthersStays, links, BucketFree
<1>10. TypeOK'
  <2>1. pc' \in [Threads -> PcValues]
    BY <1>1 DEF TypeOK, PcValues
  <2> QED BY <1>1, <1>5, <1>8, <2>1 DEF TypeOK, LocksAreRight, links
<1>11. Local(t)'
  <2>1. LocalsAreSet(t)'
    BY <1>2, <1>3, <1>4 DEF LocalsAreSet, HoldsPrev, Evicting, Removing, Appending
  <2>2. PrevLeadsOn(t)'
    BY <1>2 DEF PrevLeadsOn
  <2>3. NodeIsAsLeft(t)'
    BY <1>2, <1>4, <1>5 DEF NodeIsAsLeft, InHandPcs, Appending, links
  <2> QED BY <2>1, <2>2, <2>3 DEF Local
<1>12. NodesAreSettled'
  <2>1. \A u \in Threads, m \in Nodes : WorksOn(u, m) => WorksOn(u, m)'
    BY <1>2, <1>7 DEF WorksOn, LocalsOfOthersStay, InHandPcs
  <2>2. WorksOn(t, n)'
    BY <1>2 DEF WorksOn, InHandPcs
  <2> QED BY <1>1, <1>2, <1>5, <1>6, <2>1, <2>2 DEF NodesAreSettled
<1> QED BY <1>5, <1>6, <1>8, <1>9, <1>10, <1>11, <1>12, StepKeeps DEF LocksAreRight

(* IInv is kept by HtUnlink.                                               *)
LEMMA HtUnlinkKeeps ==
  ASSUME IInv, NEW t \in Threads, HtUnlink(t)
  PROVE  IInv'
<1> USE DEF HtUnlink, Step, Goto, At, locals
<1> DEFINE n == node[t]
           p == prev[t]
           B == BucketOf[key[n]]
<1>1. TypeOK /\ Local(t) /\ LinksAreLists /\ NodesAreSettled /\ ChainsAreRight
  BY DEF IInv
<1>2. /\ pc[t] = "ht_unlink" /\ pc'[t] = "fill"
      /\ req'[t] = req[t] /\ hit'[t] = hit[t] /\ node'[t] = n /\ prev'[t] = p
  BY <1>1 DEF TypeOK
<1>3. /\ n \in Nodes /\ n \in Cells /\ lock[n] = t /\ p \in Cells /\ lock[p] = t
      /\ B \in Buckets /\ bucket_lock[B] = t /\ ht_flag[n]
  BY <1>2, HeldFacts DEF HoldsNode, HoldsPrev
<1>4. /\ lru_next[n] = NULL /\ ~lru_flag[n] /\ ~hit[t] /\ req[t] \in Keys
      /\ p \in Nodes /\ Pred(n, p)
  BY <1>1, <1>2 DEF Local, LocalsAreSet, PrevLeadsOn, NodeIsAsLeft, Removing, Appending, InHandPcs
<1>5. /\ ChainsAreRight'
      /\ chain' \in [Buckets -> Seq(Nodes)] /\ ht_flag' \in [Nodes -> BOOLEAN]
      /\ ~ht_flag'[n] /\ \A m \in Nodes \ {n} : ht_flag'[m] = ht_flag[m]
      /\ \A b \in Buckets \ {B} : chain'[b] = chain[b]
  BY <1>1, <1>3, LeaveChainKeeps
<1>6. LinksAreLists' /\ InList' = InList
  BY <1>1, ListsStay
<1>7. LocalsOfOthersStay(t)
  BY <1>1 DEF LocalsOfOthersStay, TypeOK
<1>8. n # p
  <2>1. PICK i \in 2 .. Len(chain[B]) : chain[B][i] = n /\ chain[B][i - 1] = p
    BY <1>4 DEF Pred, ChainOf
  <2>2. i \in 1 .. Len(chain[B]) /\ i - 1 \in 1 .. Len(chain[B]) /\ i # i - 1
    OBVIOUS
  <2> QED BY <1>1, <1>3, <2>1, <2>2 DEF ChainsAreRight
<1>9. LocksAreRight(t)
  <2>1. Held(t) = {n, p} /\ Held(t)' = {n}
    BY <1>2 DEF Held, HoldsNode, HoldsPrev
  <2>2. \A c \in Cells : (lock[c] = t) <=> (c \in {n, p})
    BY <2>1 DEF IInv, LockDiscipline
  <2>3. \A b \in Buckets : (bucket_lock[b] = t) <=> (b = B)
    BY <1>2 DEF IInv, LockDiscipline
  <2>4. /\ lock' \in [Cells -> Threads \cup {NULL}]
        /\ \A c \in Cells : lock'[c] = IF c = p THEN NULL ELSE lock[c]
    BY <1>1 DEF TypeOK, Release
  <2>5. /\ bucket_lock' \in [Buckets -> Threads \cup {NULL}]
        /\ \A b \in Buckets : bucket_lock'[b] = IF b = B THEN NULL ELSE bucket_lock[b]
    BY <1>1, <1>3 DEF TypeOK
  <2>6. t # NULL
    BY SentinelsDiffer
  <2> HIDE DEF HtUnlink, B
  <2>7. LocksOfOthersStay(t)
    BY <1>3, <2>4, <2>5 DEF LocksOfOthersStay
  <2>8. LocksOf(t)'
    BY <1>2, <1>8, <2>1, <2>2, <2>3, <2>4, <2>5, <2>6 DEF LocksOf
  <2> QED BY <2>4, <2>5, <2>7, <2>8 DEF LocksAreRight
<1>10. OthersStay(t)
  BY <1>3, <1>5, <1>7, <1>9 DEF OthersStay, LocksAreRight, DataOfOthersStays, links
<1>11. TypeOK'
  <2>1. pc' \in [Threads -> PcValues]
    BY <1>1 DEF TypeOK, PcValues
  <2> QED BY <1>1, <1>5, <1>9, <2>1 DEF TypeOK, LocksAreRight, links
<1>12. Local(t)'
  <2>1. LocalsAreSet(t)'
    BY <1>2, <1>3, <1>4 DEF LocalsAreSet, HoldsPrev, Evicting, Removing, Appending
  <2>2. PrevLeadsOn(t)'
    BY <1>2 DEF PrevLeadsOn
  <2>3. NodeIsAsLeft(t)'
    BY <1>2, <1>4, <1>5 DEF NodeIsAsLeft, InHandPcs, Appending, links
  <2> QED BY <2>1, <2>2, <2>3 DEF Local
<1>13. NodesAreSettled'
  <2>1. \A u \in Threads, m \in Nodes : WorksOn(u, m) => WorksOn(u, m)'
    BY <1>2, <1>7 DEF WorksOn, LocalsOfOthersStay, InHandPcs
  <2>2. WorksOn(t, n)'
    BY <1>2 DEF WorksOn, InHandPcs
  <2> QED BY <1>1, <1>2, <1>5, <1>6, <2>1, <2>2 DEF NodesAreSettled
<1> QED BY <1>5, <1>6, <1>9, <1>10, <1>11, <1>12, <1>13, StepKeeps DEF LocksAreRight

(* IInv is kept by HtInsert.                                               *)
LEMMA HtInsertKeeps ==
  ASSUME IInv, NEW t \in Threads, HtInsert(t)
  PROVE  IInv'
<1> USE DEF HtInsert, Step, Goto, At, Finish
<1> DEFINE n == node[t]
           B == BucketOf[req[t]]
           c == chain[B]
<1>1. TypeOK /\ Local(t) /\ LinksAreLists /\ NodesAreSettled /\ ChainsAreRight
  BY DEF IInv
<1>2. pc[t] = "ht_insert" /\ pc'[t] = "idle" /\ hit'[t] = FALSE
  BY <1>1 DEF TypeOK
<1>3. n \in Nodes /\ n \in Cells /\ lock[n] = t
  BY <1>2, HeldFacts DEF HoldsNode
<1>4. /\ lru_flag[n] /\ ~ht_flag[n] /\ lru_next[n] # NULL /\ ~hit[t]
      /\ req[t] \in Keys /\ key[n] = req[t] /\ B \in Buckets /\ c \in Seq(Nodes)
  <2>1. /\ lru_flag[n] /\ ~ht_flag[n] /\ lru_next[n] # NULL /\ ~hit[t]
        /\ req[t] \in Keys
    BY <1>1, <1>2 DEF Local, LocalsAreSet, NodeIsAsLeft, Removing, Appending
  <2>2. key[n] = req[t]
    BY <1>1, <1>2, <2>1 DEF Local, NodeIsAsLeft
  <2> QED BY <1>1, <2>1, <2>2, ConstantsAssumption DEF TypeOK
<1>5. /\ ht_flag' \in [Nodes -> BOOLEAN] /\ ht_flag'[n]
      /\ \A m \in Nodes \ {n} : ht_flag'[m] = ht_flag[m]
  BY <1>1, <1>3 DEF TypeOK
<1>6. /\ <<n>> \o c \in Seq(Nodes) /\ Len(<<n>> \o c) = Len(c) + 1
      /\ \A i \in 1 .. Len(c) + 1 : (<<n>> \o c)[i] = IF i = 1 THEN n ELSE c[i - 1]
  BY <1>3, <1>4
<1>7. /\ chain' \in [Buckets -> Seq(Nodes)] /\ chain'[B] = <<n>> \o c
      /\ \A b \in Buckets \ {B} : chain'[b] = chain[b]
  BY <1>1, <1>4, <1>6 DEF TypeOK
<1>8. LinksAreLists' /\ InList' = InList
  BY <1>1, ListsStay
<1>9. LocalsOfOthersStay(t)
  BY <1>1 DEF LocalsOfOthersStay, TypeOK
<1>10. LocksAreRight(t)
  <2>1. Held(t) = {n} /\ Held(t)' = {}
    BY <1>2 DEF Held, HoldsNode, HoldsPrev
  <2>2. Release({n}) /\ UNCHANGED bucket_lock
    OBVIOUS
  <2> HIDE DEF HtInsert
  <2> QED BY <1>2, <1>3, <2>1, <2>2, ReleaseMoves
<1>11. OthersStay(t)
  BY <1>3, <1>4, <1>5, <1>7, <1>9, <1>10
  DEF OthersStay, LocksAreRight, DataOfOthersStays, links, BucketFree
<1>12. TypeOK'
  <2>1. pc' \in [Threads -> PcValues]
    BY <1>1 DEF TypeOK, PcValues
  <2>2. req' \in [Threads -> Keys \cup {NULL}] /\ hit' \in [Threads -> BOOLEAN]
    BY <1>1 DEF TypeOK
  <2>3. node' \in [Threads -> Nodes \cup {NULL}] /\ prev' \in [Threads -> Cells \cup {NULL}]
    BY <1>1 DEF TypeOK
  <2> QED BY <1>1, <1>5, <1>7, <1>10, <2>1, <2>2, <2>3 DEF TypeOK, LocksAreRight, links
<1>13. Local(t)'
  <2>1. LocalsAreSet(t)'
    BY <1>2 DEF LocalsAreSet, HoldsPrev, Evicting, Removing, Appending
  <2>2. PrevLeadsOn(t)'
    BY <1>2 DEF PrevLeadsOn
  <2>3. NodeIsAsLeft(t)'
    BY <1>2 DEF NodeIsAsLeft, InHandPcs, Appending
  <2> QED BY <2>1, <2>2, <2>3 DEF Local
<1>14. NodesAreSettled'
  <2>1. \A u \in Threads, m \in Nodes \ {n} : WorksOn(u, m) => WorksOn(u, m)'
    BY <1>2, <1>9 DEF WorksOn, LocalsOfOthersStay, InHandPcs
  <2>2. n \in InList
    BY <1>3, <1>4 DEF InList
  <2> QED BY <1>1, <1>4, <1>5, <1>8, <2>1, <2>2 DEF NodesAreSettled
<1>15. ChainsAreRight'
  <2>1. ASSUME NEW m \in Nodes, ht_flag'[m]  PROVE key'[m] \in Keys
    BY <1>1, <1>4, <1>5, <2>1 DEF ChainsAreRight
  <2>2. ASSUME NEW b \in Buckets
        PROVE  /\ \A i, j \in 1 .. Len(chain'[b]) : chain'[b][i] = chain'[b][j] => i = j
               /\ \A m \in Nodes : (\E i \in 1 .. Len(chain'[b]) : chain'[b][i] = m)
                                     <=> ht_flag'[m] /\ BucketOf[key[m]] = b
    <3>1. /\ \A i, j \in 1 .. Len(chain[b]) : chain[b][i] = chain[b][j] => i = j
          /\ \A m \in Nodes : (\E i \in 1 .. Len(chain[b]) : chain[b][i] = m)
                                <=> ht_flag[m] /\ BucketOf[key[m]] = b
      BY <1>1 DEF ChainsAreRight
    <3> HIDE DEF HtInsert
    <3>2. CASE b = B
      <4>1. /\ Len(chain'[b]) = Len(c) + 1
            /\ \A i \in 1 .. Len(c) + 1 : chain'[b][i] = IF i = 1 THEN n ELSE c[i - 1]
        BY <1>6, <1>7, <3>2
      <4>2. \A i \in 1 .. Len(c) : c[i] # n
        BY <1>3, <1>4, <3>1, <3>2
      <4>3. \A i, j \in 1 .. Len(chain'[b]) : chain'[b][i] = chain'[b][j] => i = j
        <5>1. \A i \in 2 .. Len(c) + 1 : chain'[b][i] = c[i - 1] /\ i - 1 \in 1 .. Len(c)
          BY <1>4, <4>1
        <5>2. chain'[b][1] = n
          BY <1>4, <4>1
        <5>3. \A i, j \in 2 .. Len(c) + 1 : chain'[b][i] = chain'[b][j] => i = j
          BY <1>4, <3>1, <3>2, <5>1, SMTT(40)
        <5>4. \A i \in 2 .. Len(c) + 1 : chain'[b][i] # n
          BY <4>2, <5>1
        <5>5. \A i \in 1 .. Len(c) + 1 : i = 1 \/ i \in 2 .. Len(c) + 1
          BY <1>4
        <5> QED BY <4>1, <5>2, <5>3, <5>4, <5>5
      <4>4. ASSUME NEW m \in Nodes
            PROVE  (\E i \in 1 .. Len(chain'[b]) : chain'[b][i] = m)
                     <=> ht_flag'[m] /\ BucketOf[key[m]] = b
        <5>1. (\E i \in 1 .. Len(chain'[b]) : chain'[b][i] = m)
                <=> (m = n \/ \E i \in 1 .. Len(c) : c[i] = m)
          <6>1. \A i \in 1 .. Len(c) : i + 1 \in 1 .. Len(c) + 1 /\ i + 1 # 1 /\ (i + 1) - 1 = i
            BY <1>4
          <6>2. \A i \in 1 .. Len(c) : chain'[b][i + 1] = c[i]
            BY <4>1, <6>1
          <6>3. \A i \in 1 .. Len(c) + 1 : i # 1 => i - 1 \in 1 .. Len(c) /\ chain'[b][i] = c[i - 1]
            BY <1>4, <4>1
          <6>4. 1 \in 1 .. Len(c) + 1 /\ chain'[b][1] = n
            BY <1>4, <4>1
          <6>5. ASSUME NEW i \in 1 .. Len(c) + 1, chain'[b][i] = m
                PROVE  m = n \/ \E j \in 1 .. Len(c) : c[j] = m
            BY <6>3, <6>4, <6>5
          <6>6. ASSUME m = n \/ \E j \in 1 .. Len(c) : c[j] = m
                PROVE  \E i \in 1 .. Len(c) + 1 : chain'[b][i] = m
            BY <6>1, <6>2, <6>4, <6>6
          <6> QED BY <4>1, <6>5, <6>6
        <5>2. (\E i \in 1 .. Len(c) : c[i] = m) <=> (ht_flag[m] /\ BucketOf[key[m]] = b)
          BY <3>1, <3>2
        <5>3. CASE m = n
          BY <1>4, <1>5, <3>2, <5>1, <5>3
        <5>4. CASE m # n
          <6>1. ht_flag'[m] = ht_flag[m]
            BY <1>5, <5>4
          <6> QED BY <5>1, <5>2, <5>4, <6>1
        <5> QED BY <5>3, <5>4
      <4> QED BY <4>3, <4>4
    <3>3. CASE b # B
      <4>1. chain'[b] = chain[b]
        BY <1>7, <3>3
      <4>2. ASSUME NEW m \in Nodes
            PROVE  (\E i \in 1 .. Len(chain'[b]) : chain'[b][i] = m)
                     <=> ht_flag'[m] /\ BucketOf[key[m]] = b
        <5>1. CASE m = n
          BY <1>4, <3>1, <3>3, <4>1, <5>1
        <5>2. CASE m # n
          <6>1. ht_flag'[m] = ht_flag[m]
            BY <1>5, <5>2
          <6> QED BY <3>1, <4>1, <6>1
        <5> QED BY <5>1, <5>2
      <4> QED BY <3>1, <4>1, <4>2
    <3> QED BY <3>2, <3>3
  <2>3. UNCHANGED key
    OBVIOUS
  <2> HIDE DEF HtInsert
  <2> QED BY <2>1, <2>2, <2>3 DEF ChainsAreRight
<1> QED BY <1>8, <1>10, <1>11, <1>12, <1>13, <1>14, <1>15, StepKeeps DEF LocksAreRight

---------------------------------------------------------------------------
(* allocateMemory links the nodes of the array into the pool.              *)
LEMMA InitHolds ==
  ASSUME Init
  PROVE  IInv
<1> DEFINE N == Cardinality(Nodes)
           order == <<PoolHead>> \o NodeAt \o <<PoolTail>>
           place(c) == CHOOSE i \in DOMAIN order : order[i] = c
           C(i) == Cell(NodeAt, PoolHead, i)
<1>1. /\ N \in Nat /\ NodeAt \in Seq(Nodes) /\ Len(NodeAt) = N
      /\ \A i, j \in 1 .. N : NodeAt[i] = NodeAt[j] => i = j
      /\ \A n \in Nodes : \E i \in 1 .. N : NodeAt[i] = n
      /\ \A i \in 1 .. N : NodeAt[i] \in Nodes
  <2>1. N \in Nat
    BY ConstantsAssumption, FS_CardinalityType
  <2>2. NodeAt \in [1 .. N -> Nodes] /\ DOMAIN NodeAt = 1 .. N
    BY ConstantsAssumption
  <2> HIDE DEF N
  <2> QED BY <2>1, <2>2, ConstantsAssumption
<1>2. LastOf(PoolHead) = PoolTail /\ LastOf(LruHead) = LruTail
  BY SentinelsDiffer DEF LastOf
<1>3. /\ C(0) = PoolHead /\ C(N + 1) = PoolTail
      /\ \A i \in 1 .. N : C(i) = NodeAt[i]
  BY <1>1, <1>2 DEF Cell
<1>4. DOMAIN order = 1 .. N + 2 /\ \A i \in 0 .. N + 1 : order[i + 1] = C(i)
  <2>1. /\ <<PoolHead>> \in Seq(Cells) /\ NodeAt \in Seq(Cells) /\ <<PoolTail>> \in Seq(Cells)
    BY <1>1, SentinelsDiffer DEF Sentinels
  <2>2. /\ <<PoolHead>> \o NodeAt \in Seq(Cells) /\ Len(<<PoolHead>> \o NodeAt) = N + 1
        /\ \A i \in 1 .. N + 1 :
             (<<PoolHead>> \o NodeAt)[i] = IF i = 1 THEN PoolHead ELSE NodeAt[i - 1]
    BY <1>1, <2>1
  <2>3. order \in Seq(Cells) /\ Len(order) = N + 2
    BY <1>1, <2>1, <2>2
  <2>4. \A i \in 1 .. N + 2 :
          order[i] = IF i = N + 2 THEN PoolTail ELSE (<<PoolHead>> \o NodeAt)[i]
    BY <1>1, <2>1, <2>2
  <2> HIDE DEF order
  <2>5. \A i \in 0 .. N + 1 : order[i + 1] = C(i)
    <3> TAKE i \in 0 .. N + 1
    <3> HIDE DEF C, N
    <3>1. i + 1 \in 1 .. N + 2 /\ (i + 1) - 1 = i /\ (i + 1 = N + 2 <=> i = N + 1)
      BY <1>1
    <3>2. CASE i = 0
      BY <1>1, <1>3, <2>2, <2>4, <3>1, <3>2
    <3>3. CASE i \in 1 .. N
      <4>1. i + 1 \in 1 .. N + 1 /\ i + 1 # 1 /\ i + 1 # N + 2
        BY <1>1, <3>3
      <4> QED BY <1>3, <2>2, <2>4, <3>1, <3>3, <4>1
    <3>4. CASE i = N + 1
      BY <1>3, <2>4, <3>1, <3>4
    <3> QED BY <1>1, <3>2, <3>3, <3>4
  <2> QED BY <2>3, <2>5
<1>5. \A i, j \in 0 .. N + 1 : C(i) = C(j) => i = j
  <2>1. \A i \in 0 .. N + 1 : i = 0 \/ i = N + 1 \/ i \in 1 .. N
    BY <1>1
  <2>2. \A i \in 1 .. N : C(i) \in Nodes
    BY <1>1, <1>3
  <2>3. PoolHead # PoolTail /\ PoolHead \notin Nodes /\ PoolTail \notin Nodes
    BY SentinelsDiffer DEF Sentinels
  <2> HIDE DEF C
  <2> QED BY <1>1, <1>3, <2>1, <2>2, <2>3
<1>6. \A i \in 0 .. N + 1 : place(C(i)) = i + 1
  <2> HIDE DEF order, C
  <2> TAKE i \in 0 .. N + 1
  <2>1. i + 1 \in DOMAIN order /\ order[i + 1] = C(i)
    BY <1>1, <1>4
  <2>2. ASSUME NEW j \in DOMAIN order, order[j] = C(i)  PROVE j = i + 1
    <3>1. j - 1 \in 0 .. N + 1 /\ (j - 1) + 1 = j
      BY <1>1, <1>4
    <3>2. C(j - 1) = C(i)
      BY <1>4, <2>2, <3>1
    <3>3. j - 1 = i
      BY <1>5, <3>1, <3>2
    <3> QED BY <3>1, <3>3
  <2> QED BY <2>1, <2>2
<1>7. \A i \in 0 .. N + 1 : C(i) \in Cells
  BY <1>1, <1>3, SentinelsDiffer DEF Cell, Sentinels
<1>8. /\ lru_next = [c \in Cells |-> IF c = LruHead THEN LruTail
                                     ELSE IF c \in {LruTail, PoolTail} THEN NULL
                                     ELSE order[place(c) + 1]]
      /\ lru_prev = [c \in Cells |-> IF c = LruTail THEN LruHead
                                     ELSE IF c \in {LruHead, PoolHead} THEN NULL
                                     ELSE order[place(c) - 1]]
  BY DEF Init
<1>9. ASSUME NEW i \in 0 .. N
      PROVE  lru_next[C(i)] = C(i + 1) /\ lru_prev[C(i + 1)] = C(i)
  <2>1. i \in 0 .. N + 1 /\ i + 1 \in 0 .. N + 1 /\ (i + 1) + 1 = i + 2 /\ (i + 2) - 1 = i + 1
    BY <1>1
  <2>2. C(i) \notin {LruHead, LruTail, PoolTail} /\ C(i + 1) \notin {LruTail, LruHead, PoolHead}
    BY <1>1, <1>3, SentinelsDiffer DEF Cell, Sentinels
  <2>3. order[i + 2] = C(i + 1) /\ order[i + 1] = C(i)
    BY <1>4, <2>1
  <2>4. place(C(i)) = i + 1 /\ place(C(i + 1)) = i + 2
    BY <1>6, <2>1
  <2>5. C(i) \in Cells /\ C(i + 1) \in Cells
    BY <1>7, <2>1
  <2> HIDE DEF order, place, C
  <2> QED BY <1>8, <2>1, <2>2, <2>3, <2>4, <2>5
<1> HIDE DEF order, place, N
<1>10. /\ lru_next[LruHead] = LruTail /\ lru_prev[LruTail] = LruHead
       /\ lru_prev[LruHead] = NULL /\ lru_next[LruTail] = NULL
       /\ lru_prev[PoolHead] = NULL /\ lru_next[PoolTail] = NULL
  BY <1>8, SentinelsDiffer DEF Sentinels
<1>11. \A n \in Nodes : \E i \in 1 .. N : n = C(i) /\ lru_next[n] = C(i + 1) /\ lru_prev[n] = C(i - 1)
  <2> TAKE n \in Nodes
  <2>1. PICK i \in 1 .. N : n = C(i)
    BY <1>1, <1>3
  <2>2. i \in 0 .. N /\ i - 1 \in 0 .. N /\ (i - 1) + 1 = i
    BY <1>1
  <2> HIDE DEF C
  <2> QED BY <1>9, <2>1, <2>2
<1>12. \A n \in Nodes : lru_next[n] \in Cells /\ lru_prev[n] \in Cells
  <2>1. \A i \in 1 .. N : i + 1 \in 0 .. N + 1 /\ i - 1 \in 0 .. N + 1
    BY <1>1
  <2> HIDE DEF C
  <2> QED BY <1>7, <1>11, <2>1
<1>13. TypeOK
  <2>1. lru_next \in [Cells -> Cells \cup {NULL}] /\ lru_prev \in [Cells -> Cells \cup {NULL}]
    <3>1. ASSUME NEW c \in Cells
          PROVE  lru_next[c] \in Cells \cup {NULL} /\ lru_prev[c] \in Cells \cup {NULL}
      <4>1. CASE c \in Nodes
        BY <1>12, <4>1
      <4>2. CASE c = PoolHead
        BY <1>1, <1>3, <1>7, <1>9, <1>10, <4>2
      <4>3. CASE c = PoolTail
        <5>1. N \in 0 .. N /\ N \in 0 .. N + 1
          BY <1>1
        <5>2. lru_prev[PoolTail] = C(N)
          BY <1>3, <1>9, <5>1
        <5> QED BY <1>7, <1>10, <4>3, <5>1, <5>2
      <4>4. CASE c \in {LruHead, LruTail}
        BY <1>10, <4>4, SentinelsDiffer DEF Sentinels
      <4> QED BY <4>1, <4>2, <4>3, <4>4 DEF Cells, Sentinels
    <3>2. /\ DOMAIN lru_next = Cells /\ lru_next = [c \in Cells |-> lru_next[c]]
          /\ DOMAIN lru_prev = Cells /\ lru_prev = [c \in Cells |-> lru_prev[c]]
      BY <1>8
    <3> QED BY <3>1, <3>2
  <2>2. pc \in [Threads -> PcValues]
    BY DEF Init, PcValues
  <2>3. chain \in [Buckets -> Seq(Nodes)]
    BY DEF Init
  <2> QED BY <2>1, <2>2, <2>3 DEF TypeOK, Init
<1>14. \A t \in Threads : pc[t] = "idle" /\ ~hit[t] /\ Held(t) = {}
  BY DEF Init, Held, HoldsNode, HoldsPrev
<1>15. LockDiscipline
  BY <1>14, SentinelsDiffer DEF Init, LockDiscipline
<1>16. ASSUME NEW t \in Threads  PROVE Local(t)
  BY <1>14 DEF Local, LocalsAreSet, PrevLeadsOn, NodeIsAsLeft, HoldsPrev, Evicting, Removing,
     Appending, InHandPcs
<1>17. InList = Nodes /\ \A n \in Nodes : ~lru_flag[n] /\ ~ht_flag[n]
  BY <1>12, SentinelsDiffer DEF InList, Init
<1>18. LinksAreLists
  <2>1. IsList(NodeAt, PoolHead)
    BY <1>1, <1>2, <1>9, <1>10 DEF IsList
  <2>2. ListHolds(PoolHead, {n \in InList : ~lru_flag[n]})
    <3>1. \A n \in Nodes : n \in {m \in InList : ~lru_flag[m]} <=> \E i \in 1 .. Len(NodeAt) : NodeAt[i] = n
      BY <1>1, <1>17
    <3> QED BY <1>1, <2>1, <3>1 DEF ListHolds, Holds
  <2>3. IsList(<<>>, LruHead)
    <3>1. /\ Cell(<<>>, LruHead, 0) = LruHead /\ Cell(<<>>, LruHead, 0 + 1) = LruTail
          /\ Len(<<>>) = 0 /\ <<>> \in Seq(Nodes)
      BY <1>2 DEF Cell
    <3>2. \A i \in 0 .. 0 : i = 0
      OBVIOUS
    <3> QED BY <1>2, <1>10, <3>1, <3>2 DEF IsList
  <2>4. ListHolds(LruHead, {n \in InList : lru_flag[n]})
    <3>1. Holds(<<>>, {n \in InList : lru_flag[n]})
      BY <1>17 DEF Holds
    <3>2. <<>> \in Seq(Nodes)
      OBVIOUS
    <3> QED BY <2>3, <3>1, <3>2 DEF ListHolds
  <2>5. \A n \in Nodes : lru_next[n] # NULL /\ lru_prev[n] # NULL
    BY <1>12, SentinelsDiffer
  <2> QED BY <2>2, <2>4, <2>5 DEF LinksAreLists
<1>19. NodesAreSettled
  BY <1>17 DEF NodesAreSettled
<1>20. ChainsAreRight
  BY <1>17 DEF ChainsAreRight, Init
<1> QED BY <1>13, <1>15, <1>16, <1>18, <1>19, <1>20 DEF IInv

(* Every step of a thread keeps what the threads rely on.                  *)
LEMMA NextKeeps ==
  ASSUME IInv, [Next]_vars
  PROVE  IInv'
<1>1. CASE UNCHANGED vars
  <2>1. /\ UNCHANGED <<key, lru_flag, ht_flag, lru_next, lru_prev, lock, chain, bucket_lock>>
        /\ UNCHANGED <<pc, req, hit, node, prev>>
    BY <1>1 DEF vars
  <2>2. TypeOK' /\ LockDiscipline'
    BY <2>1 DEF IInv, TypeOK, LockDiscipline, Held, HoldsNode, HoldsPrev
  <2>3. \A t \in Threads : Local(t)'
    BY <2>1 DEF IInv, Local, LocalsAreSet, PrevLeadsOn, NodeIsAsLeft, HoldsPrev, Pred, ChainOf
  <2>4. LinksAreLists' /\ InList' = InList
    BY <2>1, ListsStay DEF IInv, links
  <2>5. NodesAreSettled' /\ ChainsAreRight'
    BY <2>1, <2>4 DEF IInv, NodesAreSettled, ChainsAreRight, WorksOn
  <2> QED BY <2>2, <2>3, <2>4, <2>5 DEF IInv
<1>2. ASSUME NEW t \in Threads, NEW k \in Keys, Find(t, k)  PROVE IInv'
  BY <1>2, FindMissKeeps, FindNodeKeeps DEF Find
<1>3. ASSUME NEW t \in Threads, Proceed(t)  PROVE IInv'
  <2>1. HtRemoveFails(t) => UNCHANGED vars
    BY DEF HtRemoveFails
  <2> QED BY <1>1, <1>3, <2>1, FindHitKeeps, FindStaleKeeps, RemovePrevKeeps, RemoveBackOffKeeps,
            RemoveWaitKeeps, RemoveRelockKeeps, RemoveAgainKeeps, RemoveNextKeeps,
            RemoveUnlinkKeeps, AppendReadKeeps, AppendPrevKeeps, AppendNodeKeeps, AppendLinkKeeps,
            EvictPrevKeeps, EvictNodeKeeps, EvictNextKeeps, EvictUnlinkKeeps, HtRemoveFirstKeeps,
            HtRemoveLockKeeps, HtUnlinkKeeps, FillKeeps, HtInsertKeeps
     DEF Proceed
<1> QED BY <1>1, <1>2, <1>3 DEF Next

(* IInv holds in every reachable state.                                    *)
LEMMA IInvHolds == Spec => []IInv
<1>1. Init => IInv
  BY InitHolds
<1>2. IInv /\ [Next]_vars => IInv'
  BY NextKeeps
<1> QED BY <1>1, <1>2, PTL DEF Spec

(* Every variable has its type in every state the threads can reach.       *)
THEOREM TypeIsCorrect == Spec => []TypeOK
<1>1. IInv => TypeOK
  BY DEF IInv
<1> QED BY <1>1, IInvHolds, PTL

(* At every point of lruRemoveNode, listInsertBefore, listEvictNext,       *)
(* htRemove and insert, with any number of threads, a thread holds the     *)
(* locks the comments of the functions say, and no others.                 *)
THEOREM LocksAreDisciplined == Spec => []LockDiscipline
<1>1. IInv => LockDiscipline
  BY DEF IInv
<1> QED BY <1>1, IInvHolds, PTL

---------------------------------------------------------------------------
(* What assertIsCoherent sees on its walks along the links: the recursive  *)
(* function is the one that reads the sequence of the list.                *)
IsWalk(w, c) ==
  w = [i \in Nat |-> IF i = 0 THEN c ELSE IF w[i - 1] = NULL THEN NULL ELSE lru_next[w[i - 1]]]

(* A walk is a function on the naturals that follows lru_next.             *)
LEMMA WalkStep ==
  ASSUME NEW c, NEW w, IsWalk(w, c)
  PROVE  /\ w = [i \in Nat |-> w[i]] /\ w[0] = c
         /\ \A n \in Nat : w[n + 1] = IF w[n] = NULL THEN NULL ELSE lru_next[w[n]]
BY DEF IsWalk

(* Every function that starts at c and follows lru_next is the walk from   *)
(* c.                                                                      *)
LEMMA WalkIs ==
  ASSUME NEW c, NEW g, IsWalk(g, c)
  PROVE  WalkFrom(c) = g
<1> DEFINE w == WalkFrom(c)
<1>1. w = CHOOSE v : IsWalk(v, c)
  BY DEF WalkFrom, IsWalk
<1>2. IsWalk(w, c)
  BY <1>1
<1> HIDE DEF w
<1>3. \A n \in Nat : w[n] = g[n]
  <2>1. w[0] = g[0]
    BY <1>2, WalkStep
  <2>2. \A n \in Nat : w[n] = g[n] => w[n + 1] = g[n + 1]
    BY <1>2, WalkStep
  <2> QED BY <2>1, <2>2, AgreeEverywhere
<1> QED BY <1>2, <1>3, WalkStep DEF w

(* The walk from a head reads its list, cell by cell.                      *)
LEMMA WalkReadsList ==
  ASSUME TypeOK, NEW head \in Heads, NEW q \in Seq(Nodes), IsList(q, head)
  PROVE  \A i \in Nat : WalkFrom(head)[i] = IF i <= Len(q) + 1 THEN Cell(q, head, i) ELSE NULL
<1> DEFINE C(i) == Cell(q, head, i)
           g == [i \in Nat |-> IF i <= Len(q) + 1 THEN C(i) ELSE NULL]
<1>1. /\ Len(q) \in Nat /\ C(0) = head /\ C(Len(q) + 1) = LastOf(head)
      /\ \A i \in 0 .. Len(q) : C(i) # NULL /\ lru_next[C(i)] = C(i + 1)
      /\ LastOf(head) # NULL /\ lru_next[LastOf(head)] = NULL
  <2>1. \A i \in 0 .. Len(q) : C(i) \in Cells
    BY CellsOfList, SentinelsDiffer DEF Cell, Heads, Sentinels
  <2>2. LastOf(head) \in Cells
    BY CellsOfList, SentinelsDiffer
  <2> QED BY <2>1, <2>2, CellsOfList, SentinelsDiffer DEF IsList
<1>2. \A i \in Nat : g[i] = IF i <= Len(q) + 1 THEN C(i) ELSE NULL
  OBVIOUS
<1> HIDE DEF C
<1>3. ASSUME NEW i \in Nat
      PROVE  g[i] = IF i = 0 THEN head ELSE IF g[i - 1] = NULL THEN NULL ELSE lru_next[g[i - 1]]
  <2> HIDE DEF g
  <2>1. CASE i = 0
    BY <1>1, <1>2, <2>1
  <2>2. CASE i \in 1 .. Len(q) + 1
    <3>1. i - 1 \in 0 .. Len(q) /\ i - 1 \in Nat /\ (i - 1) + 1 = i /\ i # 0
      BY <1>1, <2>2
    <3> QED BY <1>1, <1>2, <3>1
  <2>3. CASE i = Len(q) + 2
    <3>1. i - 1 = Len(q) + 1 /\ i - 1 \in Nat /\ i # 0
      BY <1>1, <2>3
    <3> QED BY <1>1, <1>2, <2>3, <3>1
  <2>4. CASE i > Len(q) + 2
    <3>1. i - 1 \in Nat /\ i - 1 > Len(q) + 1 /\ i # 0
      BY <1>1, <2>4
    <3>2. g[i - 1] = NULL /\ g[i] = NULL
      BY <1>1, <1>2, <2>4, <3>1
    <3> QED BY <3>1, <3>2
  <2> QED BY <1>1, <2>1, <2>2, <2>3, <2>4
<1>4. IsWalk(g, head)
  <2>1. g = [i \in Nat |-> g[i]]
    OBVIOUS
  <2> HIDE DEF g
  <2> QED BY <1>3, <2>1 DEF IsWalk
<1>5. WalkFrom(head) = g
  <2> HIDE DEF g
  <2> QED BY <1>4, WalkIs
<1> QED BY <1>2, <1>5 DEF C

(* What a walk lists is what the sequence of its list holds.               *)
LEMMA ListedIsList ==
  ASSUME TypeOK, NEW head \in Heads, NEW q \in Seq(Nodes), IsList(q, head)
  PROVE  /\ Len(q) \in 0 .. Cardinality(Nodes) /\ Cardinality(Nodes) \in Nat
         /\ \A n : n \in Listed(head) <=> \E i \in 1 .. Len(q) : q[i] = n
         /\ Cardinality(Listed(head)) = Len(q)
         /\ \A i \in 1 .. Len(q) : WalkFrom(head)[i] = q[i]
         /\ WalkFrom(head)[Len(q) + 1] = LastOf(head)
<1> DEFINE w == WalkFrom(head)
<1>1. /\ Len(q) \in Nat
      /\ \A i \in 1 .. Len(q) : Cell(q, head, i) = q[i] /\ q[i] \in Nodes
      /\ Cell(q, head, Len(q) + 1) = LastOf(head) /\ LastOf(head) \notin Nodes
  BY CellsOfList, SentinelsDiffer
<1>2. /\ Len(q) <= Cardinality(Nodes) /\ Cardinality(Nodes) \in Nat
      /\ \A T : (\A x : x \in T <=> \E i \in 1 .. Len(q) : q[i] = x) => Cardinality(T) = Len(q)
  BY DistinctElements, ConstantsAssumption DEF IsList
<1>3. \A i \in Nat : w[i] = IF i <= Len(q) + 1 THEN Cell(q, head, i) ELSE NULL
  BY WalkReadsList
<1> HIDE DEF w
<1>4. (\A i \in 1 .. Len(q) : w[i] = q[i]) /\ w[Len(q) + 1] = LastOf(head)
  BY <1>1, <1>3
<1>5. \A i \in Nat : i > Len(q) => w[i] \notin Nodes
  <2> TAKE i \in Nat
  <2>1. CASE i = Len(q) + 1
    BY <1>1, <1>4, <2>1
  <2>2. CASE i > Len(q) + 1
    BY <1>1, <1>3, <2>2, SentinelsDiffer
  <2> QED BY <1>1, <2>1, <2>2
<1>6. ASSUME NEW n
      PROVE  n \in Listed(head) <=> \E i \in 1 .. Len(q) : q[i] = n
  <2>1. n \in Listed(head) <=> n \in Nodes /\ \E i \in 1 .. Cardinality(Nodes) : w[i] = n
    BY DEF Listed, w
  <2>2. ASSUME NEW i \in 1 .. Cardinality(Nodes), w[i] = n, n \in Nodes
        PROVE  \E j \in 1 .. Len(q) : q[j] = n
    <3>1. i \in 1 .. Len(q)
      BY <1>1, <1>2, <1>5, <2>2
    <3> QED BY <1>4, <2>2, <3>1
  <2>3. ASSUME NEW i \in 1 .. Len(q), q[i] = n
        PROVE  n \in Nodes /\ \E j \in 1 .. Cardinality(Nodes) : w[j] = n
    <3>1. i \in 1 .. Cardinality(Nodes)
      BY <1>1, <1>2
    <3> QED BY <1>1, <1>4, <2>3, <3>1
  <2> QED BY <2>1, <2>2, <2>3
<1> QED BY <1>1, <1>2, <1>4, <1>6 DEF w

(* The walk from a head meets the listed nodes, by their flag.             *)
LEMMA ListedByFlag ==
  ASSUME IInv
  PROVE  /\ \A n : n \in Listed(LruHead) <=> n \in InList /\ lru_flag[n]
         /\ \A n : n \in Listed(PoolHead) <=> n \in InList /\ ~lru_flag[n]
         /\ \A head \in Heads : /\ Cardinality(Listed(head)) \in 0 .. Cardinality(Nodes)
                                /\ WalkFrom(head)[Cardinality(Listed(head)) + 1] = LastOf(head)
<1>1. /\ TypeOK /\ LruHead \in Heads /\ PoolHead \in Heads
      /\ ListHolds(LruHead, {n \in InList : lru_flag[n]})
      /\ ListHolds(PoolHead, {n \in InList : ~lru_flag[n]})
  BY DEF IInv, LinksAreLists, Heads
<1>2. ASSUME NEW head \in Heads, NEW S \in SUBSET Nodes, ListHolds(head, S)
      PROVE  /\ \A n : n \in Listed(head) <=> n \in S
             /\ Cardinality(Listed(head)) \in 0 .. Cardinality(Nodes)
             /\ WalkFrom(head)[Cardinality(Listed(head)) + 1] = LastOf(head)
  <2>1. PICK q \in Seq(Nodes) : IsList(q, head) /\ Holds(q, S)
    BY <1>2 DEF ListHolds
  <2>2. /\ Len(q) \in 0 .. Cardinality(Nodes)
        /\ \A n : n \in Listed(head) <=> \E i \in 1 .. Len(q) : q[i] = n
        /\ Cardinality(Listed(head)) = Len(q)
        /\ WalkFrom(head)[Len(q) + 1] = LastOf(head)
    BY <1>1, <2>1, ListedIsList
  <2>3. \A n : (\E i \in 1 .. Len(q) : q[i] = n) <=> n \in S
    <3>1. \A i \in 1 .. Len(q) : q[i] \in Nodes
      OBVIOUS
    <3> QED BY <2>1, <3>1 DEF Holds
  <2> QED BY <2>2, <2>3
<1>3. {n \in InList : lru_flag[n]} \in SUBSET Nodes /\ {n \in InList : ~lru_flag[n]} \in SUBSET Nodes
  BY DEF InList
<1>4. \A n : n \in Listed(LruHead) <=> n \in {m \in InList : lru_flag[m]}
  BY <1>1, <1>2, <1>3
<1>5. \A n : n \in Listed(PoolHead) <=> n \in {m \in InList : ~lru_flag[m]}
  BY <1>1, <1>2, <1>3
<1>6. \A head \in Heads : /\ Cardinality(Listed(head)) \in 0 .. Cardinality(Nodes)
                          /\ WalkFrom(head)[Cardinality(Listed(head)) + 1] = LastOf(head)
  BY <1>1, <1>2, <1>3 DEF Heads
<1> QED BY <1>4, <1>5, <1>6

(* A node is in one chain or in none, at one place.                        *)
LEMMA PositionsByFlag ==
  ASSUME IInv, NEW n \in Nodes
  PROVE  /\ ht_flag[n] => /\ BucketOf[key[n]] \in Buckets
                          /\ \E i : Positions(n) = {<<BucketOf[key[n]], i>>}
         /\ ~ht_flag[n] => Positions(n) = {}
<1>1. TypeOK /\ ChainsAreRight
  BY DEF IInv
<1>2. ASSUME NEW b \in Buckets, NEW i \in DOMAIN chain[b], chain[b][i] = n
      PROVE  i \in 1 .. Cardinality(Nodes) /\ ht_flag[n] /\ BucketOf[key[n]] = b
  <2>1. chain[b] \in Seq(Nodes) /\ DOMAIN chain[b] = 1 .. Len(chain[b]) /\ Len(chain[b]) \in Nat
    BY <1>1 DEF TypeOK
  <2>2. Len(chain[b]) <= Cardinality(Nodes) /\ Cardinality(Nodes) \in Nat
    <3>1. \A j, k \in 1 .. Len(chain[b]) : chain[b][j] = chain[b][k] => j = k
      BY <1>1 DEF ChainsAreRight
    <3>2. \A s \in Seq(Nodes) : (\A j, k \in 1 .. Len(s) : s[j] = s[k] => j = k)
             => Len(s) <= Cardinality(Nodes) /\ Cardinality(Nodes) \in Nat
      BY DistinctElements, ConstantsAssumption
    <3> QED BY <2>1, <3>1, <3>2
  <2>3. i \in 1 .. Cardinality(Nodes)
    BY <2>1, <2>2
  <2> QED BY <1>1, <1>2, <2>1, <2>3 DEF ChainsAreRight
<1>3. \A p : p \in Positions(n) <=>
               \E b \in Buckets : \E i \in DOMAIN chain[b] : p = <<b, i>> /\ chain[b][i] = n
  <2>1. \A p : p \in Positions(n) <=>
                 \E b \in Buckets : \E i \in 1 .. Cardinality(Nodes) :
                   p = <<b, i>> /\ i \in DOMAIN chain[b] /\ chain[b][i] = n
    BY DEF Positions
  <2> QED BY <1>2, <2>1
<1>4. ~ht_flag[n] => Positions(n) = {}
  BY <1>2, <1>3
<1>5. ASSUME ht_flag[n]
      PROVE  /\ BucketOf[key[n]] \in Buckets
             /\ \E i : Positions(n) = {<<BucketOf[key[n]], i>>}
  <2> DEFINE B == BucketOf[key[n]]
  <2>1. B \in Buckets
    BY <1>1, <1>5, ConstantsAssumption DEF ChainsAreRight
  <2>2. DOMAIN chain[B] = 1 .. Len(chain[B])
    BY <1>1, <2>1 DEF TypeOK
  <2>3. PICK i \in DOMAIN chain[B] : chain[B][i] = n
    BY <1>1, <1>5, <2>1, <2>2 DEF ChainsAreRight
  <2>4. \A j \in DOMAIN chain[B] : chain[B][j] = n => j = i
    BY <1>1, <2>1, <2>2, <2>3 DEF ChainsAreRight
  <2> HIDE DEF B
  <2>5. \A p : p \in Positions(n) <=> p = <<B, i>>
    BY <1>2, <1>3, <2>1, <2>3, <2>4 DEF B
  <2>6. Positions(n) = {<<B, i>>}
    BY <2>5
  <2> QED BY <2>1, <2>6 DEF B
<1> QED BY <1>4, <1>5

(* The conjuncts of StructureIsSound: the two lists share the nodes out,   *)
LEMMA NodesAreConserved == IInv => NodesConserved
<1> SUFFICES ASSUME IInv PROVE NodesConserved
  OBVIOUS
<1>1. /\ \A n : n \in Listed(LruHead) <=> n \in InList /\ lru_flag[n]
      /\ \A n : n \in Listed(PoolHead) <=> n \in InList /\ ~lru_flag[n]
  BY ListedByFlag
<1>2. InList \subseteq Nodes
  BY DEF InList
<1>3. \A t \in Threads : \A n : n \in InHand(t) <=> pc[t] \in InHandPcs /\ n = node[t]
  BY DEF InHand, InHandPcs
<1>4. ASSUME NEW t \in Threads, pc[t] \in InHandPcs
      PROVE  node[t] \in Nodes /\ lock[node[t]] = t /\ node[t] \notin InList
  <2>1. HoldsNode(t)
    BY <1>4 DEF HoldsNode, InHandPcs
  <2>2. lru_next[node[t]] = NULL
    BY <1>4 DEF IInv, Local, NodeIsAsLeft
  <2> QED BY <2>1, <2>2, HeldFacts DEF InList
<1>5. ASSUME NEW n \in Nodes, n \notin InList  PROVE \E t \in Threads : n \in InHand(t)
  <2>1. PICK t \in Threads : WorksOn(t, n)
    BY <1>5 DEF IInv, NodesAreSettled
  <2>2. pc[t] # "ht_insert"
    BY <1>5, <2>1 DEF IInv, Local, NodeIsAsLeft, WorksOn, InList
  <2> QED BY <1>3, <2>1, <2>2 DEF WorksOn
<1>6. Nodes = Listed(PoolHead) \cup Listed(LruHead) \cup UNION {InHand(t) : t \in Threads}
  <2>1. \A n : n \in UNION {InHand(t) : t \in Threads} <=> \E t \in Threads : n \in InHand(t)
    OBVIOUS
  <2>2. \A n \in Nodes : n \in Listed(PoolHead) \/ n \in Listed(LruHead)
                         \/ n \in UNION {InHand(t) : t \in Threads}
    BY <1>1, <1>5, <2>1
  <2>3. \A n : n \in Listed(PoolHead) \/ n \in Listed(LruHead)
               \/ n \in UNION {InHand(t) : t \in Threads} => n \in Nodes
    BY <1>1, <1>2, <1>3, <1>4, <2>1
  <2> QED BY <2>2, <2>3
<1>7. Listed(PoolHead) \cap Listed(LruHead) = {}
  BY <1>1
<1>8. ASSUME NEW t \in Threads
      PROVE  /\ InHand(t) \cap (Listed(PoolHead) \cup Listed(LruHead)) = {}
             /\ \A u \in Threads \ {t} : InHand(t) \cap InHand(u) = {}
  BY <1>1, <1>3, <1>4
<1> QED BY <1>6, <1>7, <1>8 DEF NodesConserved

(* read the same in both directions,                                       *)
LEMMA ListsReadBothWays == IInv => ListsAreDouble
<1> SUFFICES ASSUME IInv PROVE ListsAreDouble
  OBVIOUS
<1>1. /\ \A c \in Cells : lru_next[c] # NULL => lru_prev[lru_next[c]] = c
      /\ \A c \in Cells : lru_prev[c] # NULL => lru_next[lru_prev[c]] = c
  BY ListFacts DEF IInv
<1>2. \A head \in {LruHead, PoolHead} :
        WalkFrom(head)[Cardinality(Listed(head)) + 1] = LastOf(head)
  BY ListedByFlag DEF Heads
<1> QED BY <1>1, <1>2 DEF ListsAreDouble

(* a node is in the chain of its key, and there once, as long as its flag  *)
(* says so,                                                                *)
LEMMA ChainsHoldTheirKeys == IInv => ChainsMatchKeys
<1> SUFFICES ASSUME IInv, NEW n \in Nodes
             PROVE  /\ Cardinality(Positions(n)) = IF ht_flag[n] THEN 1 ELSE 0
                    /\ \A p \in Positions(n) : BucketOf[key[n]] = p[1]
  BY DEF ChainsMatchKeys
<1>1. CASE ht_flag[n]
  <2>1. PICK i : Positions(n) = {<<BucketOf[key[n]], i>>}
    BY <1>1, PositionsByFlag
  <2>2. Cardinality(Positions(n)) = 1
    BY <2>1, FS_Singleton
  <2> QED BY <1>1, <2>1, <2>2
<1>2. CASE ~ht_flag[n]
  BY <1>2, PositionsByFlag, FS_EmptySet
<1> QED BY <1>1, <1>2

(* and what coherent() asserts holds of every node nobody has locked,      *)
LEMMA UnlockedNodesCohere == IInv => UnlockedIsCoherent
<1> SUFFICES ASSUME IInv, NEW n \in Nodes, Free(n)
             PROVE  IF n \in Listed(PoolHead) THEN ~lru_flag[n] /\ ~ht_flag[n]
                    ELSE lru_flag[n] /\ ht_flag[n] /\ n \in Listed(LruHead)
  BY DEF UnlockedIsCoherent
<1>1. n \in InList /\ (lru_flag[n] <=> ht_flag[n])
  BY FreeIsListed DEF Free
<1> QED BY <1>1, ListedByFlag

(* and of the object when no call runs.                                    *)
LEMMA IdleIsCoherent == IInv => CoherentBetweenCalls
<1> SUFFICES ASSUME IInv, \A t \in Threads : pc[t] = "idle"  PROVE AssertIsCoherent
  BY DEF CoherentBetweenCalls
<1>1. \A c \in Cells : lock[c] = NULL
  <2>1. \A t \in Threads : Held(t) = {}
    BY DEF Held, HoldsNode, HoldsPrev
  <2> QED BY <2>1 DEF IInv, TypeOK, LockDiscipline
<1>2. \A n \in Nodes : n \in InList /\ (lru_flag[n] <=> ht_flag[n])
  BY <1>1, FreeIsListed, SentinelsDiffer
<1>3. /\ \A n : n \in Listed(LruHead) <=> n \in InList /\ lru_flag[n]
      /\ \A n : n \in Listed(PoolHead) <=> n \in InList /\ ~lru_flag[n]
      /\ \A n \in InList : n \in Nodes
  BY ListedByFlag DEF InList
<1>4. Listed(PoolHead) \cup Listed(LruHead) = Nodes
  BY <1>2, <1>3
<1>5. \A head \in {PoolHead, LruHead} :
        \E i \in 1 .. Cardinality(Nodes) + 1 : WalkFrom(head)[i] = LastOf(head)
  <2> TAKE head \in {PoolHead, LruHead}
  <2>1. /\ Cardinality(Listed(head)) \in 0 .. Cardinality(Nodes) /\ Cardinality(Nodes) \in Nat
        /\ WalkFrom(head)[Cardinality(Listed(head)) + 1] = LastOf(head)
    BY ListedByFlag, ConstantsAssumption, FS_CardinalityType DEF Heads
  <2>2. Cardinality(Listed(head)) + 1 \in 1 .. Cardinality(Nodes) + 1
    BY <2>1
  <2> QED BY <2>1, <2>2
<1>6. \A n \in Nodes : ~ht_flag[n] => Positions(n) = {}
  BY PositionsByFlag
<1>7. \A n \in Nodes : Cardinality(Positions(n)) <= 1
  <2>1. \A n \in Nodes : Cardinality(Positions(n)) = IF ht_flag[n] THEN 1 ELSE 0
    BY ChainsHoldTheirKeys DEF ChainsMatchKeys
  <2> QED BY <2>1
<1>8. \A n \in Listed(PoolHead) : ~lru_flag[n] /\ ~ht_flag[n] /\ Positions(n) = {}
  BY <1>2, <1>3, <1>6
<1>9. \A n \in Listed(LruHead) : lru_flag[n] /\ ht_flag[n]
  BY <1>2, <1>3
<1>10. \A n \in Nodes : Positions(n) # {} => n \in Listed(LruHead)
  BY <1>2, <1>3, <1>6
<1> QED BY <1>1, <1>4, <1>5, <1>7, <1>8, <1>9, <1>10 DEF AssertIsCoherent

(* Whatever the threads do at the same time: no node is lost or handed out *)
(* twice, both lists read the same both ways, a node is in the chain of    *)
(* its key exactly when its flag says so, the flags of an unlocked node    *)
(* agree with its list, and assertIsCoherent holds between calls.          *)
THEOREM StructureIsKept == Spec => []StructureIsSound
<1>1. IInv => StructureIsSound
  BY NodesAreConserved, ListsReadBothWays, ChainsHoldTheirKeys, UnlockedNodesCohere, IdleIsCoherent
  DEF StructureIsSound
<1> QED BY <1>1, IInvHolds, PTL

---------------------------------------------------------------------------
(* The steps that change no more than locks and locals, and the others.    *)
Quiet == UNCHANGED <<key, lru_flag, ht_flag, chain, lru_next, lru_prev>>

(* Seven actions change nodes or links, each besides locks and locals.     *)
LEMMA QuietOrNot ==
  ASSUME [Next]_vars
  PROVE  \/ Quiet
         \/ \E t \in Threads : \/ RemoveUnlink(t) \/ EvictUnlink(t) \/ AppendLink(t)
                               \/ HtRemoveFirst(t) \/ HtUnlink(t)
                               \/ Fill(t) \/ HtInsert(t)
<1>1. UNCHANGED vars => Quiet
  BY DEF vars, Quiet
<1>2. ASSUME NEW t \in Threads, NEW k \in Keys, Find(t, k)  PROVE Quiet
  BY <1>2 DEF Find, FindMiss, FindNode, Quiet, table, links
<1>3. ASSUME NEW t \in Threads, Proceed(t)
      PROVE  \/ Quiet
             \/ RemoveUnlink(t) \/ EvictUnlink(t) \/ AppendLink(t)
             \/ HtRemoveFirst(t) \/ HtUnlink(t)
             \/ Fill(t) \/ HtInsert(t)
  <2> USE DEF Quiet, table, links
  <2>1. FindHit(t) \/ FindStale(t) => Quiet
    BY DEF FindHit, FindStale
  <2>2. RemovePrev(t) \/ RemoveBackOff(t) \/ RemoveWait(t) => Quiet
    BY DEF RemovePrev, RemoveBackOff, RemoveWait
  <2>3. RemoveRelock(t) \/ RemoveAgain(t) \/ RemoveNext(t) => Quiet
    BY DEF RemoveRelock, RemoveAgain, RemoveNext
  <2>4. AppendRead(t) \/ AppendPrev(t) \/ AppendNode(t) => Quiet
    BY DEF AppendRead, AppendPrev, AppendNode
  <2>5. EvictPrev(t) \/ EvictNode(t) \/ EvictNext(t) => Quiet
    BY DEF EvictPrev, EvictNode, EvictNext
  <2>6. HtRemoveLock(t) => Quiet
    BY DEF HtRemoveLock
  <2>7. HtRemoveFails(t) => Quiet
    BY <1>1 DEF HtRemoveFails
  <2> QED BY <1>3, <2>1, <2>2, <2>3, <2>4, <2>5, <2>6, <2>7 DEF Proceed
<1> QED BY <1>1, <1>2, <1>3 DEF Next

(* The node after n in its chain.                                          *)
FollowsIn(x, n) ==
  \E b \in Buckets : \E i \in 1 .. Len(chain[b]) :
    i < Len(chain[b]) /\ chain[b][i] = n /\ chain[b][i + 1] = x
SuccessorsFollow == \A n \in Nodes : \A x : x \in Successor(n) <=> FollowsIn(x, n)

(* Successor, which is defined by positions, is what follows in a chain.   *)
LEMMA SuccessorIs == IInv => SuccessorsFollow
<1> SUFFICES ASSUME IInv, NEW n \in Nodes
             PROVE  \A x : x \in Successor(n) <=> FollowsIn(x, n)
  BY DEF SuccessorsFollow
<1>1. ASSUME NEW b \in Buckets
      PROVE  /\ DOMAIN chain[b] = 1 .. Len(chain[b])
             /\ \A i \in 1 .. Len(chain[b]) : i \in 1 .. Cardinality(Nodes)
  <2>1. chain[b] \in Seq(Nodes) /\ Len(chain[b]) \in Nat /\ DOMAIN chain[b] = 1 .. Len(chain[b])
    BY DEF IInv, TypeOK
  <2>2. \A j, k \in 1 .. Len(chain[b]) : chain[b][j] = chain[b][k] => j = k
    BY DEF IInv, ChainsAreRight
  <2>3. \A s \in Seq(Nodes) : (\A j, k \in 1 .. Len(s) : s[j] = s[k] => j = k)
           => Len(s) <= Cardinality(Nodes) /\ Cardinality(Nodes) \in Nat
    BY DistinctElements, ConstantsAssumption
  <2> QED BY <2>1, <2>2, <2>3
<1>2. \A b, i : <<b, i>> \in Positions(n) <=>
                  b \in Buckets /\ i \in 1 .. Len(chain[b]) /\ chain[b][i] = n
  BY <1>1 DEF Positions
<1>3. \A p \in Positions(n) : p = <<p[1], p[2]>>
  BY DEF Positions
<1>4. ASSUME NEW x, x \in Successor(n)  PROVE FollowsIn(x, n)
  <2>1. PICK p \in Positions(n) : p[2] < Len(chain[p[1]]) /\ x = chain[p[1]][p[2] + 1]
    BY <1>4 DEF Successor
  <2>2. p[1] \in Buckets /\ p[2] \in 1 .. Len(chain[p[1]]) /\ chain[p[1]][p[2]] = n
    BY <1>2, <1>3
  <2> QED BY <2>1, <2>2 DEF FollowsIn
<1>5. ASSUME NEW x, FollowsIn(x, n)  PROVE x \in Successor(n)
  <2>1. PICK b \in Buckets : \E i \in 1 .. Len(chain[b]) :
          i < Len(chain[b]) /\ chain[b][i] = n /\ chain[b][i + 1] = x
    BY <1>5 DEF FollowsIn
  <2>2. PICK i \in 1 .. Len(chain[b]) : i < Len(chain[b]) /\ chain[b][i] = n /\ chain[b][i + 1] = x
    BY <2>1
  <2>3. <<b, i>> \in Positions(n) /\ <<b, i>>[1] = b /\ <<b, i>>[2] = i
    BY <1>2, <2>2
  <2> QED BY <2>2, <2>3 DEF Successor
<1> QED BY <1>4, <1>5

(* The same of the state after a step.                                     *)
LEMMA SuccessorIsNext == IInv' => SuccessorsFollow'
BY SuccessorIs, PTL

(* A node that leaves its chain changes the link of the node before it.    *)
LEMMA LeaveChainLinks ==
  ASSUME IInv, NEW n \in Nodes, ht_flag[n], LeaveChain(n), UNCHANGED key,
         NEW m \in Nodes \ {n}, ~Pred(n, m), NEW x
  PROVE  FollowsIn(x, m)' <=> FollowsIn(x, m)
<1> DEFINE B == BucketOf[key[n]]
           c == chain[B]
<1>1. TypeOK /\ ChainsAreRight
  BY DEF IInv
<1>2. B \in Buckets /\ c \in Seq(Nodes) /\ Len(c) \in Nat /\ DOMAIN c = 1 .. Len(c)
  BY <1>1, ConstantsAssumption DEF ChainsAreRight, TypeOK
<1>3. PICK k \in 1 .. Len(c) : c[k] = n /\ chain' = [chain EXCEPT ![B] = RemoveAt(@, k)]
  BY <1>2 DEF LeaveChain, ChainOf
<1>4. /\ Len(chain'[B]) = Len(c) - 1
      /\ \A i \in 1 .. Len(c) - 1 : chain'[B][i] = IF i < k THEN c[i] ELSE c[i + 1]
      /\ \A b \in Buckets \ {B} : chain'[b] = chain[b]
  <2>1. chain'[B] = RemoveAt(c, k) /\ \A b \in Buckets \ {B} : chain'[b] = chain[b]
    BY <1>1, <1>2, <1>3 DEF TypeOK
  <2> HIDE DEF B, c
  <2>2. /\ Len(RemoveAt(c, k)) = Len(c) - 1
        /\ \A i \in 1 .. Len(c) - 1 : RemoveAt(c, k)[i] = IF i < k THEN c[i] ELSE c[i + 1]
    BY <1>2, RemoveAtFacts
  <2> QED BY <2>1, <2>2
<1>5. k > 1 => c[k - 1] # m
  <2>1. \A i \in 2 .. Len(c) : c[i] = n => c[i - 1] # m
    BY DEF Pred, ChainOf
  <2> QED BY <1>2, <1>3, <2>1
<1> HIDE DEF B, c
<1>6. ASSUME FollowsIn(x, m)'  PROVE FollowsIn(x, m)
  <2>1. PICK b \in Buckets : \E i \in 1 .. Len(chain'[b]) :
          i < Len(chain'[b]) /\ chain'[b][i] = m /\ chain'[b][i + 1] = x
    BY <1>6 DEF FollowsIn
  <2>2. CASE b # B
    BY <1>4, <2>1, <2>2 DEF FollowsIn
  <2>3. CASE b = B
    <3>1. PICK i \in 1 .. Len(c) - 1 :
            i < Len(c) - 1 /\ chain'[B][i] = m /\ chain'[B][i + 1] = x
      BY <1>4, <2>1, <2>3
    <3>2. i \in 1 .. Len(c) - 1 /\ i + 1 \in 1 .. Len(c) - 1 /\ (i + 1) + 1 = i + 2
      BY <1>2, <3>1
    <3>3. CASE i + 1 < k
      <4>1. i < k /\ i \in 1 .. Len(c) /\ i < Len(c)
        BY <1>2, <3>1, <3>3
      <4>2. c[i] = m /\ c[i + 1] = x
        BY <1>4, <3>1, <3>2, <3>3, <4>1
      <4> QED BY <1>2, <4>1, <4>2 DEF FollowsIn, c
    <3>4. CASE i + 1 = k
      <4>1. i < k /\ i = k - 1 /\ k > 1
        BY <1>2, <3>1, <3>4
      <4>2. c[i] = m
        BY <1>4, <3>1, <4>1
      <4> QED BY <1>5, <4>1, <4>2
    <3>5. CASE i + 1 > k
      <4>1. ~(i < k) /\ ~(i + 1 < k) /\ i + 1 \in 1 .. Len(c) /\ i + 1 < Len(c)
        BY <1>2, <3>1, <3>5
      <4>2. c[i + 1] = m /\ c[(i + 1) + 1] = x
        BY <1>4, <3>1, <3>2, <4>1
      <4> QED BY <1>2, <4>1, <4>2 DEF FollowsIn, c
    <3> QED BY <1>2, <3>2, <3>3, <3>4, <3>5
  <2> QED BY <2>2, <2>3
<1>7. ASSUME FollowsIn(x, m)  PROVE FollowsIn(x, m)'
  <2>1. PICK b \in Buckets : \E i \in 1 .. Len(chain[b]) :
          i < Len(chain[b]) /\ chain[b][i] = m /\ chain[b][i + 1] = x
    BY <1>7 DEF FollowsIn
  <2>2. CASE b # B
    BY <1>4, <2>1, <2>2 DEF FollowsIn
  <2>3. CASE b = B
    <3>1. PICK i \in 1 .. Len(c) : i < Len(c) /\ c[i] = m /\ c[i + 1] = x
      BY <2>1, <2>3 DEF c
    <3>2. CASE i + 1 < k
      <4>1. i \in 1 .. Len(c) - 1 /\ i < Len(c) - 1 /\ i + 1 \in 1 .. Len(c) - 1 /\ i < k
        BY <1>2, <3>1, <3>2
      <4>2. chain'[B][i] = m /\ chain'[B][i + 1] = x
        BY <1>4, <3>1, <3>2, <4>1
      <4> QED BY <1>2, <1>4, <4>1, <4>2 DEF FollowsIn
    <3>3. CASE i + 1 = k
      <4>1. c[k - 1] = m /\ k > 1
        BY <1>2, <3>1, <3>3
      <4> QED BY <1>5, <4>1
    <3>4. CASE i = k
      BY <1>3, <3>1, <3>4
    <3>5. CASE i > k
      <4>1. /\ i - 1 \in 1 .. Len(c) - 1 /\ i - 1 < Len(c) - 1 /\ i \in 1 .. Len(c) - 1
            /\ (i - 1) + 1 = i /\ ~(i - 1 < k) /\ ~(i < k)
        BY <1>2, <3>1, <3>5
      <4>2. chain'[B][i - 1] = m /\ chain'[B][(i - 1) + 1] = x
        BY <1>4, <3>1, <4>1
      <4> QED BY <1>2, <1>4, <4>1, <4>2 DEF FollowsIn
    <3> QED BY <1>2, <3>1, <3>2, <3>3, <3>4, <3>5
  <2> QED BY <2>2, <2>3
<1> QED BY <1>6, <1>7

(* A node put before the others changes the link of none.                  *)
LEMMA InsertLinks ==
  ASSUME IInv, NEW n \in Nodes, NEW B \in Buckets,
         chain' = [chain EXCEPT ![B] = <<n>> \o @],
         NEW m \in Nodes \ {n}, NEW x
  PROVE  FollowsIn(x, m)' <=> FollowsIn(x, m)
<1> DEFINE c == chain[B]
<1>1. c \in Seq(Nodes) /\ Len(c) \in Nat
  BY DEF IInv, TypeOK
<1>2. /\ Len(chain'[B]) = Len(c) + 1
      /\ \A i \in 1 .. Len(c) + 1 : chain'[B][i] = IF i = 1 THEN n ELSE c[i - 1]
      /\ \A b \in Buckets \ {B} : chain'[b] = chain[b]
  <2>1. chain'[B] = <<n>> \o c /\ \A b \in Buckets \ {B} : chain'[b] = chain[b]
    BY DEF IInv, TypeOK
  <2> HIDE DEF c
  <2>2. Len(<<n>> \o c) = Len(c) + 1
        /\ \A i \in 1 .. Len(c) + 1 : (<<n>> \o c)[i] = IF i = 1 THEN n ELSE c[i - 1]
    BY <1>1
  <2> QED BY <2>1, <2>2
<1> HIDE DEF c
<1>3. ASSUME FollowsIn(x, m)'  PROVE FollowsIn(x, m)
  <2>1. PICK b \in Buckets : \E i \in 1 .. Len(chain'[b]) :
          i < Len(chain'[b]) /\ chain'[b][i] = m /\ chain'[b][i + 1] = x
    BY <1>3 DEF FollowsIn
  <2>2. CASE b # B
    BY <1>2, <2>1, <2>2 DEF FollowsIn
  <2>3. CASE b = B
    <3>1. PICK i \in 1 .. Len(c) + 1 : i < Len(c) + 1 /\ chain'[B][i] = m /\ chain'[B][i + 1] = x
      BY <1>2, <2>1, <2>3
    <3>2. i # 1
      BY <1>2, <3>1
    <3>3. /\ i - 1 \in 1 .. Len(c) /\ i - 1 < Len(c) /\ (i - 1) + 1 = i /\ (i + 1) - 1 = i
          /\ i + 1 \in 1 .. Len(c) + 1 /\ i + 1 # 1
      BY <1>1, <3>1, <3>2
    <3>4. c[i - 1] = m /\ c[(i - 1) + 1] = x
      BY <1>2, <3>1, <3>2, <3>3
    <3> QED BY <3>3, <3>4 DEF FollowsIn, c
  <2> QED BY <2>2, <2>3
<1>4. ASSUME FollowsIn(x, m)  PROVE FollowsIn(x, m)'
  <2>1. PICK b \in Buckets : \E i \in 1 .. Len(chain[b]) :
          i < Len(chain[b]) /\ chain[b][i] = m /\ chain[b][i + 1] = x
    BY <1>4 DEF FollowsIn
  <2>2. CASE b # B
    BY <1>2, <2>1, <2>2 DEF FollowsIn
  <2>3. CASE b = B
    <3>1. PICK i \in 1 .. Len(c) : i < Len(c) /\ c[i] = m /\ c[i + 1] = x
      BY <2>1, <2>3 DEF c
    <3>2. /\ i + 1 \in 1 .. Len(c) + 1 /\ i + 1 < Len(c) + 1 /\ i + 1 # 1 /\ (i + 1) - 1 = i
          /\ (i + 1) + 1 \in 1 .. Len(c) + 1 /\ (i + 1) + 1 # 1 /\ ((i + 1) + 1) - 1 = i + 1
      BY <1>1, <3>1
    <3>3. chain'[B][i + 1] = m /\ chain'[B][(i + 1) + 1] = x
      BY <1>2, <3>1, <3>2
    <3> QED BY <1>2, <3>2, <3>3 DEF FollowsIn
  <2> QED BY <2>2, <2>3
<1> QED BY <1>3, <1>4

(* A word stays when its flags and its link do.                            *)
LEMMA WordStays ==
  ASSUME IInv, IInv', NEW m \in Nodes, lru_flag'[m] = lru_flag[m], ht_flag'[m] = ht_flag[m],
         \A x : FollowsIn(x, m)' <=> FollowsIn(x, m)
  PROVE  Word(m)' = Word(m)
<1>1. \A x : x \in Successor(m) <=> FollowsIn(x, m)
  BY SuccessorIs DEF SuccessorsFollow
<1>2. \A x : x \in Successor(m)' <=> FollowsIn(x, m)'
  BY SuccessorIsNext DEF SuccessorsFollow
<1>3. Successor(m)' = Successor(m)
  BY <1>1, <1>2
<1> QED BY <1>3 DEF Word

(* Only the owner of a node's lock, and going on, writes its word.         *)
LEMMA OwnersWrite ==
  ASSUME IInv, IInv', [Next]_vars, NEW m \in Nodes, Word(m)' # Word(m)
  PROVE  lock[m] # NULL /\ pc'[lock[m]] # pc[lock[m]]
<1>1. TypeOK
  BY DEF IInv
<1>2. ASSUME UNCHANGED chain, NEW x, NEW n \in Nodes  PROVE FollowsIn(x, n)' <=> FollowsIn(x, n)
  BY <1>2 DEF FollowsIn
<1>3. ~Quiet
  BY <1>2, WordStays DEF Quiet
<1>4. PICK t \in Threads : \/ RemoveUnlink(t) \/ EvictUnlink(t) \/ AppendLink(t)
                           \/ HtRemoveFirst(t) \/ HtUnlink(t)
                           \/ Fill(t) \/ HtInsert(t)
  BY <1>3, QuietOrNot
<1>5. t # NULL
  BY SentinelsDiffer
<1>6. CASE RemoveUnlink(t) \/ AppendLink(t)
  <2>1. UNCHANGED <<lru_flag, ht_flag, chain>>
    BY <1>6 DEF RemoveUnlink, AppendLink, table
  <2> QED BY <1>2, <2>1, WordStays
<1>7. CASE EvictUnlink(t) \/ Fill(t)
  <2>1. /\ HoldsNode(t) /\ UNCHANGED <<ht_flag, chain>> /\ pc'[t] # pc[t]
        /\ \A n \in Nodes \ {node[t]} : lru_flag'[n] = lru_flag[n]
    <3>1. CASE EvictUnlink(t)
      BY <1>1, <3>1 DEF EvictUnlink, HoldsNode, Step, Goto, TypeOK
    <3>2. CASE Fill(t)
      BY <1>1, <3>2 DEF Fill, HoldsNode, Step, Goto, TypeOK
    <3> QED BY <1>7, <3>1, <3>2
  <2>2. lock[node[t]] = t
    BY <2>1, HeldFacts
  <2>3. m = node[t]
    BY <1>2, <2>1, WordStays
  <2> QED BY <1>5, <2>1, <2>2, <2>3
<1>8. CASE HtRemoveFirst(t) \/ HtUnlink(t)
  <2> DEFINE n == node[t]
  <2>1. /\ HoldsNode(t) /\ pc'[t] # pc[t] /\ UNCHANGED <<key, lru_flag>> /\ LeaveChain(n)
    <3>1. CASE HtRemoveFirst(t)
      BY <1>1, <3>1 DEF HtRemoveFirst, HoldsNode, Step, Goto, TypeOK, links
    <3>2. CASE HtUnlink(t)
      BY <1>1, <3>2 DEF HtUnlink, HoldsNode, Step, Goto, TypeOK, links
    <3> QED BY <1>8, <3>1, <3>2
  <2>2. lock[n] = t /\ n \in Nodes
    BY <2>1, HeldFacts
  <2>3. ht_flag[n]
    <3>1. pc[t] \in {"ht_remove", "ht_unlink"}
      BY <1>8 DEF HtRemoveFirst, HtUnlink, Step
    <3> QED BY <3>1 DEF IInv, Local, NodeIsAsLeft
  <2>4. \A p \in Nodes : Pred(n, p) => lock[p] = t
    <3>1. /\ ht_flag[n] => key[n] \in Keys
          /\ \A b \in Buckets : \A i, j \in 1 .. Len(chain[b]) : chain[b][i] = chain[b][j] => i = j
      BY <2>2 DEF IInv, ChainsAreRight
    <3>2. BucketOf[key[n]] \in Buckets
      BY <2>3, <3>1, ConstantsAssumption
    <3>3. /\ ChainOf(n) \in Seq(Nodes) /\ DOMAIN ChainOf(n) = 1 .. Len(ChainOf(n))
          /\ Len(ChainOf(n)) \in Nat
      BY <1>1, <3>2 DEF TypeOK, ChainOf
    <3>4. \A i, j \in 1 .. Len(ChainOf(n)) : ChainOf(n)[i] = ChainOf(n)[j] => i = j
      BY <3>1, <3>2 DEF ChainOf
    <3> HIDE DEF n
    <3>5. CASE HtRemoveFirst(t)
      <4>1. ChainOf(n) # <<>> /\ Head(ChainOf(n)) = n
        BY <3>5 DEF HtRemoveFirst, IsFirst, n
      <4>2. ChainOf(n)[1] = n /\ 1 \in 1 .. Len(ChainOf(n))
        BY <3>3, <4>1
      <4>3. \A i \in 2 .. Len(ChainOf(n)) : ChainOf(n)[i] # n
        <5>1. \A i \in 2 .. Len(ChainOf(n)) : i \in 1 .. Len(ChainOf(n)) /\ i # 1
          BY <3>3
        <5> QED BY <3>4, <4>2, <5>1
      <4> QED BY <4>3 DEF Pred
    <3>6. CASE HtUnlink(t)
      <4>1. pc[t] = "ht_unlink" /\ HoldsPrev(t)
        BY <3>6 DEF HtUnlink, Step, HoldsPrev
      <4>2. lock[prev[t]] = t /\ Pred(n, prev[t])
        BY <4>1, HeldFacts DEF IInv, Local, PrevLeadsOn, n
      <4>3. ASSUME NEW p \in Nodes, Pred(n, p)  PROVE p = prev[t]
        <5>1. PICK i \in 2 .. Len(ChainOf(n)) : ChainOf(n)[i] = n /\ ChainOf(n)[i - 1] = p
          BY <4>3 DEF Pred
        <5>2. PICK j \in 2 .. Len(ChainOf(n)) : ChainOf(n)[j] = n /\ ChainOf(n)[j - 1] = prev[t]
          BY <4>2 DEF Pred
        <5>3. i \in 1 .. Len(ChainOf(n)) /\ j \in 1 .. Len(ChainOf(n))
          BY <3>3
        <5> QED BY <3>4, <5>1, <5>2, <5>3
      <4> QED BY <4>2, <4>3
    <3> QED BY <1>8, <3>5, <3>6
  <2>5. ASSUME lock[m] # t  PROVE FALSE
    <3>1. m # n /\ ~Pred(n, m)
      BY <2>2, <2>4, <2>5
    <3>2. ht_flag'[m] = ht_flag[m] /\ lru_flag'[m] = lru_flag[m]
      BY <1>1, <2>1, <3>1 DEF LeaveChain, TypeOK
    <3> HIDE DEF n
    <3>3. ASSUME NEW x  PROVE FollowsIn(x, m)' <=> FollowsIn(x, m)
      BY <2>1, <2>2, <2>3, <3>1, LeaveChainLinks
    <3> QED BY <3>2, <3>3, WordStays
  <2> QED BY <1>5, <2>1, <2>5
<1>9. CASE HtInsert(t)
  <2> DEFINE n == node[t]
             B == BucketOf[req[t]]
  <2>1. /\ HoldsNode(t) /\ pc[t] = "ht_insert" /\ UNCHANGED lru_flag /\ pc'[t] # pc[t]
        /\ chain' = [chain EXCEPT ![B] = <<n>> \o @]
        /\ ht_flag' = [ht_flag EXCEPT ![n] = TRUE]
    BY <1>1, <1>9 DEF HtInsert, HoldsNode, At, Finish, Goto, TypeOK, links
  <2>2. lock[n] = t /\ n \in Nodes
    BY <2>1, HeldFacts
  <2>3. B \in Buckets
    BY <2>1, ConstantsAssumption DEF IInv, Local, LocalsAreSet
  <2>4. ASSUME m # n  PROVE FALSE
    <3>1. ht_flag'[m] = ht_flag[m] /\ lru_flag'[m] = lru_flag[m]
      BY <1>1, <2>1, <2>4 DEF TypeOK
    <3> HIDE DEF n, B
    <3>2. ASSUME NEW x  PROVE FollowsIn(x, m)' <=> FollowsIn(x, m)
      BY <2>1, <2>2, <2>3, <2>4, InsertLinks
    <3> QED BY <3>1, <3>2, WordStays
  <2> QED BY <1>5, <2>1, <2>2, <2>4
<1> QED BY <1>4, <1>6, <1>7, <1>8, <1>9

(* A key changes only in Fill, when its node is nowhere to be found.       *)
LEMMA KeysOfOwnNodes ==
  ASSUME IInv, [Next]_vars, NEW m \in Nodes, key'[m] # key[m]
  PROVE  Positions(m) = {} /\ lru_next[m] = NULL
<1>1. PICK t \in Threads : \/ RemoveUnlink(t) \/ EvictUnlink(t) \/ AppendLink(t)
                           \/ HtRemoveFirst(t) \/ HtUnlink(t)
                           \/ Fill(t) \/ HtInsert(t)
  BY QuietOrNot DEF Quiet
<1>2. Fill(t)
  <2>1. RemoveUnlink(t) \/ EvictUnlink(t) \/ AppendLink(t) => key' = key
    BY DEF RemoveUnlink, EvictUnlink, AppendLink, table
  <2>2. HtRemoveFirst(t) \/ HtUnlink(t) \/ HtInsert(t) => key' = key
    BY DEF HtRemoveFirst, HtUnlink, HtInsert
  <2> QED BY <1>1, <2>1, <2>2
<1>3. m = node[t] /\ pc[t] = "fill"
  BY <1>2 DEF Fill, Step, IInv, TypeOK
<1>4. ~ht_flag[m] /\ lru_next[m] = NULL
  BY <1>3 DEF IInv, Local, NodeIsAsLeft, InHandPcs
<1> QED BY <1>4, PositionsByFlag

(* With any number of threads: a key changes only while its node is in no  *)
(* chain and in no list, and the word with a node's flags and chain link   *)
(* is written only by the thread that holds the node's lock. So what       *)
(* htFind compares without a lock, and what a thread has read of a node it *)
(* has locked, stays.                                                      *)
THEOREM NodesChangeInHandOnly == Spec => NodesChangeUnderLock
<1>1. IInv /\ [Next]_vars => IInv'
  BY NextKeeps
<1>2. IInv /\ [Next]_vars =>
        [\A n \in Nodes : key'[n] # key[n] => Positions(n) = {} /\ lru_next[n] = NULL]_vars
  BY KeysOfOwnNodes
<1>3. IInv /\ IInv' /\ [Next]_vars =>
        [\A n \in Nodes : Word(n)' # Word(n) =>
           lock[n] # NULL /\ pc'[lock[n]] # pc[lock[n]]]_vars
  BY OwnersWrite
<1> QED BY <1>1, <1>2, <1>3, IInvHolds, PTL
        DEF Spec, NodesChangeUnderLock, KeysChangeInHand, WordsChangeUnderLock

---------------------------------------------------------------------------
(* Every step is one thread's; the locals of the others stay. A thread     *)
(* comes to wait for the last node only where it reads which one that is.  *)
IsStill(u) == pc'[u] = pc[u] /\ prev'[u] = prev[u] /\ node'[u] = node[u]

(* One thread moves in a step, and comes to append_prev only by            *)
(* AppendRead.                                                             *)
LEMMA OneMoves ==
  ASSUME TypeOK, [Next]_vars
  PROVE  \/ UNCHANGED vars
         \/ \E t \in Threads : /\ \A u \in Threads \ {t} : IsStill(u)
                               /\ pc'[t] # "append_prev" \/ AppendRead(t)
<1> DEFINE Moves(t) == /\ \A u \in Threads \ {t} : IsStill(u)
                       /\ pc'[t] # "append_prev" \/ AppendRead(t)
<1> USE DEF IsStill, Step, Goto, At, locals, TypeOK
<1>1. ASSUME NEW t \in Threads, NEW k \in Keys, FindMiss(t, k)  PROVE Moves(t)
  BY <1>1 DEF FindMiss
<1>2. ASSUME NEW t \in Threads, NEW k \in Keys, FindNode(t, k)  PROVE Moves(t)
  BY <1>2 DEF FindNode
<1>3. ASSUME NEW t \in Threads, AppendRead(t)  PROVE Moves(t)
  BY <1>3 DEF AppendRead
<1>4. ASSUME NEW t \in Threads, FindHit(t)  PROVE Moves(t)
  BY <1>4 DEF FindHit
<1>5. ASSUME NEW t \in Threads, FindStale(t)  PROVE Moves(t)
  BY <1>5 DEF FindStale
<1>6. ASSUME NEW t \in Threads, RemovePrev(t)  PROVE Moves(t)
  BY <1>6 DEF RemovePrev
<1>7. ASSUME NEW t \in Threads, RemoveBackOff(t)  PROVE Moves(t)
  BY <1>7 DEF RemoveBackOff
<1>8. ASSUME NEW t \in Threads, RemoveWait(t)  PROVE Moves(t)
  BY <1>8 DEF RemoveWait
<1>9. ASSUME NEW t \in Threads, RemoveRelock(t)  PROVE Moves(t)
  BY <1>9 DEF RemoveRelock, RemoveAbandoned, Finish
<1>10. ASSUME NEW t \in Threads, RemoveAgain(t)  PROVE Moves(t)
  BY <1>10 DEF RemoveAgain, RemoveAbandoned, Finish
<1>11. ASSUME NEW t \in Threads, RemoveNext(t)  PROVE Moves(t)
  BY <1>11 DEF RemoveNext
<1>12. ASSUME NEW t \in Threads, RemoveUnlink(t)  PROVE Moves(t)
  BY <1>12 DEF RemoveUnlink
<1>13. ASSUME NEW t \in Threads, AppendPrev(t)  PROVE Moves(t)
  BY <1>13 DEF AppendPrev
<1>14. ASSUME NEW t \in Threads, AppendNode(t)  PROVE Moves(t)
  BY <1>14 DEF AppendNode
<1>15. ASSUME NEW t \in Threads, AppendLink(t)  PROVE Moves(t)
  BY <1>15 DEF AppendLink, Finish
<1>16. ASSUME NEW t \in Threads, EvictPrev(t)  PROVE Moves(t)
  BY <1>16 DEF EvictPrev
<1>17. ASSUME NEW t \in Threads, EvictNode(t)  PROVE Moves(t)
  BY <1>17 DEF EvictNode
<1>18. ASSUME NEW t \in Threads, EvictNext(t)  PROVE Moves(t)
  BY <1>18 DEF EvictNext
<1>19. ASSUME NEW t \in Threads, EvictUnlink(t)  PROVE Moves(t)
  BY <1>19 DEF EvictUnlink
<1>20. ASSUME NEW t \in Threads, HtRemoveFirst(t)  PROVE Moves(t)
  BY <1>20 DEF HtRemoveFirst
<1>21. ASSUME NEW t \in Threads, HtRemoveLock(t)  PROVE Moves(t)
  BY <1>21 DEF HtRemoveLock
<1>22. ASSUME NEW t \in Threads, HtUnlink(t)  PROVE Moves(t)
  BY <1>22 DEF HtUnlink
<1>23. ASSUME NEW t \in Threads, Fill(t)  PROVE Moves(t)
  BY <1>23 DEF Fill
<1>24. ASSUME NEW t \in Threads, HtInsert(t)  PROVE Moves(t)
  BY <1>24 DEF HtInsert, Finish
<1> HIDE DEF Moves, IsStill, Step, Goto, At, locals, TypeOK
<1>25. ASSUME NEW t \in Threads, Proceed(t)  PROVE UNCHANGED vars \/ Moves(t)
  <2>1. HtRemoveFails(t) => UNCHANGED vars
    BY DEF HtRemoveFails
  <2> QED BY <1>25, <1>3, <1>4, <1>5, <1>6, <1>7, <1>8, <1>9, <1>10, <1>11, <1>12, <1>13, <1>14, <1>15, <1>16, <1>17, <1>18, <1>19, <1>20, <1>21, <1>22, <1>23, <1>24,
             <2>1 DEF Proceed
<1> QED BY <1>1, <1>2, <1>25 DEF Next, Find, Moves

(* The cell a thread waits for at the end of the list may be stale: by now *)
(* another thread may have taken that node out.                            *)
WaitsForHand(t, u) ==
  pc[t] = "append_prev" /\ pc[u] \in InHandPcs /\ node[u] = prev[t]
NoRing ==
  \A S \in (SUBSET Threads) \ {{}} : \E t \in S : \A u \in S : ~WaitsForHand(t, u)

(* Those threads never form a ring: when a thread reads the last node, it  *)
(* is in the list, so each waits for one that read later than itself.      *)
LEMMA NoRingKept == IInv /\ NoRing /\ [Next]_vars => NoRing'
<1> SUFFICES ASSUME IInv, NoRing, [Next]_vars PROVE NoRing'
  OBVIOUS
<1>1. IInv' /\ TypeOK
  BY NextKeeps DEF IInv
<1>2. CASE UNCHANGED vars
  <2>1. UNCHANGED <<pc, node, prev>>
    BY <1>2 DEF vars
  <2> QED BY <2>1 DEF NoRing, WaitsForHand
<1>3. ASSUME NEW v \in Threads, \A u \in Threads \ {v} : IsStill(u),
             pc'[v] # "append_prev" \/ AppendRead(v)
      PROVE  NoRing'
  <2>1. ASSUME NEW u \in Threads  PROVE ~WaitsForHand(v, u)'
    <3>1. CASE AppendRead(v)
      <4>1. prev'[v] = lru_prev[LruTail] /\ UNCHANGED lru_next
        BY <1>1, <3>1 DEF AppendRead, links, TypeOK
      <4>2. lru_prev[LruTail] # NULL /\ LruTail \in Cells
        BY ListFacts, SentinelsDiffer DEF IInv, Tails, Sentinels
      <4>3. lru_next'[prev'[v]] = LruTail
        BY <4>1, <4>2, ListFacts DEF IInv
      <4>4. pc'[u] \in InHandPcs => lru_next'[node'[u]] = NULL
        BY <1>1 DEF IInv, Local, NodeIsAsLeft
      <4> QED BY <4>2, <4>3, <4>4, SentinelsDiffer DEF WaitsForHand
    <3>2. CASE pc'[v] # "append_prev"
      BY <3>2 DEF WaitsForHand
    <3> QED BY <1>3, <3>1, <3>2
  <2>2. ASSUME NEW t \in Threads \ {v}, NEW u \in Threads \ {v}, WaitsForHand(t, u)'
        PROVE  WaitsForHand(t, u)
    BY <1>3, <2>2 DEF IsStill, WaitsForHand
  <2>3. ASSUME NEW S \in (SUBSET Threads) \ {{}}
        PROVE  \E t \in S : \A u \in S : ~WaitsForHand(t, u)'
    <3>1. CASE v \in S
      BY <2>1, <3>1
    <3>2. CASE v \notin S
      BY <2>2, <3>2 DEF NoRing
    <3> QED BY <3>1, <3>2
  <2> QED BY <2>3 DEF NoRing
<1> QED BY <1>1, <1>2, <1>3, OneMoves

(* A thread that holds a lock and waits for the next one in the order of a *)
(* list.                                                                   *)
Forward == {"remove_relock", "remove_next", "append_node", "evict_node", "evict_next"}

(* A thread that takes a second node lock forward waits for a node in a    *)
(* list.                                                                   *)
LEMMA WantsForward ==
  ASSUME IInv, NEW t \in Threads, pc[t] \in Forward, Wanted(t) # NULL
  PROVE  Wanted(t) \in Cells /\ lru_prev[Wanted(t)] # NULL
<1>1. TypeOK /\ LinksAreLists /\ Local(t)
  BY DEF IInv
<1>2. \A c \in Cells : lru_next[c] # NULL => /\ lru_next[c] \in Cells
                                            /\ lru_prev[lru_next[c]] = c /\ c # NULL
  BY <1>1, ListFacts, SentinelsDiffer
<1>3. CASE pc[t] \in {"remove_relock", "evict_node"}
  <2>1. prev[t] \in Cells /\ lru_next[prev[t]] = node[t] /\ Wanted(t) = node[t]
    BY <1>1, <1>3 DEF Local, LocalsAreSet, PrevLeadsOn, HoldsPrev, Wanted
  <2> QED BY <1>2, <2>1
<1>4. CASE pc[t] \in {"remove_next", "evict_next"}
  <2>1. node[t] \in Nodes /\ Wanted(t) = lru_next[node[t]]
    BY <1>1, <1>4 DEF Local, LocalsAreSet, Wanted
  <2> QED BY <1>2, <2>1, SentinelsDiffer
<1>5. CASE pc[t] = "append_node"
  <2>1. Wanted(t) = LruTail
    BY <1>5 DEF Wanted
  <2> QED BY <1>1, <2>1, ListFacts, SentinelsDiffer DEF Tails, Sentinels
<1> QED BY <1>3, <1>4, <1>5 DEF Forward

(* Whoever waits holding a lock goes forward, or has a node in its hands.  *)
LEMMA HoldsAndWaits ==
  ASSUME IInv, NEW u \in Threads, NEW c \in Held(u), Wanted(u) # NULL
  PROVE  pc[u] \in Forward \/ (pc[u] = "append_prev" /\ c = node[u] /\ Wanted(u) = prev[u])
BY DEF Held, HoldsNode, HoldsPrev, Wanted, Forward

(* The owner of a cell wanted in the order of a list wants a later one.    *)
LEMMA OwnerWantsLater ==
  ASSUME IInv, NEW c \in Cells, lru_prev[c] # NULL,
         NEW u \in Threads, lock[c] = u, Wanted(u) # NULL
  PROVE  /\ pc[u] \in Forward /\ lru_next[c] # NULL
         /\ \/ Wanted(u) = lru_next[c]
            \/ Wanted(u) = lru_next[lru_next[c]]
<1>1. TypeOK /\ LinksAreLists /\ Local(u)
  BY DEF IInv
<1>2. c \in Held(u)
  BY DEF IInv, LockDiscipline
<1>3. \A n \in Nodes : lru_next[n] = NULL <=> lru_prev[n] = NULL
  BY <1>1, ListFacts
<1>4. pc[u] \in InHandPcs => node[u] \in Nodes /\ lru_next[node[u]] = NULL
  BY <1>1 DEF Local, LocalsAreSet, NodeIsAsLeft, InHandPcs
<1>5. pc[u] \in InHandPcs => c # node[u]
  BY <1>3, <1>4
<1>6. pc[u] \in Forward
  BY <1>2, <1>5, HoldsAndWaits DEF InHandPcs
<1>7. CASE pc[u] \in {"remove_relock", "evict_node"}
  <2>1. Held(u) = {prev[u]} /\ Wanted(u) = node[u] /\ lru_next[prev[u]] = node[u]
    BY <1>1, <1>7 DEF Held, HoldsNode, HoldsPrev, Wanted, Local, PrevLeadsOn
  <2> QED BY <1>2, <1>6, <2>1
<1>8. CASE pc[u] \in {"remove_next", "evict_next"}
  <2>1. /\ Held(u) = {node[u], prev[u]} /\ Wanted(u) = lru_next[node[u]]
        /\ lru_next[prev[u]] = node[u] /\ node[u] # NULL
    BY <1>1, <1>8, SentinelsDiffer
    DEF Held, HoldsNode, HoldsPrev, Wanted, Local, LocalsAreSet, PrevLeadsOn
  <2> QED BY <1>2, <1>6, <2>1
<1>9. CASE pc[u] = "append_node"
  <2>1. Held(u) = {node[u], prev[u]} /\ Wanted(u) = LruTail /\ lru_next[prev[u]] = LruTail
    BY <1>1, <1>9 DEF Held, HoldsNode, HoldsPrev, Wanted, Local, PrevLeadsOn
  <2> QED BY <1>2, <1>5, <1>6, <1>9, <2>1 DEF InHandPcs
<1> QED BY <1>6, <1>7, <1>8, <1>9 DEF Forward

(* A cell with a link back is in one of the lists.                         *)
LEMMA CellIsListed ==
  ASSUME IInv, NEW c \in Cells, lru_prev[c] # NULL
  PROVE  \E head \in Heads : \E q \in Seq(Nodes) :
           IsList(q, head) /\ \E i \in 1 .. Len(q) + 1 : Cell(q, head, i) = c
<1>1. PICK q \in Seq(Nodes) : IsList(q, LruHead) /\ Holds(q, {n \in InList : lru_flag[n]})
  BY DEF IInv, LinksAreLists, ListHolds
<1>2. PICK r \in Seq(Nodes) : IsList(r, PoolHead) /\ Holds(r, {n \in InList : ~lru_flag[n]})
  BY DEF IInv, LinksAreLists, ListHolds
<1>3. LruHead \in Heads /\ PoolHead \in Heads /\ LastOf(LruHead) = LruTail /\ LastOf(PoolHead) = PoolTail
  BY SentinelsDiffer DEF Heads, LastOf
<1>4. /\ Len(q) \in Nat /\ Cell(q, LruHead, Len(q) + 1) = LruTail
      /\ \A i \in 1 .. Len(q) : Cell(q, LruHead, i) = q[i]
  BY <1>1, <1>3, CellsOfList
<1>5. /\ Len(r) \in Nat /\ Cell(r, PoolHead, Len(r) + 1) = PoolTail
      /\ \A i \in 1 .. Len(r) : Cell(r, PoolHead, i) = r[i]
  BY <1>2, <1>3, CellsOfList
<1>6. CASE c \in Nodes
  <2>1. c \in InList
    BY <1>6, ListFacts DEF IInv, InList
  <2>2. CASE lru_flag[c]
    <3>1. PICK i \in 1 .. Len(q) : q[i] = c
      BY <1>1, <1>6, <2>1, <2>2 DEF Holds
    <3>2. i \in 1 .. Len(q) + 1 /\ Cell(q, LruHead, i) = c
      BY <1>4, <3>1
    <3> QED BY <1>1, <1>3, <3>2
  <2>3. CASE ~lru_flag[c]
    <3>1. PICK i \in 1 .. Len(r) : r[i] = c
      BY <1>2, <1>6, <2>1, <2>3 DEF Holds
    <3>2. i \in 1 .. Len(r) + 1 /\ Cell(r, PoolHead, i) = c
      BY <1>5, <3>1
    <3> QED BY <1>2, <1>3, <3>2
  <2> QED BY <2>2, <2>3
<1>7. CASE c = LruTail
  BY <1>1, <1>3, <1>4, <1>7
<1>8. CASE c = PoolTail
  BY <1>2, <1>3, <1>5, <1>8
<1>9. c \notin Heads
  BY ListFacts DEF IInv
<1> QED BY <1>6, <1>7, <1>8, <1>9 DEF Cells, Sentinels, Heads

(* What a thread waits for is a cell.                                      *)
LEMMA WantedIsCell ==
  ASSUME IInv, NEW t \in Threads, Wanted(t) # NULL
  PROVE  Wanted(t) \in Cells
<1>1. CASE pc[t] \in Forward
  BY <1>1, WantsForward
<1>2. CASE pc[t] \in {"find_lock", "remove_again"}
  <2>1. node[t] \in Nodes /\ Wanted(t) = node[t]
    BY <1>2 DEF IInv, Local, LocalsAreSet, Wanted
  <2> QED BY <2>1, SentinelsDiffer
<1>3. CASE pc[t] \in {"remove_wait", "append_prev", "evict_prev"}
  <2>1. prev[t] \in Cells /\ Wanted(t) = prev[t]
    BY <1>3, SentinelsDiffer DEF IInv, Local, LocalsAreSet, Wanted, Evicting, Sentinels
  <2> QED BY <2>1
<1> QED BY <1>1, <1>2, <1>3 DEF Wanted, Forward

(* A ring of waiting threads would be one of stale last nodes, or would    *)
(* lead ever forward in a list.                                            *)
LEMMA NobodyWaitsInACircle == IInv /\ NoRing => NoBlockingCycle
<1> SUFFICES ASSUME IInv, NoRing, NEW S \in (SUBSET Threads) \ {{}},
                    \A t \in S : WaitsFor(t) \cap S # {}
             PROVE  FALSE
  BY DEF NoBlockingCycle
<1>1. \A t \in S : Wanted(t) # NULL /\ lock[Wanted(t)] \in S
  BY DEF WaitsFor
<1> DEFINE L == {t \in S : pc[t] \in Forward}
<1>2. ASSUME NEW t \in L
      PROVE  /\ Wanted(t) \in Cells /\ lru_prev[Wanted(t)] # NULL
             /\ \E u \in L : /\ lru_next[Wanted(t)] # NULL
                             /\ \/ Wanted(u) = lru_next[Wanted(t)]
                                \/ Wanted(u) = lru_next[lru_next[Wanted(t)]]
  <2>1. Wanted(t) \in Cells /\ lru_prev[Wanted(t)] # NULL
    BY <1>1, WantsForward
  <2>2. PICK u \in S : lock[Wanted(t)] = u
    BY <1>1
  <2>3. /\ pc[u] \in Forward /\ lru_next[Wanted(t)] # NULL
        /\ \/ Wanted(u) = lru_next[Wanted(t)]
           \/ Wanted(u) = lru_next[lru_next[Wanted(t)]]
    BY <1>1, <2>1, <2>2, OwnerWantsLater
  <2> QED BY <2>1, <2>3
<1>3. ASSUME NEW head \in Heads, NEW q \in Seq(Nodes), IsList(q, head)
      PROVE  \A j \in Nat : \A i \in 1 .. Len(q) + 1 : i + j > Len(q) + 1 =>
               \A t \in L : Wanted(t) # Cell(q, head, i)
  <2> DEFINE C(i) == Cell(q, head, i)
             T == {j \in Nat : \A i \in 1 .. Len(q) + 1 : i + j > Len(q) + 1 =>
                                 \A t \in L : Wanted(t) # C(i)}
  <2>1. /\ Len(q) \in Nat /\ C(Len(q) + 1) = LastOf(head) /\ lru_next[LastOf(head)] = NULL
        /\ \A i \in 0 .. Len(q) : lru_next[C(i)] = C(i + 1)
    BY <1>3, CellsOfList DEF IsList
  <2> HIDE DEF C, L
  <2>2. 0 \in T
    BY <2>1
  <2>3. ASSUME NEW j \in T  PROVE j + 1 \in T
    <3>1. SUFFICES ASSUME NEW i \in 1 .. Len(q) + 1, i + (j + 1) > Len(q) + 1,
                          NEW t \in L, Wanted(t) = C(i)
                   PROVE  FALSE
      OBVIOUS
    <3>2. PICK u \in L : /\ lru_next[C(i)] # NULL
                         /\ Wanted(u) = lru_next[C(i)] \/ Wanted(u) = lru_next[lru_next[C(i)]]
      BY <1>2, <3>1
    <3>3. i # Len(q) + 1
      BY <2>1, <3>2
    <3>4. i \in 0 .. Len(q) /\ i + 1 \in 1 .. Len(q) + 1 /\ (i + 1) + j > Len(q) + 1
      BY <2>1, <3>1, <3>3
    <3>5. lru_next[C(i)] = C(i + 1)
      BY <2>1, <3>4
    <3>6. \A v \in L : Wanted(v) # C(i + 1)
      BY <2>3, <3>4
    <3>7. Wanted(u) = lru_next[C(i + 1)] /\ Wanted(u) # NULL
      BY <1>1, <3>2, <3>5, <3>6 DEF L
    <3>8. i + 1 # Len(q) + 1
      BY <2>1, <3>7
    <3>9. /\ i + 1 \in 0 .. Len(q) /\ (i + 1) + 1 \in 1 .. Len(q) + 1
          /\ ((i + 1) + 1) + j > Len(q) + 1
      BY <2>1, <3>4, <3>8
    <3>10. Wanted(u) = C((i + 1) + 1)
      BY <2>1, <3>7, <3>9
    <3> QED BY <2>3, <3>9, <3>10
  <2> HIDE DEF T
  <2>4. \A j \in Nat : j \in T
    BY <2>2, <2>3, NatSetInduction
  <2> QED BY <2>4 DEF T, C
<1>4. L = {}
  <2>1. ASSUME NEW t \in L  PROVE FALSE
    <3>1. PICK head \in Heads, q \in Seq(Nodes) :
            IsList(q, head) /\ \E i \in 1 .. Len(q) + 1 : Cell(q, head, i) = Wanted(t)
      BY <1>2, CellIsListed
    <3>2. PICK i \in 1 .. Len(q) + 1 : Cell(q, head, i) = Wanted(t)
      BY <3>1
    <3>3. Len(q) + 1 \in Nat /\ i + (Len(q) + 1) > Len(q) + 1
      OBVIOUS
    <3> QED BY <1>3, <3>1, <3>2, <3>3
  <2> QED BY <2>1
<1> DEFINE A == {t \in S : \E v \in S : lock[Wanted(v)] = t}
<1>5. A \in (SUBSET Threads) \ {{}}
  BY <1>1
<1>6. ASSUME NEW t \in A
      PROVE  pc[t] = "append_prev" /\ Wanted(t) = prev[t] /\ prev[t] \in Cells
  <2>1. PICK v \in S : lock[Wanted(v)] = t
    OBVIOUS
  <2>2. ASSUME pc[t] = "append_prev"  PROVE prev[t] \in Cells /\ Wanted(t) = prev[t]
    BY <2>2 DEF IInv, Local, LocalsAreSet, Wanted
  <2>3. Wanted(v) \in Cells
    BY <1>1, WantedIsCell
  <2>4. Wanted(v) \in Held(t)
    BY <2>1, <2>3 DEF IInv, LockDiscipline
  <2>5. pc[t] = "append_prev"
    BY <1>1, <1>4, <2>4, HoldsAndWaits
  <2> QED BY <2>2, <2>5
<1>7. PICK t \in A : \A u \in A : ~WaitsForHand(t, u)
  BY <1>5 DEF NoRing
<1>8. PICK u \in S : lock[prev[t]] = u
  BY <1>1, <1>6
<1>9. u \in A
  BY <1>6, <1>8
<1>10. prev[t] = node[u]
  <2>1. prev[t] \in Held(u)
    BY <1>6, <1>8 DEF IInv, LockDiscipline
  <2>2. Held(u) = {node[u]}
    BY <1>6, <1>9 DEF Held, HoldsNode, HoldsPrev
  <2> QED BY <2>1, <2>2
<1>11. WaitsForHand(t, u)
  BY <1>6, <1>9, <1>10 DEF WaitsForHand, InHandPcs
<1> QED BY <1>7, <1>9, <1>11

(* With any number of threads, blocking locks never wait for one another   *)
(* in a circle: lruRemoveNode, listEvictNext and htRemove take them in the *)
(* order of the list, and a thread that waits for the last node with one   *)
(* in its hands waits for a thread that read the last node after it did.   *)
THEOREM NoCircularWait == Spec => []NoBlockingCycle
<1>1. Init => NoRing
  <2> SUFFICES ASSUME Init, NEW S \in (SUBSET Threads) \ {{}}
               PROVE  \E t \in S : \A u \in S : ~WaitsForHand(t, u)
    BY DEF NoRing
  <2>1. PICK t \in S : TRUE
    OBVIOUS
  <2>2. pc[t] # "append_prev"
    BY DEF Init
  <2> QED BY <2>1, <2>2 DEF WaitsForHand
<1>2. IInv /\ NoRing /\ [Next]_vars => NoRing'
  BY NoRingKept
<1>3. IInv /\ NoRing => NoBlockingCycle
  BY NobodyWaitsInACircle
<1> QED BY <1>1, <1>2, <1>3, IInvHolds, PTL DEF Spec

---------------------------------------------------------------------------
(* ConcurrentLRU implements LruQueue.                                      *)

(* The nodes of the two lists.                                             *)
Recent == {n \in InList : lru_flag[n]}
Pool == {n \in InList : ~lru_flag[n]}

(* What the locks do not say: a thread turns to the LRU list only after it *)
(* has found the pool empty, and none takes a node of the pool for a hit.  *)
PoolIsLeft(t) ==
  /\ pc[t] \in Evicting /\ prev[t] = LruHead => Pool = {}
  /\ pc[t] \in Removing => node[t] \notin Pool
QInv == IInv /\ \A t \in Threads : PoolIsLeft(t)

---------------------------------------------------------------------------
(* OrderOf is the sequence of the list, and there is no other.             *)
OrdersFit ==
  \A head \in Heads : \A q \in Seq(Nodes) : IsList(q, head) => OrderOf(head) = q

(* The order of a list is the sequence it reads as.                        *)
LEMMA OrdersFitLists == IInv => OrdersFit
<1> SUFFICES ASSUME IInv, NEW head \in Heads, NEW q \in Seq(Nodes), IsList(q, head)
             PROVE  OrderOf(head) = q
  BY DEF OrdersFit
<1>1. /\ Cardinality(Listed(head)) = Len(q)
      /\ \A i \in 1 .. Len(q) : WalkFrom(head)[i] = q[i]
  BY ListedIsList DEF IInv
<1>2. OrderOf(head) = [i \in 1 .. Len(q) |-> WalkFrom(head)[i]]
  BY <1>1 DEF OrderOf
<1>3. [i \in 1 .. Len(q) |-> WalkFrom(head)[i]] = [i \in 1 .. Len(q) |-> q[i]]
  BY <1>1
<1>4. q = [i \in 1 .. Len(q) |-> q[i]]
  OBVIOUS
<1> QED BY <1>2, <1>3, <1>4

(* The same of the state after a step.                                     *)
LEMMA OrdersFitNext == IInv' => OrdersFit'
BY OrdersFitLists, PTL

(* The orders are lists and hold the two sets.                             *)
LEMMA OrdersAreLists ==
  ASSUME IInv
  PROVE  /\ OrderOf(LruHead) \in Seq(Nodes) /\ OrderOf(PoolHead) \in Seq(Nodes)
         /\ IsList(OrderOf(LruHead), LruHead) /\ Holds(OrderOf(LruHead), Recent)
         /\ IsList(OrderOf(PoolHead), PoolHead) /\ Holds(OrderOf(PoolHead), Pool)
<1>1. LruHead \in Heads /\ PoolHead \in Heads
  BY DEF Heads
<1>2. PICK q \in Seq(Nodes) : IsList(q, LruHead) /\ Holds(q, Recent)
  BY DEF IInv, LinksAreLists, ListHolds, Recent
<1>3. PICK r \in Seq(Nodes) : IsList(r, PoolHead) /\ Holds(r, Pool)
  BY DEF IInv, LinksAreLists, ListHolds, Pool
<1>4. OrderOf(LruHead) = q /\ OrderOf(PoolHead) = r
  BY <1>1, <1>2, <1>3, OrdersFitLists DEF OrdersFit
<1> QED BY <1>2, <1>3, <1>4

---------------------------------------------------------------------------
(* Nothing goes back to the pool.                                          *)
LEMMA PoolOnlyShrinks ==
  ASSUME IInv, [Next]_vars
  PROVE  Pool' \subseteq Pool
<1>1. TypeOK /\ LinksAreLists
  BY DEF IInv
<1>2. CASE Quiet
  BY <1>2 DEF Quiet, Pool, InList
<1>3. ASSUME NEW t \in Threads, NEW p \in Cells, NEW n \in Nodes, lru_next[p] = n, Unlink(p, n),
             \A m \in Nodes \ {n} : lru_flag'[m] = lru_flag[m]
      PROVE  Pool' \subseteq Pool
  <2>1. InList' = InList \ {n}
    BY <1>1, <1>3, UnlinkKeepsLists
  <2>2. \A m \in InList : m \in Nodes
    BY DEF InList
  <2> QED BY <1>3, <2>1, <2>2 DEF Pool
<1>4. ASSUME NEW t \in Threads, RemoveUnlink(t) \/ EvictUnlink(t)
      PROVE  Pool' \subseteq Pool
  <2>1. HoldsNode(t) /\ HoldsPrev(t) /\ pc[t] \in {"remove_unlink", "evict_unlink"}
    BY <1>4 DEF RemoveUnlink, EvictUnlink, Step, HoldsNode, HoldsPrev
  <2>2. node[t] \in Nodes /\ prev[t] \in Cells /\ lru_next[prev[t]] = node[t]
    BY <2>1, HeldFacts DEF IInv, Local, PrevLeadsOn
  <2>3. Unlink(prev[t], node[t]) /\ \A m \in Nodes \ {node[t]} : lru_flag'[m] = lru_flag[m]
    BY <1>1, <1>4 DEF RemoveUnlink, EvictUnlink, table, TypeOK
  <2> QED BY <1>3, <2>2, <2>3
<1>5. ASSUME NEW t \in Threads, AppendLink(t)
      PROVE  Pool' \subseteq Pool
  <2>1. HoldsNode(t) /\ HoldsPrev(t) /\ pc[t] = "append_link" /\ UNCHANGED lru_flag
        /\ LinkLast(prev[t], node[t])
    BY <1>5 DEF AppendLink, At, HoldsNode, HoldsPrev, table, LinkLast
  <2>2. /\ node[t] \in Nodes /\ prev[t] \in Cells /\ lru_next[prev[t]] = LruTail
        /\ lru_flag[node[t]] /\ lru_next[node[t]] = NULL
    BY <2>1, HeldFacts DEF IInv, Local, PrevLeadsOn, NodeIsAsLeft, Appending, InHandPcs
  <2>3. InList' = InList \cup {node[t]}
    BY <1>1, <2>1, <2>2, LinkKeepsLists
  <2> QED BY <2>1, <2>2, <2>3 DEF Pool
<1>6. ASSUME NEW t \in Threads, HtRemoveFirst(t) \/ HtUnlink(t) \/ HtInsert(t)
      PROVE  Pool' \subseteq Pool
  <2>1. UNCHANGED <<lru_flag, lru_next>>
    BY <1>6 DEF HtRemoveFirst, HtUnlink, HtInsert, links
  <2> QED BY <2>1 DEF Pool, InList
<1>7. ASSUME NEW t \in Threads, Fill(t)
      PROVE  Pool' \subseteq Pool
  <2>1. UNCHANGED lru_next /\ \A m \in Nodes \ {node[t]} : lru_flag'[m] = lru_flag[m]
    BY <1>1, <1>7 DEF Fill, links, TypeOK
  <2>2. lru_next[node[t]] = NULL
    BY <1>7 DEF Fill, Step, IInv, Local, NodeIsAsLeft, InHandPcs
  <2>3. InList' = InList /\ node[t] \notin InList /\ \A m \in InList : m \in Nodes
    BY <2>1, <2>2 DEF InList
  <2> QED BY <2>1, <2>3 DEF Pool
<1> QED BY <1>2, <1>4, <1>5, <1>6, <1>7, QuietOrNot

(* How a thread comes to take an element out.                              *)
Comes(t) ==
  /\ pc'[t] \in Evicting /\ prev'[t] = LruHead =>
       \/ pc[t] \in Evicting /\ prev[t] = LruHead
       \/ lru_next[PoolHead] = PoolTail
  /\ pc'[t] \in Removing =>
       \/ pc[t] \in Removing /\ node'[t] = node[t]
       \/ lru_flag[node'[t]]

(* How a thread comes to the steps that evict or remove.                   *)
LEMMA ThreadsCome ==
  ASSUME IInv, [Next]_vars, NEW u \in Threads
  PROVE  Comes(u)
<1>1. TypeOK
  BY DEF IInv
<1>2. IsStill(u) => Comes(u)
  BY DEF IsStill, Comes
<1>3. UNCHANGED vars => Comes(u)
  BY <1>2 DEF vars, IsStill
<1> USE DEF Comes, IsStill, Step, Goto, At, Evicting, Removing, locals, TypeOK
<1>4. ASSUME NEW t \in Threads, NEW k \in Keys, FindMiss(t, k)  PROVE Comes(u)
  <2>1. u # t => IsStill(u)
    BY <1>1, <1>4 DEF FindMiss
  <2>2. u = t => Comes(u)
    BY <1>1, <1>4, SentinelsDiffer DEF FindMiss
  <2> QED BY <1>2, <2>1, <2>2
<1>5. ASSUME NEW t \in Threads, NEW k \in Keys, FindNode(t, k)  PROVE Comes(u)
  <2>1. u # t => IsStill(u)
    BY <1>1, <1>5 DEF FindNode
  <2>2. u = t => Comes(u)
    BY <1>1, <1>5, SentinelsDiffer DEF FindNode
  <2> QED BY <1>2, <2>1, <2>2
<1>6. ASSUME NEW t \in Threads, FindHit(t)  PROVE Comes(u)
  <2>1. u # t => IsStill(u)
    BY <1>1, <1>6 DEF FindHit, DataIsValidForKey
  <2>2. u = t => Comes(u)
    BY <1>1, <1>6, SentinelsDiffer DEF FindHit, DataIsValidForKey
  <2> QED BY <1>2, <2>1, <2>2
<1>7. ASSUME NEW t \in Threads, FindStale(t)  PROVE Comes(u)
  <2>1. u # t => IsStill(u)
    BY <1>1, <1>7 DEF FindStale
  <2>2. u = t => Comes(u)
    BY <1>1, <1>7, SentinelsDiffer DEF FindStale
  <2> QED BY <1>2, <2>1, <2>2
<1>8. ASSUME NEW t \in Threads, RemovePrev(t)  PROVE Comes(u)
  <2>1. u # t => IsStill(u)
    BY <1>1, <1>8 DEF RemovePrev
  <2>2. u = t => Comes(u)
    BY <1>1, <1>8, SentinelsDiffer DEF RemovePrev
  <2> QED BY <1>2, <2>1, <2>2
<1>9. ASSUME NEW t \in Threads, RemoveBackOff(t)  PROVE Comes(u)
  <2>1. u # t => IsStill(u)
    BY <1>1, <1>9 DEF RemoveBackOff
  <2>2. u = t => Comes(u)
    BY <1>1, <1>9, SentinelsDiffer DEF RemoveBackOff
  <2> QED BY <1>2, <2>1, <2>2
<1>10. ASSUME NEW t \in Threads, RemoveWait(t)  PROVE Comes(u)
  <2>1. u # t => IsStill(u)
    BY <1>1, <1>10 DEF RemoveWait
  <2>2. u = t => Comes(u)
    BY <1>1, <1>10, SentinelsDiffer DEF RemoveWait
  <2> QED BY <1>2, <2>1, <2>2
<1>11. ASSUME NEW t \in Threads, RemoveRelock(t)  PROVE Comes(u)
  <2>1. u # t => IsStill(u)
    BY <1>1, <1>11 DEF RemoveRelock, RemoveAbandoned, Finish
  <2>2. u = t => Comes(u)
    BY <1>1, <1>11, SentinelsDiffer DEF RemoveRelock, RemoveAbandoned, Finish
  <2> QED BY <1>2, <2>1, <2>2
<1>12. ASSUME NEW t \in Threads, RemoveAgain(t)  PROVE Comes(u)
  <2>1. u # t => IsStill(u)
    BY <1>1, <1>12 DEF RemoveAgain, RemoveAbandoned, Finish
  <2>2. u = t => Comes(u)
    BY <1>1, <1>12, SentinelsDiffer DEF RemoveAgain, RemoveAbandoned, Finish
  <2> QED BY <1>2, <2>1, <2>2
<1>13. ASSUME NEW t \in Threads, RemoveNext(t)  PROVE Comes(u)
  <2>1. u # t => IsStill(u)
    BY <1>1, <1>13 DEF RemoveNext
  <2>2. u = t => Comes(u)
    BY <1>1, <1>13, SentinelsDiffer DEF RemoveNext
  <2> QED BY <1>2, <2>1, <2>2
<1>14. ASSUME NEW t \in Threads, RemoveUnlink(t)  PROVE Comes(u)
  <2>1. u # t => IsStill(u)
    BY <1>1, <1>14 DEF RemoveUnlink
  <2>2. u = t => Comes(u)
    BY <1>1, <1>14, SentinelsDiffer DEF RemoveUnlink
  <2> QED BY <1>2, <2>1, <2>2
<1>15. ASSUME NEW t \in Threads, AppendRead(t)  PROVE Comes(u)
  <2>1. u # t => IsStill(u)
    BY <1>1, <1>15 DEF AppendRead
  <2>2. u = t => Comes(u)
    BY <1>1, <1>15, SentinelsDiffer DEF AppendRead
  <2> QED BY <1>2, <2>1, <2>2
<1>16. ASSUME NEW t \in Threads, AppendPrev(t)  PROVE Comes(u)
  <2>1. u # t => IsStill(u)
    BY <1>1, <1>16 DEF AppendPrev
  <2>2. u = t => Comes(u)
    BY <1>1, <1>16, SentinelsDiffer DEF AppendPrev
  <2> QED BY <1>2, <2>1, <2>2
<1>17. ASSUME NEW t \in Threads, AppendNode(t)  PROVE Comes(u)
  <2>1. u # t => IsStill(u)
    BY <1>1, <1>17 DEF AppendNode
  <2>2. u = t => Comes(u)
    BY <1>1, <1>17, SentinelsDiffer DEF AppendNode
  <2> QED BY <1>2, <2>1, <2>2
<1>18. ASSUME NEW t \in Threads, AppendLink(t)  PROVE Comes(u)
  <2>1. u # t => IsStill(u)
    BY <1>1, <1>18 DEF AppendLink, Finish
  <2>2. u = t => Comes(u)
    BY <1>1, <1>18, SentinelsDiffer DEF AppendLink, Finish
  <2> QED BY <1>2, <2>1, <2>2
<1>19. ASSUME NEW t \in Threads, EvictPrev(t)  PROVE Comes(u)
  <2>1. u # t => IsStill(u)
    BY <1>1, <1>19 DEF EvictPrev, Other, LastOf
  <2>2. u = t => Comes(u)
    BY <1>1, <1>19, SentinelsDiffer DEF EvictPrev, Other, LastOf
  <2> QED BY <1>2, <2>1, <2>2
<1>20. ASSUME NEW t \in Threads, EvictNode(t)  PROVE Comes(u)
  <2>1. u # t => IsStill(u)
    BY <1>1, <1>20 DEF EvictNode
  <2>2. u = t => Comes(u)
    BY <1>1, <1>20, SentinelsDiffer DEF EvictNode
  <2> QED BY <1>2, <2>1, <2>2
<1>21. ASSUME NEW t \in Threads, EvictNext(t)  PROVE Comes(u)
  <2>1. u # t => IsStill(u)
    BY <1>1, <1>21 DEF EvictNext
  <2>2. u = t => Comes(u)
    BY <1>1, <1>21, SentinelsDiffer DEF EvictNext
  <2> QED BY <1>2, <2>1, <2>2
<1>22. ASSUME NEW t \in Threads, EvictUnlink(t)  PROVE Comes(u)
  <2>1. u # t => IsStill(u)
    BY <1>1, <1>22 DEF EvictUnlink
  <2>2. u = t => Comes(u)
    BY <1>1, <1>22, SentinelsDiffer DEF EvictUnlink
  <2> QED BY <1>2, <2>1, <2>2
<1>23. ASSUME NEW t \in Threads, HtRemoveFirst(t)  PROVE Comes(u)
  <2>1. u # t => IsStill(u)
    BY <1>1, <1>23 DEF HtRemoveFirst
  <2>2. u = t => Comes(u)
    BY <1>1, <1>23, SentinelsDiffer DEF HtRemoveFirst
  <2> QED BY <1>2, <2>1, <2>2
<1>24. ASSUME NEW t \in Threads, HtRemoveLock(t)  PROVE Comes(u)
  <2>1. u # t => IsStill(u)
    BY <1>1, <1>24 DEF HtRemoveLock
  <2>2. u = t => Comes(u)
    BY <1>1, <1>24, SentinelsDiffer DEF HtRemoveLock
  <2> QED BY <1>2, <2>1, <2>2
<1>25. ASSUME NEW t \in Threads, HtUnlink(t)  PROVE Comes(u)
  <2>1. u # t => IsStill(u)
    BY <1>1, <1>25 DEF HtUnlink
  <2>2. u = t => Comes(u)
    BY <1>1, <1>25, SentinelsDiffer DEF HtUnlink
  <2> QED BY <1>2, <2>1, <2>2
<1>26. ASSUME NEW t \in Threads, Fill(t)  PROVE Comes(u)
  <2>1. u # t => IsStill(u)
    BY <1>1, <1>26 DEF Fill
  <2>2. u = t => Comes(u)
    BY <1>1, <1>26, SentinelsDiffer DEF Fill
  <2> QED BY <1>2, <2>1, <2>2
<1>27. ASSUME NEW t \in Threads, HtInsert(t)  PROVE Comes(u)
  <2>1. u # t => IsStill(u)
    BY <1>1, <1>27 DEF HtInsert, Finish
  <2>2. u = t => Comes(u)
    BY <1>1, <1>27, SentinelsDiffer DEF HtInsert, Finish
  <2> QED BY <1>2, <2>1, <2>2
<1>28. ASSUME NEW t \in Threads, HtRemoveFails(t)  PROVE Comes(u)
  BY <1>3, <1>28 DEF HtRemoveFails
<1> HIDE DEF Comes, IsStill, Step, Goto, At, Evicting, Removing, locals, TypeOK
<1>29. ASSUME NEW t \in Threads, Proceed(t)  PROVE Comes(u)
  BY <1>29, <1>6, <1>7, <1>8, <1>9, <1>10, <1>11, <1>12, <1>13, <1>14, <1>15, <1>16, <1>17, <1>18, <1>19, <1>20, <1>21, <1>22, <1>23, <1>24, <1>25, <1>26, <1>27,
     <1>28 DEF Proceed
<1> QED BY <1>3, <1>4, <1>5, <1>29 DEF Next, Find

(* An empty pool is one whose head leads to its tail.                      *)
LEMMA EmptyPool ==
  ASSUME IInv
  PROVE  Pool = {} <=> lru_next[PoolHead] = PoolTail
<1>1. PoolHead \in Heads /\ LastOf(PoolHead) = PoolTail
  BY SentinelsDiffer DEF Heads, LastOf
<1>2. ASSUME Pool = {}  PROVE lru_next[PoolHead] = PoolTail
  BY <1>2, ListFacts DEF IInv, Pool
<1>3. ASSUME lru_next[PoolHead] = PoolTail  PROVE Pool = {}
  <2>1. PICK r \in Seq(Nodes) : IsList(r, PoolHead) /\ Holds(r, Pool)
    BY DEF IInv, LinksAreLists, ListHolds, Pool
  <2>2. /\ Len(r) \in Nat /\ Cell(r, PoolHead, 0) = PoolHead
        /\ Cell(r, PoolHead, Len(r) + 1) = PoolTail
        /\ \A i, j \in 0 .. Len(r) + 1 : Cell(r, PoolHead, i) = Cell(r, PoolHead, j) => i = j
    BY <1>1, <2>1, CellsOfList
  <2>3. lru_next[PoolHead] = Cell(r, PoolHead, 0 + 1)
    BY <2>1, <2>2 DEF IsList
  <2>4. 0 + 1 = Len(r) + 1
    <3>1. 0 + 1 \in 0 .. Len(r) + 1 /\ Len(r) + 1 \in 0 .. Len(r) + 1
      BY <2>2
    <3> QED BY <1>3, <2>2, <2>3, <3>1
  <2>5. \A i \in 1 .. Len(r) : FALSE
    BY <2>2, <2>4
  <2> QED BY <2>1, <2>5 DEF Holds, Pool, InList
<1> QED BY <1>2, <1>3

(* QInv is inductive, with IInv in it.                                     *)
LEMMA QInvKept == QInv /\ [Next]_vars => QInv'
<1> SUFFICES ASSUME QInv, [Next]_vars PROVE QInv'
  OBVIOUS
<1>1. IInv /\ IInv' /\ Pool' \subseteq Pool
  BY NextKeeps, PoolOnlyShrinks DEF QInv
<1>2. ASSUME NEW u \in Threads  PROVE PoolIsLeft(u)'
  <2>1. Comes(u) /\ PoolIsLeft(u)
    BY <1>1, ThreadsCome DEF QInv
  <2>2. lru_next[PoolHead] = PoolTail => Pool = {}
    BY <1>1, EmptyPool
  <2>3. \A n : lru_flag[n] => n \notin Pool
    BY DEF Pool
  <2> QED BY <1>1, <2>1, <2>2, <2>3 DEF Comes, PoolIsLeft
<1> QED BY <1>1, <1>2 DEF QInv

(* QInv holds in every reachable state.                                    *)
LEMMA QInvHolds == Spec => []QInv
<1>1. Init => QInv
  <2> SUFFICES ASSUME Init PROVE QInv
    OBVIOUS
  <2>1. \A t \in Threads : pc[t] = "idle"
    BY DEF Init
  <2> QED BY <2>1, InitHolds DEF QInv, PoolIsLeft, Evicting, Removing
<1> QED BY <1>1, QInvKept, PTL DEF Spec

---------------------------------------------------------------------------
(* The node a thread has taken.                                            *)
HandOf(t) == IF InHand(t) = {} THEN NULL ELSE node[t]

(* A thread has its node in hand in the steps of InHandPcs and in no       *)
(* other.                                                                  *)
LEMMA HandIs ==
  ASSUME NEW t \in Threads
  PROVE  /\ pc[t] \in InHandPcs => HandOf(t) = node[t]
         /\ pc[t] \notin InHandPcs => HandOf(t) = NULL
BY DEF HandOf, InHand, InHandPcs

(* A step of t that leaves the lists, what t has in its hand and whether   *)
(* its call is a hit.                                                      *)
SameLists(t) ==
  /\ UNCHANGED <<lru_next, lru_prev>>
  /\ \A u \in Threads \ {t} : pc'[u] = pc[u] /\ node'[u] = node[u] /\ hit'[u] = hit[u]
SameHand(t) ==
  /\ pc'[t] \in InHandPcs <=> pc[t] \in InHandPcs
  /\ pc[t] \in InHandPcs => node'[t] = node[t]

(* The orders stay while the links do,                                     *)
LEMMA OrdersStay ==
  ASSUME IInv, IInv', UNCHANGED <<lru_next, lru_prev>>
  PROVE  UNCHANGED <<OrderOf(LruHead), OrderOf(PoolHead)>>
<1>1. \A q, head : IsList(q, head)' <=> IsList(q, head)
  BY DEF IsList, Cell, LastOf
<1>2. LruHead \in Heads /\ PoolHead \in Heads
  BY DEF Heads
<1> QED BY <1>1, <1>2, OrdersAreLists, OrdersFitNext DEF OrdersFit

(* the hands while nobody takes or drops a node,                           *)
LEMMA HandsStay ==
  ASSUME NEW t \in Threads, SameHand(t),
         \A u \in Threads \ {t} : pc'[u] = pc[u] /\ node'[u] = node[u]
  PROVE  \A u \in Threads : HandOf(u)' = HandOf(u)
<1> SUFFICES ASSUME NEW u \in Threads PROVE HandOf(u)' = HandOf(u)
  OBVIOUS
<1>1. (pc'[u] \in InHandPcs <=> pc[u] \in InHandPcs) /\ (pc[u] \in InHandPcs => node'[u] = node[u])
  BY DEF SameHand
<1> QED BY <1>1 DEF HandOf, InHand, InHandPcs

(* and then LruQueue stutters.                                             *)
LEMMA QueueStays ==
  ASSUME IInv, IInv', NEW t \in Threads, SameLists(t), SameHand(t), hit'[t] = hit[t]
  PROVE  UNCHANGED Queue!vars
<1>1. UNCHANGED <<OrderOf(LruHead), OrderOf(PoolHead)>>
  BY OrdersStay DEF SameLists
<1>2. \A u \in Threads : HandOf(u)' = HandOf(u)
  BY HandsStay DEF SameLists
<1>3. hit' = hit
  <2>1. hit \in [Threads -> BOOLEAN] /\ hit' \in [Threads -> BOOLEAN]
    BY DEF IInv, TypeOK
  <2>2. \A u \in Threads : hit'[u] = hit[u]
    BY DEF SameLists
  <2> QED BY <2>1, <2>2
<1>4. [u \in Threads |-> HandOf(u)]' = [u \in Threads |-> HandOf(u)]
  BY <1>2
<1> QED BY <1>1, <1>3, <1>4 DEF Queue!vars, HandOf

(* A step of t that changes what it has in its hand, and nobody else's.    *)
LEMMA HandMoves ==
  ASSUME NEW t \in Threads, NEW n,
         \A u \in Threads \ {t} : pc'[u] = pc[u] /\ node'[u] = node[u],
         HandOf(t)' = n
  PROVE  [u \in Threads |-> HandOf(u)]' = [[u \in Threads |-> HandOf(u)] EXCEPT ![t] = n]
<1>1. ASSUME NEW u \in Threads \ {t}  PROVE HandOf(u)' = HandOf(u)
  BY <1>1 DEF HandOf, InHand
<1> QED BY <1>1

(* A node leaves the list p is in, and only that list.                     *)
LEMMA UnlinkFrom ==
  ASSUME IInv, IInv', NEW p \in Cells, NEW n \in Nodes, lru_next[p] = n, Unlink(p, n),
         NEW head \in Heads, NEW other \in Heads \ {head},
         NEW k \in 1 .. Len(OrderOf(head)), OrderOf(head)[k] = n
  PROVE  /\ OrderOf(head)' = RemoveAt(OrderOf(head), k)
         /\ OrderOf(other)' = OrderOf(other)
<1>1. PICK q \in Seq(Nodes), r \in Seq(Nodes) :
        /\ q = OrderOf(head) /\ r = OrderOf(other) /\ IsList(q, head) /\ IsList(r, other)
        /\ \A i \in 1 .. Len(r) : r[i] # n
  <2>1. \A i \in 1 .. Len(OrderOf(LruHead)) :
          OrderOf(LruHead)[i] \in Nodes /\ OrderOf(LruHead)[i] \in Recent
    BY OrdersAreLists DEF Holds
  <2>2. \A i \in 1 .. Len(OrderOf(PoolHead)) :
          OrderOf(PoolHead)[i] \in Nodes /\ OrderOf(PoolHead)[i] \in Pool
    BY OrdersAreLists DEF Holds
  <2>3. \A m : ~(m \in Recent /\ m \in Pool)
    BY DEF Recent, Pool
  <2>4. \A i \in 1 .. Len(OrderOf(other)) : OrderOf(other)[i] # n
    BY <2>1, <2>2, <2>3 DEF Heads
  <2>5. /\ OrderOf(head) \in Seq(Nodes) /\ OrderOf(other) \in Seq(Nodes)
        /\ IsList(OrderOf(head), head) /\ IsList(OrderOf(other), other)
    BY OrdersAreLists DEF Heads
  <2> QED BY <2>4, <2>5
<1>2. TypeOK /\ LinksAreLists /\ OrdersFit'
  BY OrdersFitNext DEF IInv
<1>3. IsList(RemoveAt(q, k), head)' /\ RemoveAt(q, k) \in Seq(Nodes)
  BY <1>1, <1>2, UnlinkInList, RemoveAtFacts
<1>4. IsList(r, other)'
  BY <1>1, <1>2, UnlinkElsewhere
<1>5. \A s \in Seq(Nodes) : IsList(s, head)' => OrderOf(head)' = s
  BY <1>2 DEF OrdersFit
<1>6. \A s \in Seq(Nodes) : IsList(s, other)' => OrderOf(other)' = s
  BY <1>2 DEF OrdersFit
<1> QED BY <1>1, <1>3, <1>4, <1>5, <1>6

(* Finding its node locks it: a hit.                                       *)
LEMMA FindHitIsHit ==
  ASSUME QInv, QInv', NEW t \in Threads, FindHit(t)
  PROVE  Queue!Hit(t)
<1>1. IInv /\ IInv' /\ TypeOK
  BY DEF QInv, IInv
<1>2. /\ pc[t] = "find_lock" /\ pc' = [pc EXCEPT ![t] = "remove_prev"]
      /\ UNCHANGED <<lru_next, lru_prev, node>> /\ hit' = [hit EXCEPT ![t] = TRUE]
  BY DEF FindHit, Step, Goto, links
<1>3. UNCHANGED <<OrderOf(LruHead), OrderOf(PoolHead)>>
  BY <1>1, <1>2, OrdersStay
<1>4. SameHand(t) /\ \A u \in Threads \ {t} : pc'[u] = pc[u] /\ node'[u] = node[u]
  BY <1>1, <1>2 DEF SameHand, InHandPcs, TypeOK
<1>5. \A u \in Threads : HandOf(u)' = HandOf(u)
  BY <1>4, HandsStay
<1>6. [u \in Threads |-> HandOf(u)]' = [u \in Threads |-> HandOf(u)]
  BY <1>5
<1>7. HandOf(t) = NULL /\ ~hit[t]
  BY <1>1, <1>2, HandIs DEF InHandPcs, IInv, Local, LocalsAreSet, Removing, Appending
<1> QED BY <1>2, <1>3, <1>6, <1>7 DEF Queue!Hit, HandOf

(* A node in the LRU list, or in the pool, is at a place of its order.     *)
LEMMA PlaceOf ==
  ASSUME IInv, NEW n \in InList
  PROVE  /\ lru_flag[n] => \E k \in 1 .. Len(OrderOf(LruHead)) : OrderOf(LruHead)[k] = n
         /\ ~lru_flag[n] => \E k \in 1 .. Len(OrderOf(PoolHead)) : OrderOf(PoolHead)[k] = n
<1>1. n \in Nodes
  BY DEF InList
<1> QED BY <1>1, OrdersAreLists DEF Holds, Recent, Pool

(* The last step of lruRemoveNode takes the node out of the queue.         *)
LEMMA RemoveUnlinkTakesOut ==
  ASSUME QInv, QInv', NEW t \in Threads, RemoveUnlink(t)
  PROVE  Queue!TakeOut(t)
<1>1. IInv /\ IInv' /\ TypeOK
  BY DEF QInv, IInv
<1>2. /\ pc[t] = "remove_unlink" /\ pc' = [pc EXCEPT ![t] = "append_read"]
      /\ UNCHANGED <<node, hit>> /\ Unlink(prev[t], node[t])
  BY DEF RemoveUnlink, Step, Goto, locals
<1>3. HoldsNode(t) /\ HoldsPrev(t)
  BY <1>2 DEF HoldsNode, HoldsPrev
<1>4. PICK n \in Nodes, p \in Cells : n = node[t] /\ p = prev[t] /\ lru_next[p] = n
  BY <1>1, <1>2, <1>3, HeldFacts DEF IInv, Local, PrevLeadsOn
<1>5. n \in InList /\ lru_flag[n] /\ hit[t]
  <2>1. n \in InList
    BY <1>1, <1>2, <1>3, <1>4, LockedIsListed DEF InHandPcs
  <2> QED BY <1>1, <1>2, <1>4, <2>1 DEF IInv, Local, LocalsAreSet, NodeIsAsLeft, Removing
<1>6. PICK k \in 1 .. Len(OrderOf(LruHead)) : OrderOf(LruHead)[k] = n
  BY <1>1, <1>5, PlaceOf
<1>7. /\ OrderOf(LruHead)' = RemoveAt(OrderOf(LruHead), k)
      /\ OrderOf(PoolHead)' = OrderOf(PoolHead)
  <2>1. LruHead \in Heads /\ PoolHead \in Heads \ {LruHead}
    BY SentinelsDiffer DEF Heads
  <2>2. Unlink(p, n)
    BY <1>2, <1>4
  <2> QED BY <1>1, <1>4, <1>6, <2>1, <2>2, UnlinkFrom
<1>8. HandOf(t) = NULL /\ HandOf(t)' = n
  BY <1>1, <1>2, <1>4 DEF HandOf, InHand, TypeOK
<1>9. [u \in Threads |-> HandOf(u)]' = [[u \in Threads |-> HandOf(u)] EXCEPT ![t] = n]
  <2>1. \A u \in Threads \ {t} : pc'[u] = pc[u] /\ node'[u] = node[u]
    BY <1>1, <1>2 DEF TypeOK
  <2> QED BY <1>8, <2>1, HandMoves
<1>10. DOMAIN OrderOf(LruHead) = 1 .. Len(OrderOf(LruHead))
  BY <1>1, OrdersAreLists
<1> QED BY <1>2, <1>5, <1>6, <1>7, <1>8, <1>9, <1>10 DEF Queue!TakeOut, Queue!Take, HandOf, RemoveAt

(* The first node of a list, to which its head leads.                      *)
LEMMA FirstOf ==
  ASSUME IInv, NEW head \in Heads, lru_next[head] \in Nodes
  PROVE  /\ 1 \in 1 .. Len(OrderOf(head)) /\ OrderOf(head)[1] = lru_next[head]
         /\ OrderOf(head) # <<>> /\ Head(OrderOf(head)) = lru_next[head]
         /\ RemoveAt(OrderOf(head), 1) = Tail(OrderOf(head))
<1>1. PICK q \in Seq(Nodes) : q = OrderOf(head) /\ IsList(q, head)
  BY OrdersAreLists DEF Heads
<1>2. /\ Len(q) \in Nat /\ Cell(q, head, 0) = head
      /\ Cell(q, head, Len(q) + 1) = LastOf(head) /\ LastOf(head) \notin Nodes
      /\ \A i \in 1 .. Len(q) : Cell(q, head, i) = q[i]
  BY <1>1, CellsOfList, SentinelsDiffer
<1>3. lru_next[head] = Cell(q, head, 1)
  <2>1. 0 \in 0 .. Len(q) /\ 0 + 1 = 1
    BY <1>2
  <2> QED BY <1>1, <1>2, <2>1 DEF IsList
<1>4. Len(q) # 0
  BY <1>2, <1>3
<1>5. 1 \in 1 .. Len(q) /\ q[1] = lru_next[head]
  BY <1>2, <1>3, <1>4
<1>6. q # <<>> /\ Head(q) = q[1]
  BY <1>2, <1>4
<1>7. RemoveAt(q, 1) = Tail(q)
  <2>1. /\ RemoveAt(q, 1) \in Seq(Nodes) /\ Len(RemoveAt(q, 1)) = Len(q) - 1
        /\ \A i \in 1 .. Len(q) - 1 : RemoveAt(q, 1)[i] = IF i < 1 THEN q[i] ELSE q[i + 1]
    BY <1>5, RemoveAtFacts
  <2>2. Tail(q) \in Seq(Nodes) /\ Len(Tail(q)) = Len(q) - 1
        /\ \A i \in 1 .. Len(q) - 1 : Tail(q)[i] = q[i + 1]
    BY <1>6
  <2> QED BY <2>1, <2>2
<1> QED BY <1>1, <1>5, <1>6, <1>7

(* listEvictNext takes the first unused node, or, when there is none, the  *)
(* least recently used one.                                                *)
LEMMA EvictUnlinkTakesFirst ==
  ASSUME QInv, QInv', NEW t \in Threads, EvictUnlink(t)
  PROVE  Queue!Unuse(t) \/ Queue!EvictFront(t)
<1>1. IInv /\ IInv' /\ TypeOK /\ PoolIsLeft(t)
  BY DEF QInv, IInv
<1>2. /\ pc[t] = "evict_unlink" /\ pc'[t] \in {"fill", "ht_remove"}
      /\ \A u \in Threads \ {t} : pc'[u] = pc[u]
      /\ UNCHANGED <<node, hit>> /\ Unlink(prev[t], node[t])
  BY <1>1 DEF EvictUnlink, Step, Goto, locals, TypeOK
<1>3. HoldsNode(t) /\ HoldsPrev(t)
  BY <1>2 DEF HoldsNode, HoldsPrev
<1>4. PICK n \in Nodes, head \in Heads : n = node[t] /\ head = prev[t] /\ lru_next[head] = n
  BY <1>1, <1>2, <1>3, HeldFacts DEF IInv, Local, LocalsAreSet, PrevLeadsOn, Evicting, Heads
<1>5. ~hit[t]
  BY <1>1, <1>2 DEF IInv, Local, LocalsAreSet, Removing, Appending
<1>6. /\ 1 \in 1 .. Len(OrderOf(head)) /\ OrderOf(head)[1] = n
      /\ OrderOf(head) # <<>> /\ Head(OrderOf(head)) = n
      /\ RemoveAt(OrderOf(head), 1) = Tail(OrderOf(head))
  BY <1>1, <1>4, FirstOf
<1>7. \A other \in Heads \ {head} :
         OrderOf(head)' = Tail(OrderOf(head)) /\ OrderOf(other)' = OrderOf(other)
  <2>1. head \in Cells /\ Unlink(head, n)
    BY <1>2, <1>4, SentinelsDiffer DEF Heads, Sentinels
  <2> QED BY <1>1, <1>4, <1>6, <2>1, UnlinkFrom
<1>8. HandOf(t) = NULL /\ HandOf(t)' = n
  BY <1>1, <1>2, <1>4 DEF HandOf, InHand, TypeOK
<1>9. [u \in Threads |-> HandOf(u)]' = [[u \in Threads |-> HandOf(u)] EXCEPT ![t] = n]
  BY <1>2, <1>8, HandMoves
<1>10. CASE head = PoolHead
  <2>1. LruHead \in Heads \ {head}
    BY <1>10, SentinelsDiffer DEF Heads
  <2> QED BY <1>2, <1>5, <1>6, <1>7, <1>8, <1>9, <1>10, <2>1 DEF Queue!Unuse, Queue!Take, HandOf
<1>11. CASE head = LruHead
  <2>1. PoolHead \in Heads \ {head}
    BY <1>11, SentinelsDiffer DEF Heads
  <2>2. OrderOf(PoolHead) = <<>>
    <3>1. Pool = {}
      BY <1>1, <1>2, <1>4, <1>11 DEF PoolIsLeft, Evicting
    <3>2. OrderOf(PoolHead) \in Seq(Nodes) /\ Holds(OrderOf(PoolHead), Pool)
      BY <1>1, OrdersAreLists
    <3>3. \A i \in 1 .. Len(OrderOf(PoolHead)) : FALSE
      BY <3>1, <3>2 DEF Holds
    <3>4. Len(OrderOf(PoolHead)) = 0
      BY <3>2, <3>3
    <3> QED BY <3>2, <3>4
  <2> QED BY <1>2, <1>5, <1>6, <1>7, <1>8, <1>9, <1>11, <2>1, <2>2
          DEF Queue!EvictFront, Queue!Take, HandOf
<1> QED BY <1>10, <1>11 DEF Heads

(* The end of listInsertBefore puts the node back.                         *)
LEMMA AppendLinkPutsBack ==
  ASSUME QInv, QInv', NEW t \in Threads, AppendLink(t)
  PROVE  Queue!PutBack(t)
<1>1. IInv /\ IInv' /\ TypeOK /\ TypeOK' /\ LinksAreLists /\ OrdersFit'
  BY OrdersFitNext DEF QInv, IInv
<1>2. /\ pc[t] = "append_link" /\ pc'[t] \in {"idle", "ht_insert"}
      /\ \A u \in Threads \ {t} : pc'[u] = pc[u] /\ node'[u] = node[u] /\ hit'[u] = hit[u]
      /\ hit'[t] = FALSE
      /\ LinkLast(prev[t], node[t])
  BY <1>1 DEF AppendLink, At, Goto, Finish, locals, TypeOK, LinkLast
<1>3. HoldsNode(t) /\ HoldsPrev(t)
  BY <1>2 DEF HoldsNode, HoldsPrev
<1>4. PICK n \in Nodes, p \in Cells :
        n = node[t] /\ p = prev[t] /\ lru_next[p] = LruTail /\ lru_next[n] = NULL
  BY <1>1, <1>2, <1>3, HeldFacts DEF IInv, Local, NodeIsAsLeft, PrevLeadsOn, InHandPcs
<1>5. LinkLast(p, n)
  BY <1>2, <1>4
<1>6. PICK q \in Seq(Nodes), r \in Seq(Nodes) :
        /\ q = OrderOf(LruHead) /\ r = OrderOf(PoolHead)
        /\ IsList(q, LruHead) /\ IsList(r, PoolHead)
  BY <1>1, OrdersAreLists
<1>7. IsList(Append(q, n), LruHead)' /\ Append(q, n) \in Seq(Nodes)
  BY <1>1, <1>4, <1>5, <1>6, LinkInList
<1>8. IsList(r, PoolHead)'
  BY <1>1, <1>4, <1>5, <1>6, LinkElsewhere
<1>9. OrderOf(LruHead)' = Append(OrderOf(LruHead), n) /\ OrderOf(PoolHead)' = OrderOf(PoolHead)
  <2>1. \A s \in Seq(Nodes) : IsList(s, LruHead)' => OrderOf(LruHead)' = s
    BY <1>1 DEF OrdersFit, Heads
  <2>2. \A s \in Seq(Nodes) : IsList(s, PoolHead)' => OrderOf(PoolHead)' = s
    BY <1>1 DEF OrdersFit, Heads
  <2> QED BY <1>6, <1>7, <1>8, <2>1, <2>2
<1>10. HandOf(t) = n /\ HandOf(t)' = NULL /\ n # NULL
  BY <1>2, <1>4, SentinelsDiffer DEF HandOf, InHand
<1>11. [u \in Threads |-> HandOf(u)]' = [[u \in Threads |-> HandOf(u)] EXCEPT ![t] = NULL]
  BY <1>2, <1>10, HandMoves
<1>12. hit' = [hit EXCEPT ![t] = FALSE]
  <2>1. hit \in [Threads -> BOOLEAN] /\ hit' \in [Threads -> BOOLEAN]
    BY <1>1 DEF TypeOK
  <2> QED BY <1>2, <2>1
<1> QED BY <1>9, <1>10, <1>11, <1>12 DEF Queue!PutBack, HandOf

(* A node that leaves the list while a thread waits for it has been locked *)
(* all the time: lruRemoveNode never gives up.                             *)
LEMMA NothingIsAbandoned ==
  ASSUME QInv, NEW t \in Threads, pc[t] \in {"remove_relock", "remove_again"}, Free(node[t])
  PROVE  lru_flag[node[t]]
<1>1. node[t] \in Nodes /\ node[t] \notin Pool
  BY DEF QInv, IInv, Local, LocalsAreSet, PoolIsLeft, Removing
<1>2. node[t] \in InList
  BY <1>1, FreeIsListed DEF QInv, Free
<1> QED BY <1>1, <1>2 DEF Pool

(* Every other step leaves the queue, the hands and the hits.              *)
LEMMA OthersStutter ==
  ASSUME QInv, QInv', NEW t \in Threads,
         \/ FindStale(t) \/ RemovePrev(t) \/ RemoveBackOff(t) \/ RemoveWait(t) \/ RemoveNext(t) \/ AppendRead(t)
         \/ AppendPrev(t) \/ AppendNode(t) \/ EvictPrev(t) \/ EvictNode(t) \/ EvictNext(t) \/ HtRemoveFirst(t)
         \/ HtRemoveLock(t) \/ HtUnlink(t) \/ Fill(t) \/ RemoveRelock(t) \/ RemoveAgain(t) \/ HtInsert(t)
  PROVE  UNCHANGED Queue!vars
<1>1. IInv /\ IInv' /\ TypeOK /\ Local(t)
  BY DEF QInv, IInv
<1> DEFINE Stays == SameLists(t) /\ SameHand(t) /\ hit'[t] = hit[t]
<1> USE DEF SameLists, SameHand, Step, Goto, At, InHandPcs, links, locals, Finish
<1>2. ASSUME FindStale(t)  PROVE Stays
  BY <1>1, <1>2 DEF FindStale, TypeOK
<1>3. ASSUME RemovePrev(t)  PROVE Stays
  BY <1>1, <1>3 DEF RemovePrev, TypeOK
<1>4. ASSUME RemoveBackOff(t)  PROVE Stays
  BY <1>1, <1>4 DEF RemoveBackOff, TypeOK
<1>5. ASSUME RemoveWait(t)  PROVE Stays
  BY <1>1, <1>5 DEF RemoveWait, TypeOK
<1>6. ASSUME RemoveNext(t)  PROVE Stays
  BY <1>1, <1>6 DEF RemoveNext, TypeOK
<1>7. ASSUME AppendRead(t)  PROVE Stays
  BY <1>1, <1>7 DEF AppendRead, TypeOK
<1>8. ASSUME AppendPrev(t)  PROVE Stays
  BY <1>1, <1>8 DEF AppendPrev, TypeOK
<1>9. ASSUME AppendNode(t)  PROVE Stays
  BY <1>1, <1>9 DEF AppendNode, TypeOK
<1>10. ASSUME EvictPrev(t)  PROVE Stays
  BY <1>1, <1>10 DEF EvictPrev, TypeOK
<1>11. ASSUME EvictNode(t)  PROVE Stays
  BY <1>1, <1>11 DEF EvictNode, TypeOK
<1>12. ASSUME EvictNext(t)  PROVE Stays
  BY <1>1, <1>12 DEF EvictNext, TypeOK
<1>13. ASSUME HtRemoveFirst(t)  PROVE Stays
  BY <1>1, <1>13 DEF HtRemoveFirst, TypeOK
<1>14. ASSUME HtRemoveLock(t)  PROVE Stays
  BY <1>1, <1>14 DEF HtRemoveLock, TypeOK
<1>15. ASSUME HtUnlink(t)  PROVE Stays
  BY <1>1, <1>15 DEF HtUnlink, TypeOK
<1>16. ASSUME Fill(t)  PROVE Stays
  BY <1>1, <1>16 DEF Fill, TypeOK
<1>17. ASSUME RemoveRelock(t)  PROVE Stays
  <2>1. lru_flag[node[t]]
    BY <1>17, NothingIsAbandoned DEF RemoveRelock
  <2> QED BY <1>1, <1>17, <2>1 DEF RemoveRelock, TypeOK
<1>18. ASSUME RemoveAgain(t)  PROVE Stays
  <2>1. lru_flag[node[t]]
    BY <1>18, NothingIsAbandoned DEF RemoveAgain
  <2> QED BY <1>1, <1>18, <2>1 DEF RemoveAgain, TypeOK
<1>19. ASSUME HtInsert(t)  PROVE Stays
  <2>1. ~hit[t]
    BY <1>1, <1>19 DEF HtInsert, Local, LocalsAreSet, Removing, Appending
  <2> QED BY <1>1, <1>19, <2>1 DEF HtInsert, TypeOK
<1> HIDE DEF SameLists, SameHand, Step, Goto, At, InHandPcs, links, locals, Finish
<1>20. Stays
  BY <1>2, <1>3, <1>4, <1>5, <1>6, <1>7, <1>8, <1>9, <1>10, <1>11, <1>12, <1>13, <1>14, <1>15, <1>16, <1>17, <1>18, <1>19
<1> HIDE DEF Stays
<1> QED BY <1>1, <1>20, QueueStays DEF Stays

(* A call that starts leaves them too.                                     *)
LEMMA FindStutters ==
  ASSUME QInv, QInv', NEW t \in Threads, NEW k \in Keys, Find(t, k)
  PROVE  UNCHANGED Queue!vars
<1>1. IInv /\ IInv' /\ TypeOK
  BY DEF QInv, IInv
<1>2. SameLists(t) /\ SameHand(t) /\ hit'[t] = hit[t]
  <2>1. ASSUME FindMiss(t, k)  PROVE SameLists(t) /\ SameHand(t) /\ hit'[t] = hit[t]
    BY <1>1, <2>1 DEF FindMiss, SameLists, SameHand, Step, Goto, InHandPcs, links, TypeOK
  <2>2. ASSUME FindNode(t, k)  PROVE SameLists(t) /\ SameHand(t) /\ hit'[t] = hit[t]
    BY <1>1, <2>2 DEF FindNode, SameLists, SameHand, Step, Goto, InHandPcs, links, TypeOK
  <2> QED BY <2>1, <2>2 DEF Find
<1> QED BY <1>1, <1>2, QueueStays

(* Every step is one of LruQueue or a stutter.                             *)
LEMMA NextImplements == QInv /\ QInv' /\ [Next]_vars => [Queue!Next]_Queue!vars
<1> SUFFICES ASSUME QInv, QInv', [Next]_vars PROVE [Queue!Next]_Queue!vars
  OBVIOUS
<1>1. UNCHANGED vars => UNCHANGED Queue!vars
  <2> SUFFICES ASSUME UNCHANGED vars PROVE UNCHANGED Queue!vars
    OBVIOUS
  <2>1. UNCHANGED <<lru_next, lru_prev, pc, node, hit>>
    BY DEF vars
  <2>2. UNCHANGED <<OrderOf(LruHead), OrderOf(PoolHead)>>
    BY <2>1, OrdersStay DEF QInv
  <2>3. [u \in Threads |-> HandOf(u)]' = [u \in Threads |-> HandOf(u)]
    BY <2>1 DEF HandOf, InHand
  <2> QED BY <2>1, <2>2, <2>3 DEF Queue!vars, HandOf
<1>2. ASSUME NEW t \in Threads, NEW k \in Keys, Find(t, k)  PROVE UNCHANGED Queue!vars
  BY <1>2, FindStutters
<1>3. ASSUME NEW t \in Threads, Proceed(t)  PROVE Queue!Next \/ UNCHANGED Queue!vars
  <2>1. HtRemoveFails(t) => UNCHANGED Queue!vars
    BY <1>1 DEF HtRemoveFails
  <2>2. FindHit(t) => Queue!Next
    BY FindHitIsHit DEF Queue!Next
  <2>3. RemoveUnlink(t) => Queue!Next
    BY RemoveUnlinkTakesOut DEF Queue!Next
  <2>4. EvictUnlink(t) => Queue!Next
    BY EvictUnlinkTakesFirst DEF Queue!Next
  <2>5. AppendLink(t) => Queue!Next
    BY AppendLinkPutsBack DEF Queue!Next
  <2> QED BY <1>3, <2>1, <2>2, <2>3, <2>4, <2>5, OthersStutter DEF Proceed
<1> QED BY <1>1, <1>2, <1>3 DEF Next

(* Before the first call every node is unused, in the order of the array.  *)
LEMMA InitImplements == Init => Queue!Init
<1> SUFFICES ASSUME Init PROVE Queue!Init
  OBVIOUS
<1>1. IInv /\ \A t \in Threads : pc[t] = "idle"
  BY InitHolds DEF Init
<1> DEFINE q == OrderOf(LruHead)
           r == OrderOf(PoolHead)
<1>2. /\ q \in Seq(Nodes) /\ r \in Seq(Nodes) /\ Holds(q, Recent) /\ Holds(r, Pool)
      /\ IsList(q, LruHead) /\ IsList(r, PoolHead)
  BY <1>1, OrdersAreLists
<1>3. \A n \in Nodes : n \in Recent \/ n \in Pool
  <2>1. \A n \in Nodes : lock[n] = NULL
    BY DEF Init, Cells
  <2> QED BY <1>1, <2>1, FreeIsListed DEF Recent, Pool
<1>4. \A n : ~(n \in Recent /\ n \in Pool)
  BY DEF Recent, Pool
<1>5. hit = [t \in Threads |-> FALSE]
  BY DEF Init
<1>6. [t \in Threads |-> HandOf(t)] = [t \in Threads |-> NULL]
  BY <1>1, HandIs DEF InHandPcs
<1> HIDE DEF q, r
<1>7. LET all == q \o r
      IN  /\ \A n \in Nodes : \E i \in DOMAIN all : all[i] = n
          /\ \A i, j \in DOMAIN all : all[i] = all[j] => i = j
  <2> DEFINE all == q \o r
  <2>1. /\ Len(q) \in Nat /\ Len(r) \in Nat /\ DOMAIN all = 1 .. Len(q) + Len(r)
        /\ \A i \in 1 .. Len(q) + Len(r) : all[i] = IF i <= Len(q) THEN q[i] ELSE r[i - Len(q)]
    BY <1>2
  <2> HIDE DEF all
  <2>2. ASSUME NEW n \in Nodes  PROVE \E i \in DOMAIN all : all[i] = n
    <3>1. CASE n \in Recent
      <4>1. PICK i \in 1 .. Len(q) : q[i] = n
        BY <1>2, <3>1 DEF Holds
      <4>2. i \in 1 .. Len(q) + Len(r) /\ i <= Len(q)
        BY <2>1
      <4> QED BY <2>1, <4>1, <4>2
    <3>2. CASE n \in Pool
      <4>1. PICK i \in 1 .. Len(r) : r[i] = n
        BY <1>2, <3>2 DEF Holds
      <4>2. i + Len(q) \in 1 .. Len(q) + Len(r) /\ ~(i + Len(q) <= Len(q)) /\ (i + Len(q)) - Len(q) = i
        BY <2>1
      <4> QED BY <2>1, <4>1, <4>2
    <3> QED BY <1>3, <3>1, <3>2
  <2>3. ASSUME NEW i \in 1 .. Len(q) + Len(r), NEW j \in 1 .. Len(q) + Len(r), all[i] = all[j]
        PROVE  i = j
    <3>1. \A a \in 1 .. Len(q) : q[a] \in Nodes /\ q[a] \in Recent
      BY <1>2 DEF Holds
    <3>2. \A a \in 1 .. Len(r) : r[a] \in Nodes /\ r[a] \in Pool
      BY <1>2 DEF Holds
    <3>3. /\ \A a, b \in 1 .. Len(q) : q[a] = q[b] => a = b
          /\ \A a, b \in 1 .. Len(r) : r[a] = r[b] => a = b
      BY <1>2 DEF IsList
    <3>4. \A a \in 1 .. Len(q) + Len(r) : a <= Len(q) => a \in 1 .. Len(q) /\ all[a] = q[a]
      BY <2>1
    <3>5. \A a \in 1 .. Len(q) + Len(r) :
            ~(a <= Len(q)) => a - Len(q) \in 1 .. Len(r) /\ all[a] = r[a - Len(q)]
      BY <2>1
    <3>6. CASE i <= Len(q) /\ j <= Len(q)
      BY <2>3, <3>3, <3>4, <3>6
    <3>7. CASE ~(i <= Len(q)) /\ ~(j <= Len(q))
      <4>1. i - Len(q) = j - Len(q)
        BY <2>3, <3>3, <3>5, <3>7
      <4> QED BY <2>1, <4>1
    <3>8. CASE i <= Len(q) /\ ~(j <= Len(q))
      BY <1>4, <2>3, <3>1, <3>2, <3>4, <3>5, <3>8
    <3>9. CASE ~(i <= Len(q)) /\ j <= Len(q)
      BY <1>4, <2>3, <3>1, <3>2, <3>4, <3>5, <3>9
    <3> QED BY <3>6, <3>7, <3>8, <3>9
  <2> QED BY <2>1, <2>2, <2>3 DEF all
<1> QED BY <1>2, <1>5, <1>6, <1>7 DEF Queue!Init, HandOf, q, r

(* With any number of threads and nodes, whatever the threads do at the    *)
(* same time, hand over hand: the LRU list behaves as the queue of         *)
(* LruQueue, in which a node is taken out, evicted or put back at once.    *)
THEOREM TheListIsAQueue == Spec => ImplementsQueue
<1>1. Init => Queue!Init
  BY InitImplements
<1>2. QInv /\ QInv' /\ [Next]_vars => [Queue!Next]_Queue!vars
  BY NextImplements
<1> QED BY <1>1, <1>2, QInvHolds, PTL DEF Spec, ImplementsQueue, Queue!Spec


(* lruRemoveNode looks, after its waits, whether the node has left the     *)
(* list meanwhile. It never has: an unlocked node that is not in the pool  *)
(* is always in the LRU list, if perhaps with another key by now.          *)
THEOREM RemovalNeverGivesUp ==
  Spec => [](\A t \in Threads :
               pc[t] \in {"remove_relock", "remove_again"} /\ Free(node[t]) => lru_flag[node[t]])
<1>1. QInv => \A t \in Threads :
               pc[t] \in {"remove_relock", "remove_again"} /\ Free(node[t]) => lru_flag[node[t]]
  BY NothingIsAbandoned
<1> QED BY <1>1, QInvHolds, PTL
=============================================================================
