-------------------------- MODULE WrappedCache_proofs --------------------------
(***************************************************************************)
(* Theorems about the three wrappers, for any number of threads, keys and  *)
(* calls: an answer is for its key, and find - insert counts the hits.     *)
(***************************************************************************)
EXTENDS MCWrapped, FiniteSetTheorems, TLAPS

(* A value that was made for key k.                                        *)
IsFor(v, k) == v # Unset /\ v[1] = k

(* The places a call can be in, in each of the wrappers.                   *)
Places ==
  CASE wrapper = "TbbHash" -> {"idle", "find", "read", "miss", "insert", "assign", "leave"}
    [] wrapper = "TbbLRU"  -> {"idle", "find", "calculate", "await", "handle"}
    [] wrapper = "HhvmLRU" -> {"idle", "find", "read", "miss", "insert"}

CallTypes ==
  /\ wrapper \in {"TbbHash", "TbbLRU", "HhvmLRU"}
  /\ pc \in [Threads -> Places]
  /\ key \in [Threads -> Keys \cup {Unset}]
  /\ consumer = [t \in Threads |-> consumer[t]]
  /\ calls \in [Threads -> Nat]
  /\ find \in Nat /\ insert \in Nat /\ hits \in Nat
  /\ miss \in [Threads -> BOOLEAN]

(* The calls that have counted their find, and nothing else so far.        *)
Pending ==
  {t \in Threads : \/ pc[t] \in {"find", "read", "miss", "calculate", "await"}
                   \/ pc[t] = "handle" /\ ~miss[t]}

CountsMatch == IsFiniteSet(Pending) /\ find = insert + hits + Cardinality(Pending)

CallIsSound(t) ==
  /\ pc[t] # "idle" => key[t] \in Keys
  /\ Idle(t) /\ calls[t] > 0 => IsFor(consumer[t], key[t])

---------------------------------------------------------------------------
(* In TbbHash a value that was not assigned yet is guarded by the accessor *)
(* of the thread that made its entry.                                      *)
HashTypes ==
  /\ storage = [k \in Keys |-> storage[k]]
  /\ writer = [k \in Keys |-> writer[k]] /\ readers = [k \in Keys |-> readers[k]]

HashCall(t) ==
  /\ pc[t] \in {"assign", "leave"} => writer[key[t]] = {t} /\ key[t] \in present
  /\ pc[t] = "read" => storage[key[t]] # Unset
  /\ pc[t] \in {"insert", "assign", "leave"} => IsFor(consumer[t], key[t])

IsAssigned(k) == \E t \in Threads : pc[t] = "assign" /\ key[t] = k

HashIsSound ==
  /\ HashTypes
  /\ \A k \in Keys : storage[k] # Unset => IsFor(storage[k], k)
  /\ \A k \in Keys : k \in present /\ storage[k] = Unset => IsAssigned(k)
  /\ \A t \in Threads : HashCall(t)

(* In TbbLRU an entry with a handle stays, and its value with it.          *)
HandleCall(t) ==
  /\ pc[t] \in {"calculate", "await", "handle"} => t \in handles[key[t]] /\ key[t] \in entries
  /\ pc[t] = "handle" => value[key[t]] # Unset
  /\ pc[t] = "await" => ~miss[t]

HandlesAreSound ==
  /\ value = [k \in Keys |-> value[k]] /\ handles = [k \in Keys |-> handles[k]]
  /\ \A k \in Keys : value[k] # Unset => IsFor(value[k], k)
  /\ \A t \in Threads : HandleCall(t)

(* In HhvmLRU an entry with an accessor stays.                             *)
AccessorCall(t) == pc[t] = "read" => t \in accessors[key[t]] /\ cached[key[t]] # Unset

AccessorsAreSound ==
  /\ cached = [k \in Keys |-> cached[k]] /\ accessors = [k \in Keys |-> accessors[k]]
  /\ \A k \in Keys : cached[k] # Unset => IsFor(cached[k], k)
  /\ \A t \in Threads : AccessorCall(t)

WrappedInv ==
  /\ CallTypes /\ CountsMatch
  /\ \A t \in Threads : CallIsSound(t)
  /\ wrapper = "TbbHash" => HashIsSound
  /\ wrapper = "TbbLRU" => HandlesAreSound
  /\ wrapper = "HhvmLRU" => AccessorsAreSound

---------------------------------------------------------------------------
(* What a producer makes.                                                  *)
LEMMA ProducedFacts ==
  ASSUME NEW t \in Threads, CallTypes, key[t] \in Keys
  PROVE  IsFor(Produced(t), key[t])
<1>1. Produced(t) \in Keys \X Threads \X Nat /\ Produced(t)[1] = key[t]
  BY DEF Produced, CallTypes
<1> QED BY <1>1, WrappedAssumption DEF IsFor

(* Nothing is pending that was not.                                        *)
LEMMA CountsStay ==
  ASSUME CountsMatch, Pending' = Pending, UNCHANGED <<find, insert, hits>>
  PROVE  CountsMatch'
BY DEF CountsMatch

(* A call has counted its find.                                            *)
LEMMA CountsBegin ==
  ASSUME CountsMatch, CallTypes, NEW t, t \notin Pending, Pending' = Pending \cup {t},
         find' = find + 1, UNCHANGED <<insert, hits>>
  PROVE  CountsMatch'
<1> DEFINE P == Pending
<1>1. IsFiniteSet(P) /\ t \notin P
  BY DEF CountsMatch
<1> HIDE DEF P
<1>2. IsFiniteSet(P \cup {t}) /\ Cardinality(P \cup {t}) = Cardinality(P) + 1
  BY <1>1, FS_AddElement
<1>3. Cardinality(P) \in Nat /\ find = insert + hits + Cardinality(P)
  BY <1>1, FS_CardinalityType DEF CountsMatch, P
<1>4. Pending' = P \cup {t}
  BY DEF P
<1>5. find' = insert' + hits' + Cardinality(P \cup {t})
  BY <1>2, <1>3 DEF CallTypes
<1> QED BY <1>2, <1>4, <1>5 DEF CountsMatch

(* A call has counted its insert, or its answer is a hit.                  *)
LEMMA CountsEnd ==
  ASSUME CountsMatch, CallTypes, NEW t, t \in Pending, Pending' = Pending \ {t},
         find' = find,
         \/ insert' = insert + 1 /\ hits' = hits
         \/ insert' = insert /\ hits' = hits + 1
  PROVE  CountsMatch'
<1> DEFINE P == Pending
<1>1. IsFiniteSet(P) /\ t \in P
  BY DEF CountsMatch
<1> HIDE DEF P
<1>2. IsFiniteSet(P \ {t}) /\ Cardinality(P \ {t}) = Cardinality(P) - 1
  BY <1>1, FS_RemoveElement
<1>3. Cardinality(P) \in Nat /\ find = insert + hits + Cardinality(P)
  BY <1>1, FS_CardinalityType DEF CountsMatch, P
<1>4. Pending' = P \ {t}
  BY DEF P
<1>5. find' = insert' + hits' + Cardinality(P \ {t})
  BY <1>2, <1>3 DEF CallTypes
<1> QED BY <1>2, <1>4, <1>5 DEF CountsMatch

(* No call has begun.                                                      *)
LEMMA WrappedStarts == Init => WrappedInv
<1> SUFFICES ASSUME Init  PROVE WrappedInv
  OBVIOUS
<1>1. CallTypes /\ \A t \in Threads : pc[t] = "idle" /\ calls[t] = 0
  BY DEF Init, InitCalls, TbbLRUInit, CallTypes, Places
<1>2. CountsMatch
  <2>1. Pending = {}
    BY <1>1 DEF Pending
  <2>2. find = 0 /\ insert = 0 /\ hits = 0
    BY DEF Init, InitCalls
  <2> QED BY <2>1, <2>2, FS_EmptySet DEF CountsMatch
<1>3. \A t \in Threads : CallIsSound(t)
  BY <1>1 DEF CallIsSound
<1>4. HashIsSound
  BY <1>1 DEF Init, TbbHashInit, HashIsSound, HashTypes, HashCall
<1>5. HandlesAreSound
  BY <1>1 DEF Init, TbbLRUInit, HandlesAreSound, HandleCall
<1>6. AccessorsAreSound
  BY <1>1 DEF Init, HhvmInit, AccessorsAreSound, AccessorCall
<1> QED BY <1>1, <1>2, <1>3, <1>4, <1>5, <1>6 DEF WrappedInv

(* The steps of one call, whatever the wrapper: what they may count.       *)
LEMMA StepCounts ==
  ASSUME WrappedInv, NEW t \in Threads, NEW l \in Places, Goto(t, l), UNCHANGED <<wrapper, find>>,
         \A u \in Threads : u # t => miss'[u] = miss[u],
         miss' \in [Threads -> BOOLEAN],
         \/ t \in Pending /\ t \in Pending' /\ UNCHANGED <<insert, hits>>
         \/ t \notin Pending /\ t \notin Pending' /\ UNCHANGED <<insert, hits>>
         \/ t \in Pending /\ t \notin Pending' /\ insert' = insert + 1 /\ hits' = hits
         \/ t \in Pending /\ t \notin Pending' /\ insert' = insert /\ hits' = hits + 1
  PROVE  CountsMatch' /\ insert' \in Nat /\ hits' \in Nat
<1>1. CallTypes /\ CountsMatch
  BY DEF WrappedInv
<1>2. \A u \in Threads : u # t => (u \in Pending' <=> u \in Pending)
  BY <1>1 DEF Goto, CallTypes, Pending
<1>3. insert' \in Nat /\ hits' \in Nat
  BY <1>1 DEF CallTypes
<1>4. Pending \subseteq Threads /\ Pending' \subseteq Threads
  BY DEF Pending
<1>5. CASE (t \in Pending <=> t \in Pending') /\ UNCHANGED <<insert, hits>>
  <2>1. Pending' = Pending
    BY <1>2, <1>4, <1>5
  <2> QED BY <1>1, <1>3, <1>5, <2>1, CountsStay
<1>6. CASE /\ t \in Pending /\ t \notin Pending'
           /\ \/ insert' = insert + 1 /\ hits' = hits
              \/ insert' = insert /\ hits' = hits + 1
  <2>1. Pending' = Pending \ {t}
    BY <1>2, <1>4, <1>6
  <2> QED BY <1>1, <1>3, <1>6, <2>1, CountsEnd
<1> QED BY <1>5, <1>6

(* A call begins.                                                          *)
LEMMA BeginKeeps ==
  ASSUME WrappedInv, NEW t \in Threads, NEW k \in Keys, Begin(t, k),
         UNCHANGED <<wrapper, tbbHashVars, tbbLRUVars, hhvmVars>>
  PROVE  WrappedInv'
<1>1. /\ pc[t] = "idle" /\ pc' = [pc EXCEPT ![t] = "find"]
      /\ key' = [key EXCEPT ![t] = k] /\ consumer' = [consumer EXCEPT ![t] = Unset]
      /\ calls' = [calls EXCEPT ![t] = @ + 1] /\ find' = find + 1
      /\ UNCHANGED <<insert, hits, wrapper, storage, present, readers, writer, entries, value, handles,
                     miss, cached, accessors>>
  BY DEF Begin, Idle, Goto, tbbHashVars, tbbLRUVars, hhvmVars
<1>2. CallTypes /\ CountsMatch
  BY DEF WrappedInv
<1>3. CallTypes'
  <2>1. Places' = Places /\ "find" \in Places
    BY <1>1, <1>2 DEF Places, CallTypes
  <2> QED BY <1>1, <1>2, <2>1 DEF CallTypes
<1>4. CountsMatch'
  <2>1. t \notin Pending /\ Pending' = Pending \cup {t}
    BY <1>1, <1>2 DEF Pending, CallTypes
  <2> QED BY <1>1, <1>2, <2>1, CountsBegin
<1>5. ASSUME NEW u \in Threads
      PROVE  /\ CallIsSound(u)'
             /\ u # t => pc'[u] = pc[u] /\ key'[u] = key[u] /\ consumer'[u] = consumer[u]
             /\ u = t => pc'[u] = "find"
  BY <1>1, <1>2 DEF WrappedInv, CallIsSound, CallTypes, Idle
<1>6. wrapper = "TbbHash" => HashIsSound'
  <2> SUFFICES ASSUME wrapper = "TbbHash"  PROVE HashIsSound'
    OBVIOUS
  <2>1. HashIsSound
    BY DEF WrappedInv
  <2>2. HashTypes' /\ \A j \in Keys : storage'[j] # Unset => IsFor(storage'[j], j)
    BY <1>1, <2>1 DEF HashIsSound, HashTypes
  <2>3. \A j \in Keys : j \in present' /\ storage'[j] = Unset => IsAssigned(j)'
    BY <1>1, <1>5, <2>1 DEF HashIsSound, IsAssigned
  <2>4. ASSUME NEW u \in Threads  PROVE HashCall(u)'
    BY <1>1, <1>5, <2>1 DEF HashIsSound, HashCall
  <2> QED BY <2>2, <2>3, <2>4 DEF HashIsSound
<1>7. wrapper = "TbbLRU" => HandlesAreSound'
  BY <1>1, <1>5 DEF WrappedInv, HandlesAreSound, HandleCall
<1>8. wrapper = "HhvmLRU" => AccessorsAreSound'
  BY <1>1, <1>5 DEF WrappedInv, AccessorsAreSound, AccessorCall
<1> QED BY <1>1, <1>3, <1>4, <1>5, <1>6, <1>7, <1>8 DEF WrappedInv

(* The counters are reset while no call is under way.                      *)
LEMMA ResetKeeps ==
  ASSUME WrappedInv, Reset, UNCHANGED <<wrapper, tbbHashVars, tbbLRUVars, hhvmVars>>
  PROVE  WrappedInv'
<1>1. /\ \A t \in Threads : pc[t] = "idle"
      /\ find' = 0 /\ insert' = 0 /\ hits' = 0
      /\ UNCHANGED <<pc, key, consumer, calls, wrapper, storage, present, readers, writer, entries, value,
                     handles, miss, cached, accessors>>
  BY DEF Reset, Idle, tbbHashVars, tbbLRUVars, hhvmVars
<1>2. CallTypes' /\ CountsMatch'
  <2>1. CallTypes'
    BY <1>1 DEF WrappedInv, CallTypes, Places
  <2>2. Pending' = {}
    BY <1>1 DEF Pending
  <2> QED BY <1>1, <2>1, <2>2, FS_EmptySet DEF CountsMatch
<1>3. \A t \in Threads : CallIsSound(t)'
  BY <1>1 DEF WrappedInv, CallIsSound, Idle
<1>4. wrapper = "TbbHash" => HashIsSound'
  <2>1. HashIsSound => HashIsSound'
    BY <1>1 DEF HashIsSound, HashTypes, HashCall, IsAssigned
  <2> QED BY <2>1 DEF WrappedInv
<1>5. wrapper = "TbbLRU" => HandlesAreSound'
  <2>1. HandlesAreSound => HandlesAreSound'
    BY <1>1 DEF HandlesAreSound, HandleCall
  <2> QED BY <2>1 DEF WrappedInv
<1>6. wrapper = "HhvmLRU" => AccessorsAreSound'
  <2>1. AccessorsAreSound => AccessorsAreSound'
    BY <1>1 DEF AccessorsAreSound, AccessorCall
  <2> QED BY <2>1 DEF WrappedInv
<1>7. \A t \in Threads : CallIsSound(t)'
  BY <1>3
<1> QED BY <1>1, <1>2, <1>4, <1>5, <1>6, <1>7 DEF WrappedInv

(* A step that changes nothing.                                            *)
LEMMA NothingChanges ==
  ASSUME WrappedInv, UNCHANGED vars
  PROVE  WrappedInv'
<1>1. UNCHANGED <<pc, key, consumer, calls, find, insert, hits, wrapper, storage, present, readers, writer,
                  entries, value, handles, miss, cached, accessors>>
  BY DEF vars, callVars, tbbHashVars, tbbLRUVars, hhvmVars
<1>2. CallTypes' /\ CountsMatch'
  <2>1. CallTypes'
    BY <1>1 DEF WrappedInv, CallTypes, Places
  <2>2. Pending' = Pending
    BY <1>1 DEF Pending
  <2> QED BY <1>1, <2>1, <2>2 DEF WrappedInv, CountsMatch
<1>4. wrapper = "TbbHash" => HashIsSound'
  <2>1. HashIsSound => HashIsSound'
    BY <1>1 DEF HashIsSound, HashTypes, HashCall, IsAssigned
  <2> QED BY <2>1 DEF WrappedInv
<1>5. wrapper = "TbbLRU" => HandlesAreSound'
  <2>1. HandlesAreSound => HandlesAreSound'
    BY <1>1 DEF HandlesAreSound, HandleCall
  <2> QED BY <2>1 DEF WrappedInv
<1>6. wrapper = "HhvmLRU" => AccessorsAreSound'
  <2>1. AccessorsAreSound => AccessorsAreSound'
    BY <1>1 DEF AccessorsAreSound, AccessorCall
  <2> QED BY <2>1 DEF WrappedInv
<1>7. \A t \in Threads : CallIsSound(t)'
  BY <1>1 DEF WrappedInv, CallIsSound, Idle
<1> QED BY <1>1, <1>2, <1>4, <1>5, <1>6, <1>7 DEF WrappedInv

---------------------------------------------------------------------------
(* TbbHash.                                                                *)

(* What a step of thread t may do to the entries.                          *)
LEMMA HashStays ==
  ASSUME HashIsSound, NEW t \in Threads, HashTypes', UNCHANGED key, present \subseteq present',
         \A u \in Threads : u # t => pc'[u] = pc[u] /\ consumer'[u] = consumer[u],
         \A k \in Keys : storage'[k] # storage[k] => IsFor(storage'[k], k),
         \A u \in Threads : u # t /\ pc[u] \in {"assign", "leave"} => writer'[key[u]] = writer[key[u]],
         \A u \in Threads : pc[u] # "idle" => key[u] \in Keys,
         \A k \in Keys : k \in present' /\ storage'[k] = Unset =>
           \/ k \in present /\ ~(pc[t] = "assign" /\ key[t] = k)
           \/ pc'[t] = "assign" /\ key[t] = k,
         HashCall(t)'
  PROVE  HashIsSound'
<1>1. \A k \in Keys : storage'[k] # Unset => IsFor(storage'[k], k)
  BY DEF HashIsSound
<1>2. \A k \in Keys : storage[k] # Unset => storage'[k] # Unset
  BY DEF IsFor
<1>3. ASSUME NEW k \in Keys, k \in present', storage'[k] = Unset  PROVE IsAssigned(k)'
  <2>1. CASE pc'[t] = "assign" /\ key[t] = k
    BY <2>1 DEF IsAssigned
  <2>2. CASE k \in present /\ ~(pc[t] = "assign" /\ key[t] = k)
    <3>1. IsAssigned(k)
      BY <1>2, <1>3, <2>2 DEF HashIsSound
    <3>2. PICK u \in Threads : pc[u] = "assign" /\ key[u] = k
      BY <3>1 DEF IsAssigned
    <3>3. pc'[u] = "assign" /\ key'[u] = k
      BY <2>2, <3>2
    <3> QED BY <3>3 DEF IsAssigned
  <2> QED BY <1>3, <2>1, <2>2
<1>4. ASSUME NEW u \in Threads, u # t  PROVE HashCall(u)'
  <2>1. HashCall(u)
    BY DEF HashIsSound
  <2>2. pc'[u] = pc[u] /\ consumer'[u] = consumer[u] /\ key'[u] = key[u]
    BY <1>4
  <2>3. pc[u] = "read" => key[u] \in Keys
    OBVIOUS
  <2> QED BY <1>2, <1>4, <2>1, <2>2, <2>3 DEF HashCall, IsFor
<1> QED BY <1>1, <1>3, <1>4 DEF HashIsSound

(* A step of a call of TbbHash.                                            *)
LEMMA HashKeeps ==
  ASSUME WrappedInv, wrapper = "TbbHash", NEW t \in Threads, TbbHashStep(t),
         UNCHANGED <<wrapper, tbbLRUVars, hhvmVars>>
  PROVE  WrappedInv'
<1>a. CallTypes /\ CountsMatch /\ HashIsSound /\ CallIsSound(t)
  BY DEF WrappedInv
<1>b. /\ pc = [u \in Threads |-> pc[u]] /\ consumer = [u \in Threads |-> consumer[u]]
      /\ insert \in Nat /\ hits \in Nat
      /\ Places = {"idle", "find", "read", "miss", "insert", "assign", "leave"}
  BY <1>a DEF CallTypes, Places
<1>c. pc[t] # "idle" => key[t] \in Keys
  BY <1>a DEF CallIsSound
<1>d. UNCHANGED <<miss, wrapper>>
  BY DEF tbbLRUVars
<1>1. PICK l \in Places : Goto(t, l)
  BY <1>b DEF TbbHashStep, FindMiss, FindHit, ReadHit, Produce, InsertNew, InsertFound, Assign, Leave, Goto
<1>2. /\ \A u \in Threads : u # t => pc'[u] = pc[u] /\ consumer'[u] = consumer[u]
      /\ pc'[t] = l /\ pc' = [u \in Threads |-> pc'[u]] /\ consumer' = [u \in Threads |-> consumer'[u]]
      /\ UNCHANGED <<key, calls, find>>
  BY <1>b, <1>1 DEF TbbHashStep, FindMiss, FindHit, ReadHit, Produce, InsertNew, InsertFound, Assign, Leave,
       Goto, Consume
<1>3. CountsMatch' /\ insert' \in Nat /\ hits' \in Nat
  <2>1. \/ t \in Pending /\ t \in Pending' /\ UNCHANGED <<insert, hits>>
        \/ t \notin Pending /\ t \notin Pending' /\ UNCHANGED <<insert, hits>>
        \/ t \in Pending /\ t \notin Pending' /\ insert' = insert + 1 /\ hits' = hits
        \/ t \in Pending /\ t \notin Pending' /\ insert' = insert /\ hits' = hits + 1
    BY <1>b DEF TbbHashStep, FindMiss, FindHit, ReadHit, Produce, InsertNew, InsertFound, Assign, Leave, Goto,
         Pending
  <2>2. miss' \in [Threads -> BOOLEAN]
    BY <1>a, <1>d DEF CallTypes
  <2> QED BY <1>1, <1>2, <1>d, <2>1, <2>2, StepCounts
<1>4. CallTypes'
  BY <1>a, <1>d, <1>1, <1>2, <1>3 DEF CallTypes, Places
<1>5. ASSUME NEW u \in Threads, u # t  PROVE CallIsSound(u)'
  BY <1>2, <1>5 DEF WrappedInv, CallIsSound, Idle
<1>6. SUFFICES CallIsSound(t)' /\ HashIsSound'
  BY <1>3, <1>4, <1>5, <1>6, <1>d DEF WrappedInv
<1>e. \A u \in Threads : pc[u] # "idle" => key[u] \in Keys
  BY DEF WrappedInv, CallIsSound
<1>f. HashCall(t) /\ HashTypes
  BY <1>a DEF HashIsSound
<1>7. CASE FindMiss(t)
  <2>1. pc[t] = "find" /\ pc'[t] = "miss" /\ UNCHANGED <<consumer, storage, present, readers, writer>>
    BY <1>b, <1>7 DEF FindMiss, Goto
  <2>2. CallIsSound(t)'
    BY <1>c, <1>2, <2>1 DEF CallIsSound, Idle
  <2>5. HashTypes' /\ HashCall(t)'
    BY <1>f, <1>2, <2>1 DEF HashTypes, HashCall
  <2> QED BY <1>a, <1>2, <1>e, <2>1, <2>2, <2>5, HashStays
<1>8. CASE FindHit(t)
  <2>1. /\ pc[t] = "find" /\ key[t] \in present /\ writer[key[t]] = {} /\ pc'[t] = "read"
        /\ readers' = [readers EXCEPT ![key[t]] = @ \cup {t}]
        /\ UNCHANGED <<consumer, storage, present, writer>>
    BY <1>b, <1>8 DEF FindHit, Goto
  <2>2. storage[key[t]] # Unset
    BY <1>a, <1>c, <2>1 DEF HashIsSound, IsAssigned, HashCall
  <2>3. CallIsSound(t)'
    BY <1>c, <1>2, <2>1 DEF CallIsSound, Idle
  <2>5. HashTypes' /\ HashCall(t)'
    BY <1>f, <1>c, <1>2, <2>1, <2>2 DEF HashTypes, HashCall
  <2> QED BY <1>a, <1>2, <1>e, <2>1, <2>2, <2>3, <2>5, HashStays
<1>9. CASE ReadHit(t)
  <2>1. /\ pc[t] = "read" /\ pc'[t] = "idle" /\ consumer'[t] = storage[key[t]]
        /\ readers' = [readers EXCEPT ![key[t]] = @ \ {t}]
        /\ UNCHANGED <<storage, present, writer>>
    BY <1>b, <1>9 DEF ReadHit, Goto, Consume
  <2>2. CallIsSound(t)'
    BY <1>a, <1>c, <1>f, <1>2, <2>1 DEF CallIsSound, Idle, HashIsSound, HashCall
  <2>5. HashTypes' /\ HashCall(t)'
    BY <1>f, <1>c, <1>2, <2>1 DEF HashTypes, HashCall
  <2> QED BY <1>a, <1>2, <1>e, <2>1, <2>2,  <2>5, HashStays
<1>10. CASE Produce(t)
  <2>1. /\ pc[t] = "miss" /\ pc'[t] = "insert" /\ consumer'[t] = Produced(t)
        /\ UNCHANGED <<storage, present, readers, writer>>
    BY <1>b, <1>10 DEF Produce, Goto, Consume
  <2>2. IsFor(consumer'[t], key[t])
    BY <1>a, <1>c, <2>1, ProducedFacts
  <2>3. CallIsSound(t)'
    BY <1>c, <1>2, <2>1 DEF CallIsSound, Idle
  <2>5. HashTypes' /\ HashCall(t)'
    BY <1>f, <1>c, <1>2, <2>1, <2>2 DEF HashTypes, HashCall
  <2> QED BY <1>a, <1>2, <1>e, <2>1, <2>2, <2>3, <2>5, HashStays
<1>11. CASE InsertNew(t)
  <2>1. /\ pc[t] = "insert" /\ key[t] \notin present /\ pc'[t] = "assign"
        /\ present' = present \cup {key[t]}
        /\ writer' = [writer EXCEPT ![key[t]] = {t}]
        /\ UNCHANGED <<consumer, storage, readers>>
    BY <1>b, <1>11 DEF InsertNew, Goto
  <2>2. CallIsSound(t)'
    BY <1>c, <1>2, <2>1 DEF CallIsSound, Idle
  <2>5. HashTypes' /\ HashCall(t)'
    BY <1>f, <1>c, <1>2, <2>1 DEF HashTypes, HashCall
  <2>6. \A u \in Threads : u # t /\ pc[u] \in {"assign", "leave"} => writer'[key[u]] = writer[key[u]]
    BY <1>a, <1>c, <1>e, <1>f, <2>1 DEF HashIsSound, HashCall, HashTypes
  <2>7. \A k \in Keys : storage'[k] # storage[k] => IsFor(storage'[k], k)
    BY <1>c, <1>f, <2>1 DEF HashTypes
  <2>8. \A k \in Keys : k \in present' /\ storage'[k] = Unset =>
           \/ k \in present /\ ~(pc[t] = "assign" /\ key[t] = k)
           \/ pc'[t] = "assign" /\ key[t] = k
    BY <1>c, <1>f, <2>1 DEF HashTypes
  <2> QED BY <1>a, <1>2, <1>e, <2>1, <2>2, <2>5, HashStays, <2>6, <2>7, <2>8
<1>12. CASE InsertFound(t)
  <2>1. /\ pc[t] = "insert" /\ key[t] \in present /\ writer[key[t]] = {} /\ pc'[t] = "leave"
        /\ writer' = [writer EXCEPT ![key[t]] = {t}]
        /\ UNCHANGED <<consumer, storage, present, readers>>
    BY <1>b, <1>12 DEF InsertFound, Goto
  <2>2. CallIsSound(t)'
    BY <1>c, <1>2, <2>1 DEF CallIsSound, Idle
  <2>5. HashTypes' /\ HashCall(t)'
    BY <1>f, <1>c, <1>2, <2>1 DEF HashTypes, HashCall
  <2>6. \A u \in Threads : u # t /\ pc[u] \in {"assign", "leave"} => writer'[key[u]] = writer[key[u]]
    BY <1>a, <1>c, <1>e, <1>f, <2>1 DEF HashIsSound, HashCall, HashTypes
  <2>7. \A k \in Keys : storage'[k] # storage[k] => IsFor(storage'[k], k)
    BY <1>c, <1>f, <2>1 DEF HashTypes
  <2>8. \A k \in Keys : k \in present' /\ storage'[k] = Unset =>
           \/ k \in present /\ ~(pc[t] = "assign" /\ key[t] = k)
           \/ pc'[t] = "assign" /\ key[t] = k
    BY <1>c, <1>f, <2>1 DEF HashTypes
  <2> QED BY <1>a, <1>2, <1>e, <2>1, <2>2, <2>5, HashStays, <2>6, <2>7, <2>8
<1>13. CASE Assign(t)
  <2>1. /\ pc[t] = "assign" /\ pc'[t] = "idle"
        /\ storage' = [storage EXCEPT ![key[t]] = consumer[t]]
        /\ writer' = [writer EXCEPT ![key[t]] = @ \ {t}]
        /\ UNCHANGED <<consumer, present, readers>>
    BY <1>b, <1>13 DEF Assign, Goto
  <2>2. IsFor(consumer[t], key[t]) /\ writer[key[t]] = {t}
    BY <1>f, <2>1 DEF HashCall
  <2>3. CallIsSound(t)'
    BY <1>c, <1>2, <2>1, <2>2 DEF CallIsSound, Idle
  <2>4. consumer[t] # Unset
    BY <2>2 DEF IsFor
  <2>5. HashTypes' /\ HashCall(t)'
    BY <1>f, <1>c, <1>2, <2>1, <2>2, <2>4 DEF HashTypes, HashCall
  <2>6. \A u \in Threads : u # t /\ pc[u] \in {"assign", "leave"} => writer'[key[u]] = writer[key[u]]
    BY <1>a, <1>c, <1>e, <1>f, <2>1, <2>2, <2>4 DEF HashIsSound, HashCall, HashTypes
  <2>7. \A k \in Keys : storage'[k] # storage[k] => IsFor(storage'[k], k)
    BY <1>c, <1>f, <2>1, <2>2, <2>4 DEF HashTypes
  <2>8. \A k \in Keys : k \in present' /\ storage'[k] = Unset =>
           \/ k \in present /\ ~(pc[t] = "assign" /\ key[t] = k)
           \/ pc'[t] = "assign" /\ key[t] = k
    BY <1>c, <1>f, <2>1, <2>2, <2>4 DEF HashTypes
  <2> QED BY <1>a, <1>2, <1>e, <2>1, <2>2, <2>3, <2>5, HashStays, <2>6, <2>7, <2>8
<1>14. CASE Leave(t)
  <2>1. /\ pc[t] = "leave" /\ pc'[t] = "idle"
        /\ writer' = [writer EXCEPT ![key[t]] = @ \ {t}]
        /\ UNCHANGED <<consumer, storage, present, readers>>
    BY <1>b, <1>14 DEF Leave, Goto
  <2>2. IsFor(consumer[t], key[t]) /\ writer[key[t]] = {t}
    BY <1>f, <2>1 DEF HashCall
  <2>3. CallIsSound(t)'
    BY <1>c, <1>2, <2>1, <2>2 DEF CallIsSound, Idle
  <2>5. HashTypes' /\ HashCall(t)'
    BY <1>f, <1>c, <1>2, <2>1, <2>2 DEF HashTypes, HashCall
  <2>6. \A u \in Threads : u # t /\ pc[u] \in {"assign", "leave"} => writer'[key[u]] = writer[key[u]]
    BY <1>a, <1>c, <1>e, <1>f, <2>1, <2>2 DEF HashIsSound, HashCall, HashTypes
  <2>7. \A k \in Keys : storage'[k] # storage[k] => IsFor(storage'[k], k)
    BY <1>c, <1>f, <2>1, <2>2 DEF HashTypes
  <2>8. \A k \in Keys : k \in present' /\ storage'[k] = Unset =>
           \/ k \in present /\ ~(pc[t] = "assign" /\ key[t] = k)
           \/ pc'[t] = "assign" /\ key[t] = k
    BY <1>c, <1>f, <2>1, <2>2 DEF HashTypes
  <2> QED BY <1>a, <1>2, <1>e, <2>1, <2>2, <2>3, <2>5, HashStays, <2>6, <2>7, <2>8
<1> QED BY <1>7, <1>8, <1>9, <1>10, <1>11, <1>12, <1>13, <1>14 DEF TbbHashStep

---------------------------------------------------------------------------
(* TbbLRU.                                                                 *)

(* A handle that another call has keeps the entry of its key.              *)
LEMMA HandlesStay ==
  ASSUME HandlesAreSound, NEW t \in Threads, UNCHANGED key,
         value' = [k \in Keys |-> value'[k]], handles' = [k \in Keys |-> handles'[k]],
         \A u \in Threads : u # t => pc'[u] = pc[u] /\ miss'[u] = miss[u],
         \A u \in Threads : pc[u] # "idle" => key[u] \in Keys,
         \A k \in Keys : value'[k] # value[k] /\ value'[k] # Unset => IsFor(value'[k], k),
         \A k \in Keys, u \in Threads : u # t /\ u \in handles[k] => u \in handles'[k],
         \A k \in Keys, u \in Threads : u # t /\ u \in handles[k] /\ k \in entries =>
           k \in entries' /\ (value[k] # Unset => value'[k] # Unset),
         HandleCall(t)'
  PROVE  HandlesAreSound'
<1>1. \A k \in Keys : value'[k] # Unset => IsFor(value'[k], k)
  BY DEF HandlesAreSound
<1>2. ASSUME NEW u \in Threads, u # t  PROVE HandleCall(u)'
  <2>1. HandleCall(u)
    BY DEF HandlesAreSound
  <2>2. pc'[u] = pc[u] /\ key'[u] = key[u] /\ miss'[u] = miss[u]
    BY <1>2
  <2>3. pc[u] # "idle" => key[u] \in Keys
    OBVIOUS
  <2> QED BY <1>2, <2>1, <2>2, <2>3 DEF HandleCall
<1> QED BY <1>1, <1>2 DEF HandlesAreSound

(* A step of a call of TbbLRU.                                             *)
LEMMA TbbLRUKeeps ==
  ASSUME WrappedInv, wrapper = "TbbLRU", NEW t \in Threads, TbbLRUStep(t),
         UNCHANGED <<wrapper, tbbHashVars, hhvmVars>>
  PROVE  WrappedInv'
<1>a. CallTypes /\ CountsMatch /\ HandlesAreSound /\ CallIsSound(t) /\ HandleCall(t)
  BY DEF WrappedInv, HandlesAreSound
<1>b. /\ pc = [u \in Threads |-> pc[u]] /\ consumer = [u \in Threads |-> consumer[u]]
      /\ insert \in Nat /\ hits \in Nat
      /\ miss \in [Threads -> BOOLEAN]
      /\ Places = {"idle", "find", "calculate", "await", "handle"}
  BY <1>a DEF CallTypes, Places
<1>c. pc[t] # "idle" => key[t] \in Keys
  BY <1>a DEF CallIsSound
<1>d. UNCHANGED wrapper /\ \A u \in Threads : pc[u] # "idle" => key[u] \in Keys
  BY DEF WrappedInv, CallIsSound
<1>e. value = [k \in Keys |-> value[k]] /\ handles = [k \in Keys |-> handles[k]]
  BY <1>a DEF HandlesAreSound
<1>1. PICK l \in Places : Goto(t, l)
  BY <1>b DEF TbbLRUStep, Lookup, Calculate, Await, Answer, Goto
<1>2. /\ \A u \in Threads : u # t => pc'[u] = pc[u] /\ consumer'[u] = consumer[u] /\ miss'[u] = miss[u]
      /\ pc'[t] = l /\ pc' = [u \in Threads |-> pc'[u]] /\ consumer' = [u \in Threads |-> consumer'[u]]
      /\ miss' \in [Threads -> BOOLEAN]
      /\ UNCHANGED <<key, calls, find>>
  <2>1. \/ miss' = miss
        \/ miss' = [miss EXCEPT ![t] = FALSE]
        \/ miss' = [miss EXCEPT ![t] = TRUE]
    BY DEF TbbLRUStep, Lookup, Calculate, Await, Answer
  <2>2. miss' \in [Threads -> BOOLEAN] /\ \A u \in Threads : u # t => miss'[u] = miss[u]
    BY <1>b, <2>1
  <2> QED BY <1>b, <1>1, <2>2 DEF TbbLRUStep, Lookup, Calculate, Await, Answer, Goto, Consume
<1>3. CountsMatch' /\ insert' \in Nat /\ hits' \in Nat
  <2>0. miss[t] \in BOOLEAN /\ miss'[t] \in BOOLEAN
    BY <1>b, <1>2
  <2>1. \/ t \in Pending /\ t \in Pending' /\ UNCHANGED <<insert, hits>>
        \/ t \notin Pending /\ t \notin Pending' /\ UNCHANGED <<insert, hits>>
        \/ t \in Pending /\ t \notin Pending' /\ insert' = insert + 1 /\ hits' = hits
        \/ t \in Pending /\ t \notin Pending' /\ insert' = insert /\ hits' = hits + 1
    <3>1. CASE Lookup(t)
      BY <1>b, <3>1 DEF Lookup, Goto, Pending
    <3>2. CASE Calculate(t)
      <4>1. pc[t] = "calculate" /\ pc'[t] = "handle" /\ miss'[t] = TRUE /\ insert' = insert + 1 /\ hits' = hits
        BY <1>b, <3>2 DEF Calculate, Goto
      <4> QED BY <4>1 DEF Pending
    <3>3. CASE Await(t)
      <4>1. pc[t] = "await" /\ pc'[t] = "handle" /\ miss' = miss /\ UNCHANGED <<insert, hits>>
        BY <1>b, <3>3 DEF Await, Goto
      <4>2. ~miss[t]
        BY <1>a, <4>1 DEF HandleCall
      <4> QED BY <4>1, <4>2 DEF Pending
    <3>4. CASE Answer(t)
      <4>1. /\ pc[t] = "handle" /\ pc'[t] = "idle" /\ insert' = insert
            /\ hits' = hits + (IF miss[t] THEN 0 ELSE 1)
        BY <1>b, <3>4 DEF Answer, Goto
      <4> QED BY <1>b, <2>0, <4>1 DEF Pending
    <3> QED BY <3>1, <3>2, <3>3, <3>4 DEF TbbLRUStep
  <2> QED BY <1>1, <1>2, <1>d, <2>1, StepCounts
<1>4. CallTypes'
  BY <1>a, <1>d, <1>1, <1>2, <1>3 DEF CallTypes, Places
<1>5. ASSUME NEW u \in Threads, u # t  PROVE CallIsSound(u)'
  BY <1>2, <1>5 DEF WrappedInv, CallIsSound, Idle
<1>6. SUFFICES CallIsSound(t)' /\ HandlesAreSound'
  BY <1>3, <1>4, <1>5, <1>6, <1>d DEF WrappedInv
<1>7. CASE Lookup(t)
  <2>1. /\ pc[t] = "find" /\ pc'[t] \in {"await", "calculate"} /\ UNCHANGED consumer
        /\ handles' = [handles EXCEPT ![key[t]] = @ \cup {t}]
        /\ \/ key[t] \in entries /\ UNCHANGED <<entries, value>>
           \/ /\ key[t] \notin entries /\ entries' = entries \cup {key[t]}
              /\ value' = [value EXCEPT ![key[t]] = Unset]
    BY <1>b, <1>7 DEF Lookup, Goto
  <2>2. CallIsSound(t)'
    BY <1>c, <1>2, <2>1 DEF CallIsSound, Idle
  <2>6. miss'[t] = FALSE
    BY <1>b, <1>7 DEF Lookup
  <2>3. HandleCall(t)'
    BY <1>c, <1>e, <1>2, <2>1, <2>6 DEF HandleCall
  <2>4. value' = [k \in Keys |-> value'[k]] /\ handles' = [k \in Keys |-> handles'[k]]
    BY <1>e, <2>1
  <2>5. \A k \in Keys : /\ value'[k] # value[k] => value'[k] = Unset /\ k \notin entries
                        /\ handles[k] \subseteq handles'[k] /\ (k \in entries => k \in entries')
    BY <1>c, <1>e, <2>1
  <2> QED BY <1>a, <1>2, <1>d, <2>2, <2>3, <2>4, <2>5, HandlesStay
<1>8. CASE Calculate(t)
  <2>1. /\ pc[t] = "calculate" /\ pc'[t] = "handle" /\ UNCHANGED <<consumer, entries, handles>>
        /\ value' = [value EXCEPT ![key[t]] = Produced(t)]
    BY <1>b, <1>8 DEF Calculate, Goto
  <2>2. CallIsSound(t)'
    BY <1>c, <1>2, <2>1 DEF CallIsSound, Idle
  <2>3. IsFor(Produced(t), key[t])
    BY <1>a, <1>c, <2>1, ProducedFacts
  <2>4. Produced(t) # Unset
    BY <2>3 DEF IsFor
  <2>5. HandleCall(t)'
    BY <1>a, <1>c, <1>e, <1>2, <2>1, <2>4 DEF HandleCall
  <2>6. value' = [k \in Keys |-> value'[k]] /\ \A k \in Keys : value'[k] # value[k] =>
                                                   value'[k] = Produced(t) /\ k = key[t]
    BY <1>c, <1>e, <2>1
  <2>7. \A k \in Keys : value'[k] # value[k] => IsFor(value'[k], k) /\ value'[k] # Unset
    BY <2>3, <2>4, <2>6
  <2> QED BY <1>a, <1>e, <1>2, <1>d, <2>1, <2>2, <2>5, <2>6, <2>7, HandlesStay
<1>9. CASE Await(t)
  <2>1. /\ pc[t] = "await" /\ pc'[t] = "handle" /\ value[key[t]] # Unset
        /\ UNCHANGED <<consumer, entries, value, handles>>
    BY <1>b, <1>9 DEF Await, Goto
  <2>2. CallIsSound(t)'
    BY <1>c, <1>2, <2>1 DEF CallIsSound, Idle
  <2>3. HandleCall(t)'
    BY <1>a, <1>2, <2>1 DEF HandleCall
  <2> QED BY <1>a, <1>e, <1>2, <1>d, <2>1, <2>2, <2>3, HandlesStay
<1>10. CASE Answer(t)
  <2>1. /\ pc[t] = "handle" /\ pc'[t] = "idle" /\ consumer'[t] = value[key[t]]
        /\ handles' = [handles EXCEPT ![key[t]] = @ \ {t}]
    BY <1>b, <1>10 DEF Answer, Goto, Consume
  <2>2. PICK d \in Dropped(handles') :
          /\ entries' = entries \ d
          /\ value' = [k \in Keys |-> IF k \in d THEN Unset ELSE value[k]]
    BY <1>10 DEF Answer
  <2>3. \A k \in d : handles'[k] = {}
    BY <2>2 DEF Dropped, Unused
  <2>4. CallIsSound(t)'
    <3>1. IsFor(value[key[t]], key[t])
      BY <1>a, <1>c, <2>1 DEF HandlesAreSound, HandleCall
    <3> QED BY <1>c, <1>2, <2>1, <3>1 DEF CallIsSound
  <2>5. HandleCall(t)'
    BY <2>1 DEF HandleCall
  <2>6. value' = [k \in Keys |-> value'[k]] /\ handles' = [k \in Keys |-> handles'[k]]
    BY <1>e, <2>1, <2>2
  <2>7. \A k \in Keys, u \in Threads : u # t /\ u \in handles[k] => u \in handles'[k] /\ k \notin d
    BY <1>c, <1>e, <2>1, <2>3
  <2>8. \A k \in Keys : value'[k] # value[k] => value'[k] = Unset
    BY <2>2
  <2>9. \A k \in Keys : k \notin d => value'[k] = value[k]
    BY <2>2
  <2>10. \A k \in Keys, u \in Threads : u # t /\ u \in handles[k] /\ k \in entries =>
           k \in entries' /\ (value[k] # Unset => value'[k] # Unset)
    BY <2>2, <2>7, <2>9
  <2> QED BY <1>a, <1>2, <1>d, <2>4, <2>5, <2>6, <2>7, <2>8, <2>10, HandlesStay
<1> QED BY <1>7, <1>8, <1>9, <1>10 DEF TbbLRUStep

---------------------------------------------------------------------------
(* HhvmLRU.                                                                *)

(* An accessor that another call has keeps the entry of its key.           *)
LEMMA AccessorsStay ==
  ASSUME AccessorsAreSound, NEW t \in Threads, UNCHANGED key,
         cached' = [k \in Keys |-> cached'[k]], accessors' = [k \in Keys |-> accessors'[k]],
         \A u \in Threads : u # t => pc'[u] = pc[u],
         \A u \in Threads : pc[u] # "idle" => key[u] \in Keys,
         \A k \in Keys : cached'[k] # cached[k] /\ cached'[k] # Unset => IsFor(cached'[k], k),
         \A k \in Keys, u \in Threads : u # t /\ u \in accessors[k] =>
           u \in accessors'[k] /\ (cached[k] # Unset => cached'[k] # Unset),
         AccessorCall(t)'
  PROVE  AccessorsAreSound'
<1>1. \A k \in Keys : cached'[k] # Unset => IsFor(cached'[k], k)
  BY DEF AccessorsAreSound
<1>2. ASSUME NEW u \in Threads, u # t  PROVE AccessorCall(u)'
  <2>1. AccessorCall(u)
    BY DEF AccessorsAreSound
  <2>2. pc'[u] = pc[u] /\ key'[u] = key[u]
    BY <1>2
  <2>3. pc[u] # "idle" => key[u] \in Keys
    OBVIOUS
  <2> QED BY <1>2, <2>1, <2>2, <2>3 DEF AccessorCall
<1> QED BY <1>1, <1>2 DEF AccessorsAreSound

(* A step of a call of HhvmLRU.                                            *)
LEMMA HhvmKeeps ==
  ASSUME WrappedInv, wrapper = "HhvmLRU", NEW t \in Threads, HhvmStep(t),
         UNCHANGED <<wrapper, tbbHashVars, tbbLRUVars>>
  PROVE  WrappedInv'
<1>a. CallTypes /\ CountsMatch /\ AccessorsAreSound /\ CallIsSound(t) /\ AccessorCall(t)
  BY DEF WrappedInv, AccessorsAreSound
<1>b. /\ pc = [u \in Threads |-> pc[u]] /\ consumer = [u \in Threads |-> consumer[u]]
      /\ insert \in Nat /\ hits \in Nat
      /\ miss \in [Threads -> BOOLEAN]
      /\ Places = {"idle", "find", "read", "miss", "insert"}
  BY <1>a DEF CallTypes, Places
<1>c. pc[t] # "idle" => key[t] \in Keys
  BY <1>a DEF CallIsSound
<1>d. /\ UNCHANGED <<wrapper, miss>>
      /\ \A u \in Threads : pc[u] # "idle" => key[u] \in Keys
  BY DEF WrappedInv, CallIsSound, tbbLRUVars
<1>e. cached = [k \in Keys |-> cached[k]] /\ accessors = [k \in Keys |-> accessors[k]]
  BY <1>a DEF AccessorsAreSound
<1>1. PICK l \in Places : Goto(t, l)
  BY <1>b DEF HhvmStep, HhvmFindMiss, HhvmFindHit, HhvmReadHit, HhvmProduce, HhvmInsert, Goto
<1>2. /\ \A u \in Threads : u # t => pc'[u] = pc[u] /\ consumer'[u] = consumer[u]
      /\ pc'[t] = l /\ pc' = [u \in Threads |-> pc'[u]] /\ consumer' = [u \in Threads |-> consumer'[u]]
      /\ UNCHANGED <<key, calls, find>>
  BY <1>b, <1>1 DEF HhvmStep, HhvmFindMiss, HhvmFindHit, HhvmReadHit, HhvmProduce, HhvmInsert, Goto, Consume
<1>3. CountsMatch' /\ insert' \in Nat /\ hits' \in Nat
  <2>1. \/ t \in Pending /\ t \in Pending' /\ UNCHANGED <<insert, hits>>
        \/ t \notin Pending /\ t \notin Pending' /\ UNCHANGED <<insert, hits>>
        \/ t \in Pending /\ t \notin Pending' /\ insert' = insert + 1 /\ hits' = hits
        \/ t \in Pending /\ t \notin Pending' /\ insert' = insert /\ hits' = hits + 1
    BY <1>b DEF HhvmStep, HhvmFindMiss, HhvmFindHit, HhvmReadHit, HhvmProduce, HhvmInsert, Goto, Pending
  <2>2. miss' \in [Threads -> BOOLEAN]
    BY <1>b, <1>d
  <2>3. \A u \in Threads : u # t => miss'[u] = miss[u]
    BY <1>d
  <2> QED BY <1>1, <1>2, <1>d, <2>1, <2>2, <2>3, StepCounts
<1>4. CallTypes'
  BY <1>a, <1>d, <1>1, <1>2, <1>3 DEF CallTypes, Places
<1>5. ASSUME NEW u \in Threads, u # t  PROVE CallIsSound(u)'
  BY <1>2, <1>5 DEF WrappedInv, CallIsSound, Idle
<1>6. SUFFICES CallIsSound(t)' /\ AccessorsAreSound'
  BY <1>3, <1>4, <1>5, <1>6, <1>d DEF WrappedInv
<1>7. CASE HhvmFindMiss(t)
  <2>1. /\ pc[t] = "find" /\ pc'[t] = "miss" /\ UNCHANGED <<consumer, cached, accessors>>
    BY <1>b, <1>7 DEF HhvmFindMiss, Goto
  <2>2. CallIsSound(t)'
    BY <1>c, <1>2, <2>1 DEF CallIsSound, Idle
  <2>3. AccessorCall(t)'
    BY <2>1 DEF AccessorCall
  <2> QED BY <1>a, <1>e, <1>2, <1>d, <2>1, <2>2, <2>3, AccessorsStay
<1>8. CASE HhvmFindHit(t)
  <2>1. /\ pc[t] = "find" /\ pc'[t] = "read" /\ cached[key[t]] # Unset /\ UNCHANGED <<consumer, cached>>
        /\ accessors' = [accessors EXCEPT ![key[t]] = @ \cup {t}]
    BY <1>b, <1>8 DEF HhvmFindHit, Goto
  <2>2. CallIsSound(t)'
    BY <1>c, <1>2, <2>1 DEF CallIsSound, Idle
  <2>3. AccessorCall(t)'
    BY <1>c, <1>e, <1>2, <2>1 DEF AccessorCall
  <2>4. accessors' = [k \in Keys |-> accessors'[k]] /\ \A k \in Keys : accessors[k] \subseteq accessors'[k]
    BY <1>c, <1>e, <2>1
  <2> QED BY <1>a, <1>e, <1>2, <1>d, <2>1, <2>2, <2>3, <2>4, AccessorsStay
<1>9. CASE HhvmReadHit(t)
  <2>1. /\ pc[t] = "read" /\ pc'[t] = "idle" /\ consumer'[t] = cached[key[t]] /\ UNCHANGED cached
        /\ accessors' = [accessors EXCEPT ![key[t]] = @ \ {t}]
    BY <1>b, <1>9 DEF HhvmReadHit, Goto, Consume
  <2>2. CallIsSound(t)'
    <3>1. IsFor(cached[key[t]], key[t])
      BY <1>a, <1>c, <2>1 DEF AccessorsAreSound, AccessorCall
    <3> QED BY <1>c, <1>2, <2>1, <3>1 DEF CallIsSound
  <2>3. AccessorCall(t)'
    BY <2>1 DEF AccessorCall
  <2>4. /\ accessors' = [k \in Keys |-> accessors'[k]]
        /\ \A k \in Keys, u \in Threads : u # t /\ u \in accessors[k] => u \in accessors'[k]
    BY <1>c, <1>e, <2>1
  <2> QED BY <1>a, <1>e, <1>2, <1>d, <2>1, <2>2, <2>3, <2>4, AccessorsStay
<1>10. CASE HhvmProduce(t)
  <2>1. /\ pc[t] = "miss" /\ pc'[t] = "insert" /\ UNCHANGED <<consumer, cached, accessors>>
    BY <1>b, <1>10 DEF HhvmProduce, Goto
  <2>2. CallIsSound(t)'
    BY <1>c, <1>2, <2>1 DEF CallIsSound, Idle
  <2>3. AccessorCall(t)'
    BY <2>1 DEF AccessorCall
  <2> QED BY <1>a, <1>e, <1>2, <1>d, <2>1, <2>2, <2>3, AccessorsStay
<1>11. CASE HhvmInsert(t)
  <2>1. /\ pc[t] = "insert" /\ pc'[t] = "idle" /\ consumer'[t] = Produced(t) /\ UNCHANGED accessors
    BY <1>b, <1>11 DEF HhvmInsert, Goto, Consume
  <2>2. IsFor(Produced(t), key[t])
    BY <1>a, <1>c, <2>1, ProducedFacts
  <2>3. CallIsSound(t)'
    BY <1>c, <1>2, <2>1, <2>2 DEF CallIsSound
  <2>4. AccessorCall(t)'
    BY <2>1 DEF AccessorCall
  <2>5. CASE UNCHANGED cached
    BY <1>a, <1>e, <1>2, <1>d, <2>1, <2>3, <2>4, <2>5, AccessorsStay
  <2>6. CASE /\ cached[key[t]] = Unset
             /\ \E out \in (IF Full THEN Evictable(key[t]) ELSE {{}}) :
                  cached' = [k \in Keys |-> IF k = key[t] THEN Produced(t)
                                            ELSE IF k \in out THEN Unset ELSE cached[k]]
    <3>1. PICK out \in (IF Full THEN Evictable(key[t]) ELSE {{}}) :
            cached' = [k \in Keys |-> IF k = key[t] THEN Produced(t)
                                      ELSE IF k \in out THEN Unset ELSE cached[k]]
      BY <2>6
    <3>2. \A o \in out : accessors[o] = {}
      BY <3>1 DEF Evictable
    <3>3. Produced(t) # Unset
      BY <2>2 DEF IsFor
    <3>4. cached' = [k \in Keys |-> cached'[k]]
      BY <3>1
    <3>5. \A k \in Keys : cached'[k] # cached[k] /\ cached'[k] # Unset => IsFor(cached'[k], k)
      BY <2>2, <3>1
    <3>6. \A k \in Keys, u \in Threads : u # t /\ u \in accessors[k] =>
            u \in accessors'[k] /\ (cached[k] # Unset => cached'[k] # Unset)
      BY <2>1, <3>1, <3>2, <3>3
    <3>7. accessors' = [k \in Keys |-> accessors'[k]]
      BY <1>e, <2>1
    <3> QED BY <1>a, <1>2, <1>d, <2>3, <2>4, <3>4, <3>5, <3>6, <3>7, AccessorsStay
  <2> QED BY <1>11, <2>5, <2>6 DEF HhvmInsert
<1> QED BY <1>7, <1>8, <1>9, <1>10, <1>11 DEF HhvmStep

---------------------------------------------------------------------------
(* The invariant of the three wrappers: what a call is about to answer is  *)
(* for its key, an entry that a call may still read keeps its value, and   *)
(* every call that has counted its find will count an insert or a hit.     *)
THEOREM WrappedInvHolds == Spec => []WrappedInv
<1>1. Init => WrappedInv
  BY WrappedStarts
<1>2. WrappedInv /\ [Next]_vars => WrappedInv'
  <2> SUFFICES ASSUME WrappedInv, [Next]_vars  PROVE WrappedInv'
    OBVIOUS
  <2>1. CASE UNCHANGED vars
    BY <2>1, NothingChanges
  <2>2. ASSUME CallOrReset, UNCHANGED <<wrapper, tbbHashVars, tbbLRUVars, hhvmVars>>
        PROVE  WrappedInv'
    <3>1. CASE \E t \in Threads, k \in Keys : Begin(t, k)
      BY <2>2, <3>1, BeginKeeps
    <3>2. CASE Reset
      BY <2>2, <3>2, ResetKeeps
    <3>3. CASE UNCHANGED callVars
      BY <2>2, <3>3, NothingChanges DEF vars
    <3> QED BY <2>2, <3>1, <3>2, <3>3 DEF CallOrReset
  <2>3. CASE wrapper = "TbbHash" /\ TbbHashNext /\ UNCHANGED <<wrapper, tbbLRUVars, hhvmVars>>
    <3>1. CASE \E t \in Threads : TbbHashStep(t)
      BY <2>3, <3>1, HashKeeps
    <3>2. CASE CallOrReset /\ UNCHANGED tbbHashVars
      BY <2>2, <2>3, <3>2
    <3> QED BY <2>3, <3>1, <3>2 DEF TbbHashNext
  <2>4. CASE wrapper = "TbbLRU" /\ TbbLRUNext /\ UNCHANGED <<wrapper, tbbHashVars, hhvmVars>>
    <3>1. CASE \E t \in Threads : TbbLRUStep(t)
      BY <2>4, <3>1, TbbLRUKeeps
    <3>2. CASE CallOrReset /\ UNCHANGED tbbLRUVars
      BY <2>2, <2>4, <3>2
    <3> QED BY <2>4, <3>1, <3>2 DEF TbbLRUNext
  <2>5. CASE wrapper = "HhvmLRU" /\ HhvmNext /\ UNCHANGED <<wrapper, tbbHashVars, tbbLRUVars>>
    <3>1. CASE \E t \in Threads : HhvmStep(t)
      BY <2>5, <3>1, HhvmKeeps
    <3>2. CASE CallOrReset /\ UNCHANGED hhvmVars
      BY <2>2, <2>5, <3>2
    <3> QED BY <2>5, <3>1, <3>2 DEF HhvmNext
  <2> QED BY <2>1, <2>3, <2>4, <2>5 DEF Next
<1> QED BY <1>1, <1>2, PTL DEF Spec

(* Every answer of every wrapper is a value that was made for the key of   *)
(* its call (the "Wrong value" of benchmark.cpp:189 and :398).             *)
THEOREM AnswersAreRight == Spec => []AnswerIsForItsKey
<1>1. WrappedInv => AnswerIsForItsKey
  BY DEF WrappedInv, CallIsSound, IsFor, AnswerIsForItsKey
<1> QED BY <1>1, WrappedInvHolds, PTL

(* Whenever no call is under way, find - insert is the number of calls     *)
(* that returned true (the hits of csv_logger.h:165).                      *)
THEOREM HitsAreRight == Spec => []HitsAreFindsMinusInserts
<1>1. WrappedInv => HitsAreFindsMinusInserts
  <2> SUFFICES ASSUME WrappedInv, \A t \in Threads : Idle(t)  PROVE find - insert = hits
    BY DEF HitsAreFindsMinusInserts
  <2>1. Pending = {}
    BY DEF Pending, Idle
  <2>2. Cardinality(Pending) = 0
    BY <2>1, FS_EmptySet
  <2>3. find = insert + hits + Cardinality(Pending) /\ find \in Nat /\ insert \in Nat /\ hits \in Nat
    BY DEF WrappedInv, CallTypes, CountsMatch
  <2> QED BY <2>2, <2>3
<1> QED BY <1>1, WrappedInvHolds, PTL
=============================================================================
