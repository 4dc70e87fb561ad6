--------------------------- MODULE KeyGenerators ---------------------------
(***************************************************************************)
(* The key generators of the benchmark that do not draw at random          *)
(* (src/src/key_generator.cpp).  Each thread has a clone of the generator  *)
(* and tells it its number; getKey then returns the next sequence of keys. *)
(* A trace is dealt out record by record; the others count.                *)
(***************************************************************************)
EXTENDS Integers, FiniteSets

CONSTANTS
  Generators,    \* the kinds of generators the benchmark may be run with
  ThreadCount,
  TraceLength,   \* the records of the trace
  SlotSize,      \* 1 << 30 in DisjointGenerator::setThread
  KeyWidth       \* 2 ^ 64: the keys are of type size_t

ASSUME GeneratorAssumption ==
  /\ Generators # {} /\ Generators \subseteq {"trace", "disjoint", "same"}
  /\ ThreadCount \in Nat \ {0}
  /\ {TraceLength, SlotSize} \subseteq Nat
  /\ KeyWidth \in Nat \ {0} /\ KeyWidth >= ThreadCount * SlotSize
  /\ "trace" \in Generators => TraceLength >= ThreadCount

Threads == 0 .. ThreadCount - 1

VARIABLES
  generator, \* the one that was chosen
  state,     \* state_ of each clone, current_index_ of a TraceGenerator
  drawn,     \* the key, or the index of the record, it returned last
  round      \* history: what a clone returned since it was last at its start,
             \* the last key only of a "same" generator

generatorVars == <<generator, state, drawn, round>>

Nothing == -1

(* Mutant: all threads begin with the first record.                        *)
FirstOfAll(t) == IF generator = "disjoint" THEN t * SlotSize ELSE 0

(* setThread.                                                              *)
First(t) ==
  CASE generator = "trace"    -> t
    [] generator = "disjoint" -> t * SlotSize
    [] OTHER                  -> 0

GeneratorInit ==
  /\ generator \in Generators
  /\ state = [t \in Threads |-> First(t)]
  /\ drawn = [t \in Threads |-> Nothing]
  /\ round = [t \in Threads |-> {}]

Draw(t, key, next, restarts) ==
  /\ drawn' = [drawn EXCEPT ![t] = key]
  /\ state' = [state EXCEPT ![t] = next]
  /\ round' = [round EXCEPT ![t] = IF restarts THEN {key} ELSE @ \cup {key}]
  /\ UNCHANGED generator

GetRecord(t) ==
  LET atEnd == state[t] >= TraceLength
      i == IF atEnd THEN t ELSE state[t]
  IN  Draw(t, i, i + ThreadCount, atEnd)

GetNext(t) == Draw(t, state[t], (state[t] + 1) % KeyWidth, generator = "same")

GetKey(t) ==
  \/ generator = "trace" /\ GetRecord(t)
  \/ generator \in {"same", "disjoint"} /\ GetNext(t)

---------------------------------------------------------------------------
(* A run of the trace by several threads is a run of the whole trace: no    *)
(* record is dealt to two threads, and once each thread is at its end all  *)
(* have been dealt, whatever the remainder of the division.                *)
DealtOut ==
  generator = "trace" =>
    /\ \A t, u \in Threads : t # u => round[t] \cap round[u] = {}
    /\ (\A t \in Threads : state[t] >= TraceLength) =>
         UNION {round[t] : t \in Threads} = 0 .. TraceLength - 1

(* The threads of the "disjoint" generator do not share a key, as long as  *)
(* none has drawn more than SlotSize of them.                              *)
DisjointKeys ==
  generator = "disjoint" =>
    \A t, u \in Threads :
      t # u /\ Cardinality(round[t]) <= SlotSize /\ Cardinality(round[u]) <= SlotSize
        => round[t] \cap round[u] = {}

(* What the threads of one run share of the keys.                          *)
KeysAreDealt == DealtOut /\ DisjointKeys
=============================================================================
