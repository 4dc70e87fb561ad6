---------------------------- MODULE WrappedCache ----------------------------
(***************************************************************************)
(* What tbb_hash.h, tbb_lru.h and hhvm_lru.h have in common: each answers  *)
(* consumeCachedOrCompute with a container of a library, which several     *)
(* threads call, and counts finds and inserts in its ProfileStats.  The    *)
(* containers themselves are external; the modules of the three wrappers   *)
(* say what the wrappers rely on.                                          *)
(*                                                                         *)
(* A produced value is <<k, t, n>>: the one thread t made for key k in its *)
(* n-th call.  The benchmarks make equal values for equal keys; here they  *)
(* differ, so that a value in a wrong place shows.                         *)
(***************************************************************************)
EXTENDS Naturals, FiniteSets

CONSTANTS
  Threads, Keys,
  Unset,      \* a value-initialized value_t, and no key at all
  Capacity,   \* of the container; the map of TbbHash does not use it
  MaxCalls    \* bound on the calls of one thread

ASSUME WrappedAssumption ==
  /\ MaxCalls \in Nat /\ Capacity \in Nat \ {0}
  /\ Unset \notin Keys /\ Unset \notin Keys \X Threads \X Nat

VARIABLES
  pc,         \* thread -> where it is in consumeCachedOrCompute, or idle
  key,        \* thread -> the key of its call
  consumer,   \* thread -> consumer, the answer
  calls,      \* thread -> the calls it has begun
  find,       \* profile_stats_.find
  insert,     \* profile_stats_.insert
  hits        \* the calls that returned true: what the caller has counted

callVars == <<pc, key, consumer, calls, find, insert, hits>>

Produced(t) == <<key[t], t, calls[t]>>
Idle(t) == pc[t] = "idle"

InitCalls ==
  /\ pc = [t \in Threads |-> "idle"]
  /\ key = [t \in Threads |-> Unset]
  /\ consumer = [t \in Threads |-> Unset]
  /\ calls = [t \in Threads |-> 0]
  /\ find = 0 /\ insert = 0 /\ hits = 0

Goto(t, l) == pc' = [pc EXCEPT ![t] = l]

(* The call: find is counted first.                                        *)
Begin(t, k) ==
  /\ Idle(t) /\ calls[t] < MaxCalls
  /\ key' = [key EXCEPT ![t] = k]
  /\ consumer' = [consumer EXCEPT ![t] = Unset]
  /\ calls' = [calls EXCEPT ![t] = @ + 1]
  /\ find' = find + 1
  /\ Goto(t, "find")
  /\ UNCHANGED <<insert, hits>>

Consume(t, v) == consumer' = [consumer EXCEPT ![t] = v]

(* resetProfiler, which traceBenchmark calls between two passes, and the   *)
(* caller's own count with it.                                             *)
Reset ==
  /\ \A t \in Threads : Idle(t)
  /\ find' = 0 /\ insert' = 0 /\ hits' = 0
  /\ UNCHANGED <<pc, key, consumer, calls>>

(* Every thread has made its calls.                                        *)
AllCallsMade == \A t \in Threads : Idle(t) /\ calls[t] = MaxCalls

CallOrReset ==
  \/ \E t \in Threads, k \in Keys : Begin(t, k)
  \/ Reset
  \/ AllCallsMade /\ UNCHANGED callVars

-----------------------------------------------------------------------------

(* A call answers with a value that some call has produced for the same    *)
(* key: never with another key's, nor with the value an entry has before   *)
(* it was assigned, nor with one of an entry that is gone                  *)
(* (the "Wrong value" of benchmark.cpp:189 and :398).                      *)
AnswerIsForItsKey ==
  \A t \in Threads : Idle(t) /\ calls[t] > 0 => consumer[t] # Unset /\ consumer[t][1] = key[t]

(* Whenever no call is under way, find - insert is the number of calls     *)
(* that returned true: the log prints it as the hits (csv_logger.h:165),   *)
(* whoever inserted first when two threads missed the same key.            *)
HitsAreFindsMinusInserts ==
  (\A t \in Threads : Idle(t)) => find - insert = hits
=============================================================================
