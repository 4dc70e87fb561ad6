----------------------------- MODULE Benchmark -----------------------------
(***************************************************************************)
(* The measuring loop of the random benchmark (benchmark in                *)
(* src/src/benchmark.cpp): OpenMP threads run the keys of a trace against  *)
(* one cache until thread 0 finds the time is up and raises the flag that  *)
(* the others poll; then each adds its counts to the totals.               *)
(*                                                                         *)
(* The cache is the set of the keys it has been asked for, as in the       *)
(* "hash" back end while there is room.  The counters wrap at Width, for   *)
(* the 2 ^ 64 of size_t.                                                   *)
(***************************************************************************)
EXTENDS KeyGenerators, FiniteSetsExt

CONSTANTS
  PrintFreq,     \* print_freq
  Records,       \* the keys of each record of the trace: start_index and count
  Width

ASSUME DriverAssumption ==
  /\ PrintFreq \in Nat /\ PrintFreq >= 10
  /\ Width \in Nat \ {0}
  /\ Records \in [0 .. TraceLength - 1 -> [start_index : Nat, count : Nat \ {0}]]

VARIABLES
  pc,
  iter, hits,            \* of each thread
  private_cancel_flag,   \* of each thread
  left,                  \* the keys of its sequence still to ask for
  cancel_flag,
  started,               \* start has been read from the clock
  expired,               \* more than time_limit has passed since
  cache,
  passed_iterations, total_hits,
  late                   \* history: calls of each thread since the flag was raised

loopVars == <<iter, hits, private_cancel_flag, left, late>>
sharedVars == <<cancel_flag, started, expired, cache, passed_iterations, total_hits>>
benchmarkVars == <<generatorVars, pc, loopVars, sharedVars>>

Zero == [t \in Threads |-> 0]

BenchmarkInit ==
  /\ GeneratorInit
  /\ pc = [t \in Threads |-> "single"]
  /\ iter = Zero /\ hits = Zero /\ left = Zero /\ late = Zero
  /\ private_cancel_flag = [t \in Threads |-> FALSE]
  /\ cancel_flag = FALSE /\ started = FALSE /\ expired = FALSE
  /\ cache = {}
  /\ passed_iterations = 0 /\ total_hits = 0

Step(t, from, to) == pc[t] = from /\ pc' = [pc EXCEPT ![t] = to]

(* One thread, the first to come, reads the clock.                         *)
Single(t) ==
  /\ Step(t, "single", "barrier")
  /\ started' = TRUE
  /\ UNCHANGED <<generatorVars, loopVars, cancel_flag, expired, cache, passed_iterations, total_hits>>

(* All wait at the end of the single construct.                            *)
Barrier(t) ==
  /\ Step(t, "barrier", "loop")
  /\ \A u \in Threads : pc[u] # "single"
  /\ UNCHANGED <<generatorVars, loopVars, sharedVars>>

(* The KeySequence that getKey returned.                                   *)
SequenceOf(key) ==
  IF generator = "trace" THEN Records[key] ELSE [start_index |-> key, count |-> 1]

NextSequence(t) ==
  /\ Step(t, "loop", "call") /\ ~private_cancel_flag[t]
  /\ GetKey(t)
  /\ left' = [left EXCEPT ![t] = SequenceOf(drawn'[t]).count]
  /\ UNCHANGED <<iter, hits, private_cancel_flag, late, sharedVars>>

KeyOf(t) ==
  LET sequence == SequenceOf(drawn[t]) IN sequence.start_index + sequence.count - left[t]

Call(t) ==
  /\ left[t] > 0 /\ Step(t, "call", "poll")
  /\ iter' = [iter EXCEPT ![t] = (@ + 1) % Width]
  /\ left' = [left EXCEPT ![t] = @ - 1]
  /\ hits' = [hits EXCEPT ![t] = IF KeyOf(t) \in cache THEN (@ + 1) % Width ELSE @]
  /\ cache' = cache \cup {KeyOf(t)}
  /\ late' = [late EXCEPT ![t] = IF cancel_flag THEN @ + 1 ELSE @]
  /\ UNCHANGED <<generatorVars, private_cancel_flag, cancel_flag, started, expired,
                 passed_iterations, total_hits>>

EndOfSequence(t) ==
  /\ left[t] = 0 /\ Step(t, "call", "loop")
  /\ UNCHANGED <<generatorVars, loopVars, sharedVars>>

(* Mutant: the other threads poll as seldom as thread 0 does.              *)
PollsSeldom(t) == iter[t] % PrintFreq = 0

Polls(t) == iter[t] % (IF t = 0 THEN PrintFreq ELSE PrintFreq \div 10) = 0

NoPoll(t) ==
  /\ ~Polls(t) /\ Step(t, "poll", "call")
  /\ UNCHANGED <<generatorVars, loopVars, sharedVars>>

(* Mutant: thread 0 stops without telling the others.                      *)
PollClockAlone ==
  /\ Polls(0) /\ Step(0, "poll", "call")
  /\ private_cancel_flag' = [private_cancel_flag EXCEPT ![0] = @ \/ expired]
  /\ UNCHANGED <<generatorVars, iter, hits, left, late, sharedVars>>

PollClock ==
  /\ Polls(0) /\ Step(0, "poll", "call")
  /\ cancel_flag' = (cancel_flag \/ expired)
  /\ private_cancel_flag' = [private_cancel_flag EXCEPT ![0] = @ \/ expired]
  /\ UNCHANGED <<generatorVars, iter, hits, left, late, started, expired, cache,
                 passed_iterations, total_hits>>

PollFlag(t) ==
  /\ t # 0 /\ Polls(t) /\ Step(t, "poll", "call")
  /\ private_cancel_flag' = [private_cancel_flag EXCEPT ![t] = cancel_flag]
  /\ UNCHANGED <<generatorVars, iter, hits, left, late, sharedVars>>

(* The loop is left between two sequences only.                            *)
Leave(t) ==
  /\ private_cancel_flag[t] /\ Step(t, "loop", "add_iterations")
  /\ UNCHANGED <<generatorVars, loopVars, sharedVars>>

(* Mutant: what another thread has added meanwhile is overwritten.          *)
AddIterationsToOld(t) ==
  /\ Step(t, "add_iterations", "add_hits")
  /\ \E old \in {0, passed_iterations} : passed_iterations' = (old + iter[t]) % Width
  /\ UNCHANGED <<generatorVars, loopVars, cancel_flag, started, expired, cache, total_hits>>

AddIterations(t) ==
  /\ Step(t, "add_iterations", "add_hits")
  /\ passed_iterations' = (passed_iterations + iter[t]) % Width
  /\ UNCHANGED <<generatorVars, loopVars, cancel_flag, started, expired, cache, total_hits>>

AddHits(t) ==
  /\ Step(t, "add_hits", "joined")
  /\ total_hits' = (total_hits + hits[t]) % Width
  /\ UNCHANGED <<generatorVars, loopVars, cancel_flag, started, expired, cache, passed_iterations>>

TimeUp ==
  /\ started /\ ~expired
  /\ expired' = TRUE
  /\ UNCHANGED <<generatorVars, pc, loopVars, cancel_flag, started, cache,
                 passed_iterations, total_hits>>

(* The end of the parallel region: the caller logs the totals.             *)
Joined == \A t \in Threads : pc[t] = "joined"

Proceed(t) ==
  \/ Single(t) \/ Barrier(t) \/ NextSequence(t) \/ Call(t) \/ EndOfSequence(t)
  \/ NoPoll(t) \/ PollFlag(t) \/ (t = 0 /\ PollClock)
  \/ Leave(t) \/ AddIterations(t) \/ AddHits(t)

BenchmarkNext ==
  \/ \E t \in Threads : Proceed(t)
  \/ TimeUp

---------------------------------------------------------------------------
SumOf(f, T) == FoldSet(LAMBDA t, sum : f[t] + sum, 0, T)
InPhase(phases) == {t \in Threads : pc[t] \in phases}

(* What is logged is the sum over the threads, and not yet the count of a   *)
(* thread that is still in its loop.                                       *)
TotalsAreSums ==
  /\ passed_iterations = SumOf(iter, InPhase({"add_hits", "joined"})) % Width
  /\ total_hits = SumOf(hits, InPhase({"joined"})) % Width

LongestSequence == Max({1} \cup {Records[i].count : i \in DOMAIN Records})

(* Once the flag is up a thread makes no more calls than up to its next    *)
(* look at the flag, and from there to the end of its sequence.            *)
LateCalls ==
  \A t \in Threads :
    late[t] <= (IF t = 0 THEN 0 ELSE PrintFreq \div 10) + LongestSequence - 1

(* When the time is up the benchmark ends: every thread gets to see the     *)
(* flag.                                                                   *)
Ends == expired ~> Joined
=============================================================================
