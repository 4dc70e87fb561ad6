------------------------------- MODULE Runner -------------------------------
(***************************************************************************)
(* runner.py: the script that runs the benchmark program over the product  *)
(* of many settings, one process after the other, all of them appending to *)
(* one log.  Its state is the position in the work list of its command     *)
(* line, in the calls of BenchmarkApp.run of a benchmark and in the        *)
(* experiments of a call, and the attributes of the BenchmarkApp object    *)
(* (self.__dict__), which every experiment overwrites in part.  A process  *)
(* that fails, hangs or is interrupted makes it ask the user; the user may *)
(* end the session, and begin another one at a later experiment.           *)
(*                                                                         *)
(* Thresholds are in thousandths.  The processes of the program and the    *)
(* log are those of CsvLog.                                                *)
(***************************************************************************)
EXTENDS CsvLog, FiniteSets, SequencesExt, TLC

CONSTANTS
  Traces,        \* sequence of [filename, unique_requests]
  Factors,       \* capacity_main
  ThreadCounts,  \* sequence of numbers of threads
  Containers,    \* sequence of backends
  PullPurge,     \* sequence of pairs of thresholds
  Steps,         \* the thresholds of meta_parameters
  CommandLines,  \* what the user may type: sequences of [text, plus, number]
  MaxSessions,   \* bound on the sessions of the script
  MaxFaults      \* bound on what goes wrong in them

ASSUME RunnerAssumption ==
  /\ Processes = 1 .. Cardinality(Processes)
  /\ MaxSessions \in Nat /\ MaxFaults \in Nat
  /\ CommandLines \subseteq Seq([text : STRING, plus : BOOLEAN, number : Nat])

DLRUContainers == {"deferred", "b_deferred"}
TIME_LIMIT == 60

-----------------------------------------------------------------------------
(* Overrides and experiments: functions from attribute names to values.    *)

NoOverride == [k \in {} |-> 0]
Assigned(kk, v) == [k \in Range(kk) |-> v[CHOOSE j \in DOMAIN kk : kk[j] = k]]

(* An experiment for each way to assign the first override and, under it,  *)
(* each experiment of the others; every one is a copy of the accumulator.  *)
Under(over, rest) ==
  FlattenSeq([j \in DOMAIN over[2] |->
    [x \in DOMAIN rest |-> Assigned(over[1], over[2][j]) @@ rest[x]]])

(* Mutant: the yielded dictionaries are the one accumulator.               *)
SharedAccumulator(overrides) ==
  LET all == FoldRight(Under, overrides, <<NoOverride>>)
  IN  [x \in DOMAIN all |-> Last(all)]
GenerateExperiments(overrides) == FoldRight(Under, overrides, <<NoOverride>>)

(* A dictionary without thresholds raises KeyError, and is kept.           *)
MetaparamFilter(e) ==
  {"backend", "pull_threshold", "purge_threshold"} \subseteq DOMAIN e =>
    (e["backend"] \in DLRUContainers
       <=> (e["pull_threshold"] # 0 /\ e["purge_threshold"] # 0))

GenerateTraceWorklist(traces, factors) ==
  FlattenSeq([t \in DOMAIN traces |->
    [f \in DOMAIN factors |->
       <<traces[t].filename, traces[t].unique_requests \div factors[f]>>]])

OneAttribute(key, values) == <<<<key>>, [j \in DOMAIN values |-> <<values[j]>>]>>
TraceKeys == <<"generator", "capacity">>
ThresholdKeys == <<"pull_threshold", "purge_threshold">>
FirstOf(s) == SubSeq(s, 1, 1)
LastOf(s) == SubSeq(s, Len(s), Len(s))

(* One call of BenchmarkApp.run: the attributes the benchmark assigns just *)
(* before it, its overrides, the experiments run makes of them, whether it *)
(* is handed the start index, and whether it filters.                      *)
RunCall(sets, overrides, resumes, filters) ==
  [ sets |-> sets, overrides |-> overrides, resumes |-> resumes, filters |-> filters,
    experiments |-> SelectSeq(GenerateExperiments(overrides),
                              LAMBDA e : filters => MetaparamFilter(e)) ]

WarmUp(worklist, threads, filters) ==
  RunCall(NoOverride,
          << OneAttribute("reps", <<1>>), <<TraceKeys, FirstOf(worklist)>>,
             OneAttribute("threads", threads), OneAttribute("backend", <<"dummy">>),
             OneAttribute("time_limit", <<20>>) >>, FALSE, filters)

FullTime == "time_limit" :> TIME_LIMIT

Scalability(reps) ==
  LET worklist == GenerateTraceWorklist(Traces, Factors)
  IN  << WarmUp(worklist, FirstOf(ThreadCounts), FALSE),
         RunCall(FullTime,
                 << OneAttribute("reps", reps), <<TraceKeys, worklist>>,
                    OneAttribute("threads", ThreadCounts), OneAttribute("backend", Containers),
                    <<ThresholdKeys, PullPurge>> >>, TRUE, TRUE) >>

(* preflight_check gets the start index and hands it to neither call.      *)
PreflightCheck ==
  LET worklist == GenerateTraceWorklist(Traces, <<2>>)
  IN  << RunCall(NoOverride,
                 << <<TraceKeys, worklist>>, OneAttribute("backend", <<"dummy">>) >>,
                 FALSE, FALSE),
         RunCall(NoOverride,
                 << <<TraceKeys, FirstOf(worklist)>>, OneAttribute("backend", Containers) >>,
                 FALSE, FALSE) >>

MetaParameters(reps) ==
  LET worklist == GenerateTraceWorklist(Traces, Factors)
  IN  << WarmUp(worklist, LastOf(ThreadCounts), TRUE),
         RunCall(FullTime,
                 << OneAttribute("reps", reps), <<TraceKeys, worklist>>,
                    OneAttribute("threads", ThreadCounts), OneAttribute("backend", <<"lru", "hhvm">>) >>,
                 FALSE, TRUE),
         RunCall(NoOverride,
                 << OneAttribute("reps", reps), <<TraceKeys, worklist>>,
                    OneAttribute("threads", ThreadCounts), OneAttribute("backend", <<"deferred">>),
                    OneAttribute("purge_threshold", Steps), OneAttribute("pull_threshold", Steps) >>,
                 TRUE, TRUE) >>

Benchmarks == [ speedup   |-> Scalability(<<0>>),
                meta      |-> MetaParameters(<<0>>),
                preflight |-> PreflightCheck ]

(* BenchmarkApp.__init__, with what the three benchmarks pass to it.       *)
Constructed(benchmark) ==
  LET pre == benchmark = "preflight"
      thr == IF pre THEN 600 ELSE 700
  IN  [ generator |-> "same", backend |-> "hash", threads |-> 1, capacity |-> 100,
        pull_threshold |-> thr, purge_threshold |-> thr, reps |-> 3,
        time_limit |-> IF pre THEN 5 ELSE TIME_LIMIT ]

(* execute_benchmark: what the program is started with.                    *)
Arguments(self) ==
  [self EXCEPT !["capacity"] = IF @ < 4096 THEN 4096 ELSE @]

-----------------------------------------------------------------------------
(* main: the work list of a command line, whose arguments are              *)
(* [text, plus, number]: a name with "+n" after it, which the name takes,  *)
(* or without.                                                             *)
IsPlus(line, n) == n \in DOMAIN line /\ line[n].plus
Worklist(line) ==
  LET taken[n \in Nat] == n > 1 /\ IsPlus(line, n) /\ ~taken[n - 1]
  IN  FlattenSeq([n \in DOMAIN line |->
        IF taken[n] THEN <<>>
        ELSE << <<line[n].text, IF IsPlus(line, n + 1) THEN line[n + 1].number ELSE 0>> >>])

-----------------------------------------------------------------------------
VARIABLES
  script,      \* over, main, stage, loop, launch, wait or ask
  session,     \* how many sessions were begun
  faults,      \* what went wrong so far
  worklist,    \* what is left of main's worklist
  call,        \* which of the calls of run of the benchmark is running
  index,       \* the loop variable of run, from 0
  attributes,  \* self.__dict__
  old,         \* its copy made by run
  attempt,     \* the last process started
  arguments,   \* process -> what it was started with
  place,       \* process -> the experiment it was started for
  cause,       \* why the user is asked
  answer       \* what the user answered last: s, r, e, or none

runVars == <<worklist, call, index, attributes, old>>
histVars == <<attempt, arguments, place>>
runnerVars == <<logVars, script, session, faults, runVars, histVars, cause, answer>>

RunnerInit ==
  /\ LogInit
  /\ script = "over" /\ session = 0 /\ faults = 0
  /\ worklist = <<>> /\ call = 0 /\ index = 0
  /\ attributes = NoOverride /\ old = NoOverride
  /\ attempt = 0
  /\ arguments = [p \in Processes |-> NoOverride]
  /\ place = [p \in Processes |-> <<>>]
  /\ cause = "none" /\ answer = "none"

(* The user starts the script; an unknown name fails the assertion before  *)
(* anything runs.                                                          *)
StartSession(line) ==
  /\ script = "over" /\ session < MaxSessions
  /\ session' = session + 1
  /\ LET w == Worklist(line)
     IN  IF \A n \in DOMAIN w : w[n][1] \in DOMAIN Benchmarks
         THEN script' = "main" /\ worklist' = w
         ELSE script' = "over" /\ worklist' = <<>>
  /\ UNCHANGED <<logVars, faults, call, index, attributes, old, histVars, cause, answer>>

(* benchmarks[a](first_test) makes its BenchmarkApp.                       *)
NextBenchmark ==
  /\ script = "main" /\ worklist # <<>>
  /\ LET b == Head(worklist)[1]
     IN  attributes' = Constructed(b)
  /\ call' = 1
  /\ script' = "stage"
  /\ UNCHANGED <<logVars, session, faults, worklist, index, old, histVars, cause, answer>>

Finish ==
  /\ script = "main" /\ worklist = <<>>
  /\ script' = "over"
  /\ UNCHANGED <<logVars, session, faults, runVars, histVars, cause, answer>>

CurrentBenchmark == Head(worklist)[1]
Calls == Benchmarks[CurrentBenchmark]
TheExperiments == Calls[call].experiments

(* run: the experiments, filtered, and a copy of the attributes.           *)
BeginRun ==
  /\ script = "stage" /\ call <= Len(Calls)
  /\ attributes' = Calls[call].sets @@ attributes
  /\ old' = attributes'
  /\ index' = 0
  /\ script' = "loop"
  /\ UNCHANGED <<logVars, session, faults, worklist, call, histVars, cause, answer>>

EndBenchmark ==
  /\ script = "stage" /\ call > Len(Calls)
  /\ worklist' = Tail(worklist)
  /\ script' = "main"
  /\ UNCHANGED <<logVars, session, faults, call, index, attributes, old, histVars, cause, answer>>

Start0 == IF Calls[call].resumes THEN Head(worklist)[2] ELSE 0

Skipped(n) == n < Start0

(* The head of the loop: the attributes are set even when the experiment   *)
(* is only listed.                                                         *)
Visit ==
  /\ script = "loop" /\ index < Len(TheExperiments)
  /\ attributes' = TheExperiments[index + 1] @@ attributes
  /\ IF Skipped(index) THEN index' = index + 1 /\ script' = "loop"
                   ELSE index' = index /\ script' = "launch"
  /\ UNCHANGED <<logVars, session, faults, worklist, call, old, histVars, cause, answer>>

EndRun ==
  /\ script = "loop" /\ index >= Len(TheExperiments)
  /\ attributes' = old
  /\ call' = call + 1
  /\ script' = "stage"
  /\ UNCHANGED <<logVars, session, faults, worklist, index, old, histVars, cause, answer>>

(* subprocess.run starts the program.                                      *)
Launch ==
  /\ script = "launch" /\ attempt + 1 \in Processes
  /\ attempt' = attempt + 1
  /\ Start(attempt')
  /\ arguments' = [arguments EXCEPT ![attempt'] = Arguments(attributes)]
  /\ place' = [place EXCEPT ![attempt'] = <<session, Len(worklist), call, index>>]
  /\ script' = "wait"
  /\ cause' = "none" /\ answer' = "none"
  /\ UNCHANGED <<session, faults, runVars>>

GoOn == script' = "loop" /\ index' = index + 1

(* The process has ended by itself: a status other than 0 asks the user.   *)
Returned ==
  /\ script = "wait" /\ life[attempt] = "gone"
  /\ IF code[attempt] = 0
     THEN GoOn /\ UNCHANGED cause
     ELSE script' = "ask" /\ cause' = "code" /\ UNCHANGED index
  /\ UNCHANGED <<logVars, session, faults, worklist, call, attributes, old, histVars, answer>>

Fault == faults < MaxFaults /\ faults' = faults + 1

(* TIME_LIMIT * 10 seconds are over: subprocess.run kills the process and  *)
(* waits for it before it raises TimeoutExpired.                           *)
Timeout ==
  /\ script = "wait" /\ Alive(attempt) /\ Fault
  /\ Kill(attempt)
  /\ script' = "ask" /\ cause' = "timeout"
  /\ UNCHANGED <<session, runVars, histVars, answer>>

(* ctrl-C while the program runs, which gets the signal too.               *)
Interrupt ==
  /\ script = "wait" /\ Alive(attempt) /\ Fault
  /\ Kill(attempt)
  /\ script' = "ask" /\ cause' = "interrupt"
  /\ UNCHANGED <<session, runVars, histVars, answer>>

(* ask_user.  After a bad exit status both answers leave the loop.         *)
AnswerSkip ==
  /\ script = "ask" /\ answer' = "s"
  /\ GoOn
  /\ UNCHANGED <<logVars, session, faults, worklist, call, attributes, old, histVars, cause>>

AnswerRestart ==
  /\ script = "ask" /\ answer' = "r"
  /\ IF cause = "code" THEN GoOn ELSE script' = "launch" /\ index' = index
  /\ UNCHANGED <<logVars, session, faults, worklist, call, attributes, old, histVars, cause>>

AnswerExit ==
  /\ script = "ask" /\ answer' = "e"
  /\ script' = "over"
  /\ UNCHANGED <<logVars, session, faults, runVars, histVars, cause>>

(* ctrl-C, or an error of the script, while no program runs.               *)
Abandon ==
  /\ script \notin {"over", "wait"} /\ Fault
  /\ script' = "over" /\ answer' = "none"
  /\ UNCHANGED <<logVars, session, runVars, histVars, cause>>

ProcessStep ==
  \E p \in Processes :
    /\ \/ Works(p) /\ UNCHANGED faults
       \/ Fails(p) /\ Fault
    /\ UNCHANGED <<script, session, runVars, histVars, cause, answer>>

Answer == AnswerSkip \/ AnswerRestart \/ AnswerExit

ScriptStep == NextBenchmark \/ Finish \/ BeginRun \/ EndBenchmark \/ Visit
              \/ EndRun \/ Launch \/ Returned

RunnerNext ==
  \/ \E line \in CommandLines : StartSession(line)
  \/ ScriptStep \/ Timeout \/ Interrupt \/ Answer \/ Abandon \/ ProcessStep

RunnerSpec == RunnerInit /\ [][RunnerNext]_runnerVars

-----------------------------------------------------------------------------
(* What the experiments of a call should be, said by their number: the     *)
(* digits of n in the lengths of the overrides, the last one fastest.      *)
Lengths(overrides) == [n \in DOMAIN overrides |-> Len(overrides[n][2])]
Weight(overrides, n) ==
  FoldFunctionOnSet(LAMBDA a, b : a * b, 1, Lengths(overrides), n + 1 .. Len(overrides))
Digit(overrides, n, x) == (x \div Weight(overrides, n)) % Len(overrides[n][2])
Combination(overrides, x) ==
  FoldLeftDomain(LAMBDA e, n : Assigned(overrides[n][1],
                                        overrides[n][2][Digit(overrides, n, x) + 1]) @@ e,
                 NoOverride, overrides)
Combinations(c) ==
  LET all == [x \in 1 .. Weight(c.overrides, 0) |-> Combination(c.overrides, x - 1)]
  IN  SelectSeq(all, LAMBDA e : c.filters => MetaparamFilter(e))
Intended(cs) == FoldLeft(LAMBDA s, c : Append(s, Combinations(c)), <<>>, cs)
IntendedOf == [ speedup   |-> Intended(Benchmarks.speedup),
                meta      |-> Intended(Benchmarks.meta),
                preflight |-> Intended(Benchmarks.preflight) ]
Assignments(cs, n) == IF \E m \in 1 .. n : cs[m].sets # NoOverride THEN FullTime ELSE NoOverride

Started == 1 .. attempt
OfThisCall == {p \in Started : SubSeq(place[p], 1, 3) = <<session, Len(worklist), call>>}

(* Whatever was skipped, restarted, or run before in this session, the     *)
(* program is started with the settings of its experiment over those the   *)
(* benchmark began with: no attribute an earlier experiment or an earlier  *)
(* call of run has set shows through (runner.py:269, :286).                *)
StartedAsIntended ==
  script = "wait" /\ life[attempt] = "started" =>
    arguments[attempt] = Arguments(IntendedOf[CurrentBenchmark][call][place[attempt][4] + 1]
                                @@ Assignments(Calls, call) @@ Constructed(CurrentBenchmark))

(* No experiment from the start index on is left out, however many of the  *)
(* earlier ones failed: those started in a call are the numbers from the   *)
(* start index to the one reached.                                         *)
NoneLeftOut ==
  script = "loop" => {place[p][4] : p \in OfThisCall} = Start0 .. index - 1

(* A measurement has the machine to itself: a process that was given up is *)
(* gone before the next one starts.                                        *)
OneAtATime == Cardinality({p \in Processes : Alive(p)}) <= 1

(* The log has its header once, and the rows of the processes in the order *)
(* in which they were started.                                             *)
OneHeaderAndRowsInOrder ==
  /\ \A n \in DOMAIN log : log[n] = Header <=> n = 1
  /\ \A m, n \in 2 .. Len(log) : m < n => log[m][2] < log[n][2]

(* An experiment has two rows in a session only when the first process had *)
(* flushed its row and was then killed, by the time limit or the user,     *)
(* before it had exited.                                                   *)
TwoRowsOnlyAfterAKill ==
  \A p, q \in Started :
    p < q /\ place[p] = place[q] /\ RowOf(p) \in Range(log) => code[p] = Killed

(* The two together: the program is started for every experiment that the  *)
(* user has not passed over, and with its settings.                        *)
EveryExperimentIsMade == NoneLeftOut /\ StartedAsIntended

(* The three together: what the scripts that read the log take it for.     *)
LogIsInOrder == OneAtATime /\ OneHeaderAndRowsInOrder /\ TwoRowsOnlyAfterAKill
=============================================================================
