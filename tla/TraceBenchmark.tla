--------------------------- MODULE TraceBenchmark ---------------------------
(***************************************************************************)
(* The program lru_trace_benchmark (src/src/trace_main.cpp and the trace   *)
(* part of src/src/benchmark.cpp): a list of experiments, each of which    *)
(* reads a trace file, or finds it in the cache of traces already read,    *)
(* plays it several times against a new container and logs the counters.  *)
(* A file is a sequence of 64-bit words that other programs may replace    *)
(* while the list is worked through, which takes hours.                    *)
(***************************************************************************)
EXTENDS Integers, FiniteSets, SequencesExt

CONSTANTS
  TraceInfos,      \* sequence of [path, items]: namespace traces
  CapacityFactors, \* what the items are divided by
  Pulls, Purges,   \* the thresholds that are tried
  Iterations,      \* iterations of the app: the passes that are measured
  FilesAtFirst,    \* [path -> the words of the file, or Absent]
  FilesLater       \* what another program may replace them by

TraceFile == [openable : BOOLEAN, words : Seq(Nat)]

ASSUME TraceBenchmarkAssumption ==
  /\ Iterations \in Nat
  /\ FilesAtFirst \in [DOMAIN FilesAtFirst -> TraceFile]
  /\ FilesLater \in [DOMAIN FilesAtFirst -> TraceFile]
  /\ TraceInfos \in Seq([path : DOMAIN FilesAtFirst, items : Nat])
  /\ CapacityFactors \in Seq(Nat \ {0})
  /\ Pulls \in Seq(ToSet(Pulls)) /\ Purges \in Seq(ToSet(Purges))

Absent == [openable |-> FALSE, words |-> <<>>]

VARIABLES
  files,      \* the file system
  traces,     \* readTrace's static map from paths to traces
  run,        \* the number of the experiment, in the order of the loops
  at_line,    \* where TraceBenchmarkApp::run is
  pass,       \* iter
  position,   \* i and j: how many keys of this pass were asked for
  stored,     \* the keys in the container
  stats,      \* its ProfileStats: find and insert
  rows,       \* the rows logged so far
  measured_hits  \* history: the hits in the measured passes

traceVars == <<files, traces, run, at_line, pass, position, stored, stats, rows, measured_hits>>

(* The loops of hyperparameterTest.                                        *)
Experiments ==
  FlattenSeq([t \in DOMAIN TraceInfos |->
    FlattenSeq([f \in DOMAIN CapacityFactors |->
      FlattenSeq([p \in DOMAIN Pulls |->
        [q \in DOMAIN Purges |->
           [path |-> TraceInfos[t].path,
            capacity |-> TraceInfos[t].items \div CapacityFactors[f],
            pull |-> Pulls[p], purge |-> Purges[q]]]])])])

Experiment == Experiments[run]
Trace == traces[Experiment.path]

TraceInit ==
  /\ files = FilesAtFirst
  /\ traces = [p \in {} |-> <<>>]
  /\ run = 1 /\ at_line = "start" /\ pass = 0 /\ position = 0
  /\ stored = {} /\ stats = [find |-> 0, insert |-> 0] /\ measured_hits = 0
  /\ rows = <<>>

(* Another program puts a file where there was none, or another one.       *)
ReplaceFile ==
  /\ \E p \in DOMAIN files :
       files[p] # FilesLater[p] /\ files' = [files EXCEPT ![p] = FilesLater[p]]
  /\ UNCHANGED <<traces, run, at_line, pass, position, stored, stats, rows, measured_hits>>

---------------------------------------------------------------------------
(* readTraceFile.                                                          *)

(* The records of the words after the header, and the requests they make.  *)
RecordsOf(version, data) ==
  IF version = 1
    THEN [i \in DOMAIN data |-> [start |-> data[i], count |-> 1]]
    ELSE [i \in 1 .. Len(data) \div 2 |-> [start |-> data[2 * i - 1], count |-> data[2 * i]]]

Requests(records) == FoldSeq(LAMBDA r, n : r.count + n, 0, records)

Failure == [ok |-> FALSE]

(* Mutant: the trace is taken as it is.                                    *)
ParsedUnchecked(words) ==
  [ok |-> TRUE, distinct |-> IF Len(words) < 4 THEN 0 ELSE words[4],
   records |-> IF Len(words) < 4 THEN <<>> ELSE RecordsOf(words[1], SubSeq(words, 5, Len(words)))]

(* What comes of a file: the trace, or an exception.                       *)
Parsed(words) ==
  IF Len(words) < 4 THEN Failure
  ELSE LET version == words[1]
           length == words[1] * words[2]
           records == RecordsOf(version, SubSeq(words, 5, 4 + length))
       IN  IF \/ Len(words) < 4 + length
              \/ version \notin {1, 2}
              \/ version = 2 /\ Requests(records) # words[3]
             THEN Failure
             ELSE [ok |-> TRUE, records |-> records, distinct |-> words[4]]

---------------------------------------------------------------------------
(* TraceBenchmarkApp::run and traceBenchmark.                              *)

(* The log is opened and the container built.                              *)
StartRun ==
  /\ at_line = "start" /\ run <= Len(Experiments)
  /\ at_line' = "read"
  /\ pass' = 0 /\ position' = 0
  /\ stored' = {} /\ stats' = [find |-> 0, insert |-> 0] /\ measured_hits' = 0
  /\ UNCHANGED <<files, traces, run, rows>>

(* An exception ends the experiment; the loop goes on with the next one.   *)
EndByException ==
  /\ at_line' = "start" /\ run' = run + 1
  /\ UNCHANGED <<files, pass, position, stored, stats, rows, measured_hits>>

Cached == Experiment.path \in DOMAIN traces

(* readTrace on a path that is not cached.  Only a trace that was read is  *)
(* kept.                                                                   *)
ReadFile ==
  /\ at_line = "read" /\ ~Cached
  /\ LET file == files[Experiment.path]
         parsed == Parsed(file.words)
     IN  IF ~file.openable \/ ~parsed.ok
           THEN EndByException /\ UNCHANGED traces
           ELSE /\ traces' = [p \in DOMAIN traces \cup {Experiment.path} |->
                              IF p = Experiment.path
                                THEN [records |-> parsed.records, distinct |-> parsed.distinct]
                                ELSE traces[p]]
                /\ UNCHANGED <<files, run, at_line, pass, position, stored, stats, rows,
                               measured_hits>>

(* readTrace when it has the trace; an empty one is an error every time.   *)
UseTrace ==
  /\ at_line = "read" /\ Cached
  /\ IF Trace.records = <<>>
       THEN EndByException
       ELSE /\ at_line' = "measure"
            /\ UNCHANGED <<files, run, pass, position, stored, stats, rows, measured_hits>>
  /\ UNCHANGED traces

KeysOf(records) ==
  FlattenSeq([i \in DOMAIN records |-> [j \in 1 .. records[i].count |-> records[i].start + j - 1]])

(* consumeCachedOrCompute on one key: the container counts a lookup, and   *)
(* on a miss an insertion, which makes room when it is full.               *)
Access ==
  /\ at_line = "measure" /\ position < Len(KeysOf(Trace.records))
  /\ LET key == KeysOf(Trace.records)[position + 1]
         hit == key \in stored
     IN  /\ stats' = [find |-> stats.find + 1,
                      insert |-> stats.insert + (IF hit THEN 0 ELSE 1)]
         /\ IF hit THEN stored' = stored
            ELSE IF Cardinality(stored) < Experiment.capacity THEN stored' = stored \cup {key}
            ELSE \E victim \in stored : stored' = (stored \ {victim}) \cup {key}
         /\ measured_hits' = IF hit /\ pass > 0 THEN measured_hits + 1 ELSE measured_hits
  /\ position' = position + 1
  /\ UNCHANGED <<files, traces, run, at_line, pass, rows>>

(* Mutant: the counters go on from the first pass.                         *)
EndPassCounting ==
  /\ at_line = "measure" /\ position = Len(KeysOf(Trace.records)) /\ pass < Iterations
  /\ pass' = pass + 1 /\ position' = 0
  /\ UNCHANGED <<files, traces, run, at_line, stored, stats, rows, measured_hits>>

(* The next pass; the counters are reset before the first measured one.    *)
EndPass ==
  /\ at_line = "measure" /\ position = Len(KeysOf(Trace.records)) /\ pass < Iterations
  /\ pass' = pass + 1 /\ position' = 0
  /\ stats' = IF pass' = 1 THEN [find |-> 0, insert |-> 0] ELSE stats
  /\ UNCHANGED <<files, traces, run, at_line, stored, rows, measured_hits>>

(* TraceCsvLogger::log.                                                    *)
Log ==
  /\ at_line = "measure" /\ position = Len(KeysOf(Trace.records)) /\ pass = Iterations
  /\ rows' = Append(rows, [run |-> run, path |-> Experiment.path, items |-> Trace.distinct,
                           capacity |-> Experiment.capacity, accesses |-> stats.find,
                           hits |-> stats.find - stats.insert, seen |-> measured_hits])
  /\ at_line' = "start" /\ run' = run + 1
  /\ UNCHANGED <<files, traces, pass, position, stored, stats, measured_hits>>

TraceNext ==
  ReplaceFile \/ StartRun \/ ReadFile \/ UseTrace \/ Access \/ EndPass \/ Log

---------------------------------------------------------------------------
(* The logged counters are of the measured passes: as many accesses as the *)
(* trace has requests in each, and as many hits as there were, whatever    *)
(* the unmeasured first pass left in the container.                        *)
RowsCountMeasuredPasses ==
  Iterations > 0 =>
    \A k \in DOMAIN rows :
      /\ rows[k].accesses = Iterations * Requests(traces[rows[k].path].records)
      /\ rows[k].hits = rows[k].seen

(* All experiments on one path are about the same trace, although the file *)
(* may be replaced between them.                                           *)
OneTracePerPath ==
  \A j, k \in DOMAIN rows : rows[j].path = rows[k].path => rows[j].items = rows[k].items

(* Both of these, over all the rows of one process.                        *)
RowsAreRight == RowsCountMeasuredPasses /\ OneTracePerPath

(* What is kept was complete: a trace of the second version makes as many  *)
(* requests as its header, in the file it was read from, has announced.    *)
KeptTracesAreComplete ==
  \A p \in DOMAIN traces :
    \E words \in {FilesAtFirst[p].words, FilesLater[p].words} :
      /\ Len(words) >= 4
      /\ traces[p].distinct = words[4]
      /\ Len(traces[p].records) = words[2]
      /\ words[1] = 2 => Requests(traces[p].records) = words[3]

=============================================================================
