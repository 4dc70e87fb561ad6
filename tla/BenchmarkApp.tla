---------------------------- MODULE BenchmarkApp ----------------------------
(***************************************************************************)
(* The program lru_benchmark from its command line to its row in the log   *)
(* (src/src/main.cpp and RandomBenchmarkApp in src/src/benchmark.cpp):     *)
(* which options there are and what they set, what main does with the      *)
(* answer of the parser, and which container runImpl builds.  The measured *)
(* loop itself is in Benchmark, the log file in CsvLog.                    *)
(***************************************************************************)
EXTENDS CommandLine

CONSTANTS
  Lines,        \* the command lines that are tried
  KnownGenerators,  \* the names KeyGenerator::factory knows
  BadLogs,      \* names of log files that cannot be opened
  JunkCode      \* what a register may hold where nothing was returned

Backends == {"dummy", "hash", "lru", "concurrent", "deferred", "tbb", "tbb_hash",
             "hhvm", "b_lru", "b_concurrent", "b_deferred"}

VARIABLES
  argv,         \* history: the command line, as the items it was written in
  program,      \* where main() is
  rc,           \* what the process returned
  row           \* the row that was logged

appVars == <<argv, program, rc, row>>
benchmarkAppVars == <<parserVars, appVars>>

NoRow == [container |-> "none"]

(* The constructor of RandomBenchmarkApp: the options ...                  *)
AppOptions == Excluding(
  << HelpFlag,
     Required(ValueOption("log-file", "L", "text", "log_file")),
     Required(ValueOption("name", "N", "text", "run_name")),
     ValueOption("info", "I", "text", "run_info"),
     Required(ValueOption("generator", "G", "text", "generator")),
     Flag("verbose", "v", "verbose"),
     Required(SetOption("backend", "B", "backend", Backends)),
     ValueOption("threads", "t", "unsigned", "threads"),
     [ValueOption("capacity", "c", "size", "capacity")
        EXCEPT !.marks = {<<"is_item_capacity", TRUE>>}],
     [ValueOption("memory", "m", "size", "capacity")
        EXCEPT !.marks = {<<"is_item_capacity", FALSE>>}],
     ValueOption("print-freq", "q", "size", "print_freq"),
     ValueOption("payload", "p", "int", "payload_level"),
     ValueOption("fix-max-key", "", "bool", "limit_max_key"),
     ValueOption("pull-thrs", "", "double", "pull_threshold"),
     ValueOption("purge-thrs", "", "double", "purge_threshold"),
     ValueOption("time-limit", "", "int", "time_limit"),
     Flag("profile", "", "profile") >>, 9, 10)

(* ... and what the variables hold without them.                           *)
AppDefaults ==
  [log_file |-> "", run_name |-> "", run_info |-> "", generator |-> "", verbose |-> FALSE,
   backend |-> "", threads |-> 1, capacity |-> 0, is_item_capacity |-> FALSE,
   print_freq |-> 1000, payload_level |-> 5, limit_max_key |-> FALSE,
   pull_threshold |-> "0.1", purge_threshold |-> "0.1", time_limit |-> 60, profile |-> FALSE]

(* What main sets when it was called without arguments.                    *)
Preset ==
  [AppDefaults EXCEPT
     !.log_file = "../all.csv", !.run_name = "timeout", !.run_info = "2", !.backend = "dummy",
     !.generator = "normal", !.payload_level = 20, !.threads = 6, !.print_freq = 10000,
     !.is_item_capacity = TRUE, !.capacity = 1024, !.pull_threshold = "0.5",
     !.purge_threshold = "0.01", !.verbose = TRUE]

BenchmarkAppInit ==
  /\ argv \in Lines
  /\ ParserInit(FlattenSeq([k \in DOMAIN argv |-> argv[k].arguments]))
  /\ program = IF argv = <<>> THEN "preset" ELSE "parsing"
  /\ rc = 0
  /\ row = NoRow

Parsing ==
  /\ program = "parsing"
  /\ Parse
  /\ UNCHANGED appVars

(* main without arguments.                                                 *)
MainPreset ==
  /\ program = "preset"
  /\ settings' = Preset
  /\ program' = "running"
  /\ UNCHANGED <<args, positionalOnly, missing, results, phase, at, outcome, argv, rc, row>>

(* RandomBenchmarkApp::parse returns the code of the error it caught, and  *)
(* nothing at all when there was none; main returns a code that is not 0.  *)
Main ==
  /\ program = "parsing" /\ phase = "ended"
  /\ \E code \in IF outcome = "accepted" THEN {0, JunkCode} ELSE {ExitCode(outcome)} :
       IF code # 0 THEN program' = "exited" /\ rc' = code
       ELSE program' = "running" /\ rc' = 0
  /\ UNCHANGED <<parserVars, argv, row>>

(* runImpl<false>: opens the log, builds the container and the generator,  *)
(* measures and logs; an exception is printed and forgotten.               *)
Run ==
  /\ program = "running"
  /\ row' = IF settings.log_file \in BadLogs \/ settings.backend \notin Backends
                 \/ settings.generator \notin KnownGenerators
              THEN NoRow
              ELSE [container |-> settings.backend, log |-> settings.log_file,
                    capacity |-> settings.capacity, items |-> settings.is_item_capacity,
                    threads |-> settings.threads,
                    thresholds |-> <<settings.pull_threshold, settings.purge_threshold>>]
  /\ program' = "exited"
  /\ UNCHANGED <<parserVars, argv, rc>>

BenchmarkAppNext == Parsing \/ MainPreset \/ Main \/ Run

---------------------------------------------------------------------------
(* What a command line says, read item by item and in no order.            *)

(* The pairs of an option and a text that a line spells out.               *)
Gives(line) == FlattenSeq([k \in DOMAIN line |-> line[k].gives])

GivenBy(line, long) == {k \in DOMAIN Gives(line) : Gives(line)[k][1] = long}

ValuesBy(line, o) ==
  UNION {Converted(o, <<Gives(line)[k][2]>>) : k \in GivenBy(line, o.long)}

(* A complete line: all that is required, every value once and well        *)
(* formed, a capacity or a memory size but not both, and nothing else.     *)
Complete(line) ==
  /\ \A k \in DOMAIN line : ~line[k].stray
  /\ \A j, k \in DOMAIN line : j < k => ~line[j].mark
  /\ GivenBy(line, "help") = {}
  /\ \A i \in DOMAIN Options :
       LET o == Options[i]
       IN  /\ o.required => GivenBy(line, o.long) # {}
           /\ o.reads # "flag" =>
                \A j, k \in GivenBy(line, o.long) : j = k /\ ValuesBy(line, o) # {}
  /\ GivenBy(line, "capacity") = {} \/ GivenBy(line, "memory") = {}

Meaning(line) ==
  [v \in DOMAIN Defaults |->
     IF v = "is_item_capacity" THEN GivenBy(line, "capacity") # {}
     ELSE LET values == UNION {ValuesBy(line, Options[i]) :
                                 i \in {j \in DOMAIN Options : Options[j].variable = v}}
          IN  IF values = {} THEN Defaults[v] ELSE CHOOSE x \in values : TRUE]

(* The parser accepts exactly the complete lines and reads them as they    *)
(* are written: whatever the order and the spelling of the options, what   *)
(* stands behind one is its value and nothing else is.                     *)
AcceptedAsWritten ==
  program # "preset" /\ phase = "ended" =>
    /\ outcome = "accepted" <=> Complete(argv)
    /\ outcome = "accepted" => settings = Meaning(argv)

(* A line that is not complete does not reach the log, unless it asks for  *)
(* help, and the caller learns of it by the exit code.                     *)
ErrorsAreReported ==
  program = "exited" /\ argv # <<>> /\ outcome # "CallForHelp" /\ ~Complete(argv) =>
    rc # 0 /\ row = NoRow

(* Both: parse and main do what the line says, or report it.               *)
LinesAreObeyed == AcceptedAsWritten /\ ErrorsAreReported

=============================================================================
