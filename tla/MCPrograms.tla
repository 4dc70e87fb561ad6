---------------------------- MODULE MCPrograms ----------------------------
(***************************************************************************)
(* The programs around the caches, for TLC: the command line, the          *)
(* allocation of a cache, the measuring loop and the trace experiments.    *)
(* Each behaviour follows one of them, from every state the others may     *)
(* hand to it.                                                             *)
(***************************************************************************)
EXTENDS BenchmarkApp, TraceBenchmark, Benchmark, Allocation

VARIABLE part

vars == <<part, benchmarkAppVars, traceVars, benchmarkVars, allocationVars>>

---------------------------------------------------------------------------
(* Command lines.  An item is what a user writes for one option, or a       *)
(* cluster of letters for several.                                         *)

LongArg(name, value) ==
  [form |-> "long", name |-> name, value |-> value, rest |-> "", text |-> "--" \o name \o value]
ShortArg(name, rest) ==
  [form |-> "short", name |-> name, value |-> "", rest |-> rest, text |-> "-" \o name \o rest]
Plain(text) == [form |-> "plain", name |-> "", value |-> "", rest |-> "", text |-> text]
Mark == [form |-> "mark", name |-> "", value |-> "", rest |-> "", text |-> "--"]

MCDashed == "v" :> ShortArg("v", "") @@ "Blru" :> ShortArg("B", "lru") @@ "c4" :> ShortArg("c", "4")
MCIntegerOf == "4" :> 4 @@ "70000" :> 70000 @@ "-4" :> -4 @@ "1" :> 1
MCFractions == {"0.5"}
MCLower == [t \in Backends |-> t] @@ "LRU" :> "lru" @@ "b_DEFERRED" :> "b_deferred" @@ "4" :> "4"

Item(arguments, gives) ==
  [arguments |-> arguments, gives |-> gives, stray |-> FALSE, mark |-> FALSE]
Stray(arguments) == [Item(arguments, <<>>) EXCEPT !.stray = TRUE]

LogItem == Item(<<ShortArg("L", "a.csv")>>, << <<"log-file", "a.csv">> >>)
NameItem == Item(<<LongArg("name", "run")>>, << <<"name", "run">> >>)
TraceItem == Item(<<ShortArg("G", ""), Plain("same")>>, << <<"generator", "same">> >>)
BackendItem == Item(<<LongArg("backend", ""), Plain("LRU")>>, << <<"backend", "LRU">> >>)
ClusterItem == Item(<<ShortArg("v", "Blru")>>, << <<"verbose", "">>, <<"backend", "lru">> >>)

Extra ==
  { Item(<<ShortArg("c", "4")>>, << <<"capacity", "4">> >>),
    Item(<<ShortArg("m", ""), Plain("70000")>>, << <<"memory", "70000">> >>),
    Item(<<LongArg("capacity", ""), Plain("-4")>>, << <<"capacity", "-4">> >>),
    Item(<<ShortArg("t", "70000")>>, << <<"threads", "70000">> >>),
    Item(<<ShortArg("v", "v")>>, << <<"verbose", "">>, <<"verbose", "">> >>),
    Item(<<ShortArg("v", "c4")>>, << <<"verbose", "">>, <<"capacity", "4">> >>),
    Item(<<LongArg("verbose", "no")>>, << <<"verbose", "no">> >>),
    Item(<<LongArg("pull-thrs", "0.5")>>, << <<"pull-thrs", "0.5">> >>),
    Item(<<LongArg("fix-max-key", ""), Plain("1")>>, << <<"fix-max-key", "1">> >>),
    Item(<<ShortArg("p", ""), Plain("-4")>>, << <<"payload", "-4">> >>),
    Item(<<ShortArg("h", "")>>, << <<"help", "">> >>),
    [Item(<<Mark>>, <<>>) EXCEPT !.mark = TRUE],
    Stray(<<Plain("4")>>),
    Stray(<<LongArg("area", "4")>>),
    Stray(<<LongArg("capacity", "")>>) }

Bases ==
  { <<LogItem, NameItem, TraceItem, BackendItem>>,
    <<BackendItem, TraceItem, NameItem, LogItem>>,
    <<LogItem, NameItem, TraceItem, ClusterItem>>,
    <<LogItem, NameItem, ClusterItem>>,
    <<NameItem, TraceItem, BackendItem>> }

(* The required options in some spellings and orders, possibly one short,   *)
(* with up to one item before and one after them; and no arguments at all. *)
MCLines ==
  {<<>>} \cup {a \o b \o c : a \in SeqOf(Extra, 1), b \in Bases, c \in SeqOf(Extra, 1)}

---------------------------------------------------------------------------
(* Small trace files, of both versions, cut off, empty, with a wrong number *)
(* of requests, of an unknown version, and absent.                         *)

File(words) == [openable |-> TRUE, words |-> words]

Version1 == File(<<1, 4, 4, 3, 5, 6, 5, 7>>)
Version2 == File(<<2, 2, 4, 2, 5, 2, 5, 2>>)
CutOff == File(<<2, 2, 4, 3, 5, 2>>)
WrongSum == File(<<2, 2, 9, 3, 5, 2, 6, 2>>)
Empty == File(<<1, 0, 0, 0>>)
NoHeader == File(<<1, 4>>)
Version3 == File(<<3, 1, 4, 3, 5, 6, 7>>)

MCInfos ==
  << [path |-> "zipf", items |-> 2], [path |-> "wiki", items |-> 3],
     [path |-> "web", items |-> 2], [path |-> "spc", items |-> 2] >>
MCFactors == <<1, 2>>
MCPulls == <<"0.01">>
MCPurges == <<"0.002">>

MCFilesAtFirst == "zipf" :> CutOff @@ "wiki" :> Absent @@ "web" :> Version1 @@ "spc" :> Version3
MCFilesLater == "zipf" :> Version2 @@ "wiki" :> Empty @@ "web" :> Version2 @@ "spc" :> WrongSum

---------------------------------------------------------------------------
(* Records of one, two and one keys in turn: two threads do not get the    *)
(* same number of records, and a sequence may end between two polls.       *)
MCRecords == [i \in 0 .. TraceLength - 1 |->
                [start_index |-> 2 * i, count |-> IF i % 3 = 1 THEN 2 ELSE 1]]

(* Shard 0 gets one key more than its smallest share.                      *)
MCGetBucketNr == [k \in Keys |-> IF k <= 5 THEN 0 ELSE 1]

---------------------------------------------------------------------------
In(p) == part = p

Init ==
  /\ part \in {"command line", "allocation", "measuring", "traces"}
  /\ IF In("command line") THEN argv \in Lines ELSE argv = <<>>
  /\ BenchmarkAppInit /\ TraceInit
  /\ IF In("measuring") THEN generator \in Generators
     ELSE generator = CHOOSE g \in Generators : TRUE
  /\ BenchmarkInit
  /\ IF In("allocation") THEN capacity \in Capacities
     ELSE capacity = 0 /\ kind = "HashFixed" /\ is_item_capacity = TRUE
  /\ AllocationInit

Next ==
  \/ In("command line") /\ BenchmarkAppNext /\ UNCHANGED <<part, traceVars, benchmarkVars, allocationVars>>
  \/ In("allocation") /\ AllocationNext /\ UNCHANGED <<part, benchmarkAppVars, traceVars, benchmarkVars>>
  \/ In("measuring") /\ BenchmarkNext /\ UNCHANGED <<part, benchmarkAppVars, traceVars, allocationVars>>
  \/ In("traces") /\ TraceNext /\ UNCHANGED <<part, benchmarkAppVars, benchmarkVars, allocationVars>>

(* Every thread of the loop is run, and time passes.                       *)
Measures(step) ==
  In("measuring") /\ step /\ UNCHANGED <<part, benchmarkAppVars, traceVars, allocationVars>>
Fairness == WF_vars(Measures(TimeUp)) /\ \A t \in Threads : WF_vars(Measures(Proceed(t)))

Spec == Init /\ [][Next]_vars /\ Fairness
=============================================================================
