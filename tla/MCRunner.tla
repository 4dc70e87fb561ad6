------------------------------- MODULE MCRunner -------------------------------
(***************************************************************************)
(* Small benchmarks for Runner: one trace, with a capacity below the least *)
(* the program is started with, but in the preflight check.                *)
(***************************************************************************)
EXTENDS Runner

MCTraces == << [filename |-> "P8.blis", unique_requests |-> 50000] >>
MCFactors == <<1000>>
MCThreads == <<32>>
MCContainers == <<"lru", "deferred">>
MCPullPurge == << <<0, 0>>, <<100, 700>> >>
MCSteps == <<1, 900>>

MCProcesses == 1 .. 6

Name(b) == [text |-> b, plus |-> FALSE, number |-> 0]
Plus(n) == [text |-> "+", plus |-> TRUE, number |-> n]

(* The speedup benchmark from its first or its second experiment, the      *)
(* preflight check with an index it does not use, meta-parameters, and     *)
(* names that are none.                                                    *)
MCCommandLines ==
  { <<Name("speedup")>>, <<Name("speedup"), Plus(1)>>, <<Plus(1), Name("speedup")>>,
    <<Name("meta"), Plus(2)>>, <<Name("preflight"), Plus(1), Name("speedup")>> }
=============================================================================
