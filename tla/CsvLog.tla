------------------------------- MODULE CsvLog -------------------------------
(***************************************************************************)
(* csv_logger.h as a process of the benchmark uses it: the log is opened   *)
(* for appending, its header goes to a log that is empty at that moment,   *)
(* the row follows when the measurement is over, and all of it stays in    *)
(* the buffer of the stream until the logger is destroyed.  main.cpp and   *)
(* the runImpl of benchmark.cpp around it decide what a process that fails *)
(* leaves behind.                                                          *)
(*                                                                         *)
(* A line of the log is <<"header">> or <<"row", p>>, p being the process  *)
(* that wrote it: the columns are left out.  Header and row together are   *)
(* far below the buffer of the stream, so that its one flush is one write, *)
(* which O_APPEND puts at the end of the log whoever else writes there.    *)
(***************************************************************************)
EXTENDS Naturals, Sequences

CONSTANT Processes

VARIABLES
  log,      \* the lines of the log file
  life,     \* process -> unborn, started, open, logged, exiting or gone
  buffer,   \* process -> the lines in the buffer of output_
  code      \* process -> its exit status: 0, 1 or Killed

logVars == <<log, life, buffer, code>>

Header == <<"header">>
RowOf(p) == <<"row", p>>

Lives == {"unborn", "started", "open", "logged", "exiting", "gone"}
Killed == 9

Alive(p) == life[p] \notin {"unborn", "gone"}

LogInit ==
  /\ log = <<>>
  /\ life = [p \in Processes |-> "unborn"]
  /\ buffer = [p \in Processes |-> <<>>]
  /\ code = [p \in Processes |-> 0]

Start(p) ==
  /\ life[p] = "unborn"
  /\ life' = [life EXCEPT ![p] = "started"]
  /\ UNCHANGED <<log, buffer, code>>

(* parse() reports an error, and main returns its number.                  *)
ParseFails(p) ==
  /\ life[p] = "started"
  /\ life' = [life EXCEPT ![p] = "exiting"]
  /\ code' = [code EXCEPT ![p] = 1]
  /\ UNCHANGED <<log, buffer>>

(* The constructor throws "Can't open log file!"; runImpl prints the       *)
(* message, and the process ends as if it had measured.                    *)
OpenFails(p) ==
  /\ life[p] = "started"
  /\ life' = [life EXCEPT ![p] = "exiting"]
  /\ UNCHANGED <<log, buffer, code>>

(* Mutant: the header goes to every log.                                   *)
HeaderFor(lines) == <<Header>>
HeaderIfEmpty(lines) == IF lines = <<>> THEN <<Header>> ELSE <<>>

(* Opened with fstream::app, the position is that of the end of the log.   *)
Open(p) ==
  /\ life[p] = "started"
  /\ life' = [life EXCEPT ![p] = "open"]
  /\ buffer' = [buffer EXCEPT ![p] = HeaderIfEmpty(log)]
  /\ UNCHANGED <<log, code>>

(* The measurement is over: log() appends the row of this run.             *)
LogRow(p) ==
  /\ life[p] = "open"
  /\ life' = [life EXCEPT ![p] = "logged"]
  /\ buffer' = [buffer EXCEPT ![p] = Append(@, RowOf(p))]
  /\ UNCHANGED <<log, code>>

Flushed(lines, new) == lines \o new

(* The logger is destroyed at the end of the try block of runImpl, with    *)
(* its row, or without when a runtime_error came before it: that is caught *)
(* too.                                                                    *)
Close(p) ==
  /\ life[p] \in {"open", "logged"}
  /\ life' = [life EXCEPT ![p] = "exiting"]
  /\ log' = Flushed(log, buffer[p])
  /\ buffer' = [buffer EXCEPT ![p] = <<>>]
  /\ UNCHANGED code

(* What is no runtime_error ends the process, as a bad_alloc or a signal   *)
(* does: no destructor runs, the buffer is lost.                           *)
Abort(p) ==
  /\ life[p] \in {"open", "logged"}
  /\ life' = [life EXCEPT ![p] = "exiting"]
  /\ buffer' = [buffer EXCEPT ![p] = <<>>]
  /\ code' = [code EXCEPT ![p] = 1]
  /\ UNCHANGED log

Exit(p) ==
  /\ life[p] = "exiting"
  /\ life' = [life EXCEPT ![p] = "gone"]
  /\ UNCHANGED <<log, buffer, code>>

(* A signal from outside, before or after the flush.                       *)
Kill(p) ==
  /\ Alive(p)
  /\ life' = [life EXCEPT ![p] = "gone"]
  /\ buffer' = [buffer EXCEPT ![p] = <<>>]
  /\ code' = [code EXCEPT ![p] = Killed]
  /\ UNCHANGED log

Works(p) == Open(p) \/ LogRow(p) \/ Close(p) \/ Exit(p)
Fails(p) == ParseFails(p) \/ OpenFails(p) \/ Abort(p)

=============================================================================
