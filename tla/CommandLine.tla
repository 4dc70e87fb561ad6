---------------------------- MODULE CommandLine ----------------------------
(***************************************************************************)
(* The command line parser (src/src/CLI11.hpp) as far as the programs of   *)
(* this repository use it: options with one value and flags, no            *)
(* positionals, subcommands or configuration files.  The arguments are     *)
(* consumed from left to right into results_; only then do the callbacks   *)
(* of the options convert the texts and write the variables, in the order  *)
(* the options were added, and only after them are the help flag, the      *)
(* required and excluded options and the left-over arguments looked at.    *)
(*                                                                         *)
(* An argument is a record of its form, the name it carries, the value     *)
(* after a "=", the rest after a one-letter name, and its whole text.      *)
(***************************************************************************)
EXTENDS Integers, SequencesExt

CONSTANTS
  Options,       \* options_: the options in the order they were added
  Defaults,      \* the variables before the command line is read
  Dashed,        \* [rest -> the argument "-" followed by that rest]
  IntegerOf,     \* [text -> the integer that std::stoll reads from all of it]
  Fractions,     \* the other texts that std::stold reads
  Lower,         \* [text -> its lower-case form]
  MaxUnsigned    \* of a 32-bit variable; a size_t holds every integer here

ASSUME ParserAssumption ==
  /\ MaxUnsigned \in Nat
  /\ \A t \in DOMAIN IntegerOf : IntegerOf[t] \in Int

VARIABLES
  args,            \* what is left of the command line
  positionalOnly,  \* an argument "--" was read
  missing,         \* missing_: the arguments no option took
  results,         \* results_ of every option
  phase,           \* what parse() is doing
  at,              \* the option it is at, in _process_callbacks
  settings,        \* the variables the options write
  outcome          \* how parse() ended, or "none"

parserVars == <<args, positionalOnly, missing, results, phase, at, settings, outcome>>

---------------------------------------------------------------------------
(* Options.                                                                *)

NoText == ""

(* add_option: exactly one value, Throw if there are more.                 *)
ValueOption(long, short, reads, variable) ==
  [long |-> long, short |-> short, size |-> 1, policy |-> "throw", reads |-> reads,
   variable |-> variable, values |-> {}, required |-> FALSE, excludes |-> {}, marks |-> {}]

(* add_flag: no value, and giving it again changes nothing.                *)
Flag(long, short, variable) ==
  [ValueOption(long, short, "flag", variable) EXCEPT !.size = 0, !.policy = "takeLast"]

(* set_help_flag: a flag without a variable.                               *)
HelpFlag == [Flag("help", "h", "none") EXCEPT !.policy = "throw"]

(* add_set_ignore_case.                                                    *)
SetOption(long, short, variable, values) ==
  [ValueOption(long, short, "set", variable) EXCEPT !.values = values]

Required(o) == [o EXCEPT !.required = TRUE]

(* excludes: both options come to exclude each other.                      *)
Excluding(options, i, j) ==
  [options EXCEPT ![i].excludes = @ \cup {j}, ![j].excludes = @ \cup {i}]

(* get_items_expected.                                                     *)
ItemsExpected(o) == o.size * (IF o.policy # "throw" THEN -1 ELSE 1)

(* check_lname and check_sname.                                            *)
HasName(o, arg) ==
  \/ arg.form = "long" /\ o.long = arg.name
  \/ arg.form = "short" /\ o.short = arg.name

Found(arg) == {i \in DOMAIN Options : HasName(Options[i], arg)}

(* lexical_cast: the value, or none when the text is not one.              *)
Casts(reads, text) ==
  LET integer == {IntegerOf[t] : t \in {text} \cap DOMAIN IntegerOf}
  IN  CASE reads = "text"     -> {text}
        [] reads = "int"      -> {n \in integer : n <= MaxUnsigned \div 2 /\ -n <= MaxUnsigned \div 2}
        [] reads = "unsigned" -> {n \in integer : 0 <= n /\ n <= MaxUnsigned}
        [] reads = "size"     -> {n \in integer : 0 <= n}
        [] reads = "bool"     -> {n = 1 : n \in integer \cap {0, 1}}
        [] reads = "double"   -> {text} \cap (Fractions \cup DOMAIN IntegerOf)

(* The callback of an option on the texts it was given.                    *)
Converted(o, texts) ==
  CASE o.reads = "flag" -> {TRUE}
    [] o.reads = "set"  -> {Lower[t] : t \in {texts[1]} \cap DOMAIN Lower} \cap o.values
    [] OTHER            -> Casts(o.reads, texts[1])

---------------------------------------------------------------------------
(* _parse: the arguments.                                                  *)

ParserInit(line) ==
  /\ args = line
  /\ positionalOnly = FALSE
  /\ missing = <<>>
  /\ results = [i \in DOMAIN Options |-> <<>>]
  /\ phase = "arguments"
  /\ at = 1
  /\ settings = Defaults
  /\ outcome = "none"

EndWith(how) ==
  /\ phase' = "ended"
  /\ outcome' = how

(* _recognize.                                                             *)
IsOption(arg) == ~positionalOnly /\ arg.form \in {"long", "short"}
IsMark(arg) == ~positionalOnly /\ arg.form = "mark"

AddResult(i, text) == results' = [results EXCEPT ![i] = Append(@, text)]

(* _parse_single on "--", _parse_positional without positionals, and       *)
(* _parse_arg on a name nobody has: the argument is missing.               *)
ParseMissing ==
  /\ phase = "arguments" /\ args # <<>>
  /\ IsOption(args[1]) => Found(args[1]) = {}
  /\ missing' = Append(missing, [mark |-> IsMark(args[1]), text |-> args[1].text])
  /\ positionalOnly' = (positionalOnly \/ IsMark(args[1]))
  /\ args' = Tail(args)
  /\ UNCHANGED <<results, phase, at, settings, outcome>>

(* A value in the argument itself: --name=value, or -nvalue unless the     *)
(* option is a flag.                                                       *)
Attached(o, arg) ==
  IF arg.value # NoText THEN arg.value
  ELSE IF ItemsExpected(o) # 0 THEN arg.rest
  ELSE NoText

ParseAttached(i) ==
  /\ Attached(Options[i], args[1]) # NoText
  /\ AddResult(i, Attached(Options[i], args[1]))
  /\ args' = Tail(args)
  /\ UNCHANGED <<phase, outcome>>

(* A flag; the letters after it are an argument of their own.              *)
ParseFlag(i) ==
  /\ Attached(Options[i], args[1]) = NoText
  /\ ItemsExpected(Options[i]) = 0
  /\ AddResult(i, NoText)
  /\ args' = (IF args[1].rest = NoText THEN <<>> ELSE <<Dashed[args[1].rest]>>) \o Tail(args)
  /\ UNCHANGED <<phase, outcome>>

(* The value is the next argument, whatever that looks like.               *)
ParseNext(i) ==
  /\ Attached(Options[i], args[1]) = NoText
  /\ ItemsExpected(Options[i]) = 1
  /\ IF Len(args) = 1
       THEN EndWith("ArgumentMismatch") /\ args' = <<>> /\ UNCHANGED results
       ELSE /\ AddResult(i, args[2].text)
            /\ args' = Tail(Tail(args))
            /\ UNCHANGED <<phase, outcome>>

ParseArg ==
  /\ phase = "arguments" /\ args # <<>> /\ IsOption(args[1])
  /\ \E i \in Found(args[1]) : ParseAttached(i) \/ ParseFlag(i) \/ ParseNext(i)
  /\ UNCHANGED <<positionalOnly, missing, at, settings>>

ParseEnds ==
  /\ phase = "arguments" /\ args = <<>>
  /\ phase' = "callbacks"
  /\ UNCHANGED <<args, positionalOnly, missing, results, at, settings, outcome>>

---------------------------------------------------------------------------
(* _process and _process_extras.                                           *)

Given(i) == results[i] # <<>>

(* The checks of an option, which only leave a mark, and its callback.     *)
Written(o, value) ==
  [v \in DOMAIN settings |->
     IF v = o.variable THEN value
     ELSE IF \E m \in o.marks : m[1] = v THEN (CHOOSE m \in o.marks : m[1] = v)[2]
     ELSE settings[v]]

(* Mutant: of an option that is given twice the last value is taken.       *)
RunCallbackOfLast ==
  /\ phase = "callbacks" /\ at \in DOMAIN Options
  /\ LET o == Options[at]
         values == IF Given(at) THEN Converted(o, <<Last(results[at])>>) ELSE {}
     IN  IF Given(at) /\ values = {} THEN EndWith("ConversionError") /\ UNCHANGED <<at, settings>>
         ELSE /\ at' = at + 1
              /\ settings' = IF Given(at) THEN Written(o, CHOOSE v \in values : TRUE) ELSE settings
              /\ UNCHANGED <<phase, outcome>>
  /\ UNCHANGED <<args, positionalOnly, missing, results>>

(* _process_callbacks for one option: run_callback if it was given.        *)
RunCallback ==
  /\ phase = "callbacks" /\ at \in DOMAIN Options
  /\ LET o == Options[at]
         texts == IF o.policy = "takeLast" /\ Given(at) THEN <<Last(results[at])>> ELSE results[at]
         values == IF Given(at) THEN Converted(o, texts) ELSE {}
     IN  \/ /\ Given(at) /\ ItemsExpected(o) > 0 /\ Len(texts) # ItemsExpected(o)
            /\ EndWith("ArgumentMismatch")
            /\ UNCHANGED <<at, settings>>
         \/ /\ Given(at) /\ (ItemsExpected(o) > 0 => Len(texts) = ItemsExpected(o))
            /\ values = {}
            /\ EndWith("ConversionError")
            /\ UNCHANGED <<at, settings>>
         \/ /\ Given(at) /\ (ItemsExpected(o) > 0 => Len(texts) = ItemsExpected(o))
            /\ \E v \in values : settings' = Written(o, v)
            /\ at' = at + 1
            /\ UNCHANGED <<phase, outcome>>
         \/ /\ ~Given(at)
            /\ at' = at + 1
            /\ UNCHANGED <<settings, phase, outcome>>
  /\ UNCHANGED <<args, positionalOnly, missing, results>>

(* _process_requirements: what it throws first, if anything.               *)
Unmet(i) ==
  IF Options[i].required /\ ~Given(i) THEN "RequiredError"
  ELSE IF Given(i) /\ \E j \in Options[i].excludes : Given(j) THEN "ExcludesError"
  ELSE "none"

FirstUnmet ==
  LET unmet == {i \in DOMAIN Options : Unmet(i) # "none"}
  IN  IF unmet = {} THEN "none" ELSE Unmet(CHOOSE i \in unmet : \A j \in unmet : i <= j)

(* _process_extras: something other than the "--" was left over.           *)
LeftOver == \E k \in DOMAIN missing : ~missing[k].mark

HelpGiven == \E i \in DOMAIN Options : Options[i].long = "help" /\ Given(i)

(* _process_help_flags, _process_requirements, _process_extras.            *)
Verdict ==
  /\ phase = "callbacks" /\ at \notin DOMAIN Options
  /\ EndWith(IF HelpGiven THEN "CallForHelp"
          ELSE IF FirstUnmet # "none" THEN FirstUnmet
          ELSE IF LeftOver THEN "ExtrasError"
          ELSE "accepted")
  /\ UNCHANGED <<args, positionalOnly, missing, results, at, settings>>

Parse == ParseMissing \/ ParseArg \/ ParseEnds \/ RunCallback \/ Verdict

(* App::exit: ExitCodes, which the thrown errors carry.                    *)
ExitCode(how) ==
  CASE how = "CallForHelp"      -> 0
    [] how = "ConversionError"  -> 104
    [] how = "RequiredError"    -> 106
    [] how = "ExcludesError"    -> 108
    [] how = "ExtrasError"      -> 109
    [] how = "ArgumentMismatch" -> 114
=============================================================================
