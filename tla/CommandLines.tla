---------------------------- MODULE CommandLines ----------------------------
(***************************************************************************)
(* The command lines of the three programs, as their parsers read them:     *)
(* Burnout3Analyze (src/src/tools/burnout3_analyze_options.cpp), the pacing *)
(* probe (src/src/tools/burnout3_pacing_probe_options.cpp) and the game     *)
(* (RuntimeOptions::parse, src/src/core/runtime_options.cpp).               *)
(*                                                                          *)
(* A grammar says what tells the three parsers apart.  An argument is an    *)
(* option, which starts with "--", or anything else, which may serve as the *)
(* value of one.                                                            *)
(***************************************************************************)
EXTENDS Naturals, SequencesExt

CONSTANT Numeral  \* for each argument that is not an option, the positive integer
                  \* it is read as, or 0 if it is none

ASSUME NumeralAssumption == \A value \in DOMAIN Numeral : Numeral[value] \in Nat

(***************************************************************************)
(* Grammars: the options with a value and those without, the ones that may  *)
(* be repeated, the ones whose value is a count, the ones that must be      *)
(* there unless help is asked for, and whether any argument will do as a    *)
(* value.                                                                   *)
(***************************************************************************)
AnalyzeGrammar ==
  [valued |-> {"--elf", "--output", "--max-blocks"},
   flags |-> {"--help", "--follow-direct-calls"}, repeatable |-> {"--help"},
   counts |-> {"--max-blocks"}, required |-> {"--elf"}, greedy |-> FALSE]

ProbeGrammar ==
  [valued |-> {"--seconds", "--output"}, flags |-> {"--help"}, repeatable |-> {},
   counts |-> {"--seconds"}, required |-> {}, greedy |-> FALSE]

DisplayModes == {"--windowed", "--fullscreen"}

GameOptions ==
  {"--game-data", "--log-level", "--debug", "--verbose", "--disable-audio", "--frame-stats"}

GameGrammar ==
  LET valued == {"--game-data", "--log-level"}
  IN  [valued |-> valued, flags |-> (GameOptions \ valued) \cup DisplayModes,
       repeatable |-> GameOptions \cup DisplayModes,
       counts |-> {}, required |-> {}, greedy |-> TRUE]

Options(grammar) == grammar.valued \cup grammar.flags

\* What an option sets: the two display modes undo each other.
Setting(option) == IF option \in DisplayModes THEN "display" ELSE option

(***************************************************************************)
(* The parsers                                                              *)
(***************************************************************************)
\* Where a parser stands: what has been set, the option that waits for its value,
\* and the error that has ended it.
Nothing == [given |-> <<>>, waiting |-> "none", error |-> "None"]

Fails(state, error) == [state EXCEPT !.error = error]

\* The settings with one more, or with another value for one of them.
WithSetting(given, setting, value) ==
  [s \in DOMAIN given \cup {setting} |-> IF s = setting THEN value ELSE given[s]]

Gives(state, option, value) ==
  [state EXCEPT !.given = WithSetting(@, Setting(option), value), !.waiting = "none"]

\* Mutant of TakeValue: an option will do as a value.
TakeAnyValue(grammar, state, argument) ==
  IF state.waiting \in grammar.counts /\ (argument \in DOMAIN Numeral => Numeral[argument] = 0)
    THEN Fails(state, "InvalidCount")
    ELSE Gives(state, state.waiting, argument)

TakeValue(grammar, state, argument) ==
  IF ~ grammar.greedy /\ argument \notin DOMAIN Numeral THEN Fails(state, "MissingValue")
  ELSE IF state.waiting \in grammar.counts /\ Numeral[argument] = 0
    THEN Fails(state, "InvalidCount")
    ELSE Gives(state, state.waiting, argument)

TakeOption(grammar, state, argument) ==
  IF argument \in DOMAIN state.given \ grammar.repeatable
    THEN Fails(state, "DuplicateOption")
  ELSE
    CASE argument \in grammar.flags  -> Gives(state, argument, argument)
      [] argument \in grammar.valued -> [state EXCEPT !.waiting = argument]
      [] OTHER -> Fails(state, "UnknownOption")

Take(grammar, state, argument) ==
  IF state.error # "None" THEN state
  ELSE IF state.waiting # "none" THEN TakeValue(grammar, state, argument)
  ELSE TakeOption(grammar, state, argument)

Finish(grammar, state) ==
  IF state.error # "None" THEN state
  ELSE IF state.waiting # "none" THEN Fails(state, "MissingValue")
  ELSE IF "--help" \in DOMAIN state.given \/ grammar.required \subseteq DOMAIN state.given
    THEN state
    ELSE Fails(state, "MissingRequired")

Parse(grammar, args) ==
  Finish(grammar, FoldLeft(LAMBDA state, argument : Take(grammar, state, argument),
                                Nothing, args))

(***************************************************************************)
(* What a command line means, whatever the order in which it is read        *)
(***************************************************************************)
\* An argument is a value if it follows an option that takes one, unless that is
\* itself a value.
IsValue(grammar, args) ==
  LET value[i \in DOMAIN args] ==
        i > 1 /\ args[i - 1] \in grammar.valued /\ ~ value[i - 1]
  IN  value

Acceptable(grammar, args) ==
  LET value   == IsValue(grammar, args)
      options == {i \in DOMAIN args : ~ value[i]}
  IN  /\ \A i \in options : args[i] \in Options(grammar)
      /\ \A i \in options : args[i] \in grammar.valued => i < Len(args)
      /\ \A i, j \in options : i # j /\ args[i] = args[j] => args[i] \in grammar.repeatable
      /\ \A i \in DOMAIN args \ options :
           /\ args[i] \in DOMAIN Numeral \/ grammar.greedy
           /\ args[i - 1] \in grammar.counts => Numeral[args[i]] > 0
      /\ \/ \E i \in options : args[i] = "--help"
         \/ \A required \in grammar.required : \E i \in options : args[i] = required

\* Each setting has the value that the last option for it gives.
Meaning(grammar, args) ==
  LET value   == IsValue(grammar, args)
      options == {i \in DOMAIN args : ~ value[i]}
      Of(setting) == {i \in options : Setting(args[i]) = setting}
      Latest(setting) == CHOOSE i \in Of(setting) : \A j \in Of(setting) : j <= i
  IN  [setting \in {Setting(args[i]) : i \in options} |->
         LET i == Latest(setting)
         IN  IF args[i] \in grammar.valued THEN args[i + 1] ELSE args[i]]
=============================================================================
