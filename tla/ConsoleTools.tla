---------------------------- MODULE ConsoleTools ----------------------------
(***************************************************************************)
(* The console tools, from their command line to their exit code:           *)
(* Burnout3Analyze (src/src/tools/burnout3_analyze_main.cpp and _app.cpp)   *)
(* and the pacing probe (src/src/platform/windows/                          *)
(* burnout3_pacing_probe_main.cpp and _app.cpp).                            *)
(*                                                                          *)
(* Their effect is on files.  Opening one for output empties it; what is    *)
(* written reaches it no later than when the stream is flushed, and a       *)
(* device that is full shows when it is written to or only then.  Standard  *)
(* output is one more file.  The game is there for its command line.        *)
(*                                                                          *)
(* Left out: what the analysis computes (Ps2ElfLoader and                   *)
(* R5900AnalysisReport say that) and the words of the messages.             *)
(***************************************************************************)
EXTENDS CommandLines, FramePacingTelemetry

CONSTANTS
  MaxArgs,         \* bound on the length of a command line
  Bogus,           \* an option that no program has
  InitialFiles,    \* contents of the files that the values of options name
  Interval,        \* what may pass between two returns of the pacer
  kTargetHz,       \* frames in a second
  DefaultSeconds,  \* how long a capture is unless --seconds says otherwise
  SizeMax          \* largest size_t

ASSUME ToolsAssumption ==
  /\ MaxArgs \in Nat /\ kTargetHz \in Nat \ {0} /\ SizeMax \in Nat
  /\ Interval \subseteq Nat /\ DefaultSeconds \in Nat \ {0}
  /\ InitialFiles \subseteq [DOMAIN Numeral -> {"elf", "other", "absent"}]

VARIABLES
  program,    \* "analyze" | "probe" | "game"
  args,
  step,
  options,    \* the settings of an accepted command line
  error,      \* why the run has failed
  files,
  before,     \* the files as they were when the program was started
  bytes,      \* what the analyzer has read
  previous,         \* the last reading of the clock, from the start of the capture
  frame_durations,
  exit_code

vars == <<program, args, step, options, error, files, before, bytes, previous,
          frame_durations, exit_code>>
capture == <<previous, frame_durations>>
line == <<program, args, before>>

GrammarOf == [analyze |-> AnalyzeGrammar, probe |-> ProbeGrammar, game |-> GameGrammar]

Running == -1
Aborted == -2

Init ==
  /\ program \in DOMAIN GrammarOf
  /\ args \in UNION {[1 .. n -> Options(GrammarOf[program]) \cup {Bogus} \cup DOMAIN Numeral] :
                       n \in 0 .. MaxArgs}
  /\ \E initial \in InitialFiles :
       files = [path \in DOMAIN initial \cup {"stdout"} |->
                  IF path \in DOMAIN initial THEN initial[path] ELSE "empty"]
  /\ before = files
  /\ step = "parse" /\ options = <<>> /\ error = "None" /\ bytes = "nothing"
  /\ previous = 0 /\ frame_durations = <<>>
  /\ exit_code = Running

Given(option) == option \in DOMAIN options
Out == IF Given("--output") THEN options["--output"] ELSE "stdout"

Go(from, to) == step = from /\ step' = to /\ UNCHANGED <<line, error, exit_code>>

\* A step at which the program ends.
Exit(from, code) == step = from /\ step' = "exited" /\ exit_code' = code /\ UNCHANGED line

Fail(from, code, why) == Exit(from, code) /\ error' = why

(***************************************************************************)
(* main: the command line                                                   *)
(***************************************************************************)
ParseArguments ==
  LET result == Parse(GrammarOf[program], args)
  IN  /\ IF result.error # "None"
           THEN Fail("parse", 2, result.error) /\ UNCHANGED options
           ELSE /\ options' = result.given
                /\ IF "--help" \in DOMAIN result.given \/ program = "game"
                     THEN Exit("parse", 0) /\ UNCHANGED error
                     ELSE Go("parse", IF program = "analyze" THEN "input" ELSE "open")
      /\ UNCHANGED <<files, bytes, capture>>

(***************************************************************************)
(* run_burnout3_analyze                                                     *)
(***************************************************************************)
OpenInput ==
  /\ \/ Go("input", "read") /\ files[options["--elf"]] # "absent"
     \/ Fail("input", 3, "InputOpenFailed")
  /\ UNCHANGED <<options, files, bytes, capture>>

\* Mutant of ReadInput: the output is opened while the input is read.
ReadInputOpeningOutput ==
  /\ \/ Go("read", "analysis") /\ bytes' = files[options["--elf"]]
     \/ Fail("read", 3, "InputReadFailed") /\ UNCHANGED bytes
  /\ files' = [files EXCEPT ![Out] = "empty"]
  /\ UNCHANGED <<options, capture>>

ReadInput ==
  /\ \/ Go("read", "analysis") /\ bytes' = files[options["--elf"]]
     \/ Fail("read", 3, "InputReadFailed") /\ UNCHANGED bytes
  /\ UNCHANGED <<options, files, capture>>

Analyze ==
  /\ IF bytes = "elf" THEN Go("analysis", "open") ELSE Fail("analysis", 3, "AnalysisFailed")
  /\ UNCHANGED <<options, files, bytes, capture>>

\* The stream to the output, opened by the analyzer after the analysis and by the
\* probe before the capture.
OpenOutput ==
  LET next == IF program = "analyze" THEN "write" ELSE "construct"
  IN  /\ \/ /\ Go("open", next)
            /\ files' = [files EXCEPT ![Out] = "empty"]
         \/ /\ Given("--output") /\ Fail("open", 3, "OutputOpenFailed")
            /\ UNCHANGED files
      /\ UNCHANGED <<options, bytes, capture>>

WriteReport ==
  /\ \/ Go("write", "flush") /\ UNCHANGED files
     \/ /\ Fail("write", 3, "OutputWriteFailed")
        /\ files' = [files EXCEPT ![Out] = "partial"]
  /\ UNCHANGED <<options, bytes, capture>>

\* The destructor of the stream flushes it, and nobody looks at the outcome.
FlushUnchecked ==
  /\ Exit("flush", 0)
  /\ program = "analyze" \/ ~ Given("--output")
  /\ \E written \in {"report", "partial"} : files' = [files EXCEPT ![Out] = written]
  /\ UNCHANGED <<error, options, bytes, capture>>

(***************************************************************************)
(* run_burnout3_pacing_probe                                                *)
(***************************************************************************)
Seconds == IF Given("--seconds") THEN Numeral[options["--seconds"]] ELSE DefaultSeconds
frame_count == Seconds * kTargetHz

\* The guard against overflow; the constructor of the pacer or the reservation of
\* memory for the durations may throw, and main does not catch.
StartCapture ==
  /\ LET TooLong == Seconds > SizeMax \div kTargetHz
     IN  \/ Fail("construct", 4, "TooLong") /\ TooLong
         \/ Fail("construct", Aborted, "Exception") /\ ~ TooLong
         \/ Go("construct", "frames") /\ ~ TooLong
  /\ UNCHANGED <<options, files, bytes, capture>>

\* Mutant of CaptureFrame: a frame is measured from the start of the capture.
CaptureFrameFromBegin ==
  /\ step = "frames" /\ Len(frame_durations) < frame_count
  /\ \E now \in {previous + d : d \in Interval} :
       /\ frame_durations' = Append(frame_durations, now)
       /\ previous' = now
  /\ UNCHANGED <<line, step, options, error, files, bytes, exit_code>>

CaptureFrame ==
  /\ step = "frames" /\ Len(frame_durations) < frame_count
  /\ \E now \in {previous + d : d \in Interval} :
       /\ frame_durations' = Append(frame_durations, now - previous)
       /\ previous' = now
  /\ UNCHANGED <<line, step, options, error, files, bytes, exit_code>>

RenderReport ==
  /\ step = "frames" /\ Len(frame_durations) = frame_count
  /\ Go("frames", "flush")
  /\ UNCHANGED <<options, files, bytes, capture>>

\* Mutant of FlushOutput: the stream is not looked at after it has been flushed.
FlushOutputUnchecked ==
  /\ program = "probe" /\ Given("--output")
  /\ \E written \in {"report", "partial"} : files' = [files EXCEPT ![Out] = written]
  /\ Exit("flush", 0) /\ UNCHANGED error
  /\ UNCHANGED <<options, bytes, capture>>

FlushOutput ==
  /\ program = "probe" /\ Given("--output")
  /\ \/ Exit("flush", 0) /\ files' = [files EXCEPT ![Out] = "report"] /\ UNCHANGED error
     \/ /\ Fail("flush", 3, "OutputWriteFailed")
        /\ files' = [files EXCEPT ![Out] = "partial"]
  /\ UNCHANGED <<options, bytes, capture>>

Next ==
  \/ ParseArguments
  \/ OpenInput \/ ReadInput \/ Analyze \/ WriteReport
  \/ OpenOutput \/ FlushUnchecked
  \/ StartCapture \/ CaptureFrame \/ RenderReport \/ FlushOutput

Spec == Init /\ [][Next]_vars

(***************************************************************************)
(* Properties                                                               *)
(***************************************************************************)
\* The parsers read their arguments one by one; what they accept and what they make
\* of it is what the command line means as a whole: every option at most once
\* unless it may be repeated, no option taken for a value, no value for an option,
\* and the later of two display modes.
CommandLineMeansWhatItSays ==
  step # "parse" =>
    LET grammar == GrammarOf[program]
    IN  /\ exit_code # 2 <=> Acceptable(grammar, args)
        /\ exit_code # 2 => options = Meaning(grammar, args)

\* A run of the analyzer that fails, for whatever reason, leaves the files as they
\* were: a report of an earlier run is lost only when the device fails to take the
\* new one.
FailedAnalysisKeepsFiles ==
  program = "analyze" /\ exit_code \notin {Running, 0} =>
    \/ files = before
    \/ /\ error = "OutputWriteFailed"
       /\ \A path \in DOMAIN files \ {Out} : files[path] = before[path]

\* The code of success can be believed of the probe: the file holds the report.
ProbeSuccessMeansReport ==
  program = "probe" /\ exit_code = 0 /\ Given("--output") /\ ~ Given("--help") =>
    /\ files[Out] = "report"
    /\ Len(frame_durations) = frame_count

\* The summary describes the capture: its frames cover it without gap or overlap,
\* and each percentile is the one that nearest rank defines.
SummaryDescribesCapture ==
  step = "flush" /\ program = "probe" =>
    LET summary == summarize_frame_pacing(frame_durations)
    IN  /\ summary.sample_count = frame_count
        /\ summary.total = previous
        /\ \A percent \in DOMAIN summary.percentile :
             IsPercentile(frame_durations, percent, summary.percentile[percent])
        /\ \A percent \in 1 .. 100 :
             IsPercentile(frame_durations, percent,
                          nearest_rank_percentile(Sorted(frame_durations), percent))
        /\ \A limit \in Limits :
             (summary.over[limit] = 0) = (summary.max <= limit)

\* What the manual of the analyzer says: the tool does not modify the supplied ELF.
SuppliedElfIsNotModified ==
  program = "analyze" /\ Given("--elf") =>
    files[options["--elf"]] = before[options["--elf"]]
=============================================================================
