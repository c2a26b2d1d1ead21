---------------------------- MODULE FrameWindow ----------------------------
(***************************************************************************)
(* What FrameStats promises: statistics of the most recent frames, at most  *)
(* kWindowSize of them, in the order they were added.                       *)
(***************************************************************************)
EXTENDS Integers, SequencesExt

CONSTANTS kWindowSize, Sample

VARIABLES
  recent,  \* the most recent samples, oldest first
  report   \* the last snapshot taken

vars == <<recent, report>>

Total(samples) ==
  FoldLeft(LAMBDA x, y : x + y, 0, [i \in DOMAIN samples |-> samples[i].seconds])

Report(samples) ==
  [total_seconds    |-> Total(samples),
   simulation_steps |-> IF samples = <<>> THEN 0 ELSE Last(samples).simulation_steps,
   sample_count     |-> Len(samples)]

Init == recent = <<>> /\ report = Report(<<>>)

Add(sample) ==
  /\ recent' = IF Len(recent) < kWindowSize THEN Append(recent, sample)
                                            ELSE Append(Tail(recent), sample)
  /\ UNCHANGED report

Snapshot == report' = Report(recent) /\ UNCHANGED recent

Reset == recent' = <<>> /\ UNCHANGED report

Next == (\E sample \in Sample : Add(sample)) \/ Snapshot \/ Reset

Spec == Init /\ [][Next]_vars
=============================================================================
