----------------------------- MODULE FrameStats -----------------------------
(***************************************************************************)
(* Frame statistics: src/src/core/frame_stats.cpp.                          *)
(*                                                                          *)
(* A ring of the last kWindowSize samples.  The three durations of a sample *)
(* are stored and summed alike: seconds stands for each of them.  The       *)
(* averages and the rate that a snapshot derives from a sum and the count   *)
(* are left out.                                                            *)
(***************************************************************************)
EXTENDS Integers, SequencesExt

CONSTANTS
  kWindowSize,
  Sample  \* samples the main loop adds: records of seconds and simulation_steps

ASSUME WindowAssumption ==
  /\ kWindowSize \in Nat \ {0}
  /\ Sample \subseteq [seconds : Nat, simulation_steps : Nat]

VARIABLES samples_, next_index_, count_, report

stats == <<samples_, next_index_, count_, report>>

Index == 0 .. kWindowSize - 1
Zero == [seconds |-> 0, simulation_steps |-> 0]
EmptyReport == [total_seconds |-> 0, simulation_steps |-> 0, sample_count |-> 0]

StatsInit ==
  /\ samples_ = [i \in Index |-> Zero]
  /\ next_index_ = 0 /\ count_ = 0
  /\ report = EmptyReport

add_frame(sample) ==
  /\ samples_' = [samples_ EXCEPT ![next_index_] = sample]
  /\ next_index_' = (next_index_ + 1) % kWindowSize
  /\ count_' = IF count_ < kWindowSize THEN count_ + 1 ELSE count_
  /\ UNCHANGED report

\* Mutant of LatestIndex: the latest sample is taken for the last one of the ring.
LastIndex == count_ - 1

LatestIndex == (next_index_ + kWindowSize - 1) % kWindowSize

snapshot ==
  /\ report' = IF count_ = 0 THEN EmptyReport
               ELSE [total_seconds    |-> FoldLeft(LAMBDA x, y : x + y, 0,
                                            [i \in 1 .. count_ |-> samples_[i - 1].seconds]),
                     simulation_steps |-> samples_[LatestIndex].simulation_steps,
                     sample_count     |-> count_]
  /\ UNCHANGED <<samples_, next_index_, count_>>

reset ==
  /\ samples_' = [i \in Index |-> Zero]
  /\ next_index_' = 0 /\ count_' = 0
  /\ UNCHANGED report

StatsNext == (\E sample \in Sample : add_frame(sample)) \/ snapshot \/ reset

StatsSpec == StatsInit /\ [][StatsNext]_stats

(***************************************************************************)
(* Properties                                                               *)
(***************************************************************************)
\* The samples in the ring, oldest first.
Recent ==
  [i \in 1 .. count_ |-> samples_[(next_index_ + kWindowSize - count_ + i - 1) % kWindowSize]]

\* The types of the ring; a ring that is not full has been filled from the start.
TypeOK ==
  /\ samples_ \in [Index -> Sample \cup {Zero}]
  /\ next_index_ \in Index /\ count_ \in 0 .. kWindowSize
  /\ count_ < kWindowSize => next_index_ = count_

\* The ring implements a window of the most recent frames: whenever a snapshot is
\* taken, after however many frames and resets, its sum, its count and its latest
\* step are those of the last kWindowSize frames added since the last reset.
Window == INSTANCE FrameWindow WITH recent <- Recent

ImplementsFrameWindow == Window!Spec
=============================================================================
