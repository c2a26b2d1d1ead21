------------------------ MODULE FramePacingTelemetry ------------------------
(***************************************************************************)
(* The summary of a pacing capture:                                         *)
(* src/src/core/frame_pacing_telemetry.cpp.  Durations are whole; the mean  *)
(* is left as the total it divides, and the deviation is left out.          *)
(***************************************************************************)
EXTENDS Integers, FiniteSets, SequencesExt

\* The limits above which frames are counted, in thirds of a millisecond: one
\* period at 120 Hz, 9, 10 and 12 ms.
Limits == {25, 27, 30, 36}

Total(samples) == FoldLeft(LAMBDA x, y : x + y, 0, samples)

\* The samples in ascending order: the one at a place has fewer samples below it than
\* the place has samples up to it, and no fewer that do not exceed it.
Sorted(samples) ==
  [place \in DOMAIN samples |->
     CHOOSE value \in Range(samples) :
       /\ Cardinality({i \in DOMAIN samples : samples[i] < value}) < place
       /\ Cardinality({i \in DOMAIN samples : samples[i] <= value}) >= place]

\* Mutant of Rank: rounded down.
RankDown(percent, count) == (percent * count) \div 100

\* The ceiling of the percentage of the count.
Rank(percent, count) == (percent * count + 99) \div 100

nearest_rank_percentile(sorted, percent) ==
  LET rank  == Rank(percent, Len(sorted))
      first == IF rank < 1 THEN 1 ELSE rank
  IN  sorted[IF first > Len(sorted) THEN Len(sorted) ELSE first]

EmptySummary == [sample_count |-> 0]

summarize_frame_pacing(samples) ==
  IF samples = <<>> THEN EmptySummary
  ELSE LET sorted == Sorted(samples)
       IN  [sample_count |-> Len(samples), total |-> Total(samples),
            min |-> sorted[1], max |-> sorted[Len(sorted)],
            percentile |-> [percent \in {50, 95, 99} |->
                              nearest_rank_percentile(sorted, percent)],
            over |-> [limit \in Limits |->
                        Cardinality({i \in DOMAIN samples : samples[i] > limit})]]

(***************************************************************************)
(* The definition of a percentile by nearest rank: the least of the samples *)
(* that the percentage of all samples do not exceed.                        *)
(***************************************************************************)
IsPercentile(samples, percent, value) ==
  LET Covers(v) ==
        100 * Cardinality({i \in DOMAIN samples : samples[i] <= v}) >= percent * Len(samples)
  IN  /\ \E i \in DOMAIN samples : samples[i] = value
      /\ Covers(value)
      /\ \A i \in DOMAIN samples : Covers(samples[i]) => value <= samples[i]
=============================================================================
