------------------------ MODULE R5900AnalysisReport ------------------------
(***************************************************************************)
(* The analysis report: src/src/analysis/r5900_analysis_report.cpp.         *)
(*                                                                          *)
(* render_r5900_analysis_report is a pure function of the finished graph,   *)
(* so it is an operator here.  A report is the record of its sections; the  *)
(* wording of the lines is left out, their order is not.                    *)
(***************************************************************************)
EXTENDS R5900Reachability, FiniteSets

Seqs == INSTANCE SequencesExt

\* Mutant of SortedBlocks: the blocks are printed in the order of discovery.
DiscoveredBlocks(found) == found

\* The blocks by start_pc, of which each has its own: before a block are as many as start
\* below it.
SortedBlocks(found) ==
  LET Below(block) == {i \in DOMAIN found : found[i].start_pc < block.start_pc}
  IN  [place \in DOMAIN found |->
         CHOOSE block \in {found[i] : i \in DOMAIN found} :
           Cardinality(Below(block)) = place - 1]

\* Mutant of SitesOf: delay slots are not counted.
SitesOfInstructions(block) == block.instructions

\* The sites of a block count_site is called for, its delay slot last.
SitesOf(block) ==
  IF block.delay_slot = NoTarget THEN block.instructions
  ELSE Append(block.instructions,
              [pc |-> block.delay_slot, decoded |-> mem[block.delay_slot]])

\* The calls of count_site: <<i, k>> is that for the k-th site of the i-th block.
CountedSites(sorted) ==
  UNION {{i} \X DOMAIN SitesOf(sorted[i]) : i \in DOMAIN sorted}

SiteAt(sorted, call) == SitesOf(sorted[call[1]])[call[2]]

IsUnknown(site) == site.decoded.instruction = "Unknown"

\* An ordered map of counters: each key that keys gives, and how often.
CountersOf(keys) ==
  [key \in {keys[x] : x \in DOMAIN keys} |-> Cardinality({x \in DOMAIN keys : keys[x] = key})]

\* instruction_histogram
Histogram(sorted) ==
  CountersOf([call \in CountedSites(sorted) |-> SiteAt(sorted, call).decoded.instruction])

\* The unknown sites in the order of their pc and raw word: as often as they occur.
UnknownSites(sorted) ==
  CountersOf([call \in {c \in CountedSites(sorted) : IsUnknown(SiteAt(sorted, c))} |->
                SiteAt(sorted, call)])

\* Mutant of DirectCallTargets: indirect calls are not excluded.
AllCallTargets(made) == CountersOf([call \in made |-> call.target])

DirectCallTargets(made) ==
  CountersOf([call \in {c \in made : ~ c.indirect /\ c.target # NoTarget} |-> call.target])

\* A block as it is printed: the lines of its edges are sorted.
PrintedBlock(block) ==
  [block EXCEPT !.edges = {@[i] : i \in DOMAIN @}]

\* render_r5900_analysis_report
Report(found, made, raised) ==
  LET sorted  == SortedBlocks(found)
      sites   == CountedSites(sorted)
      unknown == {call \in sites : IsUnknown(SiteAt(sorted, call))}
  IN  [ENTRY |-> entry_pc,
       BLOCKS |-> Len(found),
       INSTRUCTIONS |-> Cardinality(sites),
       DECODED |-> Cardinality(sites \ unknown),
       UNKNOWN |-> Cardinality(unknown),
       CALLS |-> Cardinality(made),
       INDIRECT_EXITS |->
         Cardinality({issue \in raised : issue.kind = "UnresolvedIndirectExit"}),
       CFG_ISSUES |-> Cardinality(raised),
       INSTRUCTION_HISTOGRAM |-> Histogram(sorted),
       UNKNOWN_SITES |-> UnknownSites(sorted),
       DIRECT_CALL_TARGETS |-> DirectCallTargets(made),
       BLOCK |-> [i \in DOMAIN sorted |-> PrintedBlock(sorted[i])],
       CALL |-> made,
       ISSUE |-> raised]

(***************************************************************************)
(* Properties.  They compare the report with what the guest program does    *)
(* one instruction at a time, where there are no basic blocks.              *)
(***************************************************************************)
Reported == phase = "done" /\ error = "None"
TheReport == Report(blocks, calls, issues)

\* A control transfer is performed together with its delay slot.
Performs(pc) ==
  /\ Fetchable(pc)
  /\ IsControlTransfer(mem[pc]) => Fetchable(Add32(pc, 4))

\* Where control goes after the instruction at pc.
GoesTo(pc) ==
  LET d == mem[pc]
  IN  CASE ~ Performs(pc) \/ d.instruction = "Unknown" \/ IsTrap(d) -> {}
        [] Performs(pc) /\ IsControlTransfer(d) ->
             {e.target : e \in {x \in {TransferEdges(d, pc)[i] :
                                         i \in DOMAIN TransferEdges(d, pc)} : Follows(x)}}
        [] OTHER -> {Add32(pc, 4)}

\* The addresses control comes to: those in every set that holds the entry and all that
\* control goes to from it.
Visited ==
  LET steps  == {<<pc, GoesTo(pc)>> : pc \in Universe}
      closed == {S \in SUBSET Universe :
                   /\ entry_pc \in S
                   /\ \A step \in steps : step[1] \in S => step[2] \subseteq S}
  IN  {pc \in Universe : Performs(pc) /\ \A S \in closed : pc \in S}

Slots == {Add32(pc, 4) : pc \in {x \in Visited : IsControlTransfer(mem[x])}}

\* UNKNOWN_SITES is complete and names nothing else: whatever way the blocks were
\* cut, it has the unknown words guest code comes to, in the delay slots too.
UnknownWordsAreListed ==
  Reported /\ Dropped = {} =>
    DOMAIN TheReport.UNKNOWN_SITES
      = {[pc |-> pc, decoded |-> mem[pc]] :
           pc \in {x \in Visited \cup Slots : mem[x].instruction = "Unknown"}}

Overlaps ==
  {issue \in issues : issue.kind \in {"LeaderInsideBlock", "LeaderInsideDelaySlot"}}

\* CALL_SITES counts the calls of the program: when no block lies inside another,
\* it is the number of JAL instructions that guest code comes to for each target.
CallSitesAreCounted ==
  Reported /\ Dropped = {} /\ Overlaps = {} =>
    LET jals == {pc \in Visited : mem[pc].instruction = "Jal"}
    IN  TheReport.DIRECT_CALL_TARGETS =
          [target \in {JumpTarget(mem[pc], pc) : pc \in jals} |->
             Cardinality({pc \in jals : JumpTarget(mem[pc], pc) = target})]

\* Equivalent evidence gives the same report, whatever order it was found in.
ReportIsCanonical ==
  Reported => TheReport = Report(Seqs!Reverse(blocks), calls, issues)
=============================================================================
