-------------------------- MODULE R5900Reachability --------------------------
(***************************************************************************)
(* Reachability analysis: src/src/analysis/r5900_reachability.cpp.          *)
(*                                                                          *)
(* analyze_r5900_reachability starts at one address and follows the edges   *)
(* of the basic blocks it finds there, first in first out, scheduling no    *)
(* address twice.  One action per way an iteration of its loop goes, and    *)
(* one per edge of a discovered block.  The vectors of calls and issues are *)
(* sets here: no two of their elements are equal, and the report sorts      *)
(* them.                                                                    *)
(***************************************************************************)
EXTENDS R5900ControlFlow

CONSTANTS
  Word,        \* the decoded guest words memory may hold
  EntryPc,     \* the entry_pc arguments callers pass
  BlockLimit,  \* the max_blocks options callers pass
  NoBlockPc    \* the empty std::optional of an issue's related_block

ASSUME InputsAssumption ==
  /\ Word \subseteq DecodedInstruction
  /\ EntryPc \subseteq Pc /\ BlockLimit \subseteq Nat
  /\ NoTarget \notin Pc /\ NoBlockPc \notin Pc

VARIABLES
  mem,                 \* the guest program: no step of the analysis changes it
  entry_pc,
  max_blocks,          \* R5900ReachabilityOptions
  follow_direct_calls,
  phase,               \* "start", "worklist", "edges" or "done"
  error,               \* R5900ReachabilityError of the result
  worklist,
  scheduled,
  blocks, calls, issues,  \* R5900ReachabilityGraph
  edge                 \* index of the edge the loop over block.edges is at

request == <<mem, entry_pc, max_blocks, follow_direct_calls>>
graph   == <<blocks, calls, issues>>
vars    == <<request, phase, error, worklist, scheduled, graph, edge>>

Pending(pc, source_block, is_entry) ==
  [pc |-> pc, source_block |-> source_block, is_entry |-> is_entry]

\* add_issue
Issue(kind, source_block, target, related_block, analysis_error) ==
  [kind |-> kind, source_block |-> source_block, target |-> target,
   related_block |-> related_block, analysis_error |-> analysis_error]

Init ==
  /\ mem \in [MappedPc -> Word]
  /\ entry_pc \in EntryPc /\ max_blocks \in BlockLimit
  /\ follow_direct_calls \in BOOLEAN
  /\ phase = "start" /\ error = "None"
  /\ worklist = <<>> /\ scheduled = {}
  /\ blocks = <<>> /\ calls = {} /\ issues = {}
  /\ edge = 0

(***************************************************************************)
(* Starting                                                                 *)
(***************************************************************************)
RejectBlockLimit ==
  /\ phase = "start" /\ max_blocks = 0
  /\ phase' = "done" /\ error' = "InvalidBlockLimit"
  /\ UNCHANGED <<request, worklist, scheduled, graph, edge>>

Start ==
  /\ phase = "start" /\ max_blocks # 0
  /\ phase' = "worklist"
  /\ worklist' = << Pending(entry_pc, entry_pc, TRUE) >>
  /\ scheduled' = {entry_pc}
  /\ UNCHANGED <<request, error, graph, edge>>

(***************************************************************************)
(* detect_overlapping_leaders                                               *)
(***************************************************************************)
\* Mutant of InsideInstructions: the search stops before the last instruction.
InsideInstructionsButLast(leader, block) ==
  \E i \in 2 .. Len(block.instructions) - 1 : block.instructions[i].pc = leader

\* find_if over the instructions, unless it finds the first one.
InsideInstructions(leader, block) ==
  /\ block.instructions[1].pc # leader
  /\ \E i \in 2 .. Len(block.instructions) : block.instructions[i].pc = leader

OverlapKinds(leader, block) ==
  (IF InsideInstructions(leader, block) THEN {"LeaderInsideBlock"} ELSE {}) \cup
  (IF block.delay_slot = leader THEN {"LeaderInsideDelaySlot"} ELSE {})

OverlappingLeaders(found) ==
  UNION {
    { Issue(kind, found[p[1]].start_pc, found[p[1]].start_pc,
            found[p[2]].start_pc, "None") :
        kind \in OverlapKinds(found[p[1]].start_pc, found[p[2]]) } :
      p \in { q \in (1 .. Len(found)) \X (1 .. Len(found)) :
                found[q[1]].start_pc # found[q[2]].start_pc } }

(***************************************************************************)
(* The worklist loop                                                        *)
(***************************************************************************)
Front == worklist[1]
AtLimit == Len(blocks) >= max_blocks

\* The worklist is empty: the loop ends, and the leaders are compared.
Finish ==
  /\ phase = "worklist" /\ worklist = <<>>
  /\ issues' = issues \cup OverlappingLeaders(blocks)
  /\ phase' = "done"
  /\ UNCHANGED <<request, error, worklist, scheduled, blocks, calls, edge>>

\* Mutant of ReachLimit: the truncation is silent.
ReachLimitSilently ==
  /\ phase = "worklist" /\ worklist # <<>>
  /\ AtLimit
  /\ issues' = issues \cup OverlappingLeaders(blocks)
  /\ worklist' = Tail(worklist)
  /\ phase' = "done"
  /\ UNCHANGED <<request, error, scheduled, blocks, calls, edge>>

\* The break: the rest of the worklist is dropped.
ReachLimit ==
  /\ phase = "worklist" /\ worklist # <<>>
  /\ AtLimit
  /\ issues' = issues \cup OverlappingLeaders(blocks) \cup
       { Issue("BlockLimitReached", Front.source_block, Front.pc, NoBlockPc, "None") }
  /\ worklist' = Tail(worklist)
  /\ phase' = "done"
  /\ UNCHANGED <<request, error, scheduled, blocks, calls, edge>>

FailEntry ==
  /\ phase = "worklist" /\ worklist # <<>> /\ ~ AtLimit
  /\ ~ AnalysisOk(mem, Front.pc) /\ Front.is_entry
  /\ phase' = "done" /\ error' = "EntryAnalysisFailed"
  /\ worklist' = Tail(worklist)
  /\ UNCHANGED <<request, scheduled, graph, edge>>

\* Mutant of FailTarget: the failed target stays at the front of the worklist.
FailTargetWithoutPop ==
  /\ phase = "worklist" /\ worklist # <<>> /\ ~ AtLimit
  /\ ~ AnalysisOk(mem, Front.pc) /\ ~ Front.is_entry
  /\ issues' = issues \cup
       { Issue("TargetAnalysisFailed", Front.source_block, Front.pc, NoBlockPc,
               AnalyzeBasicBlock(mem, Front.pc).error) }
  /\ UNCHANGED <<request, phase, error, worklist, scheduled, blocks, calls, edge>>

FailTarget ==
  /\ phase = "worklist" /\ worklist # <<>> /\ ~ AtLimit
  /\ ~ AnalysisOk(mem, Front.pc) /\ ~ Front.is_entry
  /\ issues' = issues \cup
       { Issue("TargetAnalysisFailed", Front.source_block, Front.pc, NoBlockPc,
               AnalyzeBasicBlock(mem, Front.pc).error) }
  /\ worklist' = Tail(worklist)
  /\ UNCHANGED <<request, phase, error, scheduled, blocks, calls, edge>>

\* Mutant of DiscoverBlock: the loop over the edges starts at the second one.
DiscoverBlockSkippingEdge ==
  /\ phase = "worklist" /\ worklist # <<>> /\ ~ AtLimit
  /\ AnalysisOk(mem, Front.pc)
  /\ blocks' = Append(blocks, AnalyzeBasicBlock(mem, Front.pc).block)
  /\ worklist' = Tail(worklist)
  /\ phase' = "edges" /\ edge' = 2
  /\ UNCHANGED <<request, error, scheduled, calls, issues>>

DiscoverBlock ==
  /\ phase = "worklist" /\ worklist # <<>> /\ ~ AtLimit
  /\ AnalysisOk(mem, Front.pc)
  /\ blocks' = Append(blocks, AnalyzeBasicBlock(mem, Front.pc).block)
  /\ worklist' = Tail(worklist)
  /\ phase' = "edges" /\ edge' = 1
  /\ UNCHANGED <<request, error, scheduled, calls, issues>>

(***************************************************************************)
(* The loop over the edges of a discovered block                            *)
(***************************************************************************)
SameFlow == {"BranchTaken", "BranchNotTaken", "DirectJump", "CallContinuation",
             "Fallthrough"}

\* The edges whose target the analysis goes on to.
Follows(e) ==
  /\ e.target # NoTarget
  /\ e.kind \in SameFlow \/ (e.kind = "DirectCall" /\ follow_direct_calls)

Current == blocks[Len(blocks)]
Terminator(block) == block.instructions[Len(block.instructions)].pc

CallsOf(block, e) ==
  IF e.kind \in {"DirectCall", "IndirectCall"}
  THEN { [source_block |-> block.start_pc, call_pc |-> Terminator(block),
          indirect |-> e.kind = "IndirectCall", target |-> e.target] }
  ELSE {}

ExitsOf(block, e) ==
  IF e.kind \in {"IndirectCall", "IndirectJump"}
  THEN { Issue("UnresolvedIndirectExit", block.start_pc, NoTarget, NoBlockPc, "None") }
  ELSE {}

\* What the analysis records of the edge it is at, whether it follows it or not.
RecordEdge ==
  /\ phase = "edges" /\ edge <= Len(Current.edges)
  /\ calls'  = calls \cup CallsOf(Current, Current.edges[edge])
  /\ issues' = issues \cup ExitsOf(Current, Current.edges[edge])
  /\ edge' = edge + 1
  /\ UNCHANGED <<request, phase, error, blocks>>

\* Mutant of ScheduleTarget: the worklist is a stack.
ScheduleTargetFirst ==
  LET e == Current.edges[edge]
  IN  /\ RecordEdge
      /\ Follows(e) /\ e.target \notin scheduled
      /\ scheduled' = scheduled \cup {e.target}
      /\ worklist' = << Pending(e.target, Current.start_pc, FALSE) >> \o worklist

\* scheduled.insert(target).second
ScheduleTarget ==
  LET e == Current.edges[edge]
  IN  /\ RecordEdge
      /\ Follows(e) /\ e.target \notin scheduled
      /\ scheduled' = scheduled \cup {e.target}
      /\ worklist' = Append(worklist, Pending(e.target, Current.start_pc, FALSE))

\* Mutant of PassEdge: a call is recorded only when its target is new.
PassEdgeSilently ==
  /\ phase = "edges" /\ edge <= Len(Current.edges)
  /\ ~ (Follows(Current.edges[edge]) /\ Current.edges[edge].target \notin scheduled)
  /\ edge' = edge + 1
  /\ UNCHANGED <<request, phase, error, graph, worklist, scheduled>>

\* An edge that is not followed, or whose target is scheduled already.
PassEdge ==
  LET e == Current.edges[edge]
  IN  /\ RecordEdge
      /\ ~ (Follows(e) /\ e.target \notin scheduled)
      /\ UNCHANGED <<worklist, scheduled>>

FinishEdges ==
  /\ phase = "edges" /\ edge > Len(Current.edges)
  /\ phase' = "worklist"
  /\ UNCHANGED <<request, error, worklist, scheduled, graph, edge>>

Next ==
  \/ RejectBlockLimit \/ Start
  \/ Finish \/ ReachLimit \/ FailEntry \/ FailTarget \/ DiscoverBlock
  \/ ScheduleTarget \/ PassEdge \/ FinishEdges

\* The analysis is one call that waits for nothing.
Spec == Init /\ [][Next]_vars
FairSpec == Spec /\ WF_vars(Next)

(***************************************************************************)
(* Properties                                                               *)
(***************************************************************************)
Universe == AlignedPc \cup {entry_pc}

EdgesOf(block) == {block.edges[i] : i \in 1 .. Len(block.edges)}
Discovered == {blocks[i].start_pc : i \in 1 .. Len(blocks)}
Queued == {worklist[i].pc : i \in 1 .. Len(worklist)}
Failed == {i.target : i \in {j \in issues : j.kind = "TargetAnalysisFailed"}}
Dropped == {i.target : i \in {j \in issues : j.kind = "BlockLimitReached"}}

\* The addresses the code at pc leads to, whatever the analysis has done.
Successors(pc) ==
  LET analysis == AnalyzeBasicBlock(mem, pc)
  IN  IF analysis.error = "None"
      THEN {e.target : e \in {x \in EdgesOf(analysis.block) : Follows(x)}}
      ELSE {}

\* The types of the request, the worklist and the graph.
TypeOK ==
  /\ mem \in [MappedPc -> Word] /\ entry_pc \in Pc /\ max_blocks \in Nat
  /\ follow_direct_calls \in BOOLEAN
  /\ phase \in {"start", "worklist", "edges", "done"}
  /\ error \in {"None", "InvalidBlockLimit", "EntryAnalysisFailed"}
  /\ worklist \in Seq([pc : Universe, source_block : Universe, is_entry : BOOLEAN])
  /\ scheduled \subseteq Universe
  /\ blocks \in Seq({AnalyzeBasicBlock(mem, pc).block : pc \in Universe})
  /\ edge \in Nat

\* Every block in the graph is the analysis of its own address, no address has
\* two, and there are never more than max_blocks.
BlocksAreAnalyses ==
  /\ Len(blocks) <= max_blocks
  /\ \A i \in 1 .. Len(blocks) :
       LET analysis == AnalyzeBasicBlock(mem, blocks[i].start_pc)
       IN  analysis.error = "None" /\ blocks[i] = analysis.block
  /\ \A i, j \in 1 .. Len(blocks) : blocks[i].start_pc = blocks[j].start_pc => i = j

\* What is scheduled is in exactly one place: discovered, failed or still queued.
ScheduledOnce ==
  phase \in {"worklist", "edges"} =>
    /\ scheduled = Discovered \cup Failed \cup Queued
    /\ Discovered \cap Failed = {} /\ Discovered \cap Queued = {}
    /\ Failed \cap Queued = {}
    /\ \A i, j \in 1 .. Len(worklist) : worklist[i].pc = worklist[j].pc => i = j

\* The addresses in every set that holds the entry and is closed under edges.
Reachable ==
  LET steps  == {<<pc, Successors(pc)>> : pc \in Universe}
      closed == {S \in SUBSET Universe :
                   /\ entry_pc \in S
                   /\ \A step \in steps : step[1] \in S => step[2] \subseteq S}
  IN  {pc \in Universe : \A S \in closed : pc \in S}

\* The edges of the i-th block that the loop has been at.
TakenEdges(i) ==
  IF phase = "edges" /\ i = Len(blocks) THEN 1 .. edge - 1
                                        ELSE 1 .. Len(blocks[i].edges)

TakenEdgesLeadOn ==
  \A i \in 1 .. Len(blocks) : \A k \in TakenEdges(i) :
    /\ k \in 1 .. Len(blocks[i].edges)
    /\ Follows(blocks[i].edges[k]) => blocks[i].edges[k].target \in scheduled

\* How far the search has come: whatever is scheduled is reachable, the followed
\* edges that the loop has been at lead to scheduled addresses, failed targets
\* have no block, a dropped target had its turn when the graph was full, and
\* nothing is still queued in a finished search that dropped nothing.
SearchInv ==
  /\ scheduled \subseteq Reachable
  /\ TakenEdgesLeadOn
  /\ \A pc \in Failed : ~ AnalysisOk(mem, pc)
  /\ phase = "start" => blocks = <<>> /\ issues = {}
  /\ phase = "edges" => blocks # <<>> /\ edge >= 1
  /\ phase \in {"worklist", "edges"} => entry_pc \in scheduled
  /\ phase # "done" => error = "None" /\ Dropped = {}
  /\ Dropped # {} =>
       Len(blocks) = max_blocks /\ Dropped \subseteq scheduled \ (Discovered \cup Failed)
  /\ phase = "done" /\ error = "None" /\ Dropped = {} =>
       entry_pc \in scheduled /\ scheduled = Discovered \cup Failed

\* A finished graph that reports no truncation is the whole truth: its blocks and
\* its failed targets are exactly the addresses reachable from the entry.
ExactlyReachable ==
  phase = "done" /\ error = "None" /\ Dropped = {} =>
    /\ Discovered = {pc \in Reachable : AnalysisOk(mem, pc)}
    /\ Failed = {pc \in Reachable : ~ AnalysisOk(mem, pc)}

\* A truncated graph says so: when a reachable address was neither analysed nor
\* failed, the limit was reached and one such address is reported.
TruncationIsReported ==
  phase = "done" /\ error = "None" /\ ~ Reachable \subseteq Discovered \cup Failed =>
    /\ Len(blocks) = max_blocks
    /\ Dropped # {} /\ Dropped \subseteq Reachable \ (Discovered \cup Failed)

\* The inductive invariant.
Inv == TypeOK /\ BlocksAreAnalyses /\ ScheduledOnce /\ SearchInv

\* Every call of a discovered block is evidence, followed or not, and every block
\* that leaves through a register has an unresolved exit.
EvidenceIsComplete ==
  phase = "done" =>
    /\ calls = UNION {UNION {CallsOf(block, e) : e \in EdgesOf(block)} :
                        block \in {blocks[i] : i \in 1 .. Len(blocks)}}
    /\ {i \in issues : i.kind = "UnresolvedIndirectExit"}
         = UNION {UNION {ExitsOf(block, e) : e \in EdgesOf(block)} :
                    block \in {blocks[i] : i \in 1 .. Len(blocks)}}

\* The traversal is breadth first, so the graph a limit truncates holds addresses
\* that are no farther from the entry than any reachable address it has left out.
NearestFirst ==
  phase = "done" /\ error = "None" =>
    LET within[n \in Nat] ==  \* at most n edges away from the entry
          IF n = 0 THEN {entry_pc}
          ELSE within[n - 1] \cup UNION {Successors(pc) : pc \in within[n - 1]}
    IN  \A n \in 0 .. Len(blocks) :
          \/ Discovered \subseteq within[n]
          \/ within[n] \subseteq Discovered \cup Failed

\* What a block is made of: its instructions and its delay slot.
Extent(block) ==
  {block.instructions[i].pc : i \in 1 .. Len(block.instructions)} \cup
  {block.delay_slot}

\* No two discovered blocks share an instruction unless an issue says which of
\* them starts inside the other.
OverlapsAreReported ==
  phase = "done" =>
    \A i, j \in 1 .. Len(blocks) :
      i # j /\ (Extent(blocks[i]) \cap Extent(blocks[j])) \ {NoTarget} # {} =>
        \E issue \in issues :
          /\ issue.kind \in {"LeaderInsideBlock", "LeaderInsideDelaySlot"}
          /\ {issue.source_block, issue.related_block}
               = {blocks[i].start_pc, blocks[j].start_pc}

\* The analysis ends, for every program: cycles of guest code included.
AnalysisEnds == <>(phase = "done")
=============================================================================
