----------------------- MODULE R5900ReachabilityProofs -----------------------
(***************************************************************************)
(* Theorems about the reachability analysis, for every guest program,       *)
(* layout, entry, limit and option.                                         *)
(***************************************************************************)
EXTENDS R5900AnalysisReport, R5900ControlFlowTheorems, FiniteSetTheorems, WellFoundedInduction

(***************************************************************************)
(* The blocks and the edges of the program                                  *)
(***************************************************************************)
\* The block of an analysed address, and where its edges lead.
LEMMA AnalysedBlock ==
  ASSUME mem \in [MappedPc -> Word], NEW pc, AnalysisOk(mem, pc)
  PROVE  LET block == AnalyzeBasicBlock(mem, pc).block
         IN  /\ block.start_pc = pc
             /\ Len(block.edges) \in 0 .. 2
             /\ \A k \in 1 .. Len(block.edges) :
                  block.edges[k].target \in Universe \cup {NoTarget}
<1>1. \A q \in MappedPc : mem[q] \in DecodedInstruction
  BY InputsAssumption
<1> QED BY <1>1, AnalysisEdges DEF Universe

LEMMA SuccessorsInUniverse ==
  ASSUME mem \in [MappedPc -> Word], NEW pc
  PROVE  Successors(pc) \subseteq Universe
<1>1. CASE AnalyzeBasicBlock(mem, pc).error = "None"
  <2>1. AnalysisOk(mem, pc)
    BY <1>1 DEF AnalysisOk
  <2>2. \A e \in EdgesOf(AnalyzeBasicBlock(mem, pc).block) :
          Follows(e) => e.target \in Universe
    BY <2>1, AnalysedBlock DEF EdgesOf, Follows
  <2> QED BY <2>2 DEF Successors
<1>2. CASE AnalyzeBasicBlock(mem, pc).error # "None"
  BY <1>2 DEF Successors
<1> QED BY <1>1, <1>2

\* The followed edges of a block are the successors of its address.
LEMMA FollowedEdge ==
  ASSUME NEW pc, AnalysisOk(mem, pc), NEW k \in 1 .. Len(AnalyzeBasicBlock(mem, pc).block.edges),
         Follows(AnalyzeBasicBlock(mem, pc).block.edges[k])
  PROVE  AnalyzeBasicBlock(mem, pc).block.edges[k].target \in Successors(pc)
BY DEF Successors, EdgesOf, AnalysisOk

(***************************************************************************)
(* Reachability                                                             *)
(***************************************************************************)
LEMMA EntryIsReachable == entry_pc \in Reachable
BY DEF Reachable, Universe

LEMMA ReachableIsClosed ==
  ASSUME mem \in [MappedPc -> Word], NEW pc \in Reachable
  PROVE  Successors(pc) \subseteq Reachable
<1>1. pc \in Universe
  BY DEF Reachable
<1> SUFFICES ASSUME NEW t \in Successors(pc),
                    NEW S \in SUBSET Universe, entry_pc \in S,
                    \A step \in {<<q, Successors(q)>> : q \in Universe} :
                      step[1] \in S => step[2] \subseteq S
             PROVE  t \in S
  BY <1>1, SuccessorsInUniverse DEF Reachable
<1>2. pc \in S
  BY DEF Reachable
<1> HIDE DEF Successors
<1>3. <<pc, Successors(pc)>> \in {<<q, Successors(q)>> : q \in Universe}
  BY <1>1
<1>4. Successors(pc) \subseteq S
  BY <1>2, <1>3
<1> QED BY <1>4

LEMMA ReachableIsLeast ==
  ASSUME NEW S \in SUBSET Universe, entry_pc \in S,
         \A pc \in S : Successors(pc) \subseteq S
  PROVE  Reachable \subseteq S
BY DEF Reachable

\* No step changes the program, so none changes what is reachable in it.
LEMMA ReachableIsFixed ==
  ASSUME UNCHANGED request
  PROVE  /\ Universe' = Universe /\ Reachable' = Reachable
         /\ \A e : Follows(e)' <=> Follows(e)
<1> USE DEF request
<1>1. Universe' = Universe
  BY DEF Universe
<1>2. \A e : Follows(e)' <=> Follows(e)
  BY DEF Follows
<1>3. \A pc : Successors(pc)' = Successors(pc)
  BY <1>2 DEF Successors
<1>4. Reachable' = Reachable
  BY <1>1, <1>3 DEF Reachable
<1> QED BY <1>1, <1>2, <1>4

(***************************************************************************)
(* The worklist and the lists of the graph                                  *)
(***************************************************************************)
\* Taking the front off the worklist takes exactly its address off the queue.
LEMMA FrontLeaves ==
  ASSUME NEW T, worklist \in Seq(T), worklist # <<>>, worklist' = Tail(worklist),
         \A i, j \in 1 .. Len(worklist) : worklist[i].pc = worklist[j].pc => i = j
  PROVE  /\ Front \in T /\ worklist' \in Seq(T)
         /\ Queued = Queued' \cup {Front.pc} /\ Front.pc \notin Queued'
         /\ \A i, j \in 1 .. Len(worklist)' : worklist'[i].pc = worklist'[j].pc => i = j
<1>1. /\ Len(worklist) \in Nat /\ Len(worklist) >= 1
      /\ Len(worklist)' = Len(worklist) - 1
      /\ \A i \in 1 .. Len(worklist) - 1 : worklist'[i] = worklist[i + 1]
      /\ worklist[1] \in T /\ worklist' \in Seq(T)
  <2>1. Len(worklist) \in Nat /\ Len(worklist) >= 1 /\ worklist[1] \in T
    OBVIOUS
  <2>2. worklist' \in Seq(T) /\ Len(worklist)' = Len(worklist) - 1
    BY <2>1
  <2>3. \A i \in 1 .. Len(worklist) - 1 : worklist'[i] = worklist[i + 1]
    BY <2>1
  <2> QED BY <2>1, <2>2, <2>3
<1>2. \A i \in 1 .. Len(worklist) - 1 : i + 1 \in 1 .. Len(worklist) /\ i + 1 # 1
  BY <1>1
<1>3. Queued \subseteq Queued' \cup {Front.pc}
  <2> SUFFICES ASSUME NEW i \in 1 .. Len(worklist)
               PROVE  worklist[i].pc \in Queued' \cup {Front.pc}
    BY DEF Queued
  <2>1. CASE i = 1
    BY <2>1 DEF Front
  <2>2. CASE i # 1
    <3>1. i - 1 \in 1 .. Len(worklist) - 1 /\ (i - 1) + 1 = i
      BY <1>1, <2>2
    <3>2. worklist'[i - 1] = worklist[i] /\ i - 1 \in 1 .. Len(worklist)'
      BY <1>1, <3>1
    <3>3. worklist'[i - 1].pc \in Queued'
      BY <3>2 DEF Queued
    <3> QED BY <3>2, <3>3
  <2> QED BY <2>1, <2>2
<1>4. Queued' \cup {Front.pc} \subseteq Queued
  <2>1. 1 \in 1 .. Len(worklist)
    BY <1>1
  <2> QED BY <1>1, <1>2, <2>1 DEF Queued, Front
<1>5. Front.pc \notin Queued'
  <2>1. 1 \in 1 .. Len(worklist)
    BY <1>1
  <2> QED BY <1>1, <1>2, <2>1 DEF Queued, Front
<1>6. ASSUME NEW i \in 1 .. Len(worklist)', NEW j \in 1 .. Len(worklist)',
             worklist'[i].pc = worklist'[j].pc
      PROVE  i = j
  <2>1. i + 1 = j + 1
    BY <1>1, <1>2, <1>6
  <2> QED BY <1>1, <2>1
<1> QED BY <1>1, <1>3, <1>4, <1>5, <1>6 DEF Front

\* Scheduling an address that is not queued adds exactly it to the queue.
LEMMA TargetJoins ==
  ASSUME NEW T, worklist \in Seq(T), NEW p \in T, worklist' = Append(worklist, p),
         p.pc \notin Queued,
         \A i, j \in 1 .. Len(worklist) : worklist[i].pc = worklist[j].pc => i = j
  PROVE  /\ worklist' \in Seq(T)
         /\ Queued' = Queued \cup {p.pc}
         /\ \A i, j \in 1 .. Len(worklist)' : worklist'[i].pc = worklist'[j].pc => i = j
<1>1. /\ Len(worklist) \in Nat /\ Len(worklist)' = Len(worklist) + 1
      /\ \A i \in 1 .. Len(worklist) : worklist'[i] = worklist[i]
      /\ worklist'[Len(worklist) + 1] = p /\ worklist' \in Seq(T)
  OBVIOUS
<1>2. \A i \in 1 .. Len(worklist)' : i \in 1 .. Len(worklist) \/ i = Len(worklist) + 1
  BY <1>1
<1>3. 1 .. Len(worklist) \subseteq 1 .. Len(worklist)' /\ Len(worklist) + 1 \in 1 .. Len(worklist)'
  BY <1>1
<1>4. Queued' = Queued \cup {p.pc}
  BY <1>1, <1>2, <1>3 DEF Queued
<1>5. \A i, j \in 1 .. Len(worklist)' : worklist'[i].pc = worklist'[j].pc => i = j
  BY <1>1, <1>2 DEF Queued
<1> QED BY <1>1, <1>4, <1>5

\* A block appended to the graph is one more discovered address.
LEMMA BlockJoins ==
  ASSUME NEW T, blocks \in Seq(T), NEW b \in T, blocks' = Append(blocks, b)
  PROVE  /\ blocks' \in Seq(T) /\ Len(blocks) \in Nat /\ Len(blocks)' = Len(blocks) + 1
         /\ \A i \in 1 .. Len(blocks) : blocks'[i] = blocks[i]
         /\ blocks'[Len(blocks) + 1] = b
         /\ \A i \in 1 .. Len(blocks)' : i \in 1 .. Len(blocks) \/ i = Len(blocks) + 1
         /\ Discovered' = Discovered \cup {b.start_pc}
<1>1. /\ Len(blocks) \in Nat /\ Len(blocks)' = Len(blocks) + 1
      /\ \A i \in 1 .. Len(blocks) : blocks'[i] = blocks[i]
      /\ blocks'[Len(blocks) + 1] = b /\ blocks' \in Seq(T)
  OBVIOUS
<1>2. \A i \in 1 .. Len(blocks)' : i \in 1 .. Len(blocks) \/ i = Len(blocks) + 1
  BY <1>1
<1>3. 1 .. Len(blocks) \subseteq 1 .. Len(blocks)' /\ Len(blocks) + 1 \in 1 .. Len(blocks)'
  BY <1>1
<1>4. Discovered' = Discovered \cup {b.start_pc}
  BY <1>1, <1>2, <1>3 DEF Discovered
<1> QED BY <1>1, <1>2, <1>4

\* Issues of the other kinds leave the failed and the dropped targets alone.
LEMMA OtherIssues ==
  ASSUME NEW new, issues' = issues \cup new,
         \A i \in new : i.kind \notin {"TargetAnalysisFailed", "BlockLimitReached"}
  PROVE  Failed' = Failed /\ Dropped' = Dropped
BY DEF Failed, Dropped

LEMMA OverlapIssues ==
  \A found : \A i \in OverlappingLeaders(found) :
    i.kind \in {"LeaderInsideBlock", "LeaderInsideDelaySlot"}
BY DEF OverlappingLeaders, OverlapKinds, Issue

LEMMA ExitIssues ==
  \A block, e : \A i \in ExitsOf(block, e) : i.kind = "UnresolvedIndirectExit"
BY DEF ExitsOf, Issue

(***************************************************************************)
(* The inductive invariant                                                  *)
(***************************************************************************)
\* What the invariant says of one discovered block.
LEMMA BlockFacts ==
  ASSUME Inv, NEW i \in 1 .. Len(blocks)
  PROVE  /\ blocks[i].start_pc \in Discovered
         /\ AnalysisOk(mem, blocks[i].start_pc)
         /\ blocks[i] = AnalyzeBasicBlock(mem, blocks[i].start_pc).block
         /\ Len(blocks[i].edges) \in Nat
<1>1. mem \in [MappedPc -> Word]
  BY DEF Inv, TypeOK
<1>2. /\ AnalysisOk(mem, blocks[i].start_pc)
      /\ blocks[i] = AnalyzeBasicBlock(mem, blocks[i].start_pc).block
  BY DEF Inv, BlocksAreAnalyses, AnalysisOk
<1>3. Len(blocks[i].edges) \in Nat
  BY <1>1, <1>2, AnalysedBlock
<1>4. blocks[i].start_pc \in Discovered
  BY DEF Discovered
<1> QED BY <1>2, <1>3, <1>4

\* The scheduled addresses of a search that goes on are its discovered ones, its
\* failed ones and its queued ones; so a discovered block is reachable.
LEMMA DiscoveredIsReachable ==
  ASSUME Inv, phase \in {"worklist", "edges"}
  PROVE  Discovered \cup Failed \cup Queued = scheduled /\ scheduled \subseteq Reachable
BY DEF Inv, ScheduledOnce, SearchInv

\* A step that takes no new edge keeps what the taken ones lead to.
LEMMA TakenEdgesKeep ==
  ASSUME TakenEdgesLeadOn, UNCHANGED <<request, blocks>>, scheduled \subseteq scheduled',
         \A i \in 1 .. Len(blocks) : TakenEdges(i)' \subseteq TakenEdges(i)
  PROVE  TakenEdgesLeadOn'
<1>1. \A e : Follows(e)' <=> Follows(e)
  BY ReachableIsFixed
<1> QED BY <1>1 DEF TakenEdgesLeadOn

\* A step that leaves the program and the blocks alone keeps what they are.
LEMMA BlocksKeep ==
  ASSUME BlocksAreAnalyses, UNCHANGED <<request, blocks>>
  PROVE  BlocksAreAnalyses' /\ Discovered' = Discovered
BY DEF BlocksAreAnalyses, Discovered, request

LEMMA InitInv ==
  ASSUME Init
  PROVE  Inv
<1> USE DEF Init
<1>1. Discovered = {} /\ Queued = {} /\ Failed = {} /\ Dropped = {}
  BY DEF Discovered, Queued, Failed, Dropped
<1>2. TypeOK
  BY InputsAssumption DEF TypeOK
<1>3. BlocksAreAnalyses
  BY InputsAssumption DEF BlocksAreAnalyses
<1>4. ScheduledOnce
  BY DEF ScheduledOnce
<1>5. SearchInv
  <2>1. TakenEdgesLeadOn
    BY DEF TakenEdgesLeadOn
  <2> QED BY <1>1, <2>1 DEF SearchInv
<1> QED BY <1>2, <1>3, <1>4, <1>5 DEF Inv

(***************************************************************************)
(* Every step preserves it                                                  *)
(***************************************************************************)
LEMMA RejectBlockLimitPreserves ==
  ASSUME Inv, RejectBlockLimit
  PROVE  Inv'
<1> USE DEF RejectBlockLimit, Inv, graph
<1>1. UNCHANGED request /\ Universe' = Universe /\ Reachable' = Reachable
  BY ReachableIsFixed
<1>2. TypeOK'
  BY <1>1 DEF TypeOK, request
<1>3. BlocksAreAnalyses'
  BY <1>1, BlocksKeep
<1>4. ScheduledOnce'
  BY DEF ScheduledOnce
<1>5. SearchInv'
  <2>1. TakenEdgesLeadOn'
    BY <1>1, TakenEdgesKeep DEF SearchInv, TakenEdges
  <2>2. Failed' = Failed /\ Dropped' = Dropped /\ Dropped = {}
    BY DEF Failed, Dropped, SearchInv
  <2> QED BY <1>1, <2>1, <2>2 DEF SearchInv, request, AnalysisOk
<1> QED BY <1>2, <1>3, <1>4, <1>5

LEMMA StartPreserves ==
  ASSUME Inv, Start
  PROVE  Inv'
<1> USE DEF Start, Inv, graph
<1>1. UNCHANGED request /\ Universe' = Universe /\ Reachable' = Reachable
  BY ReachableIsFixed
<1>2. TypeOK'
  <2>1. entry_pc \in Universe
    BY DEF Universe
  <2> QED BY <1>1, <2>1 DEF TypeOK, request, Pending
<1>3. BlocksAreAnalyses'
  BY <1>1, BlocksKeep
<1>4. /\ Discovered' = {} /\ Failed' = {} /\ Dropped' = {} /\ Queued' = {entry_pc}
      /\ Len(worklist)' = 1
  BY DEF SearchInv, Discovered, Failed, Dropped, Queued, Pending
<1>5. ScheduledOnce'
  BY <1>4 DEF ScheduledOnce
<1>6. SearchInv'
  <2>1. TakenEdgesLeadOn'
    BY DEF SearchInv, TakenEdgesLeadOn
  <2> QED BY <1>1, <1>4, <2>1, EntryIsReachable DEF SearchInv, request
<1> QED BY <1>2, <1>3, <1>5, <1>6

LEMMA FinishPreserves ==
  ASSUME Inv, Finish
  PROVE  Inv'
<1> USE DEF Finish, Inv
<1>1. UNCHANGED request /\ Universe' = Universe /\ Reachable' = Reachable
  BY ReachableIsFixed
<1>2. TypeOK'
  BY <1>1 DEF TypeOK, request
<1>3. BlocksAreAnalyses' /\ Discovered' = Discovered
  BY <1>1, BlocksKeep
<1>4. ScheduledOnce'
  BY DEF ScheduledOnce
<1>5. Failed' = Failed /\ Dropped' = Dropped /\ Queued = {}
  <2>1. \A i \in OverlappingLeaders(blocks) :
          i.kind \notin {"TargetAnalysisFailed", "BlockLimitReached"}
    BY OverlapIssues
  <2>2. issues' = issues \cup OverlappingLeaders(blocks)
    OBVIOUS
  <2>3. Failed' = Failed /\ Dropped' = Dropped
    BY <2>1, <2>2, OtherIssues
  <2>4. Queued = {}
    BY DEF Queued
  <2> QED BY <2>3, <2>4
<1>6. SearchInv'
  <2>1. TakenEdgesLeadOn'
    BY <1>1, TakenEdgesKeep DEF SearchInv, TakenEdges
  <2>2. scheduled = Discovered \cup Failed
    BY <1>5, DiscoveredIsReachable
  <2> QED BY <1>1, <1>3, <1>5, <2>1, <2>2 DEF SearchInv, request, AnalysisOk
<1> QED BY <1>2, <1>3, <1>4, <1>6

\* The front of the worklist: what an iteration of the loop takes off it.
LEMMA FrontFacts ==
  ASSUME Inv, phase = "worklist", worklist # <<>>, worklist' = Tail(worklist),
         UNCHANGED request
  PROVE  /\ Front.pc \in scheduled /\ Front.pc \in Universe
         /\ Front.pc \notin Discovered /\ Front.pc \notin Failed
         /\ worklist' \in Seq([pc : Universe, source_block : Universe, is_entry : BOOLEAN])
         /\ Queued = Queued' \cup {Front.pc} /\ Front.pc \notin Queued'
         /\ \A i, j \in 1 .. Len(worklist)' : worklist'[i].pc = worklist'[j].pc => i = j
<1> DEFINE T == [pc : Universe, source_block : Universe, is_entry : BOOLEAN]
<1>1. worklist \in Seq(T)
  BY DEF Inv, TypeOK
<1>2. \A i, j \in 1 .. Len(worklist) : worklist[i].pc = worklist[j].pc => i = j
  BY DEF Inv, ScheduledOnce
<1>3. /\ Front \in T /\ worklist' \in Seq(T)
      /\ Queued = Queued' \cup {Front.pc} /\ Front.pc \notin Queued'
      /\ \A i, j \in 1 .. Len(worklist)' : worklist'[i].pc = worklist'[j].pc => i = j
  <2> HIDE DEF T
  <2> QED BY <1>1, <1>2, FrontLeaves
<1> QED BY <1>3 DEF Inv, ScheduledOnce

LEMMA ReachLimitPreserves ==
  ASSUME Inv, ReachLimit
  PROVE  Inv'
<1> USE DEF ReachLimit
<1>1. UNCHANGED request /\ Universe' = Universe /\ Reachable' = Reachable
  BY ReachableIsFixed
<1>2. /\ Front.pc \in scheduled /\ Front.pc \notin Discovered \cup Failed
      /\ worklist' \in Seq([pc : Universe, source_block : Universe, is_entry : BOOLEAN])
  BY <1>1, FrontFacts
<1>3. TypeOK'
  BY <1>1, <1>2 DEF Inv, TypeOK, request
<1>4. BlocksAreAnalyses' /\ Discovered' = Discovered
  BY <1>1, BlocksKeep DEF Inv
<1>5. ScheduledOnce'
  BY DEF ScheduledOnce
<1>6. Failed' = Failed /\ Dropped' = {Front.pc}
  <2>1. \A i \in OverlappingLeaders(blocks) :
          i.kind \notin {"TargetAnalysisFailed", "BlockLimitReached"}
    BY OverlapIssues
  <2>2. Dropped = {}
    BY DEF Inv, SearchInv
  <2>3. /\ Issue("BlockLimitReached", Front.source_block, Front.pc, NoBlockPc, "None").kind
             = "BlockLimitReached"
        /\ Issue("BlockLimitReached", Front.source_block, Front.pc, NoBlockPc, "None").target
             = Front.pc
    BY DEF Issue
  <2> QED BY <2>1, <2>2, <2>3 DEF Failed, Dropped
<1>7. Len(blocks) = max_blocks
  BY DEF AtLimit, Inv, TypeOK, BlocksAreAnalyses
<1>8. SearchInv'
  <2>1. TakenEdgesLeadOn'
    BY <1>1, TakenEdgesKeep DEF Inv, SearchInv, TakenEdges
  <2> QED BY <1>1, <1>2, <1>4, <1>6, <1>7, <2>1 DEF Inv, SearchInv, request, AnalysisOk
<1> QED BY <1>3, <1>4, <1>5, <1>8 DEF Inv

LEMMA FailEntryPreserves ==
  ASSUME Inv, FailEntry
  PROVE  Inv'
<1> USE DEF FailEntry, graph
<1>1. UNCHANGED request /\ Universe' = Universe /\ Reachable' = Reachable
  BY ReachableIsFixed
<1>2. worklist' \in Seq([pc : Universe, source_block : Universe, is_entry : BOOLEAN])
  BY <1>1, FrontFacts
<1>3. TypeOK'
  BY <1>1, <1>2 DEF Inv, TypeOK, request
<1>4. BlocksAreAnalyses' /\ Discovered' = Discovered
  BY <1>1, BlocksKeep DEF Inv
<1>5. ScheduledOnce'
  BY DEF ScheduledOnce
<1>6. SearchInv'
  <2>1. TakenEdgesLeadOn'
    BY <1>1, TakenEdgesKeep DEF Inv, SearchInv, TakenEdges
  <2>2. Failed' = Failed /\ Dropped' = Dropped /\ Dropped = {}
    BY DEF Failed, Dropped, Inv, SearchInv
  <2> QED BY <1>1, <1>4, <2>1, <2>2 DEF Inv, SearchInv, request, AnalysisOk
<1> QED BY <1>3, <1>4, <1>5, <1>6 DEF Inv

LEMMA FailTargetPreserves ==
  ASSUME Inv, FailTarget
  PROVE  Inv'
<1> USE DEF FailTarget
<1>1. UNCHANGED request /\ Universe' = Universe /\ Reachable' = Reachable
  BY ReachableIsFixed
<1>2. /\ Front.pc \in scheduled /\ Front.pc \notin Discovered
      /\ worklist' \in Seq([pc : Universe, source_block : Universe, is_entry : BOOLEAN])
      /\ Queued = Queued' \cup {Front.pc} /\ Front.pc \notin Queued'
      /\ \A i, j \in 1 .. Len(worklist)' : worklist'[i].pc = worklist'[j].pc => i = j
  BY <1>1, FrontFacts
<1>3. TypeOK'
  BY <1>1, <1>2 DEF Inv, TypeOK, request
<1>4. BlocksAreAnalyses' /\ Discovered' = Discovered
  BY <1>1, BlocksKeep DEF Inv
<1>5. Failed' = Failed \cup {Front.pc} /\ Dropped' = Dropped
  <2> DEFINE new == Issue("TargetAnalysisFailed", Front.source_block, Front.pc, NoBlockPc,
                          AnalyzeBasicBlock(mem, Front.pc).error)
  <2>1. new.kind = "TargetAnalysisFailed" /\ new.target = Front.pc
    BY DEF Issue
  <2>2. issues' = issues \cup {new}
    OBVIOUS
  <2> HIDE DEF new
  <2> QED BY <2>1, <2>2 DEF Failed, Dropped
<1>6. ScheduledOnce'
  BY <1>2, <1>4, <1>5 DEF Inv, ScheduledOnce
<1>7. SearchInv'
  <2>1. TakenEdgesLeadOn'
    BY <1>1, TakenEdgesKeep DEF Inv, SearchInv, TakenEdges
  <2> QED BY <1>1, <1>4, <1>5, <2>1 DEF Inv, SearchInv, request, AnalysisOk
<1> QED BY <1>3, <1>4, <1>6, <1>7 DEF Inv

LEMMA DiscoverBlockPreserves ==
  ASSUME Inv, DiscoverBlock
  PROVE  Inv'
<1> DEFINE pc == Front.pc
           b  == AnalyzeBasicBlock(mem, pc).block
           T  == {AnalyzeBasicBlock(mem, q).block : q \in Universe}
<1>0. /\ phase = "worklist" /\ worklist # <<>> /\ worklist' = Tail(worklist)
      /\ blocks' = Append(blocks, b) /\ AnalysisOk(mem, pc)
      /\ phase' = "edges" /\ edge' = 1 /\ ~ AtLimit
      /\ UNCHANGED <<request, error, scheduled, calls, issues>>
  BY DEF DiscoverBlock
<1>1. UNCHANGED request /\ Universe' = Universe /\ Reachable' = Reachable
  BY <1>0, ReachableIsFixed
<1>2. \A e : Follows(e)' <=> Follows(e)
  BY <1>1, ReachableIsFixed
<1>3. /\ pc \in scheduled /\ pc \in Universe /\ pc \notin Discovered /\ pc \notin Failed
      /\ worklist' \in Seq([pc : Universe, source_block : Universe, is_entry : BOOLEAN])
      /\ Queued = Queued' \cup {pc} /\ pc \notin Queued'
      /\ \A i, j \in 1 .. Len(worklist)' : worklist'[i].pc = worklist'[j].pc => i = j
  BY <1>0, <1>1, FrontFacts
<1>4. b.start_pc = pc
  BY <1>0, AnalysedBlock DEF Inv, TypeOK
<1>5. /\ blocks' \in Seq(T) /\ Len(blocks) \in Nat /\ Len(blocks)' = Len(blocks) + 1
      /\ \A i \in 1 .. Len(blocks) : blocks'[i] = blocks[i]
      /\ blocks'[Len(blocks) + 1] = b
      /\ \A i \in 1 .. Len(blocks)' : i \in 1 .. Len(blocks) \/ i = Len(blocks) + 1
      /\ Discovered' = Discovered \cup {pc}
  <2>1. blocks \in Seq(T)
    BY DEF Inv, TypeOK
  <2>2. b \in T
    BY <1>3
  <2> HIDE DEF T, b
  <2> QED BY <1>0, <1>4, <2>1, <2>2, BlockJoins
<1>6. Failed' = Failed /\ Dropped' = Dropped
  BY <1>0 DEF Failed, Dropped
<1>7. TypeOK'
  BY <1>0, <1>1, <1>3, <1>5 DEF Inv, TypeOK, request
<1> HIDE DEF b, T
<1>8. BlocksAreAnalyses'
  <2>1. Len(blocks)' <= max_blocks'
    BY <1>0, <1>5 DEF Inv, TypeOK, AtLimit, request
  <2>2. ASSUME NEW i \in 1 .. Len(blocks)'
        PROVE  LET analysis == AnalyzeBasicBlock(mem', blocks'[i].start_pc)
               IN  analysis.error = "None" /\ blocks'[i] = analysis.block
    <3>1. CASE i \in 1 .. Len(blocks)
      BY <1>0, <1>5, <3>1 DEF Inv, BlocksAreAnalyses, request
    <3>2. CASE i = Len(blocks) + 1
      BY <1>0, <1>4, <1>5, <3>2 DEF b, AnalysisOk, request
    <3> QED BY <1>5, <3>1, <3>2
  <2>3. \A i \in 1 .. Len(blocks) : blocks[i].start_pc # pc
    BY <1>3 DEF Discovered
  <2>4. ASSUME NEW i \in 1 .. Len(blocks)', NEW j \in 1 .. Len(blocks)',
               blocks'[i].start_pc = blocks'[j].start_pc
        PROVE  i = j
    BY <1>4, <1>5, <2>3, <2>4 DEF Inv, BlocksAreAnalyses
  <2> QED BY <2>1, <2>2, <2>4 DEF BlocksAreAnalyses
<1>9. ScheduledOnce'
  BY <1>0, <1>3, <1>5, <1>6 DEF Inv, ScheduledOnce
<1>10. SearchInv'
  <2>1. ASSUME NEW i \in 1 .. Len(blocks)', NEW k \in TakenEdges(i)'
        PROVE  /\ k \in 1 .. Len(blocks'[i].edges)
               /\ Follows(blocks'[i].edges[k]) => blocks'[i].edges[k].target \in scheduled'
    <3>1. CASE i \in 1 .. Len(blocks)
      <4>1. k \in TakenEdges(i) /\ blocks'[i] = blocks[i]
        BY <1>0, <1>5, <3>1 DEF TakenEdges
      <4> QED BY <1>0, <3>1, <4>1 DEF Inv, SearchInv, TakenEdgesLeadOn
    <3>2. CASE i = Len(blocks) + 1
      BY <1>0, <1>5, <3>2 DEF TakenEdges
    <3> QED BY <1>5, <3>1, <3>2
  <2>2. TakenEdgesLeadOn'
    BY <1>2, <2>1 DEF TakenEdgesLeadOn
  <2>3. blocks' # <<>>
    BY <1>5
  <2> QED BY <1>0, <1>1, <1>6, <2>2, <2>3 DEF Inv, SearchInv, request, AnalysisOk
<1> QED BY <1>7, <1>8, <1>9, <1>10 DEF Inv

\* What recording an edge keeps, whether it is followed or not.
LEMMA RecordEdgeFacts ==
  ASSUME Inv, RecordEdge
  PROVE  /\ phase = "edges" /\ phase' = "edges" /\ error' = error
         /\ UNCHANGED request /\ UNCHANGED blocks
         /\ Universe' = Universe /\ Reachable' = Reachable
         /\ BlocksAreAnalyses' /\ Discovered' = Discovered
         /\ Failed' = Failed /\ Dropped' = Dropped
         /\ edge' = edge + 1 /\ edge \in 1 .. Len(Current.edges) /\ edge \in Nat
         /\ Len(blocks) \in 1 .. Len(blocks) /\ Len(blocks) \in Nat
<1>1. /\ phase = "edges" /\ phase' = "edges" /\ error' = error
      /\ UNCHANGED request /\ UNCHANGED blocks /\ edge' = edge + 1
      /\ edge <= Len(Current.edges)
  BY DEF RecordEdge
<1>2. Universe' = Universe /\ Reachable' = Reachable
  BY <1>1, ReachableIsFixed
<1>3. BlocksAreAnalyses' /\ Discovered' = Discovered
  BY <1>1, BlocksKeep DEF Inv
<1>4. Failed' = Failed /\ Dropped' = Dropped
  <2>1. issues' = issues \cup ExitsOf(Current, Current.edges[edge])
    BY DEF RecordEdge
  <2>2. \A i \in ExitsOf(Current, Current.edges[edge]) :
          i.kind \notin {"TargetAnalysisFailed", "BlockLimitReached"}
    BY ExitIssues
  <2> QED BY <2>1, <2>2, OtherIssues
<1>5. Len(blocks) \in 1 .. Len(blocks) /\ Len(blocks) \in Nat
  BY <1>1 DEF Inv, TypeOK, SearchInv
<1>6. edge \in Nat /\ edge >= 1
  BY <1>1 DEF Inv, TypeOK, SearchInv
<1>7. Len(Current.edges) \in Nat
  BY <1>5, BlockFacts DEF Current
<1> QED BY <1>1, <1>2, <1>3, <1>4, <1>5, <1>6, <1>7

\* The edge the loop is at joins the taken ones once its target is scheduled.
LEMMA TakenEdgesGrow ==
  ASSUME Inv, RecordEdge, scheduled \subseteq scheduled',
         Follows(Current.edges[edge]) => Current.edges[edge].target \in scheduled'
  PROVE  TakenEdgesLeadOn'
<1>1. /\ phase = "edges" /\ phase' = "edges" /\ UNCHANGED request /\ UNCHANGED blocks
      /\ edge' = edge + 1 /\ edge \in 1 .. Len(Current.edges) /\ edge \in Nat
      /\ Len(blocks) \in Nat
  BY RecordEdgeFacts
<1>2. \A e : Follows(e)' <=> Follows(e)
  BY <1>1, ReachableIsFixed
<1>3. SUFFICES ASSUME NEW i \in 1 .. Len(blocks), NEW k \in TakenEdges(i)'
               PROVE  /\ k \in 1 .. Len(blocks[i].edges)
                      /\ Follows(blocks[i].edges[k]) => blocks[i].edges[k].target \in scheduled'
  BY <1>1, <1>2 DEF TakenEdgesLeadOn
<1>4. CASE k \in TakenEdges(i)
  BY <1>3, <1>4 DEF Inv, SearchInv, TakenEdgesLeadOn
<1>5. CASE k \notin TakenEdges(i)
  <2>1. i = Len(blocks) /\ k = edge
    BY <1>1, <1>3, <1>5 DEF TakenEdges
  <2> QED BY <1>1, <2>1 DEF Current
<1> QED BY <1>4, <1>5

LEMMA ScheduleTargetPreserves ==
  ASSUME Inv, ScheduleTarget
  PROVE  Inv'
<1> DEFINE e == Current.edges[edge]
           p == Pending(e.target, Current.start_pc, FALSE)
           T == [pc : Universe, source_block : Universe, is_entry : BOOLEAN]
<1>0. /\ RecordEdge /\ Follows(e) /\ e.target \notin scheduled
      /\ scheduled' = scheduled \cup {e.target}
      /\ worklist' = Append(worklist, p)
  BY DEF ScheduleTarget
<1>1. /\ phase = "edges" /\ phase' = "edges" /\ error' = error
      /\ UNCHANGED request /\ UNCHANGED blocks
      /\ Universe' = Universe /\ Reachable' = Reachable
      /\ BlocksAreAnalyses' /\ Discovered' = Discovered
      /\ Failed' = Failed /\ Dropped' = Dropped
      /\ edge' = edge + 1 /\ edge \in 1 .. Len(Current.edges) /\ edge \in Nat
      /\ Len(blocks) \in 1 .. Len(blocks) /\ Len(blocks) \in Nat
  BY <1>0, RecordEdgeFacts
<1>2. /\ Current.start_pc \in Discovered /\ AnalysisOk(mem, Current.start_pc)
      /\ Current = AnalyzeBasicBlock(mem, Current.start_pc).block
  BY <1>1, BlockFacts DEF Current
<1>3. /\ Discovered \cup Failed \cup Queued = scheduled
      /\ scheduled \subseteq Reachable
  BY <1>1, DiscoveredIsReachable
<1>4. e.target \in Successors(Current.start_pc)
  BY <1>0, <1>1, <1>2, FollowedEdge
<1>5. e.target \in Reachable /\ e.target \in Universe /\ Current.start_pc \in Universe
  <2>1. mem \in [MappedPc -> Word] /\ Current.start_pc \in Reachable
    BY <1>2, <1>3 DEF Inv, TypeOK
  <2> QED BY <1>4, <2>1, ReachableIsClosed DEF Reachable
<1>6. p \in T /\ p.pc = e.target
  BY <1>5 DEF Pending
<1>7. worklist \in Seq(T) /\ p.pc \notin Queued
  BY <1>0, <1>3, <1>6 DEF Inv, TypeOK
<1>8. \A i, j \in 1 .. Len(worklist) : worklist[i].pc = worklist[j].pc => i = j
  BY <1>1 DEF Inv, ScheduledOnce
<1>9. /\ worklist' \in Seq(T) /\ Queued' = Queued \cup {e.target}
      /\ \A i, j \in 1 .. Len(worklist)' : worklist'[i].pc = worklist'[j].pc => i = j
  <2> HIDE DEF T, p
  <2> QED BY <1>0, <1>6, <1>7, <1>8, TargetJoins
<1> HIDE DEF p, e
<1>10. TypeOK'
  BY <1>0, <1>1, <1>5, <1>9 DEF Inv, TypeOK, request
<1>11. ScheduledOnce'
  BY <1>0, <1>1, <1>3, <1>9 DEF Inv, ScheduledOnce
<1>12. SearchInv'
  <2>1. TakenEdgesLeadOn'
    BY <1>0, TakenEdgesGrow DEF e
  <2> QED BY <1>0, <1>1, <1>5, <2>1 DEF Inv, SearchInv, request, AnalysisOk
<1> QED BY <1>1, <1>10, <1>11, <1>12 DEF Inv

LEMMA PassEdgePreserves ==
  ASSUME Inv, PassEdge
  PROVE  Inv'
<1>0. /\ RecordEdge /\ UNCHANGED <<worklist, scheduled>>
      /\ Follows(Current.edges[edge]) => Current.edges[edge].target \in scheduled
  BY DEF PassEdge
<1>1. /\ phase = "edges" /\ phase' = "edges" /\ error' = error
      /\ UNCHANGED request /\ UNCHANGED blocks
      /\ Universe' = Universe /\ Reachable' = Reachable
      /\ BlocksAreAnalyses' /\ Discovered' = Discovered
      /\ Failed' = Failed /\ Dropped' = Dropped
      /\ edge' = edge + 1 /\ edge \in Nat
  BY <1>0, RecordEdgeFacts
<1>2. Queued' = Queued
  BY <1>0 DEF Queued
<1>3. TypeOK'
  BY <1>0, <1>1 DEF Inv, TypeOK, request
<1>4. ScheduledOnce'
  BY <1>0, <1>1, <1>2 DEF Inv, ScheduledOnce
<1>5. SearchInv'
  <2>1. TakenEdgesLeadOn'
    BY <1>0, TakenEdgesGrow
  <2> QED BY <1>0, <1>1, <2>1 DEF Inv, SearchInv, request, AnalysisOk
<1> QED BY <1>1, <1>3, <1>4, <1>5 DEF Inv

LEMMA FinishEdgesPreserves ==
  ASSUME Inv, FinishEdges
  PROVE  Inv'
<1> USE DEF FinishEdges, graph
<1>1. UNCHANGED request /\ Universe' = Universe /\ Reachable' = Reachable
  BY ReachableIsFixed
<1>2. TypeOK'
  BY <1>1 DEF Inv, TypeOK, request
<1>3. BlocksAreAnalyses' /\ Discovered' = Discovered
  BY <1>1, BlocksKeep DEF Inv
<1>4. Failed' = Failed /\ Dropped' = Dropped /\ Queued' = Queued
  BY DEF Failed, Dropped, Queued
<1>5. ScheduledOnce'
  BY <1>3, <1>4 DEF Inv, ScheduledOnce
<1>6. SearchInv'
  <2>1. Len(blocks) \in 1 .. Len(blocks)
    BY DEF Inv, TypeOK, SearchInv
  <2>2. edge > Len(Current.edges) /\ Len(Current.edges) \in Nat /\ edge \in Nat
    BY <2>1, BlockFacts DEF Current, Inv, TypeOK
  <2>3. 1 .. Len(Current.edges) \subseteq 1 .. edge - 1
    BY <2>2
  <2>4. \A i \in 1 .. Len(blocks) : TakenEdges(i)' \subseteq TakenEdges(i)
    BY <2>3 DEF TakenEdges, Current
  <2>5. TakenEdgesLeadOn'
    BY <1>1, <2>4, TakenEdgesKeep DEF Inv, SearchInv
  <2> QED BY <1>1, <1>3, <1>4, <2>5 DEF Inv, SearchInv, request, AnalysisOk
<1> QED BY <1>2, <1>3, <1>5, <1>6 DEF Inv

LEMMA StutterPreserves ==
  ASSUME Inv, UNCHANGED vars
  PROVE  Inv'
<1> USE DEF vars, graph
<1>1. UNCHANGED request /\ Universe' = Universe /\ Reachable' = Reachable
  BY ReachableIsFixed
<1>2. TypeOK'
  BY <1>1 DEF Inv, TypeOK, request
<1>3. BlocksAreAnalyses' /\ Discovered' = Discovered
  BY <1>1, BlocksKeep DEF Inv
<1>4. Failed' = Failed /\ Dropped' = Dropped /\ Queued' = Queued
  BY DEF Failed, Dropped, Queued
<1>5. ScheduledOnce'
  BY <1>3, <1>4 DEF Inv, ScheduledOnce
<1>6. SearchInv'
  <2>1. TakenEdgesLeadOn'
    BY <1>1, TakenEdgesKeep DEF Inv, SearchInv, TakenEdges
  <2> QED BY <1>1, <1>3, <1>4, <2>1 DEF Inv, SearchInv, request, AnalysisOk
<1> QED BY <1>2, <1>3, <1>5, <1>6 DEF Inv

LEMMA NextPreserves ==
  ASSUME Inv, [Next]_vars
  PROVE  Inv'
<1>1. CASE RejectBlockLimit
  BY <1>1, RejectBlockLimitPreserves
<1>2. CASE Start
  BY <1>2, StartPreserves
<1>3. CASE Finish
  BY <1>3, FinishPreserves
<1>4. CASE ReachLimit
  BY <1>4, ReachLimitPreserves
<1>5. CASE FailEntry
  BY <1>5, FailEntryPreserves
<1>6. CASE FailTarget
  BY <1>6, FailTargetPreserves
<1>7. CASE DiscoverBlock
  BY <1>7, DiscoverBlockPreserves
<1>8. CASE ScheduleTarget
  BY <1>8, ScheduleTargetPreserves
<1>9. CASE PassEdge
  BY <1>9, PassEdgePreserves
<1>10. CASE FinishEdges
  BY <1>10, FinishEdgesPreserves
<1>11. CASE UNCHANGED vars
  BY <1>11, StutterPreserves
<1> QED
  BY <1>1, <1>2, <1>3, <1>4, <1>5, <1>6, <1>7, <1>8, <1>9, <1>10, <1>11 DEF Next

(***************************************************************************)
(* The theorems                                                             *)
(***************************************************************************)
\* The inductive invariant holds in every state of the analysis.
THEOREM Invariance == Spec => []Inv
<1>1. Init => Inv
  BY InitInv
<1>2. Inv /\ [Next]_vars => Inv'
  BY NextPreserves
<1> QED BY <1>1, <1>2, PTL DEF Spec

\* The state of analyze_r5900_reachability has the types of its declarations.
THEOREM TypeCorrectness == Spec => []TypeOK
<1>1. Inv => TypeOK
  BY DEF Inv
<1> QED BY <1>1, Invariance, PTL

\* Every block in the graph is the analysis of its address; no address has two
\* blocks and the limit is never exceeded.
THEOREM GraphHoldsAnalyses == Spec => []BlocksAreAnalyses
<1>1. Inv => BlocksAreAnalyses
  BY DEF Inv
<1> QED BY <1>1, Invariance, PTL

\* An address is scheduled once, however many edges lead to it, and is then in
\* exactly one of the graph, the failures and the worklist.
THEOREM NothingIsScheduledTwice == Spec => []ScheduledOnce
<1>1. Inv => ScheduledOnce
  BY DEF Inv
<1> QED BY <1>1, Invariance, PTL

(***************************************************************************)
(* The length of the analysis                                               *)
(***************************************************************************)
\* The iterations of the worklist loop that can still come: one for each address
\* that is queued or not scheduled yet.
IterationsLeft == Cardinality(Universe \ scheduled) + Len(worklist)

\* The iterations of the loop over the edges of the current block, its end included.
EdgesLeft == Len(Current.edges) + 1 - edge

\* A bound on the steps the analysis still takes. An iteration takes four at most:
\* the block, its two edges and the end of the loop over them.
StepsLeft ==
  CASE phase = "start"    -> 4 * Cardinality(Universe) + 2
    [] phase = "worklist" -> 4 * IterationsLeft + 1
    [] phase = "edges"    -> 4 * IterationsLeft + EdgesLeft + 2
    [] phase = "done"     -> 0

\* The bound is a number that the program, the layout and the entry give, and
\* every step of the analysis brings it down.
AnalysisIsBounded ==
  /\ StepsLeft = 4 * Cardinality(Universe) + 2
  /\ [] (StepsLeft \in Nat)
  /\ [][StepsLeft' < StepsLeft]_vars

LEMMA UniverseIsFinite == IsFiniteSet(Universe)
<1>1. 0 \in Int /\ AddressSpace - 1 \in Int
  BY AddressSpaceAssumption
<1>2. IsFiniteSet(0 .. AddressSpace - 1)
  BY <1>1, FS_Interval
<1>3. AlignedPc \subseteq 0 .. AddressSpace - 1
  BY DEF AlignedPc, Pc
<1>4. IsFiniteSet(AlignedPc)
  BY <1>2, <1>3, FS_Subset
<1> QED BY <1>4, FS_AddElement DEF Universe

\* The counts are numbers, and the loop over the edges is at most one past the last.
LEMMA CountsAreNumbers ==
  ASSUME Inv
  PROVE  /\ Cardinality(Universe) \in Nat /\ Cardinality(Universe \ scheduled) \in Nat
         /\ Len(worklist) \in Nat /\ IterationsLeft \in Nat
         /\ phase = "edges" =>
              edge \in Nat /\ Len(Current.edges) \in Nat /\ EdgesLeft \in Nat
<1>1. Universe \ scheduled \subseteq Universe
  OBVIOUS
<1>2. Cardinality(Universe) \in Nat /\ Cardinality(Universe \ scheduled) \in Nat
  BY <1>1, UniverseIsFinite, FS_CardinalityType, FS_Subset
<1>3. Len(worklist) \in Nat
  BY DEF Inv, TypeOK
<1>4. ASSUME phase = "edges"
      PROVE  edge \in Nat /\ Len(Current.edges) \in Nat /\ EdgesLeft \in Nat
  <2>1. Len(blocks) \in 1 .. Len(blocks) /\ edge \in Nat /\ edge >= 1
    BY <1>4 DEF Inv, TypeOK, SearchInv
  <2>2. Len(Current.edges) \in Nat
    BY <2>1, BlockFacts DEF Current
  <2>3. \A k \in 1 .. edge - 1 : k \in 1 .. Len(Current.edges)
    BY <1>4, <2>1 DEF Inv, SearchInv, TakenEdgesLeadOn, TakenEdges, Current
  <2>4. edge <= Len(Current.edges) + 1
    <3>1. CASE edge = 1
      BY <2>2, <3>1
    <3>2. CASE edge # 1
      <4>1. edge - 1 \in 1 .. edge - 1
        BY <2>1, <3>2
      <4>2. edge - 1 \in 1 .. Len(Current.edges)
        BY <2>3, <4>1
      <4> QED BY <2>1, <2>2, <4>2
    <3> QED BY <3>1, <3>2
  <2>5. EdgesLeft \in Nat
    BY <2>1, <2>2, <2>4 DEF EdgesLeft
  <2> QED BY <2>1, <2>2, <2>5
<1> QED BY <1>2, <1>3, <1>4 DEF IterationsLeft

LEMMA StepsAreNumbers ==
  ASSUME Inv
  PROVE  StepsLeft \in Nat
<1>1. phase \in {"start", "worklist", "edges", "done"}
  BY DEF Inv, TypeOK
<1>2. CASE phase = "edges"
  <2>1. StepsLeft = 4 * IterationsLeft + EdgesLeft + 2
    BY <1>2 DEF StepsLeft
  <2>2. IterationsLeft \in Nat /\ EdgesLeft \in Nat
    BY <1>2, CountsAreNumbers
  <2> QED BY ONLY <2>1, <2>2
<1>3. CASE phase # "edges"
  BY <1>1, <1>3, CountsAreNumbers DEF StepsLeft
<1> QED BY <1>2, <1>3

\* Scheduling a new address moves it from one count to the other.
LEMMA SchedulingKeepsIterations ==
  ASSUME Inv, NEW target \in Universe, target \notin scheduled,
         scheduled' = scheduled \cup {target}, Universe' = Universe,
         Len(worklist)' = Len(worklist) + 1
  PROVE  IterationsLeft' = IterationsLeft
<1> DEFINE free == Universe \ scheduled
<1>1. (Universe \ scheduled)' = free \ {target} /\ target \in free
  OBVIOUS
<1>2. IsFiniteSet(free)
  BY UniverseIsFinite, FS_Subset
<1>3. Cardinality(free \ {target}) = Cardinality(free) - 1
  <2> HIDE DEF free
  <2> QED BY <1>1, <1>2, FS_RemoveElement
<1>4. IterationsLeft = Cardinality(free) + Len(worklist)
  BY DEF IterationsLeft
<1>5. IterationsLeft' = Cardinality(free \ {target}) + Len(worklist)'
  BY <1>1 DEF IterationsLeft
<1>6. Cardinality(free) \in Nat /\ Len(worklist) \in Nat /\ Len(worklist)' = Len(worklist) + 1
  BY CountsAreNumbers
<1> HIDE DEF free
<1> QED BY ONLY <1>3, <1>4, <1>5, <1>6

\* An iteration of the worklist loop has one iteration less before it.
LEMMA FrontIsOneIteration ==
  ASSUME Inv, worklist # <<>>, worklist' = Tail(worklist), scheduled' = scheduled,
         UNCHANGED request
  PROVE  IterationsLeft' = IterationsLeft - 1
<1>1. Universe' = Universe
  BY ReachableIsFixed
<1>2. worklist \in Seq([pc : Universe, source_block : Universe, is_entry : BOOLEAN])
  BY DEF Inv, TypeOK
<1>3. Len(worklist)' = Len(worklist) - 1
  BY <1>2
<1> QED BY <1>1, <1>3, CountsAreNumbers DEF IterationsLeft

LEMMA StartTakesAStep ==
  ASSUME Inv, Start
  PROVE  StepsLeft' < StepsLeft
<1>1. UNCHANGED request /\ phase = "start" /\ phase' = "worklist"
      /\ scheduled' = {entry_pc} /\ Len(worklist)' = 1
  BY DEF Start
<1>2. Universe' = Universe
  BY <1>1, ReachableIsFixed
<1>3. Cardinality(Universe \ {entry_pc}) = Cardinality(Universe) - 1
  <2>1. entry_pc \in Universe
    BY DEF Universe
  <2> QED BY <2>1, UniverseIsFinite, FS_RemoveElement
<1>4. IterationsLeft' = Cardinality(Universe)
  BY <1>1, <1>2, <1>3, CountsAreNumbers DEF IterationsLeft
<1>5. StepsLeft = 4 * Cardinality(Universe) + 2 /\ StepsLeft' = 4 * IterationsLeft' + 1
  BY <1>1 DEF StepsLeft
<1>6. Cardinality(Universe) \in Nat
  BY CountsAreNumbers
<1> QED BY ONLY <1>4, <1>5, <1>6

LEMMA DiscoverTakesAStep ==
  ASSUME Inv, DiscoverBlock
  PROVE  StepsLeft' < StepsLeft
<1> DEFINE b == AnalyzeBasicBlock(mem, Front.pc).block
<1>1. /\ UNCHANGED request /\ phase = "worklist" /\ phase' = "edges" /\ edge' = 1
      /\ worklist # <<>> /\ worklist' = Tail(worklist) /\ scheduled' = scheduled
      /\ blocks' = Append(blocks, b) /\ AnalysisOk(mem, Front.pc)
  BY DEF DiscoverBlock
<1>2. IterationsLeft' = IterationsLeft - 1
  BY <1>1, FrontIsOneIteration
<1>3. Len(b.edges) \in 0 .. 2
  BY <1>1, AnalysedBlock DEF Inv, TypeOK
<1>4. Current' = b
  <2>1. blocks \in Seq({AnalyzeBasicBlock(mem, q).block : q \in Universe})
    BY DEF Inv, TypeOK
  <2> HIDE DEF b
  <2> QED BY <1>1, <2>1 DEF Current
<1>5. StepsLeft = 4 * IterationsLeft + 1
  BY <1>1 DEF StepsLeft
<1>6. StepsLeft' = 4 * IterationsLeft' + EdgesLeft' + 2
  BY <1>1 DEF StepsLeft
<1>7. EdgesLeft' \in 0 .. 2
  <2> DEFINE n == Len(b.edges)
  <2>1. EdgesLeft' = n + 1 - 1 /\ n \in 0 .. 2
    BY <1>1, <1>3, <1>4 DEF EdgesLeft
  <2> HIDE DEF n
  <2> QED BY ONLY <2>1
<1>8. IterationsLeft \in Nat
  BY CountsAreNumbers
<1>9. \A i \in Nat, e \in 0 .. 2 : 4 * (i - 1) + e + 2 < 4 * i + 1
  BY ONLY TRUE
<1>10. StepsLeft' = 4 * (IterationsLeft - 1) + EdgesLeft' + 2
  BY ONLY <1>2, <1>6
<1> HIDE DEF b
<1> QED BY ONLY <1>5, <1>7, <1>8, <1>9, <1>10

LEMMA EdgeTakesAStep ==
  ASSUME Inv, ScheduleTarget \/ PassEdge
  PROVE  StepsLeft' < StepsLeft
<1>1. RecordEdge
  BY DEF ScheduleTarget, PassEdge
<1>2. /\ phase = "edges" /\ phase' = "edges" /\ UNCHANGED blocks
      /\ Universe' = Universe /\ edge' = edge + 1
  BY <1>1, RecordEdgeFacts
<1>3. Current' = Current
  BY <1>2 DEF Current
<1>4. IterationsLeft' = IterationsLeft
  <2>1. CASE PassEdge
    BY <1>2, <2>1 DEF PassEdge, IterationsLeft
  <2>2. CASE ScheduleTarget
    <3> DEFINE e == Current.edges[edge]
    <3>1. /\ e.target \notin scheduled /\ scheduled' = scheduled \cup {e.target}
          /\ worklist' = Append(worklist, Pending(e.target, Current.start_pc, FALSE))
      BY <2>2 DEF ScheduleTarget
    <3>2. e.target \in Universe
      <4>1. scheduled' \subseteq Universe'
        BY <2>2, ScheduleTargetPreserves DEF Inv, TypeOK
      <4> QED BY <1>2, <3>1, <4>1
    <3>3. Len(worklist)' = Len(worklist) + 1
      <4>1. worklist \in Seq([pc : Universe, source_block : Universe, is_entry : BOOLEAN])
        BY DEF Inv, TypeOK
      <4> HIDE DEF e
      <4> QED BY <3>1, <4>1
    <3> HIDE DEF e
    <3> QED BY <1>2, <3>1, <3>2, <3>3, SchedulingKeepsIterations
  <2> QED BY <2>1, <2>2
<1>5. StepsLeft = 4 * IterationsLeft + EdgesLeft + 2
  BY <1>2 DEF StepsLeft
<1>6. StepsLeft' = 4 * IterationsLeft' + EdgesLeft' + 2
  BY <1>2 DEF StepsLeft
<1>7. IterationsLeft \in Nat /\ EdgesLeft \in Nat
      /\ edge \in Nat /\ Len(Current.edges) \in Nat
  BY <1>2, CountsAreNumbers
<1>8. EdgesLeft' = EdgesLeft - 1
  <2> DEFINE n == Len(Current.edges)
  <2>1. EdgesLeft = n + 1 - edge /\ n \in Nat /\ edge \in Nat
    BY <1>7 DEF EdgesLeft
  <2>2. EdgesLeft' = n + 1 - (edge + 1)
    BY <1>2, <1>3 DEF EdgesLeft
  <2> HIDE DEF n
  <2> QED BY ONLY <2>1, <2>2
<1> QED BY ONLY <1>4, <1>5, <1>6, <1>7, <1>8

LEMMA FinishEdgesTakesAStep ==
  ASSUME Inv, FinishEdges
  PROVE  StepsLeft' < StepsLeft
<1>1. /\ UNCHANGED <<request, worklist, scheduled>> /\ phase = "edges"
      /\ phase' = "worklist" /\ edge > Len(Current.edges)
  BY DEF FinishEdges
<1>2. IterationsLeft' = IterationsLeft
  BY <1>1, ReachableIsFixed DEF IterationsLeft
<1>3. StepsLeft = 4 * IterationsLeft + EdgesLeft + 2
  BY <1>1 DEF StepsLeft
<1>4. StepsLeft' = 4 * IterationsLeft' + 1
  BY <1>1 DEF StepsLeft
<1>5. IterationsLeft \in Nat /\ EdgesLeft \in Nat
  BY <1>1, CountsAreNumbers
<1> QED BY ONLY <1>2, <1>3, <1>4, <1>5

\* The analysis ends: for every program, cycles of guest code included, it takes no
\* more steps than a bound fixed by the size of the address space.
THEOREM AnalysisIsFinite == Spec => AnalysisIsBounded
<1>1. Init => StepsLeft = 4 * Cardinality(Universe) + 2
  BY DEF Init, StepsLeft
<1>2. ASSUME Inv, [Next]_vars
      PROVE  [StepsLeft' < StepsLeft]_vars
  <2>1. CASE RejectBlockLimit
    <3>1. StepsLeft = 4 * Cardinality(Universe) + 2 /\ StepsLeft' = 0
      BY <2>1 DEF RejectBlockLimit, StepsLeft
    <3> QED BY <1>2, <3>1, CountsAreNumbers
  <2>2. CASE Start
    BY <1>2, <2>2, StartTakesAStep
  <2>3. CASE Finish \/ ReachLimit \/ FailEntry
    <3>1. StepsLeft = 4 * IterationsLeft + 1 /\ StepsLeft' = 0
      BY <2>3 DEF Finish, ReachLimit, FailEntry, StepsLeft
    <3> QED BY <1>2, <3>1, CountsAreNumbers
  <2>4. CASE FailTarget
    <3>1. /\ StepsLeft = 4 * IterationsLeft + 1 /\ StepsLeft' = 4 * IterationsLeft' + 1
          /\ UNCHANGED <<request, scheduled>>
          /\ worklist # <<>> /\ worklist' = Tail(worklist)
      BY <2>4 DEF FailTarget, StepsLeft
    <3> QED BY <1>2, <3>1, FrontIsOneIteration, CountsAreNumbers
  <2>5. CASE DiscoverBlock
    BY <1>2, <2>5, DiscoverTakesAStep
  <2>6. CASE ScheduleTarget \/ PassEdge
    BY <1>2, <2>6, EdgeTakesAStep
  <2>7. CASE FinishEdges
    BY <1>2, <2>7, FinishEdgesTakesAStep
  <2> QED BY <1>2, <2>1, <2>2, <2>3, <2>4, <2>5, <2>6, <2>7 DEF Next
<1> QED BY <1>1, <1>2, Invariance, StepsAreNumbers, PTL DEF Spec, AnalysisIsBounded

(***************************************************************************)
(* What a finished search has found                                         *)
(***************************************************************************)
\* A finished search that dropped nothing has scheduled every reachable address:
\* the scheduled addresses hold the entry and are closed under followed edges.
LEMMA FinishedSearchIsClosed ==
  ASSUME Inv, phase = "done", error = "None", Dropped = {}
  PROVE  Reachable = Discovered \cup Failed
<1>1. entry_pc \in scheduled /\ scheduled = Discovered \cup Failed
  BY DEF Inv, SearchInv
<1>2. scheduled \subseteq Universe /\ scheduled \subseteq Reachable
  BY DEF Inv, TypeOK, SearchInv
<1>3. ASSUME NEW pc \in scheduled
      PROVE  Successors(pc) \subseteq scheduled
  <2>1. CASE pc \in Failed
    BY <2>1 DEF Inv, SearchInv, AnalysisOk, Successors
  <2>2. CASE pc \in Discovered
    <3>1. PICK i \in 1 .. Len(blocks) : pc = blocks[i].start_pc
      BY <2>2 DEF Discovered
    <3>2. blocks[i] = AnalyzeBasicBlock(mem, pc).block /\ AnalysisOk(mem, pc)
      BY <3>1, BlockFacts
    <3>3. \A k \in 1 .. Len(blocks[i].edges) :
            Follows(blocks[i].edges[k]) => blocks[i].edges[k].target \in scheduled
      BY DEF Inv, SearchInv, TakenEdgesLeadOn, TakenEdges
    <3> QED BY <3>2, <3>3 DEF Successors, EdgesOf, AnalysisOk
  <2> QED BY <1>1, <2>1, <2>2
<1>4. Reachable \subseteq scheduled
  BY <1>1, <1>2, <1>3, ReachableIsLeast
<1> QED BY <1>1, <1>2, <1>4

\* A discovered address has a block and a failed one has none.
LEMMA DiscoveredHaveBlocks ==
  ASSUME Inv
  PROVE  /\ \A pc \in Discovered : AnalysisOk(mem, pc)
         /\ \A pc \in Failed : ~ AnalysisOk(mem, pc)
<1>1. \A i \in 1 .. Len(blocks) : AnalysisOk(mem, blocks[i].start_pc)
  BY BlockFacts
<1> QED BY <1>1 DEF Discovered, Inv, SearchInv

\* A graph that reports no truncation is exactly the reachable part of the
\* program: nothing reachable is missing and nothing else is in it.
THEOREM GraphIsExact == Spec => []ExactlyReachable
<1>1. ASSUME Inv PROVE ExactlyReachable
  BY <1>1, FinishedSearchIsClosed, DiscoveredHaveBlocks DEF ExactlyReachable
<1> QED BY <1>1, Invariance, PTL

\* A graph that lacks a reachable address is full and says which one it dropped.
THEOREM TruncationIsNeverSilent == Spec => []TruncationIsReported
<1>1. ASSUME Inv PROVE TruncationIsReported
  <2> SUFFICES ASSUME phase = "done", error = "None",
                      ~ Reachable \subseteq Discovered \cup Failed
               PROVE  /\ Len(blocks) = max_blocks /\ Dropped # {}
                      /\ Dropped \subseteq Reachable \ (Discovered \cup Failed)
    BY DEF TruncationIsReported
  <2>1. Dropped # {}
    BY <1>1, FinishedSearchIsClosed
  <2>2. scheduled \subseteq Reachable
    BY <1>1 DEF Inv, SearchInv
  <2> QED BY <1>1, <2>1, <2>2 DEF Inv, SearchInv
<1> QED BY <1>1, Invariance, PTL

(***************************************************************************)
(* The evidence                                                             *)
(***************************************************************************)
\* A call, or an issue, that stems from an edge the loop has been at.
CallOfTaken(call) ==
  \E i \in 1 .. Len(blocks) : \E k \in TakenEdges(i) :
    call \in CallsOf(blocks[i], blocks[i].edges[k])
ExitOfTaken(issue) ==
  \E i \in 1 .. Len(blocks) : \E k \in TakenEdges(i) :
    issue \in ExitsOf(blocks[i], blocks[i].edges[k])

Exits == {i \in issues : i.kind = "UnresolvedIndirectExit"}

\* The evidence of the edges that the loop has been at is what has been recorded.
EvidenceInv ==
  /\ \A call : call \in calls <=> CallOfTaken(call)
  /\ \A issue : issue \in Exits <=> ExitOfTaken(issue)

\* A step that records nothing keeps the evidence when it takes no new edge.
LEMMA EvidenceKeeps ==
  ASSUME EvidenceInv, UNCHANGED <<blocks, calls>>, Exits' = Exits,
         \A i \in 1 .. Len(blocks) : TakenEdges(i)' = TakenEdges(i)
  PROVE  EvidenceInv'
BY DEF EvidenceInv, CallOfTaken, ExitOfTaken

\* The edge the loop is at is the one that joins the taken edges.
LEMMA EvidenceGrows ==
  ASSUME Inv, EvidenceInv, RecordEdge
  PROVE  EvidenceInv'
<1> DEFINE n == Len(blocks)
<1>1. /\ phase = "edges" /\ phase' = "edges" /\ UNCHANGED blocks
      /\ edge' = edge + 1 /\ edge \in Nat /\ edge >= 1
      /\ n \in 1 .. n
  BY RecordEdgeFacts
<1>2. \A i \in 1 .. n : TakenEdges(i)' = IF i = n THEN TakenEdges(i) \cup {edge}
                                                  ELSE TakenEdges(i)
  <2>1. 1 .. (edge + 1) - 1 = (1 .. edge - 1) \cup {edge}
    BY <1>1
  <2> QED BY <1>1, <2>1 DEF TakenEdges
<1>3. \A call : CallOfTaken(call)' <=>
                  CallOfTaken(call) \/ call \in CallsOf(blocks[n], blocks[n].edges[edge])
  BY <1>1, <1>2 DEF CallOfTaken
<1>4. \A issue : ExitOfTaken(issue)' <=>
                   ExitOfTaken(issue) \/ issue \in ExitsOf(blocks[n], blocks[n].edges[edge])
  BY <1>1, <1>2 DEF ExitOfTaken
<1>5. calls' = calls \cup CallsOf(blocks[n], blocks[n].edges[edge])
  BY DEF RecordEdge, Current
<1>6. Exits' = Exits \cup ExitsOf(blocks[n], blocks[n].edges[edge])
  BY ExitIssues DEF RecordEdge, Current, Exits
<1> HIDE DEF n
<1> QED BY <1>3, <1>4, <1>5, <1>6 DEF EvidenceInv

\* A block that has just been discovered has no evidence yet.
LEMMA EvidenceOfNewBlock ==
  ASSUME Inv, EvidenceInv, DiscoverBlock
  PROVE  EvidenceInv'
<1> DEFINE n == Len(blocks)
           b == AnalyzeBasicBlock(mem, Front.pc).block
           T == {AnalyzeBasicBlock(mem, pc).block : pc \in Universe}
<1>1. /\ phase = "worklist" /\ phase' = "edges" /\ edge' = 1
      /\ calls' = calls /\ Exits' = Exits /\ blocks' = Append(blocks, b)
  BY DEF DiscoverBlock, Exits
<1>2. /\ n \in Nat /\ Len(blocks)' = n + 1
      /\ \A i \in 1 .. n : blocks'[i] = blocks[i]
  <2>1. blocks \in Seq(T) /\ b \in T
    BY FrontFacts DEF Inv, TypeOK, DiscoverBlock
  <2> HIDE DEF T, b
  <2> QED BY <1>1, <2>1, BlockJoins
<1>3. \A i \in 1 .. n : TakenEdges(i)' = TakenEdges(i)
  BY <1>1, <1>2 DEF TakenEdges
<1>4. \A i : i = n + 1 => TakenEdges(i)' = {}
  BY <1>1, <1>2 DEF TakenEdges
<1>5. \A i : i \in 1 .. (n + 1) <=> i \in 1 .. n \/ i = n + 1
  BY <1>2
<1>6. \A call : CallOfTaken(call)' <=> CallOfTaken(call)
  BY <1>2, <1>3, <1>4, <1>5 DEF CallOfTaken
<1>7. \A issue : ExitOfTaken(issue)' <=> ExitOfTaken(issue)
  BY <1>2, <1>3, <1>4, <1>5 DEF ExitOfTaken
<1> QED BY <1>1, <1>6, <1>7 DEF EvidenceInv

LEMMA NextKeepsEvidence ==
  ASSUME Inv, EvidenceInv, [Next]_vars
  PROVE  EvidenceInv'
<1>1. CASE RejectBlockLimit \/ Start \/ FailEntry \/ UNCHANGED vars
  <2>1. UNCHANGED <<blocks, calls>> /\ Exits' = Exits
    BY <1>1 DEF RejectBlockLimit, Start, FailEntry, vars, graph, Exits
  <2>2. \A i \in 1 .. Len(blocks) : TakenEdges(i)' = TakenEdges(i)
    BY <1>1 DEF RejectBlockLimit, Start, FailEntry, vars, graph, TakenEdges
  <2> QED BY <2>1, <2>2, EvidenceKeeps
<1>2. CASE Finish \/ ReachLimit \/ FailTarget
  <2>1. UNCHANGED <<blocks, calls>>
    BY <1>2 DEF Finish, ReachLimit, FailTarget
  <2>2. Exits' = Exits
    BY <1>2, OverlapIssues DEF Finish, ReachLimit, FailTarget, Exits, Issue
  <2>3. \A i \in 1 .. Len(blocks) : TakenEdges(i)' = TakenEdges(i)
    BY <1>2 DEF Finish, ReachLimit, FailTarget, TakenEdges
  <2> QED BY <2>1, <2>2, <2>3, EvidenceKeeps
<1>3. CASE DiscoverBlock
  BY <1>3, EvidenceOfNewBlock
<1>4. CASE ScheduleTarget \/ PassEdge
  BY <1>4, EvidenceGrows DEF ScheduleTarget, PassEdge
<1>5. CASE FinishEdges
  <2>1. UNCHANGED <<blocks, calls>> /\ Exits' = Exits
    BY <1>5 DEF FinishEdges, graph, Exits
  <2>2. Len(blocks) \in 1 .. Len(blocks)
    BY <1>5 DEF FinishEdges, Inv, TypeOK, SearchInv
  <2>3. edge - 1 = Len(Current.edges)
    <3>1. /\ edge > Len(Current.edges) /\ edge \in Nat /\ edge >= 1
          /\ Len(Current.edges) \in Nat
      BY <1>5, <2>2, BlockFacts DEF FinishEdges, Current, Inv, TypeOK, SearchInv
    <3>2. \A k \in 1 .. edge - 1 : k <= Len(Current.edges)
      <4>1. TakenEdges(Len(blocks)) = 1 .. edge - 1
        BY <1>5 DEF FinishEdges, TakenEdges
      <4>2. \A k \in 1 .. edge - 1 : k \in 1 .. Len(Current.edges)
        BY <2>2, <4>1 DEF Inv, SearchInv, TakenEdgesLeadOn, Current
      <4> QED BY <3>1, <4>2
    <3>3. CASE edge = 1
      BY <3>1, <3>3
    <3>4. CASE edge # 1
      <4>1. edge - 1 \in 1 .. edge - 1
        BY <3>1, <3>4
      <4> QED BY <3>1, <3>2, <4>1
    <3> QED BY <3>3, <3>4
  <2>4. \A i \in 1 .. Len(blocks) : TakenEdges(i)' = TakenEdges(i)
    BY <1>5, <2>1, <2>3 DEF FinishEdges, TakenEdges, Current
  <2> QED BY <2>1, <2>4, EvidenceKeeps
<1> QED BY <1>1, <1>2, <1>3, <1>4, <1>5 DEF Next

\* What the loop records edge by edge is, in the end, the evidence of every block:
\* no call and no exit through a register is missed, and none is made up.
THEOREM EvidenceIsKept == Spec => []EvidenceIsComplete
<1>1. ASSUME Init PROVE EvidenceInv
  <2>1. 1 .. Len(blocks) = {} /\ calls = {} /\ Exits = {}
    BY <1>1 DEF Init, Exits
  <2> QED BY <2>1 DEF EvidenceInv, CallOfTaken, ExitOfTaken
<1>2. Inv /\ EvidenceInv /\ [Next]_vars => EvidenceInv'
  BY NextKeepsEvidence
<1>3. ASSUME EvidenceInv, phase = "done"
      PROVE  /\ calls = UNION {UNION {CallsOf(block, e) : e \in EdgesOf(block)} :
                                 block \in {blocks[i] : i \in 1 .. Len(blocks)}}
             /\ Exits = UNION {UNION {ExitsOf(block, e) : e \in EdgesOf(block)} :
                                 block \in {blocks[i] : i \in 1 .. Len(blocks)}}
  <2> DEFINE CallsIn(block) == UNION {CallsOf(block, e) : e \in EdgesOf(block)}
             ExitsIn(block) == UNION {ExitsOf(block, e) : e \in EdgesOf(block)}
  <2>1. \A i \in 1 .. Len(blocks) :
          EdgesOf(blocks[i]) = {blocks[i].edges[k] : k \in TakenEdges(i)}
    BY <1>3 DEF EdgesOf, TakenEdges
  <2>2. \A block, call : call \in CallsIn(block) <=>
                           \E e \in EdgesOf(block) : call \in CallsOf(block, e)
    OBVIOUS
  <2>3. \A block, issue : issue \in ExitsIn(block) <=>
                            \E e \in EdgesOf(block) : issue \in ExitsOf(block, e)
    OBVIOUS
  <2> HIDE DEF CallsIn, ExitsIn
  <2>4. \A call : CallOfTaken(call) <=>
                    \E i \in 1 .. Len(blocks) : call \in CallsIn(blocks[i])
    <3>1. ASSUME NEW call, NEW i \in 1 .. Len(blocks)
          PROVE  call \in CallsIn(blocks[i]) <=>
                   \E k \in TakenEdges(i) : call \in CallsOf(blocks[i], blocks[i].edges[k])
      <4>1. call \in CallsIn(blocks[i]) <=>
              \E e \in EdgesOf(blocks[i]) : call \in CallsOf(blocks[i], e)
        BY <2>2
      <4>2. EdgesOf(blocks[i]) = {blocks[i].edges[k] : k \in TakenEdges(i)}
        BY <2>1
      <4> QED BY <4>1, <4>2
    <3> QED BY <3>1 DEF CallOfTaken
  <2>5. \A issue : ExitOfTaken(issue) <=>
                     \E i \in 1 .. Len(blocks) : issue \in ExitsIn(blocks[i])
    <3>1. ASSUME NEW issue, NEW i \in 1 .. Len(blocks)
          PROVE  issue \in ExitsIn(blocks[i]) <=>
                   \E k \in TakenEdges(i) : issue \in ExitsOf(blocks[i], blocks[i].edges[k])
      <4>1. issue \in ExitsIn(blocks[i]) <=>
              \E e \in EdgesOf(blocks[i]) : issue \in ExitsOf(blocks[i], e)
        BY <2>3
      <4>2. EdgesOf(blocks[i]) = {blocks[i].edges[k] : k \in TakenEdges(i)}
        BY <2>1
      <4> QED BY <4>1, <4>2
    <3> QED BY <3>1 DEF ExitOfTaken
  <2>6. calls = UNION {CallsIn(block) : block \in {blocks[i] : i \in 1 .. Len(blocks)}}
    <3>1. \A call : call \in calls <=>
                    \E i \in 1 .. Len(blocks) : call \in CallsIn(blocks[i])
      BY <1>3, <2>4 DEF EvidenceInv
    <3>2. \A call : call \in UNION {CallsIn(block) : block \in {blocks[i] : i \in 1 .. Len(blocks)}}
                    <=> \E i \in 1 .. Len(blocks) : call \in CallsIn(blocks[i])
      OBVIOUS
    <3> QED BY <3>1, <3>2
  <2>7. Exits = UNION {ExitsIn(block) : block \in {blocks[i] : i \in 1 .. Len(blocks)}}
    <3>1. \A issue : issue \in Exits <=>
                    \E i \in 1 .. Len(blocks) : issue \in ExitsIn(blocks[i])
      BY <1>3, <2>5 DEF EvidenceInv
    <3>2. \A issue : issue \in UNION {ExitsIn(block) : block \in {blocks[i] : i \in 1 .. Len(blocks)}}
                    <=> \E i \in 1 .. Len(blocks) : issue \in ExitsIn(blocks[i])
      OBVIOUS
    <3> QED BY <3>1, <3>2
  <2> QED BY <2>6, <2>7 DEF CallsIn, ExitsIn
<1>4. EvidenceInv => EvidenceIsComplete
  BY <1>3 DEF EvidenceIsComplete, Exits
<1> QED BY <1>1, <1>2, <1>4, Invariance, PTL DEF Spec

(***************************************************************************)
(* Overlapping blocks                                                       *)
(***************************************************************************)
\* When two advances of the program counter meet, the shorter one started where the
\* longer one had come to.
LEMMA ShorterStartsInside ==
  ASSUME NEW s \in Pc, NEW t \in Pc, NEW c \in Nat, NEW d \in Nat, c <= d,
         Add32(s, c) = Add32(t, d)
  PROVE  s = Add32(t, d - c)
<1> DEFINE m == AddressSpace
           q1 == (s + c) \div m
           q2 == (t + d) \div m
           r == (s + c) % m
<1>1. m \in Nat \ {0} /\ s \in 0 .. m - 1 /\ t \in 0 .. m - 1
  BY AddressSpaceAssumption DEF Pc
<1>2. /\ s + c = m * q1 + r /\ q1 \in Int /\ r \in 0 .. m - 1
      /\ t + d = m * q2 + ((t + d) % m) /\ q2 \in Int
  BY <1>1
<1>3. t + d = m * q2 + r
  BY <1>2 DEF Add32
<1> HIDE DEF m, q1, q2, r
<1>4. t + (d - c) = m * (q2 - q1) + s
  <2>1. m * (q2 - q1) = m * q2 - m * q1 /\ m * q2 \in Int /\ m * q1 \in Int
    BY <1>1, <1>2
  <2> QED BY <1>1, <1>2, <1>3, <2>1
<1>5. (t + (d - c)) % m = s
  <2>1. t + (d - c) \in Nat /\ q2 - q1 \in Int
    BY <1>1, <1>2
  <2> QED BY <1>1, <1>4, <2>1, RemainderIsUnique
<1> QED BY <1>5 DEF Add32, m

\* An address of a block is some words after its start, and each address on the way
\* to it would be reported as a leader inside of the block.
LEMMA AddressInBlock ==
  ASSUME NEW start \in Pc, AnalysisOk(mem, start),
         NEW a \in Extent(AnalyzeBasicBlock(mem, start).block), a # NoTarget
  PROVE  \E k \in Nat :
           /\ a = Add32(start, 4 * k)
           /\ \A j \in 0 .. k :
                Add32(start, 4 * j) # start =>
                  OverlapKinds(Add32(start, 4 * j), AnalyzeBasicBlock(mem, start).block) # {}
<1> DEFINE n == Iterations(mem, start)
           block == AnalyzeBasicBlock(mem, start).block
<1>1. /\ n \in Nat /\ n >= 1 /\ Len(block.instructions) = n
      /\ \A i \in 1 .. n : block.instructions[i].pc = Add32(start, 4 * (i - 1))
  <2>1. n \in 1 .. max_instructions /\ block.instructions = Sites(mem, start)
    BY AnalysisShape
  <2>2. Sites(mem, start) =
          [i \in 1 .. n |-> [pc |-> SitePc(start, i), decoded |-> mem[SitePc(start, i)]]]
    BY DEF Sites
  <2> HIDE DEF n, block
  <2> QED BY <2>1, <2>2, OptionsAssumption DEF SitePc
<1>2. block.delay_slot \in {NoTarget, Add32(start, 4 * n)}
  BY DelaySlotFollows
<1>3. Add32(start, 4 * 0) = start
  BY Add32Zero
<1> HIDE DEF n, block
<1>4. ASSUME NEW j \in 1 .. n - 1, Add32(start, 4 * j) # start
      PROVE  OverlapKinds(Add32(start, 4 * j), block) # {}
  <2>1. j + 1 \in 2 .. n /\ block.instructions[j + 1].pc = Add32(start, 4 * j)
    <3>1. j + 1 \in 2 .. n /\ j + 1 \in 1 .. n /\ (j + 1) - 1 = j
      BY <1>1
    <3> QED BY <1>1, <3>1
  <2>2. block.instructions[1].pc = start
    <3>1. 1 \in 1 .. n /\ 1 - 1 = 0
      BY <1>1
    <3> QED BY <1>1, <1>3, <3>1
  <2>3. InsideInstructions(Add32(start, 4 * j), block)
    BY <1>1, <1>4, <2>1, <2>2 DEF InsideInstructions
  <2> QED BY <2>3 DEF OverlapKinds
<1>5. CASE \E i \in 1 .. n : a = block.instructions[i].pc
  <2>1. PICK i \in 1 .. n : a = block.instructions[i].pc
    BY <1>5
  <2>2. i - 1 \in Nat /\ a = Add32(start, 4 * (i - 1))
    BY <1>1, <2>1
  <2>3. ASSUME NEW j \in 0 .. i - 1, Add32(start, 4 * j) # start
        PROVE  OverlapKinds(Add32(start, 4 * j), block) # {}
    <3>1. j # 0
      BY <1>3, <2>3
    <3>2. j \in 1 .. n - 1
      BY <1>1, <3>1
    <3> QED BY <1>4, <2>3, <3>2
  <2> QED BY <2>2, <2>3 DEF block
<1>6. CASE a = block.delay_slot
  <2>1. a = Add32(start, 4 * n)
    BY <1>2, <1>6
  <2>2. ASSUME NEW j \in 0 .. n, Add32(start, 4 * j) # start
        PROVE  OverlapKinds(Add32(start, 4 * j), block) # {}
    <3>1. CASE j = n
      BY <1>6, <2>1, <3>1 DEF OverlapKinds
    <3>2. CASE j # n
      <4>1. j # 0
        BY <1>3, <2>2
      <4>2. j \in 1 .. n - 1
        BY <1>1, <3>2, <4>1
      <4> QED BY <1>4, <2>2, <4>2
    <3> QED BY <3>1, <3>2
  <2> QED BY <1>1, <2>1, <2>2 DEF block
<1> QED BY <1>1, <1>5, <1>6 DEF Extent, block

\* How far the comparison of leaders has come: the entry is the first block of all, so
\* that a search whose entry fails has none, and any other search that has ended has
\* compared the blocks it has found.
LeadersInv ==
  /\ Discovered \subseteq Pc
  /\ \A i \in 1 .. Len(worklist) :
       worklist[i].is_entry => blocks = <<>> /\ Len(worklist) = 1
  /\ phase = "done" => blocks = <<>> \/ OverlappingLeaders(blocks) \subseteq issues

\* Two discovered blocks that share an address, the first of them in fewer steps from
\* its start: that start is reported inside of the second.
LEMMA SharedAddressIsReported ==
  ASSUME Inv, LeadersInv,
         NEW i \in 1 .. Len(blocks), NEW j \in 1 .. Len(blocks), i # j,
         NEW c \in Nat, NEW d \in Nat, c <= d,
         Add32(blocks[i].start_pc, 4 * c) = Add32(blocks[j].start_pc, 4 * d),
         \A k \in 0 .. d :
           Add32(blocks[j].start_pc, 4 * k) # blocks[j].start_pc =>
             OverlapKinds(Add32(blocks[j].start_pc, 4 * k), blocks[j]) # {}
  PROVE  \E issue \in OverlappingLeaders(blocks) :
           /\ issue.kind \in {"LeaderInsideBlock", "LeaderInsideDelaySlot"}
           /\ issue.source_block = blocks[i].start_pc
           /\ issue.related_block = blocks[j].start_pc
<1> DEFINE s == blocks[i].start_pc
           t == blocks[j].start_pc
<1>1. s \in Pc /\ t \in Pc /\ s # t
  <2>1. s \in Discovered /\ t \in Discovered
    BY BlockFacts
  <2> QED BY <2>1 DEF LeadersInv, Inv, BlocksAreAnalyses
<1>2. d - c \in 0 .. d /\ 4 * c \in Nat /\ 4 * d \in Nat /\ 4 * c <= 4 * d
      /\ 4 * d - 4 * c = 4 * (d - c)
  OBVIOUS
<1>3. s = Add32(t, 4 * (d - c))
  BY <1>1, <1>2, ShorterStartsInside
<1>4. PICK kind \in OverlapKinds(s, blocks[j]) : TRUE
  BY <1>1, <1>2, <1>3
<1>5. Issue(kind, s, s, t, "None") \in OverlappingLeaders(blocks)
  <2>1. <<i, j>> \in {q \in (1 .. Len(blocks)) \X (1 .. Len(blocks)) :
                        blocks[q[1]].start_pc # blocks[q[2]].start_pc}
    BY <1>1
  <2> DEFINE LeadersOf(p) ==
               { Issue(k, blocks[p[1]].start_pc, blocks[p[1]].start_pc,
                       blocks[p[2]].start_pc, "None") :
                   k \in OverlapKinds(blocks[p[1]].start_pc, blocks[p[2]]) }
  <2>2. Issue(kind, s, s, t, "None") \in LeadersOf(<<i, j>>)
    BY <1>4
  <2> HIDE DEF LeadersOf
  <2>3. Issue(kind, s, s, t, "None") \in
          UNION {LeadersOf(p) : p \in {q \in (1 .. Len(blocks)) \X (1 .. Len(blocks)) :
                                        blocks[q[1]].start_pc # blocks[q[2]].start_pc}}
    BY <2>1, <2>2
  <2> QED BY <2>3 DEF OverlappingLeaders, LeadersOf
<1> QED BY <1>5, OverlapIssues DEF Issue

\* What is left of the worklist when its front leaves: the entry, if it was queued, was
\* all there was.
LEMMA EntryLeaves ==
  ASSUME NEW T, worklist \in Seq(T), worklist # <<>>, worklist' = Tail(worklist),
         \A i \in 1 .. Len(worklist) : worklist[i].is_entry => Len(worklist) = 1
  PROVE  \A i \in 1 .. Len(worklist)' : ~ worklist'[i].is_entry
<1>1. /\ Len(worklist) \in Nat /\ Len(worklist)' = Len(worklist) - 1
      /\ \A i \in 1 .. Len(worklist) - 1 : worklist'[i] = worklist[i + 1]
  OBVIOUS
<1>2. \A i \in 1 .. Len(worklist) - 1 : i + 1 \in 1 .. Len(worklist) /\ Len(worklist) # 1
  BY <1>1
<1> QED BY <1>1, <1>2

LEMMA NextKeepsLeaders ==
  ASSUME Inv, LeadersInv, [Next]_vars
  PROVE  LeadersInv'
<1> DEFINE T == [pc : Universe, source_block : Universe, is_entry : BOOLEAN]
<1>0. worklist \in Seq(T)
  BY DEF Inv, TypeOK
<1>1. CASE RejectBlockLimit
  BY <1>1 DEF RejectBlockLimit, LeadersInv, Discovered, graph, Inv, SearchInv
<1>2. CASE Start
  <2>1. blocks' = <<>> /\ blocks = <<>> /\ Len(worklist)' = 1 /\ phase' = "worklist"
    BY <1>2 DEF Start, graph, Inv, SearchInv
  <2> QED BY <2>1 DEF LeadersInv, Discovered
<1>3. CASE Finish \/ ReachLimit
  <2>1. UNCHANGED blocks /\ OverlappingLeaders(blocks) \subseteq issues'
    BY <1>3 DEF Finish, ReachLimit
  <2>2. OverlappingLeaders(blocks)' = OverlappingLeaders(blocks)
    BY <2>1
  <2>3. worklist' = worklist \/ (worklist # <<>> /\ worklist' = Tail(worklist))
    BY <1>3 DEF Finish, ReachLimit
  <2>4. \A i \in 1 .. Len(worklist)' :
          worklist'[i].is_entry => blocks' = <<>> /\ Len(worklist)' = 1
    BY <1>0, <2>1, <2>3, EntryLeaves DEF LeadersInv
  <2> QED BY <2>1, <2>2, <2>4 DEF LeadersInv, Discovered
<1>4. CASE FailEntry
  <2>1. UNCHANGED blocks /\ worklist # <<>> /\ worklist' = Tail(worklist) /\ Front.is_entry
    BY <1>4 DEF FailEntry, graph
  <2>2. 1 \in 1 .. Len(worklist)
    BY <1>0, <2>1
  <2>3. blocks = <<>>
    BY <2>1, <2>2 DEF LeadersInv, Front
  <2>4. \A i \in 1 .. Len(worklist)' :
          worklist'[i].is_entry => blocks' = <<>> /\ Len(worklist)' = 1
    BY <1>0, <2>1, EntryLeaves DEF LeadersInv
  <2> QED BY <2>1, <2>3, <2>4 DEF LeadersInv, Discovered
<1>5. CASE FailTarget
  <2>1. UNCHANGED <<blocks, phase>> /\ worklist # <<>> /\ worklist' = Tail(worklist)
        /\ phase = "worklist"
    BY <1>5 DEF FailTarget
  <2>2. \A i \in 1 .. Len(worklist)' :
          worklist'[i].is_entry => blocks' = <<>> /\ Len(worklist)' = 1
    BY <1>0, <2>1, EntryLeaves DEF LeadersInv
  <2> QED BY <2>1, <2>2 DEF LeadersInv, Discovered
<1>6. CASE DiscoverBlock
  <2> DEFINE pc == Front.pc
             b == AnalyzeBasicBlock(mem, pc).block
             B == {AnalyzeBasicBlock(mem, q).block : q \in Universe}
  <2>1. /\ worklist # <<>> /\ worklist' = Tail(worklist) /\ phase' = "edges"
        /\ AnalysisOk(mem, pc) /\ blocks' = Append(blocks, b)
    BY <1>6 DEF DiscoverBlock
  <2>2. \A i \in 1 .. Len(worklist)' : ~ worklist'[i].is_entry
    BY <1>0, <2>1, EntryLeaves DEF LeadersInv
  <2>3. pc \in Universe
    BY <1>6, FrontFacts DEF DiscoverBlock
  <2>4. b.start_pc = pc
    BY <2>1, AnalysedBlock DEF Inv, TypeOK
  <2>5. Discovered' = Discovered \cup {pc}
    <3>1. blocks \in Seq(B) /\ b \in B
      BY <2>3 DEF Inv, TypeOK
    <3> HIDE DEF B, b
    <3> QED BY <2>1, <2>4, <3>1, BlockJoins
  <2>6. pc \in Pc
    BY <2>3 DEF Universe, AlignedPc, Inv, TypeOK
  <2> QED BY <2>1, <2>2, <2>5, <2>6 DEF LeadersInv
<1>7. CASE ScheduleTarget
  <2> DEFINE p == Pending(Current.edges[edge].target, Current.start_pc, FALSE)
  <2>1. /\ UNCHANGED blocks /\ worklist' = Append(worklist, p) /\ phase' = "edges"
        /\ phase = "edges"
    BY <1>7 DEF ScheduleTarget, RecordEdge
  <2>2. blocks # <<>>
    BY <2>1 DEF Inv, SearchInv
  <2>3. \A i \in 1 .. Len(worklist)' : ~ worklist'[i].is_entry
    <3>1. Len(worklist) \in Nat
      BY <1>0
    <3>2. \A i \in 1 .. Len(worklist) : ~ worklist[i].is_entry
      BY <2>2 DEF LeadersInv
    <3>3. ~ p.is_entry
      BY DEF Pending
    <3> HIDE DEF p
    <3>4. /\ Len(worklist)' = Len(worklist) + 1
          /\ \A i \in 1 .. Len(worklist) : worklist'[i] = worklist[i]
          /\ worklist'[Len(worklist) + 1] = p
      BY <1>0, <2>1
    <3>5. \A i \in 1 .. Len(worklist)' : i \in 1 .. Len(worklist) \/ i = Len(worklist) + 1
      BY <3>1, <3>4
    <3> QED BY <3>2, <3>3, <3>4, <3>5
  <2> QED BY <2>1, <2>3 DEF LeadersInv, Discovered
<1>8. CASE PassEdge \/ FinishEdges
  <2>1. UNCHANGED <<blocks, worklist>> /\ phase' # "done"
    BY <1>8 DEF PassEdge, RecordEdge, FinishEdges, graph
  <2> QED BY <2>1 DEF LeadersInv, Discovered
<1>9. CASE UNCHANGED vars
  <2>1. UNCHANGED <<blocks, worklist, phase, issues>>
    BY <1>9 DEF vars, graph
  <2>2. OverlappingLeaders(blocks)' = OverlappingLeaders(blocks)
    BY <2>1
  <2> QED BY <2>1, <2>2 DEF LeadersInv, Discovered
<1> QED BY <1>1, <1>2, <1>3, <1>4, <1>5, <1>6, <1>7, <1>8, <1>9 DEF Next

LEMMA LeadersInvariance == Spec => []LeadersInv
<1>1. ASSUME Init PROVE LeadersInv
  <2>1. Discovered = {} /\ Len(worklist) = 0
    BY <1>1 DEF Init, Discovered
  <2> QED BY <1>1, <2>1 DEF LeadersInv, Init
<1> QED BY <1>1, NextKeepsLeaders, Invariance, PTL DEF Spec

\* Blocks that share an instruction are reported, wherever they start and however the
\* program counter wraps: one of them starts inside of the other, at an instruction
\* or a delay slot, and an issue says which.
THEOREM OverlapsAreNeverSilent == Spec => []OverlapsAreReported
<1>1. ASSUME Inv, LeadersInv, phase = "done",
             NEW i \in 1 .. Len(blocks), NEW j \in 1 .. Len(blocks), i # j,
             NEW a \in Extent(blocks[i]) \cap Extent(blocks[j]), a # NoTarget
      PROVE  \E issue \in issues :
               /\ issue.kind \in {"LeaderInsideBlock", "LeaderInsideDelaySlot"}
               /\ {issue.source_block, issue.related_block}
                    = {blocks[i].start_pc, blocks[j].start_pc}
  <2> DEFINE s == blocks[i].start_pc
             t == blocks[j].start_pc
  <2>1. /\ AnalysisOk(mem, s) /\ blocks[i] = AnalyzeBasicBlock(mem, s).block
        /\ AnalysisOk(mem, t) /\ blocks[j] = AnalyzeBasicBlock(mem, t).block
        /\ s \in Pc /\ t \in Pc
    BY <1>1, BlockFacts DEF LeadersInv
  <2> HIDE DEF s, t
  <2>2. PICK c \in Nat :
          /\ a = Add32(s, 4 * c)
          /\ \A k \in 0 .. c : Add32(s, 4 * k) # s =>
                                 OverlapKinds(Add32(s, 4 * k), blocks[i]) # {}
    <3>1. a \in Extent(AnalyzeBasicBlock(mem, s).block) /\ a # NoTarget
      BY <1>1, <2>1
    <3>2. \E k \in Nat :
            /\ a = Add32(s, 4 * k)
            /\ \A n \in 0 .. k :
                 Add32(s, 4 * n) # s =>
                   OverlapKinds(Add32(s, 4 * n), AnalyzeBasicBlock(mem, s).block) # {}
      BY ONLY <2>1, <3>1, AddressInBlock
    <3> QED BY ONLY <2>1, <3>2
  <2>3. PICK d \in Nat :
          /\ a = Add32(t, 4 * d)
          /\ \A k \in 0 .. d : Add32(t, 4 * k) # t =>
                                 OverlapKinds(Add32(t, 4 * k), blocks[j]) # {}
    <3>1. a \in Extent(AnalyzeBasicBlock(mem, t).block) /\ a # NoTarget
      BY <1>1, <2>1
    <3>2. \E k \in Nat :
            /\ a = Add32(t, 4 * k)
            /\ \A n \in 0 .. k :
                 Add32(t, 4 * n) # t =>
                   OverlapKinds(Add32(t, 4 * n), AnalyzeBasicBlock(mem, t).block) # {}
      BY ONLY <2>1, <3>1, AddressInBlock
    <3> QED BY ONLY <2>1, <3>2
  <2>4. OverlappingLeaders(blocks) \subseteq issues
    BY <1>1 DEF LeadersInv
  <2>5. CASE c <= d
    <3>1. PICK issue \in OverlappingLeaders(blocks) :
            /\ issue.kind \in {"LeaderInsideBlock", "LeaderInsideDelaySlot"}
            /\ issue.source_block = s /\ issue.related_block = t
      <4>1. Add32(s, 4 * c) = Add32(t, 4 * d)
        BY <2>2, <2>3
      <4>2. \A k \in 0 .. d : Add32(t, 4 * k) # t =>
                               OverlapKinds(Add32(t, 4 * k), blocks[j]) # {}
        BY <2>3
      <4>3. c \in Nat /\ d \in Nat /\ c <= d /\ i # j
        BY <1>1, <2>2, <2>3, <2>5
      <4>4. Inv /\ LeadersInv /\ i \in 1 .. Len(blocks) /\ j \in 1 .. Len(blocks)
        BY <1>1
      <4> QED BY ONLY <4>1, <4>2, <4>3, <4>4, SharedAddressIsReported DEF s, t
    <3> QED BY <2>4, <3>1 DEF s, t
  <2>6. CASE d <= c
    <3>1. PICK issue \in OverlappingLeaders(blocks) :
            /\ issue.kind \in {"LeaderInsideBlock", "LeaderInsideDelaySlot"}
            /\ issue.source_block = t /\ issue.related_block = s
      <4>1. Add32(t, 4 * d) = Add32(s, 4 * c)
        BY <2>2, <2>3
      <4>2. \A k \in 0 .. c : Add32(s, 4 * k) # s =>
                               OverlapKinds(Add32(s, 4 * k), blocks[i]) # {}
        BY <2>2
      <4>3. d \in Nat /\ c \in Nat /\ d <= c /\ j # i
        BY <1>1, <2>2, <2>3, <2>6
      <4>4. Inv /\ LeadersInv /\ i \in 1 .. Len(blocks) /\ j \in 1 .. Len(blocks)
        BY <1>1
      <4> QED BY ONLY <4>1, <4>2, <4>3, <4>4, SharedAddressIsReported DEF s, t
    <3> QED BY <2>4, <3>1 DEF s, t
  <2>7. c <= d \/ d <= c
    BY <2>2, <2>3
  <2> QED BY <2>5, <2>6, <2>7 DEF s, t
<1>2. Inv /\ LeadersInv => OverlapsAreReported
  BY <1>1 DEF OverlapsAreReported
<1> QED BY <1>2, Invariance, LeadersInvariance, PTL

(***************************************************************************)
(* Breadth first: the addresses at most n edges away from the entry         *)
(***************************************************************************)
\* A set of addresses and those one edge away.
Widened(S) == S \cup UNION {Successors(pc) : pc \in S}

\* Whatever maps each n to the addresses at most n edges away from the entry.
IsLayers(f) ==
  /\ DOMAIN f = Nat
  /\ f[0] = {entry_pc}
  /\ \A n \in Nat : f[n + 1] = Widened(f[n])

\* The pairs of a number and an address that hold whatever such a map has to hold.
IsClosedUpward(R) ==
  /\ <<0, entry_pc>> \in R
  /\ \A n \in Nat : \A pc \in Universe : <<n, pc>> \in R =>
       /\ <<n + 1, pc>> \in R
       /\ \A t \in Successors(pc) : <<n + 1, t>> \in R

\* The least of these relations.
LeastLayer(n) ==
  {pc \in Universe : \A R \in SUBSET (Nat \X Universe) : IsClosedUpward(R) => <<n, pc>> \in R}

\* The least layers hold whatever layers have to hold.
LEMMA LeastIsClosed ==
  ASSUME mem \in [MappedPc -> Word]
  PROVE  /\ entry_pc \in LeastLayer(0)
         /\ \A n \in Nat : Widened(LeastLayer(n)) \subseteq LeastLayer(n + 1)
<1>1. entry_pc \in LeastLayer(0)
  BY DEF LeastLayer, IsClosedUpward, Universe
<1>2. ASSUME NEW n \in Nat, NEW pc \in LeastLayer(n)
      PROVE  pc \in LeastLayer(n + 1) /\ Successors(pc) \subseteq LeastLayer(n + 1)
  <2>1. pc \in Universe /\ Successors(pc) \subseteq Universe
    BY <1>2, SuccessorsInUniverse DEF LeastLayer
  <2>2. ASSUME NEW R \in SUBSET (Nat \X Universe), IsClosedUpward(R)
        PROVE  <<n + 1, pc>> \in R /\ \A t \in Successors(pc) : <<n + 1, t>> \in R
    <3>1. <<n, pc>> \in R
      BY <1>2, <2>2 DEF LeastLayer
    <3> QED BY <2>1, <2>2, <3>1 DEF IsClosedUpward
  <2> QED BY <2>1, <2>2 DEF LeastLayer
<1> QED BY <1>1, <1>2 DEF Widened

\* The least layers are layers: an address no layer needs can be left out of one.
LEMMA LayersExist ==
  ASSUME mem \in [MappedPc -> Word]
  PROVE  /\ LeastLayer(0) = {entry_pc}
         /\ \A n \in Nat : LeastLayer(n + 1) = Widened(LeastLayer(n))
<1> DEFINE M == {p \in Nat \X Universe : p[2] \in LeastLayer(p[1])}
<1>0. \A n \in Nat : LeastLayer(n) \subseteq Universe
  BY DEF LeastLayer
<1>1. /\ entry_pc \in LeastLayer(0) /\ entry_pc \in Universe
      /\ \A n \in Nat : Widened(LeastLayer(n)) \subseteq LeastLayer(n + 1)
  BY LeastIsClosed DEF Universe
<1>2. \A n \in Nat : \A pc \in LeastLayer(n) :
        /\ pc \in LeastLayer(n + 1)
        /\ \A t \in Successors(pc) : t \in LeastLayer(n + 1)
  BY <1>1 DEF Widened
<1>3. \A pc \in Universe : Successors(pc) \subseteq Universe
  BY SuccessorsInUniverse
<1>4. ASSUME NEW k \in Nat, NEW x \in LeastLayer(k),
             k = 0 => x # entry_pc,
             \A n \in Nat : n + 1 = k => x \notin Widened(LeastLayer(n))
      PROVE  FALSE
  <2> DEFINE R == {p \in M : ~ (p[1] = k /\ p[2] = x)}
  <2>1. \A n \in Nat : \A pc \in Universe :
          <<n, pc>> \in R <=> pc \in LeastLayer(n) /\ ~ (n = k /\ pc = x)
    BY DEF LeastLayer
  <2>2. <<0, entry_pc>> \in R
    BY <1>1, <1>4, <2>1
  <2>3. R \in SUBSET (Nat \X Universe) /\ <<k, x>> \notin R
    <3>1. <<k, x>> \notin R
      BY <1>0, <1>4, <2>1
    <3> QED BY <3>1
  <2> HIDE DEF R
  <2>4. ASSUME NEW n \in Nat, NEW pc \in Universe, <<n, pc>> \in R
        PROVE  /\ <<n + 1, pc>> \in R
               /\ \A t \in Successors(pc) : <<n + 1, t>> \in R
    <3> DEFINE m == n + 1
    <3>1. pc \in LeastLayer(n)
      BY <2>1, <2>4
    <3>2. m \in Nat /\ pc \in LeastLayer(m) /\ \A t \in Successors(pc) : t \in LeastLayer(m)
      BY <1>2, <3>1
    <3>3. m = k => pc # x /\ x \notin Successors(pc)
      BY <1>4, <3>1 DEF Widened
    <3> HIDE DEF m
    <3> QED BY <1>3, <2>1, <3>2, <3>3 DEF m
  <2>5. IsClosedUpward(R)
    BY <2>2, <2>4 DEF IsClosedUpward
  <2> QED BY <1>4, <2>3, <2>5 DEF LeastLayer
<1>5. LeastLayer(0) = {entry_pc}
  <2>1. \A n \in Nat : n + 1 # 0
    OBVIOUS
  <2> QED BY <1>1, <1>4, <2>1
<1>6. ASSUME NEW n \in Nat, NEW x \in LeastLayer(n + 1)
      PROVE  x \in Widened(LeastLayer(n))
  <2> DEFINE k == n + 1
  <2>1. k \in Nat /\ k # 0 /\ \A m \in Nat : m + 1 = k => m = n
    OBVIOUS
  <2> SUFFICES ASSUME x \notin Widened(LeastLayer(n)) PROVE FALSE
    OBVIOUS
  <2>2. x \in LeastLayer(k)
    BY <1>6
  <2> HIDE DEF k
  <2> QED BY <1>4, <2>1, <2>2
<1> QED BY <1>1, <1>5, <1>6

\* Farther layers hold the nearer ones.
LEMMA LayersGrow ==
  ASSUME NEW f, IsLayers(f), NEW m \in Nat, NEW n \in Nat, m <= n
  PROVE  f[m] \subseteq f[n]
<1> DEFINE B == {k \in Nat : m <= k /\ ~ (f[m] \subseteq f[k])}
<1>1. CASE B = {}
  BY <1>1
<1>2. CASE B # {}
  <2>1. PICK x \in B : \A y \in B : ~ (<<y, x>> \in OpToRel(<, Nat))
    <3> HIDE DEF B
    <3>1. B \in SUBSET Nat
      BY DEF B
    <3> QED BY <1>2, <3>1, NatLessThanWellFounded, WFMin
  <2>2. x \in Nat /\ m <= x /\ x # m
    BY <2>1
  <2> DEFINE k == x - 1
  <2>3. k \in Nat /\ m <= k /\ k < x /\ k + 1 = x
    BY <2>2
  <2> HIDE DEF k
  <2>4. k \notin B
    BY <2>1, <2>2, <2>3 DEF OpToRel
  <2>5. f[m] \subseteq f[k] /\ f[k] \subseteq f[x]
    <3>1. f[k + 1] = Widened(f[k])
      BY <2>3 DEF IsLayers
    <3> QED BY <2>3, <2>4, <3>1 DEF Widened
  <2> QED BY <2>1, <2>5
<1> QED BY <1>1, <1>2

\* The recursive function of NearestFirst.
Within[n \in Nat] ==
  IF n = 0 THEN {entry_pc}
  ELSE Within[n - 1] \cup UNION {Successors(pc) : pc \in Within[n - 1]}

\* It exists: the least layers are such a function.
LEMMA WithinIsLayers ==
  ASSUME mem \in [MappedPc -> Word]
  PROVE  IsLayers(Within)
<1> DEFINE Body(f, n) == IF n = 0 THEN {entry_pc}
                         ELSE f[n - 1] \cup UNION {Successors(pc) : pc \in f[n - 1]}
           g == [n \in Nat |-> LeastLayer(n)]
<1>1. g = [n \in Nat |-> Body(g, n)]
  <2>1. ASSUME NEW n \in Nat PROVE g[n] = Body(g, n)
    <3>1. CASE n = 0
      BY <3>1, LayersExist
    <3>2. CASE n # 0
      <4> DEFINE k == n - 1
      <4>1. k \in Nat /\ k + 1 = n
        BY <3>2
      <4> HIDE DEF k
      <4>2. g[n] = Widened(g[k])
        BY <4>1, LayersExist
      <4> QED BY <3>2, <4>2 DEF k, Widened
    <3> QED BY <3>1, <3>2
  <2> HIDE DEF Body
  <2>2. g = [n \in Nat |-> g[n]]
    OBVIOUS
  <2> HIDE DEF g
  <2> QED BY <2>1, <2>2
<1>2. Within = CHOOSE f : f = [n \in Nat |-> Body(f, n)]
  BY DEF Within
<1>3. Within = [n \in Nat |-> Body(Within, n)]
  <2> HIDE DEF g, Body
  <2> QED BY <1>1, <1>2
<1>4. DOMAIN Within = Nat /\ \A n \in Nat : Within[n] = Body(Within, n)
  <2> HIDE DEF Body
  <2>1. DOMAIN [n \in Nat |-> Body(Within, n)] = Nat
    OBVIOUS
  <2>2. \A n \in Nat : [k \in Nat |-> Body(Within, k)][n] = Body(Within, n)
    OBVIOUS
  <2> QED BY <1>3, <2>1, <2>2
<1> HIDE DEF g
<1>5. Within[0] = {entry_pc}
  BY <1>4
<1>6. ASSUME NEW n \in Nat PROVE Within[n + 1] = Widened(Within[n])
  <2> DEFINE k == n + 1
  <2>1. k \in Nat /\ k # 0 /\ k - 1 = n
    OBVIOUS
  <2> HIDE DEF k
  <2>2. Within[k] = Body(Within, k)
    BY <1>4, <2>1
  <2> QED BY <2>1, <2>2 DEF k, Widened
<1> QED BY <1>4, <1>5, <1>6 DEF IsLayers

(***************************************************************************)
(* The search goes through the layers one after the other                   *)
(***************************************************************************)
\* The search is at distance d: what it has dealt with is no farther, whatever is nearer
\* has been dealt with, and the queue holds the rest of layer d before the next layer.
AtDistance(f, d) ==
  /\ Discovered \cup Failed \subseteq f[d]
  /\ \A m \in Nat : m < d => f[m] \subseteq Discovered \cup Failed
  /\ phase \in {"worklist", "edges"} =>
       /\ f[d] \subseteq scheduled /\ scheduled \subseteq f[d + 1]
       /\ \A i, j \in 1 .. Len(worklist) :
            i <= j /\ worklist[j].pc \in f[d] => worklist[i].pc \in f[d]

BreadthInv == \A f : IsLayers(f) => \E d \in Nat : AtDistance(f, d)

\* No step changes what the layers are.
LEMMA LayersAreFixed ==
  ASSUME UNCHANGED request
  PROVE  \A f : IsLayers(f)' <=> IsLayers(f)
<1> USE DEF request
<1>1. \A e : Follows(e)' <=> Follows(e)
  BY DEF Follows
<1>2. \A pc : Successors(pc)' = Successors(pc)
  BY <1>1 DEF Successors
<1>3. \A S : Widened(S)' = Widened(S)
  BY <1>2 DEF Widened
<1> QED BY <1>3 DEF IsLayers

\* Between two blocks, whatever the ones dealt with lead to is scheduled.
LEMMA DealtWithLeadOn ==
  ASSUME Inv, phase = "worklist", NEW pc \in Discovered \cup Failed
  PROVE  Successors(pc) \subseteq scheduled
<1>1. CASE pc \in Failed
  BY <1>1 DEF Inv, SearchInv, AnalysisOk, Successors
<1>2. CASE pc \in Discovered
  <2>1. PICK i \in 1 .. Len(blocks) : pc = blocks[i].start_pc
    BY <1>2 DEF Discovered
  <2>2. blocks[i] = AnalyzeBasicBlock(mem, pc).block /\ AnalysisOk(mem, pc)
    BY <2>1, BlockFacts
  <2>3. \A k \in 1 .. Len(blocks[i].edges) :
          Follows(blocks[i].edges[k]) => blocks[i].edges[k].target \in scheduled
    BY DEF Inv, SearchInv, TakenEdgesLeadOn, TakenEdges
  <2> QED BY <2>2, <2>3 DEF Successors, EdgesOf, AnalysisOk
<1> QED BY <1>1, <1>2

\* The front of the queue is at the distance of the search, or starts the next layer.
LEMMA FrontIsNearest ==
  ASSUME Inv, phase = "worklist", worklist # <<>>, NEW f, IsLayers(f),
         NEW d \in Nat, AtDistance(f, d)
  PROVE  \E e \in Nat : AtDistance(f, e) /\ Front.pc \in f[e]
<1>1. /\ Len(worklist) \in Nat /\ 1 \in 1 .. Len(worklist)
      /\ Front = worklist[1] /\ Front.pc \in Queued
  <2>1. Len(worklist) \in Nat /\ 1 \in 1 .. Len(worklist)
    BY DEF Inv, TypeOK
  <2> QED BY <2>1 DEF Queued, Front
<1>2. /\ Discovered \cup Failed \subseteq f[d]
      /\ f[d] \subseteq scheduled /\ scheduled \subseteq f[d + 1]
      /\ \A i, j \in 1 .. Len(worklist) :
           i <= j /\ worklist[j].pc \in f[d] => worklist[i].pc \in f[d]
      /\ \A m \in Nat : m < d => f[m] \subseteq Discovered \cup Failed
  BY DEF AtDistance
<1>3. CASE Front.pc \in f[d]
  BY <1>3
<1>4. CASE Front.pc \notin f[d]
  <2> DEFINE e == d + 1
             g == e + 1
  <2>1. e \in Nat /\ g \in Nat /\ \A m \in Nat : m < e <=> m < d \/ m = d
    OBVIOUS
  <2>2. f[e] = Widened(f[d]) /\ f[g] = Widened(f[e])
    BY <2>1 DEF IsLayers
  <2>3. scheduled \subseteq f[e]
    BY <1>2
  <2> HIDE DEF e, g
  <2>4. \A j \in 1 .. Len(worklist) : worklist[j].pc \notin f[d]
    <3> TAKE j \in 1 .. Len(worklist)
    <3>1. 1 <= j
      BY <1>1
    <3> QED BY <1>1, <1>2, <1>4, <3>1
  <2>5. Queued \cap f[d] = {}
    BY <2>4 DEF Queued
  <2>6. scheduled = Discovered \cup Failed \cup Queued
    BY DEF Inv, ScheduledOnce
  <2>7. f[d] \subseteq Discovered \cup Failed
    BY <1>2, <2>5, <2>6
  <2>8. f[e] \subseteq scheduled
    BY <1>2, <2>2, <2>7, DealtWithLeadOn DEF Widened
  <2>9. f[e] \subseteq f[g]
    BY <2>2 DEF Widened
  <2>10. AtDistance(f, e)
    <3>1. \A m \in Nat : m < e => f[m] \subseteq Discovered \cup Failed
      BY <1>2, <2>1, <2>7
    <3>2. \A j \in 1 .. Len(worklist) : worklist[j].pc \in f[e]
      BY <2>3, <2>6 DEF Queued
    <3>3. Discovered \cup Failed \subseteq f[e]
      BY <2>3, <2>6
    <3>4. scheduled \subseteq f[e + 1]
      BY <2>3, <2>9 DEF g
    <3> QED BY <2>8, <3>1, <3>2, <3>3, <3>4 DEF AtDistance
  <2>11. Front.pc \in f[e]
    BY <1>1, <2>3, <2>6
  <2> QED BY <2>1, <2>10, <2>11
<1> QED BY <1>3, <1>4

\* A step that deals with nothing and schedules nothing stays where it is.
LEMMA DistanceKept ==
  ASSUME NEW f, NEW d \in Nat, AtDistance(f, d),
         Discovered' = Discovered, Failed' = Failed,
         \/ phase' \notin {"worklist", "edges"}
         \/ phase \in {"worklist", "edges"} /\ UNCHANGED <<worklist, scheduled>>
  PROVE  AtDistance(f, d)'
BY DEF AtDistance

\* Taking the front off the queue, and dealing with it, stays at its distance.
LEMMA DistanceKeptByFront ==
  ASSUME Inv, phase = "worklist", worklist # <<>>, worklist' = Tail(worklist),
         UNCHANGED <<request, scheduled>>,
         NEW f, NEW d \in Nat, AtDistance(f, d), Front.pc \in f[d],
         Discovered' \cup Failed' = Discovered \cup Failed \cup {Front.pc}
  PROVE  AtDistance(f, d)'
<1>1. /\ Len(worklist) \in Nat /\ Len(worklist) >= 1
      /\ Len(worklist)' = Len(worklist) - 1
      /\ \A i \in 1 .. Len(worklist) - 1 : worklist'[i] = worklist[i + 1]
  <2>1. worklist \in Seq([pc : Universe, source_block : Universe, is_entry : BOOLEAN])
    BY DEF Inv, TypeOK
  <2>2. Len(worklist) \in Nat /\ Len(worklist) >= 1
    BY <2>1
  <2>3. Len(worklist)' = Len(worklist) - 1
    BY <2>1, <2>2
  <2>4. \A i \in 1 .. Len(worklist) - 1 : worklist'[i] = worklist[i + 1]
    BY <2>1, <2>2
  <2> QED BY <2>2, <2>3, <2>4
<1>2. /\ Discovered \cup Failed \subseteq f[d]
      /\ \A m \in Nat : m < d => f[m] \subseteq Discovered \cup Failed
      /\ f[d] \subseteq scheduled /\ scheduled \subseteq f[d + 1]
      /\ \A i, j \in 1 .. Len(worklist) :
           i <= j /\ worklist[j].pc \in f[d] => worklist[i].pc \in f[d]
  BY DEF AtDistance
<1>3. ASSUME NEW i \in 1 .. Len(worklist)', NEW j \in 1 .. Len(worklist)',
             i <= j, worklist'[j].pc \in f[d]
      PROVE  worklist'[i].pc \in f[d]
  <2> DEFINE k == i + 1
             l == j + 1
  <2>1. k \in 1 .. Len(worklist) /\ l \in 1 .. Len(worklist) /\ k <= l
    BY <1>1, <1>3
  <2>2. worklist'[i] = worklist[k] /\ worklist'[j] = worklist[l]
    BY <1>1
  <2> HIDE DEF k, l
  <2> QED BY <1>2, <1>3, <2>1, <2>2
<1>4. Discovered' \cup Failed' \subseteq f[d]
  BY <1>2
<1>5. \A m \in Nat : m < d => f[m] \subseteq Discovered' \cup Failed'
  BY <1>2
<1> QED BY <1>2, <1>3, <1>4, <1>5 DEF AtDistance

\* An address that joins the queue is in the next layer.
LEMMA DistanceKeptByTarget ==
  ASSUME Inv, ScheduleTarget, NEW f, IsLayers(f), NEW d \in Nat, AtDistance(f, d)
  PROVE  AtDistance(f, d)'
<1> DEFINE e == Current.edges[edge]
           T == [pc : Universe, source_block : Universe, is_entry : BOOLEAN]
           p == Pending(e.target, Current.start_pc, FALSE)
<1>0. /\ RecordEdge /\ Follows(e) /\ e.target \notin scheduled
      /\ scheduled' = scheduled \cup {e.target}
      /\ worklist' = Append(worklist, p)
  BY DEF ScheduleTarget
<1>1. /\ phase = "edges" /\ Discovered' = Discovered /\ Failed' = Failed
      /\ edge \in 1 .. Len(Current.edges) /\ Len(blocks) \in 1 .. Len(blocks)
  BY <1>0, RecordEdgeFacts
<1>2. /\ Current.start_pc \in Discovered /\ AnalysisOk(mem, Current.start_pc)
      /\ Current = AnalyzeBasicBlock(mem, Current.start_pc).block
  BY <1>1, BlockFacts DEF Current
<1>3. e.target \in Successors(Current.start_pc)
  BY <1>0, <1>1, <1>2, FollowedEdge
<1>4. /\ Discovered \cup Failed \subseteq f[d]
      /\ \A m \in Nat : m < d => f[m] \subseteq Discovered \cup Failed
      /\ f[d] \subseteq scheduled /\ scheduled \subseteq f[d + 1]
      /\ \A i, j \in 1 .. Len(worklist) :
           i <= j /\ worklist[j].pc \in f[d] => worklist[i].pc \in f[d]
  BY <1>1 DEF AtDistance
<1>5. e.target \in f[d + 1] /\ e.target \notin f[d] /\ p.pc = e.target
  <2>1. f[d + 1] = Widened(f[d])
    BY DEF IsLayers
  <2>2. Current.start_pc \in f[d]
    BY <1>2, <1>4
  <2>3. p.pc = e.target
    BY DEF Pending
  <2> QED BY <1>0, <1>3, <1>4, <2>1, <2>2, <2>3 DEF Widened
<1>6. /\ Len(worklist) \in Nat /\ Len(worklist)' = Len(worklist) + 1
      /\ \A i \in 1 .. Len(worklist) : worklist'[i] = worklist[i]
      /\ worklist'[Len(worklist) + 1] = p
  <2>1. worklist \in Seq(T)
    BY DEF Inv, TypeOK
  <2>2. Len(worklist) \in Nat
    BY <2>1
  <2> HIDE DEF T, p
  <2>3. Len(worklist)' = Len(worklist) + 1
    BY <1>0, <2>1
  <2>4. \A i \in 1 .. Len(worklist) : worklist'[i] = worklist[i]
    BY <1>0, <2>1
  <2>5. worklist'[Len(worklist) + 1] = p
    BY <1>0, <2>1
  <2> QED BY <2>2, <2>3, <2>4, <2>5
<1> HIDE DEF p, e
<1>7. ASSUME NEW i \in 1 .. Len(worklist)', NEW j \in 1 .. Len(worklist)',
             i <= j, worklist'[j].pc \in f[d]
      PROVE  worklist'[i].pc \in f[d]
  <2>1. j # Len(worklist) + 1
    BY <1>5, <1>6, <1>7
  <2>2. i \in 1 .. Len(worklist) /\ j \in 1 .. Len(worklist)
    BY <1>6, <1>7, <2>1
  <2>3. worklist'[i] = worklist[i] /\ worklist'[j] = worklist[j]
    BY <1>6, <2>2
  <2> QED BY <1>4, <1>7, <2>2, <2>3
<1> QED BY <1>0, <1>1, <1>4, <1>5, <1>7 DEF AtDistance

\* Discovering a block adds its address.
LEMMA FrontIsDealtWith ==
  ASSUME Inv, FailTarget \/ DiscoverBlock
  PROVE  Discovered' \cup Failed' = Discovered \cup Failed \cup {Front.pc}
<1>1. CASE FailTarget
  <2> DEFINE new == Issue("TargetAnalysisFailed", Front.source_block, Front.pc, NoBlockPc,
                          AnalyzeBasicBlock(mem, Front.pc).error)
  <2>1. new.kind = "TargetAnalysisFailed" /\ new.target = Front.pc
    BY DEF Issue
  <2>2. issues' = issues \cup {new} /\ blocks' = blocks
    BY <1>1 DEF FailTarget
  <2> HIDE DEF new
  <2>3. Failed' = Failed \cup {Front.pc}
    BY <2>1, <2>2 DEF Failed
  <2>4. Discovered' = Discovered
    BY <2>2 DEF Discovered
  <2> QED BY <2>3, <2>4
<1>2. CASE DiscoverBlock
  <2> DEFINE b == AnalyzeBasicBlock(mem, Front.pc).block
             T == {AnalyzeBasicBlock(mem, pc).block : pc \in Universe}
  <2>1. /\ phase = "worklist" /\ worklist # <<>> /\ worklist' = Tail(worklist)
        /\ AnalysisOk(mem, Front.pc) /\ blocks' = Append(blocks, b)
        /\ UNCHANGED <<request, issues>>
    BY <1>2 DEF DiscoverBlock
  <2>2. Front.pc \in Universe
    BY <2>1, FrontFacts
  <2>3. b.start_pc = Front.pc
    <3>1. mem \in [MappedPc -> Word]
      BY DEF Inv, TypeOK
    <3> QED BY <2>1, <3>1, AnalysedBlock
  <2>4. blocks \in Seq(T) /\ b \in T
    BY <2>2 DEF Inv, TypeOK
  <2> HIDE DEF b, T
  <2>5. Discovered' = Discovered \cup {b.start_pc}
    BY <2>1, <2>4, BlockJoins
  <2>6. Failed' = Failed
    BY <2>1 DEF Failed
  <2> QED BY <2>3, <2>5, <2>6
<1> QED BY <1>1, <1>2

\* The end of the search deals with no address.
LEMMA ReachLimitDealsWithNothing ==
  ASSUME Finish \/ ReachLimit
  PROVE  Discovered' = Discovered /\ Failed' = Failed
<1>1. blocks' = blocks
  BY DEF Finish, ReachLimit
<1>2. \A i \in OverlappingLeaders(blocks) : i.kind # "TargetAnalysisFailed"
  BY OverlapIssues
<1>3. Issue("BlockLimitReached", Front.source_block, Front.pc, NoBlockPc, "None").kind
        = "BlockLimitReached"
  BY DEF Issue
<1>4. Failed' = Failed
  <2>1. CASE Finish
    BY <1>2, <2>1 DEF Finish, Failed
  <2>2. CASE ReachLimit
    BY <1>2, <1>3, <2>2 DEF ReachLimit, Failed
  <2> QED BY <2>1, <2>2
<1> QED BY <1>1, <1>4 DEF Discovered

\* Every step goes through the layers in order.
LEMMA NextIsBreadthFirst == Inv /\ BreadthInv /\ [Next]_vars => BreadthInv'
<1> SUFFICES ASSUME Inv, BreadthInv, [Next]_vars, NEW f, IsLayers(f)'
             PROVE  \E d \in Nat : AtDistance(f, d)'
  BY DEF BreadthInv
<1>1. UNCHANGED request
  BY DEF Next, vars, RejectBlockLimit, Start, Finish, ReachLimit, FailEntry, FailTarget,
         DiscoverBlock, ScheduleTarget, PassEdge, RecordEdge, FinishEdges
<1>2. IsLayers(f)
  BY <1>1, LayersAreFixed
<1>3. PICK d \in Nat : AtDistance(f, d)
  BY <1>2 DEF BreadthInv
<1>4. CASE RejectBlockLimit \/ FailEntry
  <2>1. Discovered' = Discovered /\ Failed' = Failed /\ phase' = "done"
    BY <1>4 DEF RejectBlockLimit, FailEntry, graph, Discovered, Failed
  <2> QED BY <1>3, <2>1, DistanceKept
<1>5. CASE Finish \/ ReachLimit
  <2>1. Discovered' = Discovered /\ Failed' = Failed
    BY <1>5, ReachLimitDealsWithNothing
  <2>2. phase' = "done"
    BY <1>5 DEF Finish, ReachLimit
  <2> QED BY <1>3, <2>1, <2>2, DistanceKept
<1>6. CASE Start
  <2>1. /\ phase = "start" /\ UNCHANGED graph
        /\ worklist' = << Pending(entry_pc, entry_pc, TRUE) >> /\ scheduled' = {entry_pc}
    BY <1>6 DEF Start
  <2>2. blocks = <<>> /\ issues = {}
    BY <2>1 DEF Inv, SearchInv
  <2>3. Discovered' = {} /\ Failed' = {}
    BY <2>1, <2>2 DEF graph, Discovered, Failed
  <2>4. f[0] = {entry_pc} /\ f[0 + 1] = Widened(f[0])
    <3>1. \A n \in Nat : f[n + 1] = Widened(f[n])
      BY <1>2 DEF IsLayers
    <3> QED BY <1>2, <3>1 DEF IsLayers
  <2>5. Len(worklist') = 1 /\ \A i \in 1 .. 1 : worklist'[i].pc = entry_pc
    BY <2>1 DEF Pending
  <2>6. AtDistance(f, 0)'
    BY <2>1, <2>3, <2>4, <2>5 DEF AtDistance, Widened
  <2> QED BY <2>6
<1>7. CASE FailTarget \/ DiscoverBlock
  <2>1. /\ phase = "worklist" /\ worklist # <<>> /\ worklist' = Tail(worklist)
        /\ UNCHANGED <<request, scheduled>>
    BY <1>7 DEF FailTarget, DiscoverBlock
  <2>2. PICK e \in Nat : AtDistance(f, e) /\ Front.pc \in f[e]
    BY <1>2, <1>3, <2>1, FrontIsNearest
  <2>3. Discovered' \cup Failed' = Discovered \cup Failed \cup {Front.pc}
    BY <1>7, FrontIsDealtWith
  <2> QED BY <2>1, <2>2, <2>3, DistanceKeptByFront
<1>8. CASE ScheduleTarget
  BY <1>2, <1>3, <1>8, DistanceKeptByTarget
<1>9. CASE PassEdge
  <2>1. RecordEdge /\ UNCHANGED <<worklist, scheduled>>
    BY <1>9 DEF PassEdge
  <2>2. Discovered' = Discovered /\ Failed' = Failed /\ phase = "edges"
    BY <2>1, RecordEdgeFacts
  <2> QED BY <1>3, <2>1, <2>2, DistanceKept
<1>10. CASE FinishEdges
  <2>1. /\ Discovered' = Discovered /\ Failed' = Failed /\ phase = "edges"
        /\ UNCHANGED <<worklist, scheduled>>
    BY <1>10 DEF FinishEdges, graph, Discovered, Failed
  <2> QED BY <1>3, <2>1, DistanceKept
<1>11. CASE UNCHANGED vars
  <2>1. /\ Discovered' = Discovered /\ Failed' = Failed
        /\ UNCHANGED <<phase, worklist, scheduled>>
    BY <1>11 DEF vars, graph, Discovered, Failed
  <2> QED BY <1>3, <2>1, DistanceKept
<1> QED BY <1>4, <1>5, <1>6, <1>7, <1>8, <1>9, <1>10, <1>11 DEF Next

\* The graph grows by distance from the entry: when a limit cuts it, what it lacks is no
\* nearer than anything it holds.
THEOREM GraphGrowsByDistance == Spec => []NearestFirst
<1>1. ASSUME Init PROVE BreadthInv
  <2>1. /\ Discovered = {} /\ Failed = {} /\ phase = "start"
    BY <1>1 DEF Init, Discovered, Failed
  <2>2. \A f : AtDistance(f, 0)
    BY <2>1 DEF AtDistance
  <2> QED BY <2>2 DEF BreadthInv
<1>2. Inv /\ BreadthInv /\ [Next]_vars => BreadthInv'
  BY NextIsBreadthFirst
<1>3. ASSUME Inv, BreadthInv, NEW n \in 0 .. Len(blocks)
      PROVE  \/ Discovered \subseteq Within[n]
             \/ Within[n] \subseteq Discovered \cup Failed
  <2>1. IsLayers(Within)
    BY <1>3, WithinIsLayers DEF Inv, TypeOK
  <2>2. PICK d \in Nat : AtDistance(Within, d)
    BY <1>3, <2>1 DEF BreadthInv
  <2>3. n \in Nat
    OBVIOUS
  <2>4. CASE d <= n
    <3>1. Within[d] \subseteq Within[n]
      BY <2>1, <2>3, <2>4, LayersGrow
    <3> QED BY <2>2, <3>1 DEF AtDistance
  <2>5. CASE n < d
    BY <2>2, <2>3, <2>5 DEF AtDistance
  <2> QED BY <2>3, <2>4, <2>5
<1>4. Inv /\ BreadthInv => NearestFirst
  BY <1>3 DEF NearestFirst, Within
<1> QED BY <1>1, <1>2, <1>4, Invariance, PTL DEF Spec

(***************************************************************************)
(* The report: blocks and the instructions of the program                   *)
(***************************************************************************)
\* Where the walk over the instructions of a block ends.
LastPc(s) == SitePc(s, Iterations(mem, s))

\* A search that ends without an error has analysed a block, its entry.
EntryInv ==
  /\ phase \in {"worklist", "edges"} =>
       /\ max_blocks # 0
       /\ blocks = <<>> => worklist # <<>> /\ Front.is_entry
  /\ phase = "done" /\ error = "None" => blocks # <<>>

LEMMA NextKeepsEntry == Inv /\ EntryInv /\ [Next]_vars => EntryInv'
<1> SUFFICES ASSUME Inv, EntryInv, [Next]_vars PROVE EntryInv'
  OBVIOUS
<1>1. CASE RejectBlockLimit \/ FailEntry
  BY <1>1 DEF RejectBlockLimit, FailEntry, EntryInv
<1>2. CASE Start
  BY <1>2 DEF Start, EntryInv, Front, Pending, request
<1>3. CASE Finish
  BY <1>3 DEF Finish, EntryInv
<1>4. CASE ReachLimit
  BY <1>4 DEF ReachLimit, EntryInv, AtLimit, Inv, TypeOK
<1>5. CASE FailTarget
  BY <1>5 DEF FailTarget, EntryInv, request
<1>6. CASE DiscoverBlock
  <2> DEFINE b == AnalyzeBasicBlock(mem, Front.pc).block
             B == {AnalyzeBasicBlock(mem, q).block : q \in Universe}
  <2>1. blocks \in Seq(B) /\ b \in B /\ blocks' = Append(blocks, b)
    BY <1>6, FrontFacts DEF DiscoverBlock, Inv, TypeOK
  <2> HIDE DEF B, b
  <2>2. blocks' # <<>>
    BY <2>1
  <2> QED BY <1>6, <2>2 DEF DiscoverBlock, EntryInv, request
<1>7. CASE ScheduleTarget \/ PassEdge \/ FinishEdges
  <2>1. phase = "edges" /\ blocks' = blocks /\ phase' \in {"worklist", "edges"}
        /\ max_blocks' = max_blocks
    BY <1>7 DEF ScheduleTarget, PassEdge, RecordEdge, FinishEdges, graph, request
  <2> QED BY <2>1 DEF EntryInv, Inv, SearchInv
<1>8. CASE UNCHANGED vars
  BY <1>8 DEF vars, graph, request, EntryInv, Front
<1> QED BY <1>1, <1>2, <1>3, <1>4, <1>5, <1>6, <1>7, <1>8 DEF Next

LEMMA EntryIsAnalysed == Spec => []EntryInv
<1>1. Init => EntryInv
  BY DEF Init, EntryInv
<1> QED BY <1>1, NextKeepsEntry, Invariance, PTL DEF Spec

\* The sites of a walk: all but the last neither end a block nor keep from it.
LEMMA WalkSites ==
  ASSUME max_instructions # 0, NEW s \in AlignedPc, NEW n, n = Iterations(mem, s)
  PROVE  /\ n \in 1 .. max_instructions /\ SitePc(s, 1) = s
         /\ \A i \in 1 .. n : SitePc(s, i) \in AlignedPc
         /\ \A i \in 1 .. n - 1 : /\ Fetchable(SitePc(s, i))
                                  /\ ~ EndsBlock(mem[SitePc(s, i)])
                                  /\ SitePc(s, i + 1) = Add32(SitePc(s, i), 4)
         /\ Fetchable(SitePc(s, n)) /\ ~ EndsBlock(mem[SitePc(s, n)]) => n = max_instructions
<1> DEFINE L == LoopLeavesAt(mem, s)
<1>1. n \in 1 .. max_instructions /\ \A i \in 1 .. n - 1 : Fetchable(SitePc(s, i))
  BY IterationsInRange
<1>2. max_instructions \in Nat
  BY OptionsAssumption
<1>3. L \in SUBSET Nat
  BY <1>2 DEF LoopLeavesAt
<1>4. \A i \in 1 .. n - 1 : i \notin L
  <2>1. CASE L = {}
    BY <2>1
  <2>2. CASE L # {}
    <3>1. n = First(L)
      BY <2>2 DEF Iterations
    <3>2. \A j \in L : First(L) <= j /\ First(L) \in Nat
      BY <1>3, <2>2, FirstIsLeast
    <3> HIDE DEF L
    <3> QED BY <1>1, <1>2, <1>3, <3>1, <3>2
  <2> QED BY <2>1, <2>2
<1>5. n # max_instructions => n \in L
  <2>1. CASE L = {}
    BY <2>1 DEF Iterations
  <2>2. CASE L # {}
    BY <1>3, <2>2, FirstIsLeast DEF Iterations
  <2> QED BY <2>1, <2>2
<1>6. s \in Nat /\ s \in Pc
  BY AddressSpaceAssumption DEF AlignedPc, Pc
<1>7. SitePc(s, 1) = s
  <2>1. 4 * (1 - 1) = 0
    OBVIOUS
  <2> QED BY <1>6, <2>1, Add32Zero DEF SitePc
<1>8. ASSUME NEW i \in 1 .. n PROVE SitePc(s, i) \in AlignedPc
  <2>1. 4 * (i - 1) \in Nat /\ (4 * (i - 1)) % 4 = 0
    BY <1>1, <1>2
  <2> QED BY <2>1, Add32Aligned DEF SitePc
<1>9. ASSUME NEW i \in 1 .. n - 1
      PROVE  ~ EndsBlock(mem[SitePc(s, i)]) /\ SitePc(s, i + 1) = Add32(SitePc(s, i), 4)
  <2>1. i \in 1 .. max_instructions /\ 4 * (i - 1) \in Nat
        /\ 4 * (i - 1) + 4 = 4 * ((i + 1) - 1)
    BY <1>1, <1>2
  <2>2. ~ EndsBlock(mem[SitePc(s, i)])
    BY <1>4, <2>1 DEF LoopLeavesAt
  <2>3. Add32(Add32(s, 4 * (i - 1)), 4) = Add32(s, 4 * (i - 1) + 4)
    BY <1>6, <2>1, Add32Twice
  <2> QED BY <2>1, <2>2, <2>3 DEF SitePc
<1>10. Fetchable(SitePc(s, n)) /\ ~ EndsBlock(mem[SitePc(s, n)]) => n = max_instructions
  BY <1>5 DEF LoopLeavesAt
<1> QED BY <1>1, <1>7, <1>8, <1>9, <1>10

\* What the analysis makes of a walk: it succeeds where the last instruction can be
\* performed, and the block has that instruction's edges and delay slot.
LEMMA BlockOfWalk ==
  ASSUME max_instructions # 0, NEW s \in AlignedPc,
         NEW pc, pc = LastPc(s), NEW d, d = mem[pc]
  PROVE  /\ AnalysisOk(mem, s) <=> Performs(pc)
         /\ AnalysisOk(mem, s) =>
              LET block == AnalyzeBasicBlock(mem, s).block
              IN  /\ block.start_pc = s
                  /\ block.instructions = Sites(mem, s)
                  /\ block.edges = IF d.instruction = "Unknown" \/ IsTrap(d) THEN <<>>
                                   ELSE IF IsControlTransfer(d) THEN TransferEdges(d, pc)
                                   ELSE << Edge("Fallthrough", Add32(pc, 4)) >>
                  /\ block.delay_slot = IF IsControlTransfer(d) THEN Add32(pc, 4)
                                        ELSE NoTarget
<1> DEFINE n == Iterations(mem, s)
           sites == Sites(mem, s)
           R == AnalyzeBasicBlock(mem, s)
<1>1. s % 4 = 0 /\ pc = SitePc(s, n)
  BY DEF AlignedPc, LastPc
<1>2. n \in Nat /\ n >= 1
  BY WalkSites, OptionsAssumption
<1>3. sites[Len(sites)] = [pc |-> pc, decoded |-> d]
  <2>1. sites = [i \in 1 .. n |-> [pc |-> SitePc(s, i), decoded |-> mem[SitePc(s, i)]]]
    BY DEF Sites
  <2> HIDE DEF n, sites
  <2> QED BY <1>1, <1>2, <2>1
<1>4. IsControlTransfer(d) => d.instruction # "Unknown" /\ ~ IsTrap(d)
  BY DEF IsControlTransfer, IsTrap, SystemInstructions, BranchInstructions, LikelyBranches,
         JumpInstructions
<1> HIDE DEF sites, n
<1>5. CASE ~ Fetchable(pc)
  <2>1. R = Failure(FetchError(pc, "NonExecutableInstruction", "UnmappedInstruction"))
    BY <1>1, <1>5 DEF AnalyzeBasicBlock, n
  <2> QED BY <1>5, <2>1 DEF AnalysisOk, Failure, FetchError, Performs
<1>6. CASE Fetchable(pc) /\ d.instruction = "Unknown"
  <2>1. R = Block(s, sites, "UnsupportedInstruction", NoTarget, TRUE, <<>>)
    BY <1>1, <1>6 DEF AnalyzeBasicBlock, n, sites
  <2> QED BY <1>4, <1>6, <2>1 DEF AnalysisOk, Block, Performs, sites
<1>7. CASE Fetchable(pc) /\ d.instruction # "Unknown" /\ IsTrap(d)
  <2>1. R = Block(s, sites, "Trap", NoTarget, TRUE, <<>>)
    BY <1>1, <1>7 DEF AnalyzeBasicBlock, n, sites
  <2> QED BY <1>4, <1>7, <2>1 DEF AnalysisOk, Block, Performs, sites
<1>8. CASE Fetchable(pc) /\ d.instruction # "Unknown" /\ ~ IsTrap(d) /\ ~ IsControlTransfer(d)
  <2>1. R = Block(s, sites, "InstructionLimit", NoTarget, TRUE,
                  << Edge("Fallthrough", Add32(pc, 4)) >>)
    BY <1>1, <1>8 DEF AnalyzeBasicBlock, n, sites
  <2> QED BY <1>8, <2>1 DEF AnalysisOk, Block, Performs, sites
<1>9. CASE Fetchable(pc) /\ d.instruction # "Unknown" /\ ~ IsTrap(d) /\ IsControlTransfer(d)
  <2>1. R = FinishControlTransfer(mem, s, sites)
    BY <1>1, <1>9 DEF AnalyzeBasicBlock, n, sites
  <2>2. CASE ~ Fetchable(Add32(pc, 4))
    <3>1. R = Failure(FetchError(Add32(pc, 4), "NonExecutableDelaySlot", "MissingDelaySlot"))
      BY <1>3, <2>1, <2>2 DEF FinishControlTransfer
    <3> QED BY <1>9, <2>2, <3>1 DEF AnalysisOk, Failure, FetchError, Performs
  <2>3. CASE Fetchable(Add32(pc, 4))
    <3>1. R = Block(s, sites, EndKind(d), Add32(pc, 4), d.instruction \notin LikelyBranches,
                    TransferEdges(d, pc))
      BY <1>3, <2>1, <2>3 DEF FinishControlTransfer
    <3> QED BY <1>9, <2>3, <3>1 DEF AnalysisOk, Block, Performs, sites
  <2> QED BY <2>2, <2>3
<1> QED BY <1>5, <1>6, <1>7, <1>8, <1>9

\* An address that can be analysed is the address of a word.
LEMMA AnalysedIsAligned ==
  ASSUME Inv, NEW s \in Universe, AnalysisOk(mem, s)
  PROVE  s \in AlignedPc
<1>1. s % 4 = 0
  BY DEF AnalysisOk, AnalyzeBasicBlock, Failure
<1> QED BY <1>1 DEF Universe, AlignedPc, Inv, TypeOK

\* Within a walk control goes from word to word.
LEMMA ControlGoesOn ==
  ASSUME max_instructions # 0, NEW s \in AlignedPc, NEW i \in 1 .. Iterations(mem, s) - 1
  PROVE  Performs(SitePc(s, i)) /\ GoesTo(SitePc(s, i)) = {SitePc(s, i + 1)}
<1> DEFINE pc == SitePc(s, i)
<1>1. Fetchable(pc) /\ ~ EndsBlock(mem[pc]) /\ SitePc(s, i + 1) = Add32(pc, 4)
  BY WalkSites
<1> HIDE DEF pc
<1>2. Performs(pc)
  BY <1>1 DEF Performs, EndsBlock
<1>3. GoesTo(pc) = {Add32(pc, 4)}
  BY <1>1, <1>2 DEF GoesTo, EndsBlock
<1> QED BY <1>1, <1>2, <1>3 DEF pc

\* At its end it goes to the successors of the block, if there is one.
LEMMA ControlLeadsOn ==
  ASSUME max_instructions # 0, NEW s \in AlignedPc
  PROVE  GoesTo(LastPc(s)) = IF AnalysisOk(mem, s) THEN Successors(s) ELSE {}
<1> DEFINE pc == LastPc(s)
           d == mem[pc]
           block == AnalyzeBasicBlock(mem, s).block
<1>1. /\ AnalysisOk(mem, s) <=> Performs(pc)
      /\ AnalysisOk(mem, s) =>
           block.edges = IF d.instruction = "Unknown" \/ IsTrap(d) THEN <<>>
                         ELSE IF IsControlTransfer(d) THEN TransferEdges(d, pc)
                         ELSE << Edge("Fallthrough", Add32(pc, 4)) >>
  BY BlockOfWalk
<1>2. AnalysisOk(mem, s) =>
        Successors(s) = {e.target : e \in {x \in EdgesOf(block) : Follows(x)}}
  BY DEF Successors, AnalysisOk
<1> HIDE DEF pc, block
<1>3. CASE ~ AnalysisOk(mem, s)
  BY <1>1, <1>3 DEF GoesTo, pc
<1>4. CASE AnalysisOk(mem, s) /\ (d.instruction = "Unknown" \/ IsTrap(d))
  <2>1. EdgesOf(block) = {}
    BY <1>1, <1>4 DEF EdgesOf
  <2>2. ~ IsControlTransfer(d)
    BY <1>4 DEF IsControlTransfer, IsTrap, SystemInstructions, BranchInstructions,
                LikelyBranches, JumpInstructions
  <2>3. GoesTo(pc) = {}
    BY <1>4, <2>2 DEF GoesTo
  <2> QED BY <1>2, <1>4, <2>1, <2>3 DEF pc
<1>5. CASE AnalysisOk(mem, s) /\ ~ (d.instruction = "Unknown" \/ IsTrap(d)) /\ IsControlTransfer(d)
  <2>1. DOMAIN TransferEdges(d, pc) = 1 .. Len(TransferEdges(d, pc))
    <3>1. d.instruction \in BranchInstructions \cup {"J", "Jal", "Jr", "Jalr"}
      BY <1>5 DEF IsControlTransfer, JumpInstructions
    <3>2. \E a, b : TransferEdges(d, pc) \in {<<a>>, <<a, b>>}
      <4>1. CASE d.instruction \in BranchInstructions
        BY <4>1 DEF TransferEdges, BranchInstructions, LikelyBranches
      <4>2. CASE d.instruction = "J"
        BY <4>2 DEF TransferEdges, BranchInstructions, LikelyBranches
      <4>3. CASE d.instruction = "Jal"
        BY <4>3 DEF TransferEdges, BranchInstructions, LikelyBranches
      <4>4. CASE d.instruction = "Jr"
        BY <4>4 DEF TransferEdges, BranchInstructions, LikelyBranches
      <4>5. CASE d.instruction = "Jalr"
        BY <4>5 DEF TransferEdges, BranchInstructions, LikelyBranches
      <4> QED BY <3>1, <4>1, <4>2, <4>3, <4>4, <4>5
    <3> QED BY <3>2
  <2>2. EdgesOf(block) = {TransferEdges(d, pc)[i] : i \in DOMAIN TransferEdges(d, pc)}
    BY <1>1, <1>5, <2>1 DEF EdgesOf
  <2>3. GoesTo(pc) = {e.target : e \in {x \in {TransferEdges(d, pc)[i] :
                                      i \in DOMAIN TransferEdges(d, pc)} : Follows(x)}}
    BY <1>1, <1>5 DEF GoesTo
  <2> QED BY <1>2, <1>5, <2>2, <2>3 DEF pc
<1>6. CASE AnalysisOk(mem, s) /\ ~ (d.instruction = "Unknown" \/ IsTrap(d)) /\ ~ IsControlTransfer(d)
  <2> DEFINE e == Edge("Fallthrough", Add32(pc, 4))
  <2>1. block.edges = <<e>>
    BY <1>1, <1>6
  <2>2. EdgesOf(block) = {e}
    <3> HIDE DEF e
    <3> QED BY <2>1 DEF EdgesOf
  <2>3. e.target = Add32(pc, 4) /\ e.kind = "Fallthrough"
    BY DEF Edge
  <2>4. Add32(pc, 4) # NoTarget
    <3>1. pc \in AlignedPc
      BY WalkSites, OptionsAssumption DEF pc, LastPc
    <3>2. Add32(pc, 4) \in AlignedPc
      BY <3>1, Add32Aligned
    <3> QED BY <3>2, InputsAssumption DEF AlignedPc
  <2> HIDE DEF e
  <2>5. Follows(e)
    BY <2>3, <2>4 DEF Follows, SameFlow
  <2>6. Successors(s) = {Add32(pc, 4)}
    BY <1>2, <1>6, <2>2, <2>3, <2>5
  <2>7. GoesTo(pc) = {Add32(pc, 4)}
    BY <1>1, <1>6 DEF GoesTo
  <2> QED BY <1>6, <2>6, <2>7 DEF pc
<1> QED BY <1>3, <1>4, <1>5, <1>6

\* Whatever holds the entry and all that control goes to holds what is visited, and an
\* address in everything of this kind is visited if it can be performed.
IsFlow(S) ==
  /\ S \in SUBSET Universe /\ entry_pc \in S
  /\ \A pc \in S : GoesTo(pc) \subseteq S

LEMMA VisitedIsLeast ==
  \A pc : pc \in Visited <=>
            pc \in Universe /\ Performs(pc) /\ \A S : IsFlow(S) => pc \in S
<1> DEFINE Steps == {<<q, GoesTo(q)>> : q \in Universe}
           Closed == {S \in SUBSET Universe :
                        entry_pc \in S /\ \A step \in Steps : step[1] \in S => step[2] \subseteq S}
<1>1. ASSUME NEW S \in SUBSET Universe
      PROVE  (\A step \in Steps : step[1] \in S => step[2] \subseteq S)
               <=> \A pc \in S : GoesTo(pc) \subseteq S
  <2> DEFINE Target(q) == GoesTo(q)
  <2>1. Steps = {<<q, Target(q)>> : q \in Universe}
    OBVIOUS
  <2> HIDE DEF Target, Steps
  <2>2. ASSUME \A step \in Steps : step[1] \in S => step[2] \subseteq S, NEW q \in S
        PROVE  Target(q) \subseteq S
    <3>1. <<q, Target(q)>> \in Steps
      BY <2>1, <2>2
    <3>2. <<q, Target(q)>>[1] = q /\ <<q, Target(q)>>[2] = Target(q)
      OBVIOUS
    <3> QED BY <2>2, <3>1, <3>2
  <2>3. ASSUME \A q \in S : Target(q) \subseteq S, NEW step \in Steps, step[1] \in S
        PROVE  step[2] \subseteq S
    <3>1. PICK q \in Universe : step = <<q, Target(q)>>
      BY <2>1
    <3>2. step[1] = q /\ step[2] = Target(q)
      BY <3>1
    <3> QED BY <2>3, <3>2
  <2>4. (\A step \in Steps : step[1] \in S => step[2] \subseteq S)
          <=> \A q \in S : Target(q) \subseteq S
    BY <2>2, <2>3
  <2> QED BY <2>4 DEF Target
<1>2. \A S : S \in Closed <=> IsFlow(S)
  BY <1>1 DEF IsFlow
<1>3. Visited = {pc \in Universe : Performs(pc) /\ \A S \in Closed : pc \in S}
  BY DEF Visited
<1> HIDE DEF Closed
<1> QED BY <1>2, <1>3

\* Control comes to every word that the analysis of a reachable address walks over.
LEMMA WalksAreVisited ==
  ASSUME Inv, max_instructions # 0, NEW s \in Reachable, s \in AlignedPc,
         NEW i \in 1 .. Iterations(mem, s), Performs(SitePc(s, i))
  PROVE  SitePc(s, i) \in Visited
<1> SUFFICES ASSUME NEW S, IsFlow(S) PROVE SitePc(s, i) \in S
  <2>1. SitePc(s, i) \in Universe
    BY WalkSites DEF Universe
  <2> QED BY <2>1, VisitedIsLeast
<1>1. S \in SUBSET Universe /\ entry_pc \in S /\ \A pc \in S : GoesTo(pc) \subseteq S
  BY DEF IsFlow
<1>2. ASSUME NEW start \in S, start \in AlignedPc
      PROVE  \A j \in 1 .. Iterations(mem, start) : SitePc(start, j) \in S
  <2> DEFINE n == Iterations(mem, start)
             T == {j \in 1 .. n : SitePc(start, j) \notin S}
  <2> SUFFICES ASSUME T # {} PROVE FALSE
    OBVIOUS
  <2>1. n \in Nat /\ SitePc(start, 1) = start
    BY <1>2, WalkSites, OptionsAssumption
  <2>2. T \in SUBSET Nat
    OBVIOUS
  <2> DEFINE j == First(T)
  <2>3. j \in T /\ \A k \in T : j <= k
    <3> HIDE DEF T
    <3> QED BY <2>2, FirstIsLeast
  <2> HIDE DEF n, j
  <2>4. j \in 1 .. n /\ SitePc(start, j) \notin S /\ j # 1
    BY <1>2, <2>1, <2>3
  <2>5. j - 1 \in 1 .. n - 1 /\ j - 1 \in 1 .. n /\ ~ (j <= j - 1) /\ (j - 1) + 1 = j
    BY <2>1, <2>4
  <2>6. SitePc(start, j - 1) \in S
    BY <2>3, <2>5
  <2>7. GoesTo(SitePc(start, j - 1)) = {SitePc(start, (j - 1) + 1)}
    BY <1>2, <2>5, ControlGoesOn DEF n
  <2>8. SitePc(start, j) \in S
    BY <1>1, <2>5, <2>6, <2>7
  <2> QED BY <2>4, <2>8
<1>3. ASSUME NEW start \in S PROVE Successors(start) \subseteq S
  <2>1. CASE AnalysisOk(mem, start)
    <3>1. start \in AlignedPc
      BY <1>1, <2>1, AnalysedIsAligned
    <3>2. Iterations(mem, start) \in 1 .. Iterations(mem, start)
      BY <3>1, WalkSites, OptionsAssumption
    <3>3. LastPc(start) \in S
      BY <1>2, <3>1, <3>2 DEF LastPc
    <3>4. GoesTo(LastPc(start)) = Successors(start)
      BY <2>1, <3>1, ControlLeadsOn
    <3> QED BY <1>1, <3>3, <3>4
  <2>2. CASE ~ AnalysisOk(mem, start)
    BY <2>2 DEF Successors, AnalysisOk
  <2> QED BY <2>1, <2>2
<1>4. Reachable \subseteq S
  BY <1>1, <1>3, ReachableIsLeast
<1> QED BY <1>2, <1>4

\* It comes to no other words.
OnWalk(pc) ==
  \E s \in Reachable \cap AlignedPc : \E i \in 1 .. Iterations(mem, s) : pc = SitePc(s, i)

LEMMA VisitedIsOnWalk ==
  ASSUME Inv, max_instructions # 0, NEW pc \in Visited
  PROVE  OnWalk(pc)
<1> DEFINE S == {q \in Universe : Performs(q) => OnWalk(q)}
<1>1. ASSUME NEW q \in Reachable, Performs(q) PROVE OnWalk(q)
  <2>1. q \in AlignedPc
    BY <1>1 DEF Performs, Fetchable, MappedPc
  <2>2. SitePc(q, 1) = q /\ 1 \in 1 .. Iterations(mem, q)
    BY <2>1, WalkSites, OptionsAssumption
  <2> QED BY <2>1, <2>2 DEF OnWalk
<1>2. entry_pc \in S
  BY <1>1, EntryIsReachable DEF Universe
<1>3. ASSUME NEW q \in S PROVE GoesTo(q) \subseteq S
  <2>1. CASE ~ Performs(q)
    <3>1. GoesTo(q) = {}
      BY <2>1 DEF GoesTo
    <3> QED BY <3>1
  <2>2. CASE Performs(q)
    <3>0. PICK s \in Reachable \cap AlignedPc :
                 \E i \in 1 .. Iterations(mem, s) : q = SitePc(s, i)
      BY <2>2 DEF OnWalk
    <3> DEFINE n == Iterations(mem, s)
    <3>1. PICK i \in 1 .. n : q = SitePc(s, i)
      BY <3>0
    <3>2. n \in Nat /\ \A j \in 1 .. n : SitePc(s, j) \in AlignedPc
      BY WalkSites, OptionsAssumption
    <3>3. CASE i # n
      <4>1. i \in 1 .. n - 1 /\ i + 1 \in 1 .. n
        BY <3>2, <3>3
      <4>2. GoesTo(q) = {SitePc(s, i + 1)}
        BY <3>1, <4>1, ControlGoesOn
      <4>3. SitePc(s, i + 1) \in Universe /\ OnWalk(SitePc(s, i + 1))
        BY <3>2, <4>1 DEF Universe, OnWalk
      <4> QED BY <4>2, <4>3
    <3>4. CASE i = n
      <4>1. GoesTo(q) \subseteq Successors(s)
        BY <3>1, <3>4, ControlLeadsOn DEF LastPc
      <4>2. Successors(s) \subseteq Reachable /\ Reachable \subseteq Universe
        BY <3>1, ReachableIsClosed DEF Inv, TypeOK, Reachable
      <4> QED BY <1>1, <4>1, <4>2
    <3> QED BY <3>3, <3>4
  <2> QED BY <2>1, <2>2
<1>4. IsFlow(S)
  <2>1. S \in SUBSET Universe
    OBVIOUS
  <2> HIDE DEF S
  <2> QED BY <1>2, <1>3, <2>1 DEF IsFlow
<1>5. Performs(pc) /\ pc \in S
  BY <1>4, VisitedIsLeast
<1> QED BY <1>5

\* A visited instruction that ends blocks is the last of the block of a reachable address.
LEMMA VisitedEndsBlock ==
  ASSUME Inv, max_instructions # 0, NEW pc \in Visited, EndsBlock(mem[pc])
  PROVE  \E s \in Reachable \cap AlignedPc : AnalysisOk(mem, s) /\ pc = LastPc(s)
<1>0. PICK s \in Reachable \cap AlignedPc :
             \E i \in 1 .. Iterations(mem, s) : pc = SitePc(s, i)
  BY VisitedIsOnWalk DEF OnWalk
<1>1. PICK i \in 1 .. Iterations(mem, s) : pc = SitePc(s, i)
  BY <1>0
<1>2. Performs(pc)
  BY VisitedIsLeast
<1> DEFINE n == Iterations(mem, s)
<1>3. n \in Nat /\ \A j \in 1 .. n - 1 : ~ EndsBlock(mem[SitePc(s, j)])
  BY WalkSites, OptionsAssumption
<1>4. i = n
  <2>1. i # n => i \in 1 .. n - 1
    BY <1>3
  <2> QED BY <1>1, <1>3, <2>1
<1>5. pc = LastPc(s)
  BY <1>1, <1>4 DEF LastPc
<1>6. AnalysisOk(mem, s)
  BY <1>2, <1>5, BlockOfWalk
<1> QED BY <1>5, <1>6

(***************************************************************************)
(* The report: the order of the blocks                                      *)
(***************************************************************************)
\* found lists blocks of which each has its own start.
IsDistinct(found) ==
  /\ Len(found) \in Nat /\ DOMAIN found = 1 .. Len(found)
  /\ \A i \in 1 .. Len(found) : found[i].start_pc \in Nat
  /\ \A i, j \in 1 .. Len(found) : found[i].start_pc = found[j].start_pc => i = j

\* The places of the blocks that start before one.
Before(found, block) == {i \in DOMAIN found : found[i].start_pc < block.start_pc}

LEMMA BeforeIsFinite ==
  ASSUME NEW found, IsDistinct(found), NEW i \in 1 .. Len(found)
  PROVE  /\ IsFiniteSet(Before(found, found[i]))
         /\ Cardinality(Before(found, found[i])) + 1 \in 1 .. Len(found)
<1> DEFINE n == Len(found)
           B == Before(found, found[i])
<1>1. n \in Nat /\ B \in SUBSET (1 .. n) /\ i \notin B
  BY DEF IsDistinct, Before
<1>2. IsFiniteSet(1 .. n) /\ Cardinality(1 .. n) = n
  BY <1>1, FS_Interval
<1> HIDE DEF B, n
<1>3. IsFiniteSet(B) /\ Cardinality(B) <= n /\ Cardinality(B) # n
  BY <1>1, <1>2, FS_Subset DEF n
<1>4. Cardinality(B) \in Nat
  BY <1>3, FS_CardinalityType
<1> QED BY <1>1, <1>3, <1>4 DEF B, n

LEMMA LaterHasMoreBefore ==
  ASSUME NEW found, IsDistinct(found), NEW i \in 1 .. Len(found), NEW j \in 1 .. Len(found),
         found[i].start_pc < found[j].start_pc
  PROVE  Cardinality(Before(found, found[i])) # Cardinality(Before(found, found[j]))
<1> DEFINE A == Before(found, found[i])
           B == Before(found, found[j])
<1>1. A \in SUBSET B /\ i \in B /\ i \notin A
  BY DEF IsDistinct, Before
<1>2. IsFiniteSet(B)
  BY BeforeIsFinite
<1> HIDE DEF A, B
<1>3. Cardinality(B) # Cardinality(A)
  BY <1>1, <1>2, FS_Subset
<1> QED BY <1>3 DEF A, B

\* So no two blocks have the same number before them, and every number there is place
\* for is that of a block.
LEMMA EveryPlaceIsTaken ==
  ASSUME NEW found, IsDistinct(found)
  PROVE  /\ \A i, j \in 1 .. Len(found) :
              Cardinality(Before(found, found[i])) = Cardinality(Before(found, found[j])) => i = j
         /\ \A place \in 1 .. Len(found) : \E i \in 1 .. Len(found) :
              Cardinality(Before(found, found[i])) = place - 1
<1> DEFINE n == Len(found)
           C(i) == Cardinality(Before(found, found[i]))
           rank == [i \in 1 .. n |-> C(i) + 1]
<1>1. n \in Nat /\ \A i \in 1 .. n : C(i) + 1 \in 1 .. n /\ C(i) \in Nat
  BY BeforeIsFinite, FS_CardinalityType DEF IsDistinct
<1>2. ASSUME NEW i \in 1 .. n, NEW j \in 1 .. n, C(i) = C(j) PROVE i = j
  <2>1. ~ (found[i].start_pc < found[j].start_pc) /\ ~ (found[j].start_pc < found[i].start_pc)
    BY <1>2, LaterHasMoreBefore
  <2> QED BY <2>1 DEF IsDistinct
<1> HIDE DEF C, n
<1>3. rank \in Injection(1 .. n, 1 .. n)
  BY <1>1, <1>2 DEF Injection, IsInjective
<1>4. IsFiniteSet(1 .. n)
  BY <1>1, FS_Interval
<1>5. rank \in Surjection(1 .. n, 1 .. n)
  <2> HIDE DEF rank
  <2> QED BY <1>3, <1>4, FS_Injection
<1>6. ASSUME NEW place \in 1 .. n PROVE \E i \in 1 .. n : C(i) = place - 1
  <2>1. PICK i \in 1 .. n : rank[i] = place
    BY <1>5 DEF Surjection
  <2> QED BY <1>1, <2>1
<1> QED BY <1>2, <1>6 DEF C, n

\* What the report prints are the blocks of the graph, each at the place that the number
\* of the blocks before it gives it.
LEMMA SortedHoldsTheBlocks ==
  ASSUME NEW found, IsDistinct(found)
  PROVE  LET sorted == SortedBlocks(found)
         IN  /\ DOMAIN sorted = 1 .. Len(found)
             /\ \A place \in 1 .. Len(found) : \E i \in 1 .. Len(found) :
                  sorted[place] = found[i] /\ Cardinality(Before(found, found[i])) = place - 1
             /\ \A i \in 1 .. Len(found) : \E place \in 1 .. Len(found) : sorted[place] = found[i]
<1> DEFINE n == Len(found)
           sorted == SortedBlocks(found)
           C(block) == Cardinality(Before(found, block))
           B == {found[i] : i \in 1 .. n}
<1>1. n \in Nat /\ DOMAIN found = 1 .. n
  BY DEF IsDistinct
<1>2. sorted = [place \in 1 .. n |-> CHOOSE block \in B : C(block) = place - 1]
  BY <1>1 DEF SortedBlocks, Before
<1>3. /\ \A i, j \in 1 .. n : C(found[i]) = C(found[j]) => i = j
      /\ \A place \in 1 .. n : \E i \in 1 .. n : C(found[i]) = place - 1
  BY EveryPlaceIsTaken
<1>4. \A i \in 1 .. n : C(found[i]) + 1 \in 1 .. n /\ C(found[i]) \in Nat
  BY BeforeIsFinite, FS_CardinalityType
<1> HIDE DEF n, C, sorted
<1>5. ASSUME NEW place \in 1 .. n
      PROVE  \E i \in 1 .. n : sorted[place] = found[i] /\ C(found[i]) = place - 1
  <2>1. \E block \in B : C(block) = place - 1
    BY <1>3
  <2>2. sorted[place] \in B /\ C(sorted[place]) = place - 1
    <3> HIDE DEF B
    <3> QED BY <1>2, <2>1
  <2> QED BY <2>2
<1>6. ASSUME NEW i \in 1 .. n PROVE \E place \in 1 .. n : sorted[place] = found[i]
  <2>1. C(found[i]) + 1 \in 1 .. n /\ (C(found[i]) + 1) - 1 = C(found[i])
    BY <1>4
  <2>2. PICK j \in 1 .. n : sorted[C(found[i]) + 1] = found[j] /\ C(found[j]) = C(found[i])
    BY <1>5, <2>1
  <2> QED BY <1>3, <2>1, <2>2
<1>7. DOMAIN sorted = 1 .. n
  BY <1>2
<1> QED BY <1>5, <1>6, <1>7 DEF n, C, sorted

\* The order is that of the start addresses, whatever order the blocks were found in.
LEMMA SortedIsCanonical ==
  ASSUME NEW found, IsDistinct(found)
  PROVE  SortedBlocks(Seqs!Reverse(found)) = SortedBlocks(found)
<1> DEFINE n == Len(found)
           back == Seqs!Reverse(found)
           flip == [i \in 1 .. n |-> (n - i) + 1]
<1>1. n \in Nat /\ DOMAIN found = 1 .. n
  BY DEF IsDistinct
<1>2. back = [i \in 1 .. n |-> found[(n - i) + 1]]
  BY DEF Seqs!Reverse
<1>3. Len(back) = n /\ DOMAIN back = 1 .. n
  <2> HIDE DEF back, n
  <2> QED BY <1>1, <1>2
<1>4. \A i \in 1 .. n : (n - i) + 1 \in 1 .. n /\ (n - ((n - i) + 1)) + 1 = i
  BY <1>1
<1>5. IsDistinct(back)
  <2>1. \A i \in 1 .. n : back[i].start_pc \in Nat
    <3> HIDE DEF back
    <3> QED BY <1>2, <1>4 DEF IsDistinct
  <2>2. ASSUME NEW i \in 1 .. n, NEW j \in 1 .. n, back[i].start_pc = back[j].start_pc
        PROVE  i = j
    <3>1. found[(n - i) + 1].start_pc = found[(n - j) + 1].start_pc
      <4> HIDE DEF back
      <4> QED BY <1>2, <2>2
    <3>2. (n - i) + 1 = (n - j) + 1
      BY <1>4, <3>1 DEF IsDistinct
    <3> QED BY <1>1, <3>2
  <2> HIDE DEF back, n
  <2> QED BY <1>1, <1>3, <2>1, <2>2 DEF IsDistinct
<1> HIDE DEF back, n
<1>6. ASSUME NEW block
      PROVE  ExistsBijection(Before(found, block), Before(back, block))
  <2> DEFINE A == Before(found, block)
             B == Before(back, block)
             f == [i \in A |-> (n - i) + 1]
  <2>1. A = {i \in 1 .. n : found[i].start_pc < block.start_pc}
    BY <1>1 DEF Before
  <2>2. B = {i \in 1 .. n : found[(n - i) + 1].start_pc < block.start_pc}
    BY <1>2, <1>3 DEF Before
  <2> HIDE DEF A, B
  <2>3. \A i \in A : i \in 1 .. n /\ (n - i) + 1 \in B
    BY <1>4, <2>1, <2>2
  <2>4. \A i \in B : i \in 1 .. n /\ (n - i) + 1 \in A
    BY <2>1, <2>2, <1>4
  <2>5. f \in [A -> B]
    BY <2>3
  <2>6. \A i, j \in A : f[i] = f[j] => i = j
    BY <1>1, <2>3
  <2>7. \A k \in B : \E i \in A : f[i] = k
    BY <1>4, <2>4
  <2>8. f \in Bijection(A, B)
    <3> HIDE DEF f
    <3> QED BY <2>5, <2>6, <2>7 DEF Bijection, Injection, Surjection, IsInjective
  <2> QED BY <2>8 DEF ExistsBijection, A, B
<1>7. ASSUME NEW i \in 1 .. n
      PROVE  Cardinality(Before(back, found[i])) = Cardinality(Before(found, found[i]))
  <2>1. IsFiniteSet(Before(found, found[i]))
    BY BeforeIsFinite DEF n
  <2> QED BY <1>6, <2>1, FS_Bijection
<1>8. ASSUME NEW place \in 1 .. n
      PROVE  SortedBlocks(back)[place] = SortedBlocks(found)[place]
  <2>1. PICK i \in 1 .. n : SortedBlocks(found)[place] = found[i]
                            /\ Cardinality(Before(found, found[i])) = place - 1
    BY SortedHoldsTheBlocks DEF n
  <2>2. PICK j \in 1 .. n : SortedBlocks(back)[place] = back[j]
                            /\ Cardinality(Before(back, back[j])) = place - 1
    BY <1>3, <1>5, SortedHoldsTheBlocks
  <2>3. (n - j) + 1 \in 1 .. n /\ back[j] = found[(n - j) + 1]
    BY <1>2, <1>4
  <2>4. Cardinality(Before(found, found[(n - j) + 1])) = Cardinality(Before(found, found[i]))
    BY <1>7, <2>1, <2>2, <2>3
  <2>5. (n - j) + 1 = i
    BY <2>3, <2>4, EveryPlaceIsTaken DEF n
  <2> QED BY <2>1, <2>2, <2>3, <2>5
<1>9. /\ SortedBlocks(back) = [place \in 1 .. n |-> SortedBlocks(back)[place]]
      /\ SortedBlocks(found) = [place \in 1 .. n |-> SortedBlocks(found)[place]]
  <2> DEFINE At(list, place) ==
               CHOOSE block \in {list[i] : i \in DOMAIN list} :
                 Cardinality({i \in DOMAIN list : list[i].start_pc < block.start_pc}) = place - 1
  <2>1. /\ SortedBlocks(back) = [place \in DOMAIN back |-> At(back, place)]
        /\ SortedBlocks(found) = [place \in DOMAIN found |-> At(found, place)]
    BY DEF SortedBlocks
  <2> HIDE DEF At
  <2> QED BY <1>1, <1>3, <2>1
<1>10. SortedBlocks(back) = SortedBlocks(found)
  BY <1>8, <1>9
<1> QED BY <1>10 DEF back

\* The blocks of the graph are of this kind.
LEMMA GraphIsDistinct ==
  ASSUME Inv, LeadersInv
  PROVE  IsDistinct(blocks)
<1>1. Len(blocks) \in Nat /\ DOMAIN blocks = 1 .. Len(blocks)
  <2> DEFINE B == {AnalyzeBasicBlock(mem, pc).block : pc \in Universe}
  <2>1. blocks \in Seq(B)
    BY DEF Inv, TypeOK
  <2> HIDE DEF B
  <2> QED BY <2>1
<1>2. ASSUME NEW i \in 1 .. Len(blocks) PROVE blocks[i].start_pc \in Nat
  <2>1. blocks[i].start_pc \in Pc
    BY BlockFacts DEF LeadersInv
  <2> QED BY <2>1 DEF Pc
<1> QED BY <1>1, <1>2 DEF IsDistinct, Inv, BlocksAreAnalyses

\* The report depends on what was found and not on the order it was found in: the same
\* blocks in the opposite order give the same report.
THEOREM ReportHasOneOrder == Spec => []ReportIsCanonical
<1>1. Inv /\ LeadersInv => ReportIsCanonical
  <2> SUFFICES ASSUME Inv, LeadersInv
               PROVE  Report(blocks, calls, issues) = Report(Seqs!Reverse(blocks), calls, issues)
    BY DEF ReportIsCanonical, TheReport
  <2>1. SortedBlocks(Seqs!Reverse(blocks)) = SortedBlocks(blocks)
    BY GraphIsDistinct, SortedIsCanonical
  <2>2. Len(Seqs!Reverse(blocks)) = Len(blocks)
    <3>1. Len(blocks) \in Nat
      BY GraphIsDistinct DEF IsDistinct
    <3> QED BY <3>1 DEF Seqs!Reverse
  <2> QED BY <2>1, <2>2 DEF Report
<1> QED BY <1>1, Invariance, LeadersInvariance, PTL

(***************************************************************************)
(* The report: the unknown words                                            *)
(***************************************************************************)
\* A report is made of a graph that holds the analysis of every reachable address which
\* has one.
LEMMA ReportedGraph ==
  ASSUME Inv, LeadersInv, EntryInv, Reported, Dropped = {}
  PROVE  /\ max_instructions # 0 /\ IsDistinct(blocks)
         /\ \A i \in 1 .. Len(blocks) :
              /\ blocks[i].start_pc \in Reachable \cap AlignedPc
              /\ AnalysisOk(mem, blocks[i].start_pc)
              /\ blocks[i] = AnalyzeBasicBlock(mem, blocks[i].start_pc).block
         /\ \A s \in Reachable : AnalysisOk(mem, s) =>
              \E i \in 1 .. Len(blocks) : blocks[i].start_pc = s
<1>1. IsDistinct(blocks)
  BY GraphIsDistinct
<1>2. ASSUME NEW i \in 1 .. Len(blocks)
      PROVE  /\ blocks[i].start_pc \in Reachable \cap AlignedPc
             /\ AnalysisOk(mem, blocks[i].start_pc)
             /\ blocks[i] = AnalyzeBasicBlock(mem, blocks[i].start_pc).block
             /\ max_instructions # 0
  <2>1. /\ blocks[i].start_pc \in Discovered /\ AnalysisOk(mem, blocks[i].start_pc)
        /\ blocks[i] = AnalyzeBasicBlock(mem, blocks[i].start_pc).block
    BY BlockFacts
  <2>2. blocks[i].start_pc % 4 = 0 /\ max_instructions # 0
    BY <2>1 DEF AnalysisOk, AnalyzeBasicBlock, Failure
  <2>3. blocks[i].start_pc \in Reachable
    BY <2>1, FinishedSearchIsClosed DEF Reported
  <2> QED BY <2>1, <2>2, <2>3 DEF LeadersInv, AlignedPc
<1>3. max_instructions # 0
  <2>1. 1 \in 1 .. Len(blocks)
    <3> DEFINE B == {AnalyzeBasicBlock(mem, pc).block : pc \in Universe}
    <3>1. blocks \in Seq(B) /\ blocks # <<>>
      BY DEF Inv, TypeOK, EntryInv, Reported
    <3> HIDE DEF B
    <3> QED BY <3>1
  <2> QED BY <1>2, <2>1
<1>4. ASSUME NEW s \in Reachable, AnalysisOk(mem, s)
      PROVE  \E i \in 1 .. Len(blocks) : blocks[i].start_pc = s
  <2>1. s \in Discovered
    BY <1>4, FinishedSearchIsClosed, DiscoveredHaveBlocks DEF Reported
  <2> QED BY <2>1 DEF Discovered
<1> QED BY <1>1, <1>2, <1>3, <1>4

SiteOf(pc) == [pc |-> pc, decoded |-> mem[pc]]

\* A block holds a site.
HoldsSite(block, site) == \E k \in DOMAIN SitesOf(block) : site = SitesOf(block)[k]

\* The walk from an address comes to a site, or has it in the delay slot behind it.
WalkHasSite(s, site) ==
  \/ \E k \in 1 .. Iterations(mem, s) : site = SiteOf(SitePc(s, k))
  \/ IsControlTransfer(mem[LastPc(s)]) /\ site = SiteOf(Add32(LastPc(s), 4))

\* The sites that are counted for a block: those of the walk, and the delay slot of a
\* control transfer.
LEMMA SitesOfWalk ==
  ASSUME max_instructions # 0, NEW s \in AlignedPc, AnalysisOk(mem, s),
         NEW block, block = AnalyzeBasicBlock(mem, s).block, NEW site
  PROVE  HoldsSite(block, site) <=> WalkHasSite(s, site)
<1> DEFINE n == Iterations(mem, s)
           slot == Add32(LastPc(s), 4)
           walk == Sites(mem, s)
<1>1. n \in Nat /\ LastPc(s) \in AlignedPc
  BY WalkSites, OptionsAssumption DEF LastPc
<1>2. walk = [k \in 1 .. n |-> SiteOf(SitePc(s, k))]
  BY DEF Sites, SiteOf
<1>3. /\ block.instructions = walk
      /\ block.delay_slot = IF IsControlTransfer(mem[LastPc(s)]) THEN slot ELSE NoTarget
  BY BlockOfWalk
<1>4. slot # NoTarget
  <2>1. slot \in AlignedPc
    BY <1>1, Add32Aligned
  <2> QED BY <2>1, InputsAssumption DEF AlignedPc
<1> HIDE DEF n, slot, walk
<1>5. Len(walk) = n /\ DOMAIN walk = 1 .. n /\ walk \in Seq({SiteOf(SitePc(s, k)) : k \in 1 .. n})
  BY <1>1, <1>2
<1>6. CASE ~ IsControlTransfer(mem[LastPc(s)])
  <2>1. SitesOf(block) = walk
    BY <1>3, <1>6 DEF SitesOf
  <2> QED BY <1>2, <1>5, <1>6, <2>1 DEF n, HoldsSite, WalkHasSite
<1>7. CASE IsControlTransfer(mem[LastPc(s)])
  <2>1. SitesOf(block) = Append(walk, SiteOf(slot))
    BY <1>3, <1>4, <1>7 DEF SitesOf, SiteOf
  <2>2. /\ DOMAIN Append(walk, SiteOf(slot)) = 1 .. n + 1
        /\ \A k \in 1 .. n : Append(walk, SiteOf(slot))[k] = SiteOf(SitePc(s, k))
        /\ Append(walk, SiteOf(slot))[n + 1] = SiteOf(slot)
    BY <1>1, <1>2, <1>5
  <2>3. \A k \in 1 .. n + 1 : k \in 1 .. n \/ k = n + 1
    BY <1>1
  <2>4. n + 1 \in 1 .. n + 1 /\ \A k \in 1 .. n : k \in 1 .. n + 1
    BY <1>1
  <2> QED BY <1>7, <2>1, <2>2, <2>3, <2>4 DEF n, slot, HoldsSite, WalkHasSite
<1> QED BY <1>6, <1>7

\* All that is counted.
LEMMA CountedSite ==
  ASSUME Inv, LeadersInv, EntryInv, Reported, Dropped = {}, NEW site
  PROVE  (\E call \in CountedSites(SortedBlocks(blocks)) :
            site = SiteAt(SortedBlocks(blocks), call))
           <=> \E i \in 1 .. Len(blocks) : HoldsSite(blocks[i], site)
<1> DEFINE sorted == SortedBlocks(blocks)
<1>1. /\ DOMAIN sorted = 1 .. Len(blocks)
      /\ \A place \in 1 .. Len(blocks) : \E i \in 1 .. Len(blocks) : sorted[place] = blocks[i]
      /\ \A i \in 1 .. Len(blocks) : \E place \in 1 .. Len(blocks) : sorted[place] = blocks[i]
  BY ReportedGraph, SortedHoldsTheBlocks
<1> HIDE DEF sorted
<1>2. ASSUME NEW call \in CountedSites(sorted), site = SiteAt(sorted, call)
      PROVE  \E i \in 1 .. Len(blocks) : HoldsSite(blocks[i], site)
  <2>1. PICK place \in DOMAIN sorted : call \in {place} \X DOMAIN SitesOf(sorted[place])
    BY <1>2 DEF CountedSites
  <2>2. call[1] = place /\ call[2] \in DOMAIN SitesOf(sorted[place])
    BY <2>1
  <2>3. PICK i \in 1 .. Len(blocks) : sorted[place] = blocks[i]
    BY <1>1
  <2>4. call[2] \in DOMAIN SitesOf(blocks[i])
    BY <2>2, <2>3
  <2>5. site = SitesOf(blocks[i])[call[2]]
    BY <1>2, <2>2, <2>3 DEF SiteAt
  <2> QED BY <2>4, <2>5 DEF HoldsSite
<1>3. ASSUME NEW i \in 1 .. Len(blocks), NEW k \in DOMAIN SitesOf(blocks[i]),
             site = SitesOf(blocks[i])[k]
      PROVE  \E call \in CountedSites(sorted) : site = SiteAt(sorted, call)
  <2>1. PICK place \in DOMAIN sorted : sorted[place] = blocks[i]
    BY <1>1
  <2>2. <<place, k>> \in CountedSites(sorted)
    BY <2>1 DEF CountedSites
  <2>3. SiteAt(sorted, <<place, k>>) = site
    BY <1>3, <2>1 DEF SiteAt
  <2> QED BY <2>2, <2>3
<1> QED BY <1>2, <1>3 DEF sorted, HoldsSite

\* The sites that are counted are those of what is visited and its delay slots, as far as
\* they are not merely walked over: the last word of a walk, and its delay slot.
LEMMA CountedIsVisited ==
  ASSUME Inv, LeadersInv, EntryInv, Reported, Dropped = {},
         NEW i \in 1 .. Len(blocks), NEW site, HoldsSite(blocks[i], site)
  PROVE  \E pc \in Visited \cup Slots : site = SiteOf(pc)
<1> DEFINE s == blocks[i].start_pc
           n == Iterations(mem, s)
<1>1. /\ max_instructions # 0 /\ s \in Reachable /\ s \in AlignedPc
      /\ AnalysisOk(mem, s) /\ blocks[i] = AnalyzeBasicBlock(mem, s).block
  BY ReportedGraph
<1> HIDE DEF s
<1>2. n \in Nat /\ n >= 1
  BY <1>1, WalkSites, OptionsAssumption
<1>3. ASSUME NEW j \in 1 .. n PROVE SitePc(s, j) \in Visited
  <2>1. Performs(SitePc(s, j))
    <3>1. CASE j = n
      BY <1>1, <3>1, BlockOfWalk DEF LastPc
    <3>2. CASE j # n
      <4>1. j \in 1 .. n - 1
        BY <1>2, <3>2
      <4> QED BY <1>1, <4>1, ControlGoesOn
    <3> QED BY <3>1, <3>2
  <2> QED BY <1>1, <2>1, WalksAreVisited
<1>4. LastPc(s) \in Visited
  BY <1>2, <1>3 DEF LastPc
<1>5. WalkHasSite(s, site)
  BY <1>1, SitesOfWalk
<1> QED BY <1>3, <1>4, <1>5 DEF Slots, WalkHasSite

\* A visited word that ends blocks is counted, with its delay slot.
LEMMA VisitedIsCounted ==
  ASSUME Inv, LeadersInv, EntryInv, Reported, Dropped = {},
         NEW pc \in Visited, EndsBlock(mem[pc])
  PROVE  \E i \in 1 .. Len(blocks) :
           /\ pc = LastPc(blocks[i].start_pc)
           /\ HoldsSite(blocks[i], SiteOf(pc))
           /\ IsControlTransfer(mem[pc]) => HoldsSite(blocks[i], SiteOf(Add32(pc, 4)))
<1>1. max_instructions # 0
  BY ReportedGraph
<1>2. PICK s \in Reachable \cap AlignedPc : AnalysisOk(mem, s) /\ pc = LastPc(s)
  BY <1>1, VisitedEndsBlock
<1>3. PICK i \in 1 .. Len(blocks) : blocks[i].start_pc = s
  BY <1>2, ReportedGraph
<1>4. blocks[i] = AnalyzeBasicBlock(mem, s).block
  BY <1>3, ReportedGraph
<1>5. Iterations(mem, s) \in 1 .. Iterations(mem, s)
  BY <1>1, <1>2, WalkSites, OptionsAssumption
<1>6. \A site : HoldsSite(blocks[i], site) <=> WalkHasSite(s, site)
  BY <1>1, <1>2, <1>4, SitesOfWalk
<1>7. HoldsSite(blocks[i], SiteOf(pc))
  BY <1>2, <1>5, <1>6 DEF LastPc, WalkHasSite
<1>8. IsControlTransfer(mem[pc]) => HoldsSite(blocks[i], SiteOf(Add32(pc, 4)))
  BY <1>2, <1>6 DEF WalkHasSite
<1> QED BY <1>2, <1>3, <1>7, <1>8

\* UNKNOWN_SITES has the unknown words of the program that control comes to, in delay
\* slots too, and no others: however the words were cut into blocks.
THEOREM ReportListsUnknownWords == Spec => []UnknownWordsAreListed
<1> DEFINE Unknown(x) == mem[x].instruction = "Unknown"
           Listed == {[pc |-> pc, decoded |-> mem[pc]] : pc \in {x \in Visited \cup Slots : Unknown(x)}}
           sorted == SortedBlocks(blocks)
<1>1. ASSUME Inv, LeadersInv, EntryInv, Reported, Dropped = {}
      PROVE  DOMAIN TheReport.UNKNOWN_SITES = Listed
  <2>1. DOMAIN TheReport.UNKNOWN_SITES =
          {SiteAt(sorted, call) : call \in {c \in CountedSites(sorted) : IsUnknown(SiteAt(sorted, c))}}
    <3> DEFINE unknown == {c \in CountedSites(sorted) : IsUnknown(SiteAt(sorted, c))}
               keys == [call \in unknown |-> SiteAt(sorted, call)]
    <3>1. TheReport.UNKNOWN_SITES = CountersOf(keys)
      BY DEF TheReport, Report, UnknownSites
    <3>2. DOMAIN CountersOf(keys) = {keys[call] : call \in DOMAIN keys}
      <4> HIDE DEF keys
      <4> QED BY DEF CountersOf
    <3>3. {keys[call] : call \in DOMAIN keys} = {SiteAt(sorted, call) : call \in unknown}
      <4> HIDE DEF unknown, sorted
      <4> QED OBVIOUS
    <3> QED BY <3>1, <3>2, <3>3
  <2>2. \A site : site \in DOMAIN TheReport.UNKNOWN_SITES <=>
          /\ \E call \in CountedSites(sorted) : site = SiteAt(sorted, call)
          /\ IsUnknown(site)
    <3> HIDE DEF sorted
    <3> QED BY <2>1
  <2>3. \A site : site \in DOMAIN TheReport.UNKNOWN_SITES <=>
          /\ \E i \in 1 .. Len(blocks) : HoldsSite(blocks[i], site)
          /\ IsUnknown(site)
    BY <1>1, <2>2, CountedSite
  <2>4. \A site : site \in Listed <=>
          \E pc \in Visited \cup Slots : site = SiteOf(pc) /\ IsUnknown(site)
    BY DEF SiteOf, IsUnknown
  <2> HIDE DEF Listed, sorted
  <2>5. ASSUME NEW site \in DOMAIN TheReport.UNKNOWN_SITES PROVE site \in Listed
    <3>1. IsUnknown(site)
      BY <2>3, <2>5
    <3>2. PICK i \in 1 .. Len(blocks) : HoldsSite(blocks[i], site)
      BY <2>3, <2>5
    <3>3. \E pc \in Visited \cup Slots : site = SiteOf(pc)
      BY <1>1, <3>2, CountedIsVisited
    <3> QED BY <2>4, <3>1, <3>3
  <2>6. ASSUME NEW site \in Listed PROVE site \in DOMAIN TheReport.UNKNOWN_SITES
    <3>1. PICK pc \in Visited \cup Slots : site = SiteOf(pc) /\ IsUnknown(site)
      BY <2>4, <2>6
    <3>2. CASE pc \in Visited
      <4>1. EndsBlock(mem[pc])
        BY <3>1 DEF SiteOf, IsUnknown, EndsBlock
      <4> QED BY <1>1, <2>3, <3>1, <3>2, <4>1, VisitedIsCounted
    <3>3. CASE pc \in Slots
      <4>1. PICK q \in Visited : IsControlTransfer(mem[q]) /\ pc = Add32(q, 4)
        BY <3>3 DEF Slots
      <4>2. EndsBlock(mem[q])
        BY <4>1 DEF EndsBlock
      <4> QED BY <1>1, <2>3, <3>1, <4>1, <4>2, VisitedIsCounted
    <3> QED BY <3>1, <3>2, <3>3
  <2> QED BY <2>5, <2>6
<1>2. Inv /\ LeadersInv /\ EntryInv => UnknownWordsAreListed
  BY <1>1 DEF UnknownWordsAreListed
<1> QED BY <1>2, Invariance, LeadersInvariance, EntryIsAnalysed, PTL

(***************************************************************************)
(* The report: the call sites                                               *)
(***************************************************************************)
\* The evidence of a block is one direct call if it ends in JAL, and none otherwise.
LEMMA DirectCallsOfWalk ==
  ASSUME Inv, max_instructions # 0, NEW s \in AlignedPc, AnalysisOk(mem, s),
         NEW block, block = AnalyzeBasicBlock(mem, s).block, NEW call
  PROVE  (call \in UNION {CallsOf(block, e) : e \in EdgesOf(block)} /\ ~ call.indirect)
           <=> /\ mem[LastPc(s)].instruction = "Jal"
               /\ call = [source_block |-> s, call_pc |-> LastPc(s), indirect |-> FALSE,
                          target |-> JumpTarget(mem[LastPc(s)], LastPc(s))]
<1> DEFINE pc == LastPc(s)
           d == mem[pc]
           DirectCall == [source_block |-> s, call_pc |-> pc, indirect |-> FALSE,
                          target |-> JumpTarget(d, pc)]
<1>1. Terminator(block) = pc /\ block.start_pc = s
  <2> DEFINE n == Iterations(mem, s)
  <2>1. n \in Nat /\ n >= 1
    BY WalkSites, OptionsAssumption
  <2>2. block.instructions = [k \in 1 .. n |-> [pc |-> SitePc(s, k), decoded |-> mem[SitePc(s, k)]]]
    BY BlockOfWalk DEF Sites
  <2> HIDE DEF n
  <2>3. Len(block.instructions) = n /\ block.instructions[n].pc = SitePc(s, n)
    BY <2>1, <2>2
  <2> QED BY <2>3, BlockOfWalk DEF Terminator, LastPc, n
<1>2. block.edges = IF d.instruction = "Unknown" \/ IsTrap(d) THEN <<>>
                    ELSE IF IsControlTransfer(d) THEN TransferEdges(d, pc)
                    ELSE << Edge("Fallthrough", Add32(pc, 4)) >>
  BY BlockOfWalk
<1>3. ASSUME NEW e, CallsOf(block, e) # {}, e.kind # "IndirectCall"
      PROVE  /\ e.kind = "DirectCall"
             /\ CallsOf(block, e) = {[source_block |-> s, call_pc |-> pc, indirect |-> FALSE,
                                      target |-> e.target]}
  BY <1>1, <1>3 DEF CallsOf
<1>4. ASSUME NEW e, e.kind = "IndirectCall", NEW c \in CallsOf(block, e) PROVE c.indirect
  <2>1. CallsOf(block, e) = {[source_block |-> block.start_pc, call_pc |-> Terminator(block),
                              indirect |-> e.kind = "IndirectCall", target |-> e.target]}
    BY <1>4 DEF CallsOf
  <2>2. c.indirect = (e.kind = "IndirectCall")
    BY <2>1
  <2> QED BY <1>4, <2>2
<1> HIDE DEF pc, d
<1>5. ASSUME d.instruction # "Jal", NEW e \in EdgesOf(block) PROVE e.kind # "DirectCall"
  <2>1. CASE d.instruction = "Unknown" \/ IsTrap(d)
    <3>1. EdgesOf(block) = {}
      BY <1>2, <2>1 DEF EdgesOf
    <3> QED BY <1>5, <3>1
  <2>2. CASE ~ (d.instruction = "Unknown" \/ IsTrap(d)) /\ ~ IsControlTransfer(d)
    <3>1. block.edges = << Edge("Fallthrough", Add32(pc, 4)) >>
      BY <1>2, <2>2
    <3>2. EdgesOf(block) = {Edge("Fallthrough", Add32(pc, 4))}
      <4> DEFINE f == Edge("Fallthrough", Add32(pc, 4))
      <4>1. block.edges = <<f>>
        BY <3>1
      <4> HIDE DEF f
      <4>2. EdgesOf(block) = {f}
        BY <4>1 DEF EdgesOf
      <4> QED BY <4>2 DEF f
    <3> QED BY <1>5, <3>2 DEF Edge
  <2>3. CASE ~ (d.instruction = "Unknown" \/ IsTrap(d)) /\ IsControlTransfer(d)
    <3>1. block.edges = TransferEdges(d, pc)
      BY <1>2, <2>3
    <3>2. d.instruction \in BranchInstructions \cup {"J", "Jr", "Jalr"}
      BY <1>5, <2>3 DEF IsControlTransfer, JumpInstructions
    <3>3. \E a, b : /\ a.kind # "DirectCall" /\ b.kind # "DirectCall"
                    /\ TransferEdges(d, pc) \in {<<a>>, <<a, b>>}
      <4>1. CASE d.instruction \in BranchInstructions
        BY <4>1 DEF TransferEdges, BranchInstructions, LikelyBranches, Edge
      <4>2. CASE d.instruction = "J"
        <5>1. TransferEdges(d, pc) = << Edge("DirectJump", JumpTarget(d, pc)) >>
          BY <4>2 DEF TransferEdges, BranchInstructions, LikelyBranches
        <5>2. Edge("DirectJump", JumpTarget(d, pc)).kind # "DirectCall"
          BY DEF Edge
        <5> QED BY <5>1, <5>2
      <4>3. CASE d.instruction = "Jr"
        <5>1. TransferEdges(d, pc) = << Edge("IndirectJump", NoTarget) >>
          BY <4>3 DEF TransferEdges, BranchInstructions, LikelyBranches
        <5>2. Edge("IndirectJump", NoTarget).kind # "DirectCall"
          BY DEF Edge
        <5> QED BY <5>1, <5>2
      <4>4. CASE d.instruction = "Jalr"
        <5>1. TransferEdges(d, pc) = << Edge("IndirectCall", NoTarget),
                                        Edge("CallContinuation", Add32(pc, 8)) >>
          BY <4>4 DEF TransferEdges, BranchInstructions, LikelyBranches
        <5>2. /\ Edge("IndirectCall", NoTarget).kind # "DirectCall"
              /\ Edge("CallContinuation", Add32(pc, 8)).kind # "DirectCall"
          BY DEF Edge
        <5> QED BY <5>1, <5>2
      <4> QED BY <3>2, <4>1, <4>2, <4>3, <4>4
    <3>4. PICK a, b : /\ a.kind # "DirectCall" /\ b.kind # "DirectCall"
                      /\ block.edges \in {<<a>>, <<a, b>>}
      BY <3>1, <3>3
    <3>5. e \in {a, b}
      BY <1>5, <3>4 DEF EdgesOf
    <3> QED BY <3>4, <3>5
  <2> QED BY <2>1, <2>2, <2>3
<1>6. ASSUME d.instruction = "Jal"
      PROVE  \E e \in EdgesOf(block) : CallsOf(block, e) = {DirectCall}
             /\ \A f \in EdgesOf(block) : f.kind = "DirectCall" => f = e
  <2> DEFINE a == Edge("DirectCall", JumpTarget(d, pc))
             b == Edge("CallContinuation", Add32(pc, 8))
  <2>1. IsControlTransfer(d) /\ ~ IsTrap(d)
    BY <1>6 DEF IsControlTransfer, JumpInstructions, IsTrap, SystemInstructions
  <2>2. block.edges = <<a, b>>
    BY <1>2, <1>6, <2>1 DEF TransferEdges, BranchInstructions, LikelyBranches
  <2>3. a.kind = "DirectCall" /\ b.kind # "DirectCall" /\ a.target = JumpTarget(d, pc)
    BY DEF Edge
  <2> HIDE DEF a, b
  <2>4. EdgesOf(block) = {a, b}
    BY <2>2 DEF EdgesOf
  <2>5. CallsOf(block, a) = {DirectCall}
    BY <1>1, <2>3 DEF CallsOf
  <2> QED BY <2>3, <2>4, <2>5
<1>7. ASSUME call \in UNION {CallsOf(block, e) : e \in EdgesOf(block)}, ~ call.indirect
      PROVE  d.instruction = "Jal" /\ call = DirectCall
  <2>1. PICK e \in EdgesOf(block) : call \in CallsOf(block, e)
    BY <1>7
  <2>2. e.kind = "DirectCall"
    BY <1>3, <1>4, <1>7, <2>1
  <2>3. d.instruction = "Jal"
    BY <1>5, <2>2
  <2> QED BY <1>6, <2>1, <2>2, <2>3
<1>8. ASSUME d.instruction = "Jal", call = DirectCall
      PROVE  call \in UNION {CallsOf(block, e) : e \in EdgesOf(block)} /\ ~ call.indirect
  <2>1. PICK e \in EdgesOf(block) : CallsOf(block, e) = {DirectCall}
    BY <1>6, <1>8
  <2>2. call \in CallsOf(block, e) /\ ~ call.indirect
    BY <1>8, <2>1
  <2> QED BY <2>2
<1> QED BY <1>7, <1>8 DEF pc, d

Jals == {pc \in Visited : mem[pc].instruction = "Jal"}
DirectCalls == {call \in calls : ~ call.indirect /\ call.target # NoTarget}

\* The JAL instructions that control comes to are those that end the blocks of the graph.
LEMMA JalsEndBlocks ==
  ASSUME Inv, LeadersInv, EntryInv, Reported, Dropped = {}, NEW pc
  PROVE  pc \in Jals <=> \E i \in 1 .. Len(blocks) :
                           pc = LastPc(blocks[i].start_pc) /\ mem[pc].instruction = "Jal"
<1>1. ASSUME pc \in Jals
      PROVE  \E i \in 1 .. Len(blocks) :
               pc = LastPc(blocks[i].start_pc) /\ mem[pc].instruction = "Jal"
  <2>1. pc \in Visited /\ mem[pc].instruction = "Jal" /\ EndsBlock(mem[pc])
    BY <1>1 DEF Jals, EndsBlock, IsControlTransfer, JumpInstructions
  <2> QED BY <2>1, VisitedIsCounted
<1>2. ASSUME NEW i \in 1 .. Len(blocks), pc = LastPc(blocks[i].start_pc)
      PROVE  pc \in Visited
  <2> DEFINE s == blocks[i].start_pc
             n == Iterations(mem, s)
  <2>1. max_instructions # 0 /\ s \in Reachable /\ s \in AlignedPc /\ AnalysisOk(mem, s)
    BY ReportedGraph
  <2>2. Performs(pc)
    BY <1>2, <2>1, BlockOfWalk
  <2>3. n \in 1 .. n
    BY <2>1, WalkSites, OptionsAssumption
  <2> QED BY <1>2, <2>1, <2>2, <2>3, WalksAreVisited DEF LastPc
<1> QED BY <1>1, <1>2 DEF Jals

\* The direct calls of the graph are those of its blocks that end in JAL.
LEMMA DirectCallsOfGraph ==
  ASSUME Inv, LeadersInv, EntryInv, EvidenceIsComplete, Reported, Dropped = {}, NEW call
  PROVE  call \in DirectCalls <=>
           \E i \in 1 .. Len(blocks) :
             LET pc == LastPc(blocks[i].start_pc)
             IN  /\ mem[pc].instruction = "Jal"
                 /\ call = [source_block |-> blocks[i].start_pc, call_pc |-> pc,
                            indirect |-> FALSE, target |-> JumpTarget(mem[pc], pc)]
<1> DEFINE CallsIn(block) == UNION {CallsOf(block, e) : e \in EdgesOf(block)}
           CallAt(pc, i) == [source_block |-> blocks[i].start_pc, call_pc |-> pc,
                             indirect |-> FALSE, target |-> JumpTarget(mem[pc], pc)]
<1>1. calls = UNION {CallsIn(block) : block \in {blocks[i] : i \in 1 .. Len(blocks)}}
  BY DEF EvidenceIsComplete, Reported
<1>2. ASSUME NEW i \in 1 .. Len(blocks)
      PROVE  (call \in CallsIn(blocks[i]) /\ ~ call.indirect) <=>
               LET pc == LastPc(blocks[i].start_pc)
               IN  mem[pc].instruction = "Jal" /\ call = CallAt(pc, i)
  <2> DEFINE s == blocks[i].start_pc
  <2>1. /\ max_instructions # 0 /\ s \in AlignedPc /\ AnalysisOk(mem, s)
        /\ blocks[i] = AnalyzeBasicBlock(mem, s).block
    BY ReportedGraph
  <2> QED BY <2>1, DirectCallsOfWalk
<1>3. ASSUME NEW i \in 1 .. Len(blocks), NEW pc, pc = LastPc(blocks[i].start_pc),
             mem[pc].instruction = "Jal", call = CallAt(pc, i)
      PROVE  call.target # NoTarget
  <2>1. pc \in Jals
    BY <1>3, JalsEndBlocks
  <2>2. Performs(pc)
    BY <2>1, VisitedIsLeast DEF Jals
  <2>3. pc \in AlignedPc /\ mem[pc] \in DecodedInstruction
    BY <2>2, InputsAssumption DEF Performs, Fetchable, MappedPc, Inv, TypeOK
  <2>4. JumpTarget(mem[pc], pc) \in AlignedPc
    BY <2>3, JumpTargetAligned
  <2> QED BY <1>3, <2>4, InputsAssumption DEF AlignedPc
<1> HIDE DEF CallsIn
<1>4. call \in DirectCalls <=>
        (\E i \in 1 .. Len(blocks) : call \in CallsIn(blocks[i]) /\ ~ call.indirect)
        /\ call.target # NoTarget
  BY <1>1 DEF DirectCalls
<1> HIDE DEF CallAt
<1>5. call \in DirectCalls <=>
        \E i \in 1 .. Len(blocks) :
          LET pc == LastPc(blocks[i].start_pc)
          IN  mem[pc].instruction = "Jal" /\ call = CallAt(pc, i)
  BY <1>2, <1>3, <1>4
<1> QED BY <1>5 DEF CallAt

\* Blocks of which none starts inside another do not end in the same instruction.
LEMMA BlocksEndApart ==
  ASSUME Inv, LeadersInv, EntryInv, OverlapsAreReported, Reported, Dropped = {}, Overlaps = {},
         NEW i \in 1 .. Len(blocks), NEW j \in 1 .. Len(blocks),
         LastPc(blocks[i].start_pc) = LastPc(blocks[j].start_pc)
  PROVE  i = j
<1>1. ASSUME NEW k \in 1 .. Len(blocks)
      PROVE  LastPc(blocks[k].start_pc) \in Extent(blocks[k]) \ {NoTarget}
  <2> DEFINE s == blocks[k].start_pc
             n == Iterations(mem, s)
  <2>1. /\ max_instructions # 0 /\ s \in AlignedPc /\ AnalysisOk(mem, s)
        /\ blocks[k] = AnalyzeBasicBlock(mem, s).block
    BY ReportedGraph
  <2>2. n \in Nat /\ n >= 1 /\ SitePc(s, n) \in AlignedPc
    BY <2>1, WalkSites, OptionsAssumption
  <2>3. blocks[k].instructions =
          [m \in 1 .. n |-> [pc |-> SitePc(s, m), decoded |-> mem[SitePc(s, m)]]]
    BY <2>1, BlockOfWalk DEF Sites
  <2> HIDE DEF n, s
  <2>4. Len(blocks[k].instructions) = n /\ blocks[k].instructions[n].pc = SitePc(s, n)
        /\ n \in 1 .. n
    BY <2>2, <2>3
  <2>5. SitePc(s, n) \in Extent(blocks[k])
    BY <2>4 DEF Extent
  <2>6. SitePc(s, n) # NoTarget
    BY <2>2, InputsAssumption DEF AlignedPc
  <2> QED BY <2>5, <2>6 DEF LastPc, n, s
<1> QED BY <1>1 DEF OverlapsAreReported, Overlaps, Reported

\* As many direct calls lead to an address as JAL instructions do.
LEMMA CallsMatchJals ==
  ASSUME Inv, LeadersInv, EntryInv, EvidenceIsComplete, OverlapsAreReported, Reported,
         Dropped = {}, Overlaps = {}
  PROVE  /\ {call.target : call \in DirectCalls} = {JumpTarget(mem[pc], pc) : pc \in Jals}
         /\ \A target : Cardinality({call \in DirectCalls : call.target = target})
                          = Cardinality({pc \in Jals : JumpTarget(mem[pc], pc) = target})
<1> DEFINE To(pc) == JumpTarget(mem[pc], pc)
           CallAt(i) == [source_block |-> blocks[i].start_pc,
                         call_pc |-> LastPc(blocks[i].start_pc), indirect |-> FALSE,
                         target |-> To(LastPc(blocks[i].start_pc))]
<1>1. ASSUME NEW call
      PROVE  call \in DirectCalls <=>
               \E i \in 1 .. Len(blocks) :
                 mem[LastPc(blocks[i].start_pc)].instruction = "Jal" /\ call = CallAt(i)
  BY DirectCallsOfGraph
<1>2. \A i : /\ CallAt(i).call_pc = LastPc(blocks[i].start_pc)
             /\ CallAt(i).target = To(LastPc(blocks[i].start_pc))
  OBVIOUS
<1> HIDE DEF To, CallAt
<1>3. \A call \in DirectCalls : call.call_pc \in Jals /\ call.target = To(call.call_pc)
  BY <1>1, <1>2, JalsEndBlocks
<1>4. \A pc \in Jals : \E call \in DirectCalls : call.call_pc = pc
  BY <1>1, <1>2, JalsEndBlocks
<1>5. ASSUME NEW a \in DirectCalls, NEW b \in DirectCalls, a.call_pc = b.call_pc
      PROVE  a = b
  <2>1. PICK i \in 1 .. Len(blocks) : a = CallAt(i)
    BY <1>1
  <2>2. PICK j \in 1 .. Len(blocks) : b = CallAt(j)
    BY <1>1
  <2>3. i = j
    BY <1>2, <1>5, <2>1, <2>2, BlocksEndApart
  <2> QED BY <2>1, <2>2, <2>3
<1>6. IsFiniteSet(Jals)
  <2>1. Jals \in SUBSET (0 .. AddressSpace - 1)
    <3>1. Jals \subseteq Universe
      BY DEF Jals, Visited
    <3> QED BY <3>1 DEF Universe, AlignedPc, Pc, Inv, TypeOK
  <2>2. IsFiniteSet(0 .. AddressSpace - 1)
    BY AddressSpaceAssumption, FS_Interval
  <2> QED BY <2>1, <2>2, FS_Subset
<1>7. ASSUME NEW target
      PROVE  Cardinality({call \in DirectCalls : call.target = target})
               = Cardinality({pc \in Jals : To(pc) = target})
  <2> DEFINE S == {call \in DirectCalls : call.target = target}
             T == {pc \in Jals : To(pc) = target}
             f == [call \in S |-> call.call_pc]
  <2>1. f \in [S -> T] /\ \A call \in S : f[call] = call.call_pc
    BY <1>3
  <2>2. \A a, b \in S : f[a] = f[b] => a = b
    BY <1>5
  <2>3. \A pc \in T : \E call \in S : f[call] = pc
    BY <1>3, <1>4
  <2>4. IsFiniteSet(T)
    BY <1>6, FS_Subset
  <2> HIDE DEF S, T, f
  <2>5. f \in Injection(S, T) /\ f \in Surjection(S, T)
    BY <2>1, <2>2, <2>3 DEF Injection, Surjection, IsInjective
  <2>6. Cardinality(S) = Cardinality(T)
    BY <2>4, <2>5, FS_Injection
  <2> QED BY <2>6 DEF S, T
<1>8. {call.target : call \in DirectCalls} = {To(pc) : pc \in Jals}
  BY <1>3, <1>4
<1> QED BY <1>7, <1>8 DEF To

\* The counters of CALL_SITES are the numbers of JAL instructions that control comes to,
\* target for target, when no block lies inside another.
THEOREM ReportCountsCallSites == Spec => []CallSitesAreCounted
<1>1. ASSUME Inv, LeadersInv, EntryInv, EvidenceIsComplete, OverlapsAreReported, Reported,
             Dropped = {}, Overlaps = {}
      PROVE  TheReport.DIRECT_CALL_TARGETS =
               [target \in {JumpTarget(mem[pc], pc) : pc \in Jals} |->
                  Cardinality({pc \in Jals : JumpTarget(mem[pc], pc) = target})]
  <2>1. TheReport.DIRECT_CALL_TARGETS =
          [target \in {call.target : call \in DirectCalls} |->
             Cardinality({call \in DirectCalls : call.target = target})]
    <3> DEFINE keys == [call \in DirectCalls |-> call.target]
    <3>1. TheReport.DIRECT_CALL_TARGETS = CountersOf(keys)
      BY DEF TheReport, Report, DirectCallTargets, DirectCalls
    <3>2. /\ {keys[call] : call \in DOMAIN keys} = {call.target : call \in DirectCalls}
          /\ \A target : {call \in DOMAIN keys : keys[call] = target}
                           = {call \in DirectCalls : call.target = target}
      OBVIOUS
    <3> HIDE DEF keys
    <3> QED BY <3>1, <3>2 DEF CountersOf
  <2> QED BY <1>1, <2>1, CallsMatchJals
<1>2. Inv /\ LeadersInv /\ EntryInv /\ EvidenceIsComplete /\ OverlapsAreReported
        => CallSitesAreCounted
  BY <1>1 DEF CallSitesAreCounted, Jals
<1> QED BY <1>2, Invariance, LeadersInvariance, EntryIsAnalysed, EvidenceIsKept,
           OverlapsAreNeverSilent, PTL
=============================================================================
