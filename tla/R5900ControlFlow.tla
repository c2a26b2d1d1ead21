-------------------------- MODULE R5900ControlFlow --------------------------
(***************************************************************************)
(* Basic-block analysis: src/src/analysis/r5900_control_flow.cpp.           *)
(*                                                                          *)
(* analyze_r5900_basic_block is a pure function of guest memory, so it is   *)
(* an operator here.  Its loop is replaced by the first index at which the  *)
(* loop leaves: a failed fetch or a word that ends the block.               *)
(*                                                                          *)
(* Guest memory is a function from the mapped, word-aligned addresses to    *)
(* decoded words.  PageStatus[pc] is range_status(memory, pc, 4): regions   *)
(* never change once Ps2MemoryMap::from_elf has built them.                 *)
(***************************************************************************)
EXTENDS Integers, Sequences, R5900Isa

CONSTANTS
  AddressSpace,       \* bytes in the guest address space: 2^32 in the code
  JumpRegion,         \* bytes J and JAL can reach: 2^28 in the code
  PageStatus,         \* aligned address -> "Executable", "NonExecutable", "Unmapped"
  max_instructions,   \* R5900ControlFlowOptions::max_instructions
  require_executable, \* R5900ControlFlowOptions::require_executable
  NoTarget,           \* the empty std::optional of an edge target
  NoBlock             \* the empty std::optional of a result

Pc == 0 .. AddressSpace - 1
AlignedPc == {pc \in Pc : pc % 4 = 0}

ASSUME AddressSpaceAssumption ==
  /\ AddressSpace \in Nat \ {0} /\ AddressSpace % 4 = 0
  /\ JumpRegion \in Nat \ {0} /\ JumpRegion % 4 = 0 /\ AddressSpace % JumpRegion = 0
  /\ PageStatus \in [AlignedPc -> {"Executable", "NonExecutable", "Unmapped"}]
ASSUME OptionsAssumption ==
  max_instructions \in Nat /\ require_executable \in BOOLEAN

MappedPc == {pc \in AlignedPc : PageStatus[pc] # "Unmapped"}

\* std::uint32_t addition: the program counter wraps.
Add32(pc, offset) == (pc + offset) % AddressSpace

\* fetch_site: read_u32 succeeds and, when required, the page is executable.
Fetchable(pc) ==
  /\ pc \in MappedPc
  /\ require_executable => PageStatus[pc] = "Executable"

\* direct_target for a branch, and for J and JAL.
BranchTarget(d, pc) == (pc + 4 + 4 * d.immediate) % AddressSpace
JumpTarget(d, pc) ==
  LET base == Add32(pc, 4)
  IN  (base \div JumpRegion) * JumpRegion + ((4 * d.target) % JumpRegion)

(***************************************************************************)
(* The analysis loop                                                        *)
(***************************************************************************)
SitePc(start, i) == Add32(start, 4 * (i - 1))

EndsBlock(d) == d.instruction = "Unknown" \/ IsTrap(d) \/ IsControlTransfer(d)

LoopLeavesAt(mem, start) ==
  {i \in 1 .. max_instructions :
     Fetchable(SitePc(start, i)) => EndsBlock(mem[SitePc(start, i)])}

First(S) == CHOOSE i \in S : \A j \in S : i <= j

\* Iterations of the loop, the one that leaves it included.
Iterations(mem, start) ==
  IF LoopLeavesAt(mem, start) = {} THEN max_instructions
                                   ELSE First(LoopLeavesAt(mem, start))

Sites(mem, start) ==
  [i \in 1 .. Iterations(mem, start) |->
     [pc |-> SitePc(start, i), decoded |-> mem[SitePc(start, i)]]]

Failure(error) == [error |-> error, block |-> NoBlock]
Edge(kind, target) == [kind |-> kind, target |-> target]

\* fetch_instruction_failure and fetch_delay_slot_failure
FetchError(pc, nonExecutable, missing) ==
  IF require_executable /\ pc \in MappedPc THEN nonExecutable ELSE missing

\* finish_control_transfer, once the delay slot is fetched: end kind and edges.
EndKind(d) ==
  CASE d.instruction \in BranchInstructions -> "ConditionalBranch"
    [] d.instruction = "J"    -> "DirectJump"
    [] d.instruction = "Jal"  -> "DirectCall"
    [] d.instruction = "Jr"   -> "IndirectJump"
    [] d.instruction = "Jalr" -> "IndirectCall"

TransferEdges(d, pc) ==
  CASE d.instruction \in BranchInstructions ->
         << Edge("BranchTaken", BranchTarget(d, pc)),
            Edge("BranchNotTaken", Add32(pc, 8)) >>
    [] d.instruction = "J" -> << Edge("DirectJump", JumpTarget(d, pc)) >>
    [] d.instruction = "Jal" ->
         << Edge("DirectCall", JumpTarget(d, pc)),
            Edge("CallContinuation", Add32(pc, 8)) >>
    [] d.instruction = "Jr" -> << Edge("IndirectJump", NoTarget) >>
    [] d.instruction = "Jalr" ->
         << Edge("IndirectCall", NoTarget),
            Edge("CallContinuation", Add32(pc, 8)) >>

Block(start, sites, end_kind, delay_slot, on_fallthrough, edges) ==
  [error |-> "None",
   block |-> [start_pc |-> start, instructions |-> sites,
              end_kind |-> end_kind, delay_slot |-> delay_slot,
              delay_slot_executes_on_fallthrough |-> on_fallthrough,
              edges |-> edges]]

FinishControlTransfer(mem, start, sites) ==
  LET terminator == sites[Len(sites)]
      delay_pc   == Add32(terminator.pc, 4)
      d          == terminator.decoded
  IN  IF Fetchable(delay_pc)
      THEN Block(start, sites, EndKind(d), delay_pc,
                 d.instruction \notin LikelyBranches,
                 TransferEdges(d, terminator.pc))
      ELSE Failure(FetchError(delay_pc, "NonExecutableDelaySlot", "MissingDelaySlot"))

(***************************************************************************)
(* analyze_r5900_basic_block                                                *)
(***************************************************************************)
AnalyzeBasicBlock(mem, start) ==
  LET n     == Iterations(mem, start)
      pc    == SitePc(start, n)
      last  == mem[pc]
      sites == Sites(mem, start)
  IN  CASE max_instructions = 0 -> Failure("InvalidInstructionLimit")
        [] max_instructions # 0 /\ start % 4 # 0 -> Failure("UnalignedStart")
        [] OTHER ->
             IF ~ Fetchable(pc)
             THEN Failure(FetchError(pc, "NonExecutableInstruction", "UnmappedInstruction"))
             ELSE IF last.instruction = "Unknown"
             THEN Block(start, sites, "UnsupportedInstruction", NoTarget, TRUE, <<>>)
             ELSE IF IsTrap(last)
             THEN Block(start, sites, "Trap", NoTarget, TRUE, <<>>)
             ELSE IF IsControlTransfer(last)
             THEN FinishControlTransfer(mem, start, sites)
             ELSE Block(start, sites, "InstructionLimit", NoTarget, TRUE,
                        << Edge("Fallthrough", Add32(pc, 4)) >>)

AnalysisOk(mem, start) == AnalyzeBasicBlock(mem, start).error = "None"
=============================================================================
