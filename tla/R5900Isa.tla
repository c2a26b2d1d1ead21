------------------------------ MODULE R5900Isa ------------------------------
(***************************************************************************)
(* What the rest of the recompiler reads of a decoded R5900 word            *)
(* (R5900DecodedInstruction, src/src/recompiler/r5900_decoder.{h,cpp}).     *)
(*                                                                          *)
(* A guest word is represented by what decode_r5900 extracts from it: the   *)
(* instruction, the register field rd and the displacement or target field. *)
(* The C++ record keeps the raw word next to these fields, so two words are *)
(* equal exactly when their records here are.                               *)
(***************************************************************************)
EXTENDS Integers

\* decode_regimm and decode_r5900: words marked by mark_branch(..., likely = true).
LikelyBranches ==
  {"Bltzl", "Bgezl", "Bltzall", "Bgezall", "Beql", "Bnel", "Blezl", "Bgtzl"}

\* Words marked by mark_branch: R5900InstructionClass::Branch.
BranchInstructions ==
  LikelyBranches \cup
  {"Bltz", "Bgez", "Bltzal", "Bgezal", "Beq", "Bne", "Blez", "Bgtz"}

\* Words marked by mark_jump: R5900InstructionClass::Jump.
JumpInstructions == {"J", "Jal", "Jr", "Jalr"}

\* R5900InstructionClass::System.
SystemInstructions == {"Syscall", "Break"}

\* R5900InstructionClass::Load and ::Store.
MemoryInstructions ==
  {"Ldl", "Ldr", "Lq", "Lb", "Lh", "Lwl", "Lw", "Lbu", "Lhu", "Lwr", "Lwu",
   "Lwc1", "Lqc2", "Ld",
   "Sq", "Sb", "Sh", "Swl", "Sw", "Sdl", "Sdr", "Swr", "Swc1", "Sqc2", "Sd"}

\* R5900InstructionClass::Alu.
AluInstructions ==
  {"Nop", "Sll", "Srl", "Sra", "Sllv", "Srlv", "Srav", "Sync", "Mfhi", "Mthi",
   "Mflo", "Mtlo", "Mthi1", "Mtlo1", "Mtsah", "Mult", "Multu", "Div", "Divu",
   "Add", "Addu", "Sub", "Subu", "And", "Or", "Xor", "Nor", "Slt", "Sltu",
   "Padduw", "Mtc1", "Ctc1", "AddaS", "Addi", "Addiu", "Slti", "Sltiu",
   "Andi", "Ori", "Xori", "Lui", "Daddi", "Daddiu"}

\* enum class R5900Instruction; "Unknown" is the value no decode case assigns.
Instruction ==
  BranchInstructions \cup JumpInstructions \cup SystemInstructions \cup
  MemoryInstructions \cup AluInstructions \cup {"Unknown"}

\* R5900DecodedInstruction, restricted to the fields control depends on:
\* immediate is the signed displacement in words, target the jump word index.
DecodedInstruction ==
  [instruction : Instruction, rd : 0..31, immediate : Int, target : Nat]

\* is_branch() \/ is_jump()
IsControlTransfer(d) ==
  d.instruction \in BranchInstructions \cup JumpInstructions

IsTrap(d) == d.instruction \in SystemInstructions

(***************************************************************************)
(* is_dispatcher_v0_eligible                                                *)
(***************************************************************************)
DispatcherEligible ==
  {"Nop", "Addu", "Addiu", "Ori", "Andi", "Lui", "Mthi", "Mtlo", "Mthi1",
   "Mtlo1", "Mtsah", "Padduw", "Mtc1", "Ctc1", "AddaS", "Sync"}

\* lower_r5900_instruction(...).ok(): every eligible instruction has a case,
\* and CTC1 lowers for control register 31 only.
Lowerable(d) ==
  /\ d.instruction \in DispatcherEligible
  /\ d.instruction = "Ctc1" => d.rd = 31
=============================================================================
