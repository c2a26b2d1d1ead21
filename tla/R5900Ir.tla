------------------------------- MODULE R5900Ir -------------------------------
(***************************************************************************)
(* The intermediate representation of the recompiler: its values            *)
(* (src/src/recompiler/r5900_ir.h), what guest instructions lower to        *)
(* (r5900_ir.cpp) and what the validator accepts (r5900_ir_validation.cpp). *)
(*                                                                          *)
(* A 32-bit word is the set of its bits that are one, with WordBits for 32: *)
(* bitwise operators are those of sets, and a larger value is the sequence  *)
(* of its words, lowest first.  The guest address and the raw word that an  *)
(* instruction carries for messages are left out.                           *)
(***************************************************************************)
EXTENDS R5900Isa, Sequences, SequencesExt

CONSTANTS
  WordBits,       \* 32 in the code
  RegisterCount   \* 32 in the code, of general and of floating-point registers

ASSUME WidthAssumption ==
  /\ WordBits \in Nat /\ WordBits >= 4 /\ WordBits % 2 = 0
  /\ RegisterCount \in Nat \ {0}

Bit == 0 .. WordBits - 1
HalfBit == 0 .. WordBits \div 2 - 1
Word == SUBSET Bit
Register == 0 .. RegisterCount - 1

sign_extend_word(word) == <<word, IF WordBits - 1 \in word THEN Bit ELSE {}>>

(***************************************************************************)
(* Instructions                                                             *)
(***************************************************************************)
gpr(index) == [kind |-> "Gpr", index |-> index]
fpr(index) == [kind |-> "Fpr", index |-> index]
immediate(value) == [kind |-> "Immediate", value |-> value]

\* An empty std::optional, and an R5900IrDestination.
NoDestination == [kind |-> "None", index |-> 0]
destination(kind, index) == [kind |-> kind, index |-> index]

Ir(opcode, dest, write_mode, inputs) ==
  [opcode |-> opcode, destination |-> dest, write_mode |-> write_mode, inputs |-> inputs]

Nop == Ir("Nop", NoDestination, "None", <<>>)

(***************************************************************************)
(* lower_r5900_instruction                                                  *)
(*                                                                          *)
(* A decoded word d has the fields instruction, rs, rt, rd and immediate.   *)
(***************************************************************************)
signed_immediate(d) ==
  sign_extend_word(IF WordBits \div 2 - 1 \in d.immediate
                   THEN d.immediate \cup (Bit \ HalfBit) ELSE d.immediate)

unsigned_immediate(d) == <<d.immediate, {}>>

\* A write of register zero is discarded when it is lowered.
Low64(opcode, index, inputs) ==
  IF index = 0 THEN Nop
  ELSE Ir(opcode, destination("Gpr", index), "Low64PreserveUpper64", inputs)

Special(opcode, kind, index, inputs) == Ir(opcode, destination(kind, index), "None", inputs)

\* Mutant of LowerPadduw: the write mode of the other integer instructions.
LowerPadduwLow64(d) == Low64("AddPackedU32Saturate128", d.rd, <<gpr(d.rs), gpr(d.rt)>>)

LowerPadduw(d) ==
  IF d.rd = 0 THEN Nop
  ELSE Ir("AddPackedU32Saturate128", destination("Gpr", d.rd), "Full128",
          <<gpr(d.rs), gpr(d.rt)>>)

\* What a word for which Lowerable holds lowers to.
Lower(d) ==
  CASE d.instruction \in {"Nop", "Sync"} -> Nop
    [] d.instruction = "Addu"   -> Low64("AddWordSignExtend", d.rd, <<gpr(d.rs), gpr(d.rt)>>)
    [] d.instruction = "Addiu"  -> Low64("AddWordSignExtend", d.rt,
                                         <<gpr(d.rs), immediate(signed_immediate(d))>>)
    [] d.instruction = "Ori"    -> Low64("Or64", d.rt,
                                         <<gpr(d.rs), immediate(unsigned_immediate(d))>>)
    [] d.instruction = "Andi"   -> Low64("And64", d.rt,
                                         <<gpr(d.rs), immediate(unsigned_immediate(d))>>)
    [] d.instruction = "Lui"    -> Low64("LoadUpperImmediateSignExtend", d.rt,
                                         <<immediate(unsigned_immediate(d))>>)
    [] d.instruction = "Mthi"   -> Special("MoveGprLow64", "Hi", 0, <<gpr(d.rs)>>)
    [] d.instruction = "Mtlo"   -> Special("MoveGprLow64", "Lo", 0, <<gpr(d.rs)>>)
    [] d.instruction = "Mthi1"  -> Special("MoveGprLow64", "Hi1", 0, <<gpr(d.rs)>>)
    [] d.instruction = "Mtlo1"  -> Special("MoveGprLow64", "Lo1", 0, <<gpr(d.rs)>>)
    [] d.instruction = "Mtsah"  -> Special("ComputeMtsah", "Sa", 0,
                                           <<gpr(d.rs), immediate(unsigned_immediate(d))>>)
    [] d.instruction = "Padduw" -> LowerPadduw(d)
    [] d.instruction = "Mtc1"   -> Special("MoveBits32", "Fpr", d.rd, <<gpr(d.rt)>>)
    [] d.instruction = "Ctc1"   -> Special("MoveBits32", "Fcr31", 0, <<gpr(d.rt)>>)
    [] d.instruction = "AddaS"  -> Special("AddF32ToAccumulator", "FpAccumulator", 0,
                                           <<fpr(d.rd), fpr(d.rt)>>)

(***************************************************************************)
(* validate_r5900_ir_instruction                                            *)
(***************************************************************************)
\* The checks of a validator are in the order of the code: the first that fails
\* decides the error.
first ?? second == IF first = "None" THEN second ELSE first

Shaped(holds) == IF holds THEN "None" ELSE "MalformedInstruction"
Indexed(index) == IF index < RegisterCount THEN "None" ELSE "InvalidRegister"

validate_operand(operand) ==
  CASE operand.kind = "Immediate"      -> "None"
    [] operand.kind \in {"Gpr", "Fpr"} -> Indexed(operand.index)
    [] OTHER                           -> "MalformedInstruction"

Input(operand, kinds) == validate_operand(operand) ?? Shaped(operand.kind \in kinds)

require_destination(ir) == Shaped(ir.destination # NoDestination)

validate_gpr_destination(ir, expected_mode) ==
  require_destination(ir) ?? Shaped(ir.destination.kind = "Gpr")
    ?? Indexed(ir.destination.index) ?? Shaped(ir.write_mode = expected_mode)

Unindexed(ir, kinds) ==
  require_destination(ir)
    ?? Shaped(ir.destination.kind \in kinds /\ ir.destination.index = 0)

Inputs(ir, count) == Shaped(ir.write_mode = "None" /\ Len(ir.inputs) = count)

\* Two inputs, each checked in full before the next.
TwoInputs(ir, kinds) == Input(ir.inputs[1], kinds) ?? Input(ir.inputs[2], kinds)

validate_existing_integer_write(ir) ==
  validate_gpr_destination(ir, "Low64PreserveUpper64")
    ?? Shaped(Len(ir.inputs) = 2) ?? TwoInputs(ir, {"Gpr", "Immediate"})

validate_and64(ir) ==
  validate_gpr_destination(ir, "Low64PreserveUpper64")
    ?? Shaped(Len(ir.inputs) = 2)
    ?? validate_operand(ir.inputs[1]) ?? validate_operand(ir.inputs[2])
    ?? Shaped(ir.inputs[1].kind = "Gpr" /\ ir.inputs[2].kind = "Immediate")

validate_lui(ir) ==
  validate_gpr_destination(ir, "Low64PreserveUpper64")
    ?? Shaped(Len(ir.inputs) = 1) ?? Shaped(ir.inputs[1].kind = "Immediate")

validate_packed_u32_add(ir) ==
  validate_gpr_destination(ir, "Full128")
    ?? Shaped(Len(ir.inputs) = 2) ?? TwoInputs(ir, {"Gpr"})

validate_move_gpr_low64(ir) ==
  Unindexed(ir, {"Hi", "Lo", "Hi1", "Lo1"})
    ?? Inputs(ir, 1) ?? Input(ir.inputs[1], {"Gpr"})

validate_mtsah(ir) ==
  Unindexed(ir, {"Sa"}) ?? Inputs(ir, 2)
    ?? Input(ir.inputs[1], {"Gpr"}) ?? Shaped(ir.inputs[2].kind = "Immediate")

validate_move_bits32(ir) ==
  require_destination(ir) ?? Inputs(ir, 1) ?? Input(ir.inputs[1], {"Gpr"})
    ?? IF ir.destination.kind = "Fpr" THEN Indexed(ir.destination.index)
       ELSE Unindexed(ir, {"Fcr31"})

validate_add_f32_accumulator(ir) ==
  Unindexed(ir, {"FpAccumulator"}) ?? Inputs(ir, 2) ?? TwoInputs(ir, {"Fpr"})

validate_r5900_ir_instruction(ir) ==
  CASE ir.opcode = "Nop" -> Shaped(ir = Nop)
    [] ir.opcode \in {"AddWordSignExtend", "Or64"} -> validate_existing_integer_write(ir)
    [] ir.opcode = "And64" -> validate_and64(ir)
    [] ir.opcode = "LoadUpperImmediateSignExtend" -> validate_lui(ir)
    [] ir.opcode = "AddPackedU32Saturate128" -> validate_packed_u32_add(ir)
    [] ir.opcode = "MoveGprLow64" -> validate_move_gpr_low64(ir)
    [] ir.opcode = "ComputeMtsah" -> validate_mtsah(ir)
    [] ir.opcode = "MoveBits32" -> validate_move_bits32(ir)
    [] ir.opcode = "AddF32ToAccumulator" -> validate_add_f32_accumulator(ir)
    [] OTHER -> "UnsupportedOpcode"
=============================================================================
