------------------------ MODULE R5900IrPipelineProofs ------------------------
(***************************************************************************)
(* The stages of the recompiler fit together, for every word width, number  *)
(* of registers, program and guest state:                                   *)
(*                                                                          *)
(*   - what the lowering emits, the validator accepts;                      *)
(*   - what the validator accepts, the backend translates to code that does *)
(*     to the guest state in memory what the reference executor does to the *)
(*     registers, instruction by instruction and to the last word.          *)
(*                                                                          *)
(* The proof of the second goes from the layout of the guest state (no two  *)
(* cells share a place) to the effect of one x64 instruction on the         *)
(* machine, the code of one IR instruction, the code of a program, and the  *)
(* invariant of a run.                                                      *)
(***************************************************************************)
EXTENDS R5900IrPipeline, FiniteSetTheorems, TLAPS

(***************************************************************************)
(* The lowering                                                             *)
(***************************************************************************)
\* A check that passes leaves the verdict to the next one.
LEMMA ChecksPass ==
  /\ \A e : "None" ?? e = e
  /\ Shaped(TRUE) = "None"
  /\ \A r \in Register : Indexed(r) = "None"
BY WidthAssumption DEF ??, Shaped, Indexed, Register

\* The operands that the lowering builds pass.
LEMMA OperandsPass ==
  ASSUME NEW r \in Register, NEW value, NEW kinds
  PROVE  /\ validate_operand(gpr(r)) = "None" /\ validate_operand(fpr(r)) = "None"
         /\ validate_operand(immediate(value)) = "None"
         /\ "Gpr" \in kinds => Input(gpr(r), kinds) = "None"
         /\ "Fpr" \in kinds => Input(fpr(r), kinds) = "None"
         /\ "Immediate" \in kinds => Input(immediate(value), kinds) = "None"
<1>1. /\ validate_operand(gpr(r)) = "None" /\ validate_operand(fpr(r)) = "None"
      /\ validate_operand(immediate(value)) = "None"
  BY ChecksPass DEF validate_operand, gpr, fpr, immediate
<1>2. \A operand : validate_operand(operand) = "None" /\ operand.kind \in kinds
                      => Input(operand, kinds) = "None"
  BY DEF Input, ??, Shaped
<1>3. gpr(r).kind = "Gpr" /\ fpr(r).kind = "Fpr" /\ immediate(value).kind = "Immediate"
  BY DEF gpr, fpr, immediate
<1> QED BY <1>1, <1>2, <1>3

\* A Nop passes.
LEMMA NopPasses == validate_r5900_ir_instruction(Nop) = "None"
BY ChecksPass DEF validate_r5900_ir_instruction, Nop, Ir

\* A general register passes as a destination.
LEMMA GprDestinationPasses ==
  ASSUME NEW opcode, NEW r \in Register, NEW mode, NEW inputs
  PROVE  validate_gpr_destination(Ir(opcode, destination("Gpr", r), mode, inputs), mode)
           = "None"
<1> DEFINE ir == Ir(opcode, destination("Gpr", r), mode, inputs)
<1>1. /\ ir.destination.kind = "Gpr" /\ ir.destination.index = r
      /\ ir.write_mode = mode /\ NoDestination.kind = "None"
  BY DEF Ir, destination, NoDestination
<1> HIDE DEF ir
<1>2. require_destination(ir) = "None"
  BY <1>1, ChecksPass DEF require_destination, Shaped
<1>3. validate_gpr_destination(ir, mode) = "None"
  BY <1>1, <1>2, ChecksPass DEF validate_gpr_destination, Shaped
<1> QED BY <1>3 DEF ir

\* An integer instruction with a 64-bit result, on inputs its opcode allows.
LEMMA Low64Passes ==
  ASSUME NEW opcode, NEW r \in Register, NEW inputs,
         \/ /\ opcode \in {"AddWordSignExtend", "Or64"}
            /\ Len(inputs) = 2
            /\ Input(inputs[1], {"Gpr", "Immediate"}) = "None"
            /\ Input(inputs[2], {"Gpr", "Immediate"}) = "None"
         \/ /\ opcode = "And64"
            /\ Len(inputs) = 2
            /\ inputs[1].kind = "Gpr" /\ inputs[2].kind = "Immediate"
            /\ validate_operand(inputs[1]) = "None"
            /\ validate_operand(inputs[2]) = "None"
         \/ /\ opcode = "LoadUpperImmediateSignExtend"
            /\ Len(inputs) = 1 /\ inputs[1].kind = "Immediate"
  PROVE  validate_r5900_ir_instruction(Low64(opcode, r, inputs)) = "None"
<1> DEFINE ir == Ir(opcode, destination("Gpr", r), "Low64PreserveUpper64", inputs)
<1>1. CASE r = 0
  BY <1>1, NopPasses DEF Low64
<1>2. CASE r # 0
  <2>1. Low64(opcode, r, inputs) = ir
    BY <1>2 DEF Low64
  <2>2. ir.opcode = opcode /\ ir.inputs = inputs
    BY DEF Ir
  <2>3. validate_gpr_destination(ir, "Low64PreserveUpper64") = "None"
    BY GprDestinationPasses
  <2> HIDE DEF ir
  <2>4. CASE opcode \in {"AddWordSignExtend", "Or64"}
    <3>1. validate_existing_integer_write(ir) = "None"
      BY <2>2, <2>3, <2>4, ChecksPass DEF validate_existing_integer_write, TwoInputs, Shaped
    <3> QED BY <2>1, <2>2, <2>4, <3>1 DEF validate_r5900_ir_instruction
  <2>5. CASE opcode = "And64"
    <3>1. validate_and64(ir) = "None"
      BY <2>2, <2>3, <2>5, ChecksPass DEF validate_and64, Shaped
    <3> QED BY <2>1, <2>2, <2>5, <3>1 DEF validate_r5900_ir_instruction
  <2>6. CASE opcode = "LoadUpperImmediateSignExtend"
    <3>1. validate_lui(ir) = "None"
      BY <2>2, <2>3, <2>6, ChecksPass DEF validate_lui, Shaped
    <3> QED BY <2>1, <2>2, <2>6, <3>1 DEF validate_r5900_ir_instruction
  <2> QED BY <2>4, <2>5, <2>6
<1> QED BY <1>1, <1>2

\* A packed addition passes.
LEMMA PadduwPasses ==
  ASSUME NEW d, d.rs \in Register, d.rt \in Register, d.rd \in Register
  PROVE  validate_r5900_ir_instruction(LowerPadduw(d)) = "None"
<1> DEFINE inputs == <<gpr(d.rs), gpr(d.rt)>>
           ir == Ir("AddPackedU32Saturate128", destination("Gpr", d.rd), "Full128", inputs)
<1>1. CASE d.rd = 0
  BY <1>1, NopPasses DEF LowerPadduw
<1>2. CASE d.rd # 0
  <2>1. LowerPadduw(d) = ir
    BY <1>2 DEF LowerPadduw
  <2>2. /\ ir.opcode = "AddPackedU32Saturate128" /\ ir.inputs = inputs
        /\ Len(inputs) = 2 /\ inputs[1] = gpr(d.rs) /\ inputs[2] = gpr(d.rt)
    BY DEF Ir
  <2>3. validate_gpr_destination(ir, "Full128") = "None"
    BY GprDestinationPasses
  <2>4. Input(gpr(d.rs), {"Gpr"}) = "None" /\ Input(gpr(d.rt), {"Gpr"}) = "None"
    BY OperandsPass
  <2> HIDE DEF ir, inputs
  <2>5. validate_packed_u32_add(ir) = "None"
    BY <2>2, <2>3, <2>4, ChecksPass DEF validate_packed_u32_add, TwoInputs, Shaped
  <2> QED BY <2>1, <2>2, <2>5 DEF validate_r5900_ir_instruction
<1> QED BY <1>1, <1>2

\* An instruction that writes a register outside of the general ones.
LEMMA SpecialPasses ==
  ASSUME NEW opcode, NEW kind, NEW r \in Register, NEW inputs,
         \/ /\ opcode = "MoveGprLow64" /\ kind \in {"Hi", "Lo", "Hi1", "Lo1"} /\ r = 0
            /\ Len(inputs) = 1 /\ Input(inputs[1], {"Gpr"}) = "None"
         \/ /\ opcode = "ComputeMtsah" /\ kind = "Sa" /\ r = 0
            /\ Len(inputs) = 2 /\ Input(inputs[1], {"Gpr"}) = "None"
            /\ inputs[2].kind = "Immediate"
         \/ /\ opcode = "MoveBits32" /\ kind = "Fpr"
            /\ Len(inputs) = 1 /\ Input(inputs[1], {"Gpr"}) = "None"
         \/ /\ opcode = "MoveBits32" /\ kind = "Fcr31" /\ r = 0
            /\ Len(inputs) = 1 /\ Input(inputs[1], {"Gpr"}) = "None"
         \/ /\ opcode = "AddF32ToAccumulator" /\ kind = "FpAccumulator" /\ r = 0
            /\ Len(inputs) = 2
            /\ Input(inputs[1], {"Fpr"}) = "None"
            /\ Input(inputs[2], {"Fpr"}) = "None"
  PROVE  validate_r5900_ir_instruction(Special(opcode, kind, r, inputs)) = "None"
<1> DEFINE ir == Special(opcode, kind, r, inputs)
<1>1. /\ ir.opcode = opcode /\ ir.inputs = inputs /\ ir.write_mode = "None"
      /\ ir.destination.kind = kind /\ ir.destination.index = r
      /\ kind # "None" => ir.destination # NoDestination
  BY DEF Special, Ir, destination, NoDestination
<1> HIDE DEF ir
<1>2. kind # "None"
  OBVIOUS
<1>3. require_destination(ir) = "None"
  BY <1>1, <1>2, ChecksPass DEF require_destination
<1>4. CASE opcode = "MoveGprLow64"
  <2>1. validate_move_gpr_low64(ir) = "None"
    BY <1>1, <1>3, <1>4, ChecksPass DEF validate_move_gpr_low64, Unindexed, Inputs, Shaped
  <2> QED BY <1>1, <1>4, <2>1 DEF validate_r5900_ir_instruction, ir
<1>5. CASE opcode = "ComputeMtsah"
  <2>1. validate_mtsah(ir) = "None"
    BY <1>1, <1>3, <1>5, ChecksPass DEF validate_mtsah, Unindexed, Inputs, Shaped
  <2> QED BY <1>1, <1>5, <2>1 DEF validate_r5900_ir_instruction, ir
<1>6. CASE opcode = "MoveBits32"
  <2>1. validate_move_bits32(ir) = "None"
    BY <1>1, <1>3, <1>6, ChecksPass DEF validate_move_bits32, Unindexed, Inputs, Shaped
  <2> QED BY <1>1, <1>6, <2>1 DEF validate_r5900_ir_instruction, ir
<1>7. CASE opcode = "AddF32ToAccumulator"
  <2>1. validate_add_f32_accumulator(ir) = "None"
    BY <1>1, <1>3, <1>7, ChecksPass
    DEF validate_add_f32_accumulator, Unindexed, Inputs, TwoInputs, Shaped
  <2> QED BY <1>1, <1>7, <2>1 DEF validate_r5900_ir_instruction, ir
<1> QED BY <1>4, <1>5, <1>6, <1>7

\* Every word that lowers lowers to an instruction that validates.
LEMMA LoweringValidates ==
  ASSUME NEW d, Lowerable(d), d.rs \in Register, d.rt \in Register,
         d.instruction # "Ctc1" => d.rd \in Register
  PROVE  validate_r5900_ir_instruction(Lower(d)) = "None"
<1>1. 0 \in Register
  BY WidthAssumption DEF Register
<1>2. /\ gpr(d.rs).kind = "Gpr" /\ gpr(d.rt).kind = "Gpr"
      /\ immediate(signed_immediate(d)).kind = "Immediate"
      /\ immediate(unsigned_immediate(d)).kind = "Immediate"
  BY DEF gpr, immediate
<1>3. /\ validate_operand(gpr(d.rs)) = "None"
      /\ validate_operand(immediate(unsigned_immediate(d))) = "None"
      /\ \A kinds : "Gpr" \in kinds =>
           Input(gpr(d.rs), kinds) = "None" /\ Input(gpr(d.rt), kinds) = "None"
      /\ Input(immediate(signed_immediate(d)), {"Gpr", "Immediate"}) = "None"
      /\ Input(immediate(unsigned_immediate(d)), {"Gpr", "Immediate"}) = "None"
  BY OperandsPass
<1>4. CASE d.instruction \in {"Nop", "Sync"}
  BY <1>4, NopPasses DEF Lower
<1>5. CASE d.instruction = "Addu"
  BY <1>3, <1>5, Low64Passes DEF Lower
<1>6. CASE d.instruction = "Addiu"
  BY <1>3, <1>6, Low64Passes DEF Lower
<1>7. CASE d.instruction = "Ori"
  BY <1>3, <1>7, Low64Passes DEF Lower
<1>8. CASE d.instruction = "Andi"
  BY <1>2, <1>3, <1>8, Low64Passes DEF Lower
<1>9. CASE d.instruction = "Lui"
  BY <1>2, <1>9, Low64Passes DEF Lower
<1>10. CASE d.instruction \in {"Mthi", "Mtlo", "Mthi1", "Mtlo1"}
  <2>1. \A kind \in {"Hi", "Lo", "Hi1", "Lo1"} :
          validate_r5900_ir_instruction(Special("MoveGprLow64", kind, 0, <<gpr(d.rs)>>))
            = "None"
    BY <1>1, <1>3, SpecialPasses
  <2> QED BY <1>10, <2>1 DEF Lower
<1>11. CASE d.instruction = "Mtsah"
  BY <1>1, <1>2, <1>3, <1>11, SpecialPasses DEF Lower
<1>12. CASE d.instruction = "Padduw"
  BY <1>12, PadduwPasses DEF Lower
<1>13. CASE d.instruction = "Mtc1"
  <2>1. d.rd \in Register /\ Input(gpr(d.rt), {"Gpr"}) = "None"
    BY <1>3, <1>13
  <2>2. Lower(d) = Special("MoveBits32", "Fpr", d.rd, <<gpr(d.rt)>>)
    BY <1>13 DEF Lower
  <2> DEFINE inputs == <<gpr(d.rt)>>
  <2>3. Len(inputs) = 1 /\ Input(inputs[1], {"Gpr"}) = "None"
    BY <2>1
  <2> HIDE DEF inputs
  <2>4. \A r \in Register :
          validate_r5900_ir_instruction(Special("MoveBits32", "Fpr", r, inputs)) = "None"
    BY <2>3, SpecialPasses
  <2>5. Lower(d) = Special("MoveBits32", "Fpr", d.rd, inputs)
    BY <2>2 DEF inputs
  <2> QED BY <2>1, <2>4, <2>5
<1>14. CASE d.instruction = "Ctc1"
  BY <1>1, <1>3, <1>14, SpecialPasses DEF Lower
<1>15. CASE d.instruction = "AddaS"
  <2>1. Input(fpr(d.rd), {"Fpr"}) = "None" /\ Input(fpr(d.rt), {"Fpr"}) = "None"
    BY <1>15, OperandsPass
  <2> QED BY <1>1, <1>15, <2>1, SpecialPasses DEF Lower
<1> QED
  BY <1>4, <1>5, <1>6, <1>7, <1>8, <1>9, <1>10, <1>11, <1>12, <1>13, <1>14, <1>15
  DEF Lowerable, DispatcherEligible

(***************************************************************************)
(* The pipeline                                                             *)
(***************************************************************************)
\* A lowered program validates, so that nothing rejects it.
Accepted ==
  lowered =>
    /\ \A i \in DOMAIN program : validate_r5900_ir_instruction(program[i]) = "None"
    /\ DOMAIN program = 1 .. Len(program) /\ Len(program) \in Nat /\ index \in Nat
    /\ status # "rejected" /\ native_status # "rejected"

\* Nothing rejects a lowered program at the start.
LEMMA AcceptedInit == Init => Accepted
<1> SUFFICES ASSUME Init, lowered PROVE Accepted
  BY DEF Accepted
<1>1. lowered # FALSE
  OBVIOUS
<1>2. PICK words \in GuestProgram : program = LoweredProgram(words)
  BY <1>1 DEF Init
<1>3. /\ DOMAIN program = DOMAIN words
      /\ \A i \in DOMAIN words : program[i] = Lower(words[i])
  BY <1>2 DEF LoweredProgram
<1>4. \A i \in DOMAIN words : validate_r5900_ir_instruction(Lower(words[i])) = "None"
  BY GuestAssumption, LoweringValidates
<1>5. PICK n \in Nat : n = Len(words) /\ DOMAIN words = 1 .. n
  BY GuestAssumption
<1>6. program = [i \in 1 .. n |-> Lower(words[i])]
  BY <1>2, <1>5 DEF LoweredProgram
<1>7. Len(program) = n
  BY <1>6
<1> QED BY <1>3, <1>4, <1>5, <1>7 DEF Accepted, Init

\* No step rejects one.
LEMMA AcceptedNext == Accepted /\ [Next]_vars => Accepted'
<1> SUFFICES ASSUME Accepted, [Next]_vars, lowered' PROVE Accepted'
  BY DEF Accepted
<1>1. program' = program /\ lowered' = lowered
  BY DEF Next, vars
<1>2. /\ \A i \in DOMAIN program : validate_r5900_ir_instruction(program[i]) = "None"
      /\ DOMAIN program = 1 .. Len(program) /\ Len(program) \in Nat /\ index \in Nat
      /\ status # "rejected" /\ native_status # "rejected"
  BY <1>1 DEF Accepted
<1>3. CASE Executor /\ UNCHANGED native_vars
  <2>1. native_status' = native_status
    BY <1>3 DEF native_vars
  <2>2. CASE BeginExecution
    BY <1>1, <1>2, <2>1, <2>2 DEF BeginExecution, Accepted
  <2>3. CASE Perform
    BY <1>1, <1>2, <2>1, <2>3 DEF Perform, Accepted
  <2>4. CASE Reject
    <3>1. index + 1 \in DOMAIN program
      BY <1>2, <2>4 DEF Reject
    <3> QED BY <1>2, <2>4, <3>1 DEF Reject, Verdict
  <2>5. CASE EndExecution
    BY <1>1, <1>2, <2>1, <2>5 DEF EndExecution, Accepted
  <2> QED BY <1>3, <2>2, <2>3, <2>4, <2>5 DEF Executor
<1>4. CASE Native /\ UNCHANGED executor_vars
  <2>1. index' = index /\ status' = status
    BY <1>4 DEF executor_vars
  <2>2. ~ CompileRejects
    BY <1>2 DEF CompileRejects, VerdictAt
  <2>3. native_status' # "rejected"
    <3>1. CASE CompileProgram
      BY <3>1 DEF CompileProgram
    <3>2. CASE Call
      BY <3>2 DEF Call
    <3>3. CASE ExecuteLoad \/ ExecuteStore \/ Compute
      BY <1>2, <3>3 DEF ExecuteLoad, ExecuteStore, Compute, Step
    <3>4. CASE ReturnFromCode
      BY <3>4 DEF ReturnFromCode
    <3> QED BY <1>4, <2>2, <3>1, <3>2, <3>3, <3>4 DEF Native
  <2> QED BY <1>1, <1>2, <2>1, <2>3 DEF Accepted
<1>5. CASE UNCHANGED vars
  BY <1>1, <1>2, <1>5 DEF vars, executor_vars, native_vars, Accepted
<1> QED BY <1>3, <1>4, <1>5 DEF Next

\* Every program that is lowered from guest code is accepted, by the executor and by
\* the backend, whatever the guest code, the guest state and the widths.
THEOREM LoweringIsAccepted == Spec => []LoweredProgramsAreAccepted
<1>1. Accepted => LoweredProgramsAreAccepted
  BY DEF Accepted, LoweredProgramsAreAccepted
<1> QED BY AcceptedInit, AcceptedNext, <1>1, PTL DEF Spec

(***************************************************************************)
(* The layout of the guest state                                            *)
(***************************************************************************)
\* The words of a field.
FieldWidth(kind) ==
  CASE kind = "Gpr" -> 4
    [] kind \in {"Hi", "Lo", "Hi1", "Lo1"} -> 2
    [] kind \in {"Sa", "Fpr", "Fcr31", "FpAccumulator"} -> 1

IsField(kind, r) ==
  \/ kind \in {"Gpr", "Fpr"} /\ r \in Register
  \/ kind \in {"Hi", "Lo", "Hi1", "Lo1", "Sa", "Fcr31", "FpAccumulator"} /\ r = 0

\* Where a cell is.
Located(kind, r, lane, offset) ==
  \/ kind = "Gpr" /\ r \in Register /\ lane \in 0 .. 3 /\ offset = 4 * r + lane
  \/ /\ kind \in {"Hi", "Lo", "Hi1", "Lo1"} /\ r = 0 /\ lane \in 0 .. 1
     /\ \/ kind = "Hi"  /\ offset = 4 * RegisterCount + lane
        \/ kind = "Lo"  /\ offset = 4 * RegisterCount + 2 + lane
        \/ kind = "Hi1" /\ offset = 4 * RegisterCount + 4 + lane
        \/ kind = "Lo1" /\ offset = 4 * RegisterCount + 6 + lane
  \/ /\ r = 0 /\ lane = 0
     /\ \/ kind = "Sa"    /\ offset = 4 * RegisterCount + 8
        \/ kind = "Fcr31" /\ offset = 5 * RegisterCount + 9
        \/ kind = "FpAccumulator" /\ offset = 5 * RegisterCount + 10
  \/ kind = "Fpr" /\ r \in Register /\ lane = 0 /\ offset = 4 * RegisterCount + 9 + r

\* The offsets of the fields, counted from the start of the guest state.
LEMMA FieldOffsets ==
  /\ \A r : FieldOffset("Gpr", r) = 4 * r
  /\ \A r : /\ FieldOffset("Hi", r)  = 4 * RegisterCount
            /\ FieldOffset("Lo", r)  = 4 * RegisterCount + 2
            /\ FieldOffset("Hi1", r) = 4 * RegisterCount + 4
            /\ FieldOffset("Lo1", r) = 4 * RegisterCount + 6
            /\ FieldOffset("Sa", r)  = 4 * RegisterCount + 8
            /\ FieldOffset("Fcr31", r) = 5 * RegisterCount + 9
            /\ FieldOffset("FpAccumulator", r) = 5 * RegisterCount + 10
  /\ \A r \in Nat : FieldOffset("Fpr", r) = 4 * RegisterCount + 9 + r
  /\ fp_acc_offset = 5 * RegisterCount + 10
<1>0. RegisterCount \in Nat
  BY WidthAssumption
<1>1. /\ hi_offset = 4 * RegisterCount /\ lo_offset = 4 * RegisterCount + 2
      /\ hi1_offset = 4 * RegisterCount + 4 /\ lo1_offset = 4 * RegisterCount + 6
      /\ sa_offset = 4 * RegisterCount + 8
  BY <1>0 DEF sa_offset, lo1_offset, hi1_offset, lo_offset, hi_offset
<1>2. \A r \in Nat : fpr_offset(r) = 4 * RegisterCount + 9 + r
  BY <1>0, <1>1 DEF fpr_offset
<1>3. fcr31_offset = 5 * RegisterCount + 9
  BY <1>0, <1>2 DEF fcr31_offset
<1>4. fp_acc_offset = 5 * RegisterCount + 10
  BY <1>0, <1>3 DEF fp_acc_offset
<1> QED BY <1>1, <1>2, <1>3, <1>4 DEF FieldOffset, gpr_offset

\* A cell is exactly a word at a place that the layout has.
LEMMA CellsAreLocated ==
  ASSUME NEW kind, NEW r, NEW lane
  PROVE  <<kind, r, lane>> \in Cell <=> Located(kind, r, lane, CellOffset(<<kind, r, lane>>))
<1> DEFINE cell == <<kind, r, lane>>
<1>0. RegisterCount \in Nat /\ \A q \in Register : q \in Nat
  BY WidthAssumption DEF Register
<1>1. cell[1] = kind /\ cell[2] = r /\ cell[3] = lane
  OBVIOUS
<1>2. cell \in Cell <=> \/ kind = "Gpr" /\ r \in Register /\ lane \in 0 .. 3
                        \/ kind \in {"Hi", "Lo", "Hi1", "Lo1"} /\ r = 0 /\ lane \in 0 .. 1
                        \/ kind = "Fpr" /\ r \in Register /\ lane = 0
                        \/ kind \in {"Sa", "Fcr31", "FpAccumulator"} /\ r = 0 /\ lane = 0
  BY DEF Cell
<1>3. CellOffset(cell) = FieldOffset(kind, r) + lane
  BY <1>1 DEF CellOffset
<1> HIDE DEF cell
<1>4. cell \in Cell => Located(kind, r, lane, CellOffset(cell))
  BY <1>0, <1>2, <1>3, FieldOffsets DEF Located
<1>5. Located(kind, r, lane, CellOffset(cell)) => cell \in Cell
  BY <1>2 DEF Located
<1> QED BY <1>4, <1>5 DEF cell

\* No two cells are at the same place, and each is a place in memory.
LEMMA PlacesDiffer ==
  ASSUME NEW k1, NEW r1, NEW l1, NEW k2, NEW r2, NEW l2, NEW offset,
         Located(k1, r1, l1, offset), Located(k2, r2, l2, offset)
  PROVE  k1 = k2 /\ r1 = r2 /\ l1 = l2
<1>0. RegisterCount \in Nat /\ Register = 0 .. RegisterCount - 1
  BY WidthAssumption DEF Register
<1>1. CASE k1 = "Gpr"
  <2>1. offset \in 0 .. 4 * RegisterCount - 1
    BY <1>0, <1>1 DEF Located
  <2>2. k2 = "Gpr"
    BY <1>0, <2>1 DEF Located
  <2> QED BY <1>0, <1>1, <2>2 DEF Located
<1>2. CASE k1 \in {"Hi", "Lo", "Hi1", "Lo1"}
  <2>1. offset \in 4 * RegisterCount .. 4 * RegisterCount + 7
    BY <1>0, <1>2 DEF Located
  <2>2. k2 \in {"Hi", "Lo", "Hi1", "Lo1"}
    BY <1>0, <2>1 DEF Located
  <2> QED BY <1>0, <1>2, <2>2 DEF Located
<1>3. CASE k1 = "Fpr"
  <2>1. offset \in 4 * RegisterCount + 9 .. 5 * RegisterCount + 8
    BY <1>0, <1>3 DEF Located
  <2>2. k2 = "Fpr"
    BY <1>0, <2>1 DEF Located
  <2> QED BY <1>0, <1>3, <2>2 DEF Located
<1>4. CASE k1 \in {"Sa", "Fcr31", "FpAccumulator"}
  <2>1. offset \in {4 * RegisterCount + 8, 5 * RegisterCount + 9, 5 * RegisterCount + 10}
    BY <1>0, <1>4 DEF Located
  <2>2. k2 \in {"Sa", "Fcr31", "FpAccumulator"}
    BY <1>0, <2>1, WidthAssumption DEF Located
  <2> QED BY <1>0, <1>4, <2>2, WidthAssumption DEF Located
<1> QED BY <1>1, <1>2, <1>3, <1>4 DEF Located

\* Every cell has a place in memory.
LEMMA CellsAreInMemory ==
  ASSUME NEW cell \in Cell
  PROVE  CellOffset(cell) \in Offset
<1>0. RegisterCount \in Nat
  BY WidthAssumption
<1>1. PICK kind, r, lane : cell = <<kind, r, lane>>
  BY DEF Cell
<1>2. Located(kind, r, lane, CellOffset(cell))
  BY <1>1, CellsAreLocated
<1>3. CellOffset(cell) \in 0 .. 5 * RegisterCount + 10
  BY <1>0, <1>2 DEF Located, Register
<1> QED BY <1>0, <1>3, FieldOffsets DEF Offset

\* No two cells share a place: the fields of the guest state do not overlap.
LEMMA CellsDiffer ==
  ASSUME NEW c1 \in Cell, NEW c2 \in Cell, CellOffset(c1) = CellOffset(c2)
  PROVE  c1 = c2
<1>1. PICK k1, r1, l1 : c1 = <<k1, r1, l1>>
  BY DEF Cell
<1>2. PICK k2, r2, l2 : c2 = <<k2, r2, l2>>
  BY DEF Cell
<1>3. Located(k1, r1, l1, CellOffset(c1)) /\ Located(k2, r2, l2, CellOffset(c1))
  BY <1>1, <1>2, CellsAreLocated
<1> QED BY <1>1, <1>2, <1>3, PlacesDiffer

\* Memory holds each cell at its place.
LEMMA MemoryOfCell ==
  ASSUME NEW s, NEW cell \in Cell
  PROVE  InMemory(s)[CellOffset(cell)] = s[cell]
<1> DEFINE cells == {c \in Cell : CellOffset(c) = CellOffset(cell)}
<1>1. cells = {cell}
  BY CellsDiffer
<1>2. CellOffset(cell) \in Offset
  BY CellsAreInMemory
<1>3. InMemory(s)[CellOffset(cell)] = s[CHOOSE c \in cells : TRUE]
  BY <1>1, <1>2 DEF InMemory
<1> QED BY <1>1, <1>3

\* A field is at its offset, word by word.
LEMMA FieldIsLocated ==
  ASSUME NEW kind, NEW r, IsField(kind, r), NEW lane \in 0 .. FieldWidth(kind) - 1
  PROVE  /\ <<kind, r, lane>> \in Cell
         /\ CellOffset(<<kind, r, lane>>) = FieldOffset(kind, r) + lane
BY DEF IsField, FieldWidth, Cell, CellOffset

\* Every field has an offset.
LEMMA FieldOffsetType ==
  ASSUME NEW kind, NEW r, IsField(kind, r)
  PROVE  FieldOffset(kind, r) \in Nat
BY FieldOffsets, WidthAssumption DEF IsField, Register

\* What a store leaves in memory.
Stored(m, offset, words) ==
  [o \in Offset |-> IF o \in offset .. offset + Len(words) - 1
                    THEN words[o - offset + 1] ELSE m[o]]

\* A store of a field, or of its first words, is what writing the cells is.
LEMMA StoreWritesField ==
  ASSUME NEW s, NEW kind, NEW r, IsField(kind, r),
         NEW words, Len(words) \in 1 .. FieldWidth(kind)
  PROVE  InMemory(Written(s, destination(kind, r), words))
           = Stored(InMemory(s), FieldOffset(kind, r), words)
<1> DEFINE w == Written(s, destination(kind, r), words)
           base == FieldOffset(kind, r)
           n == Len(words)
<1>0. base \in Nat /\ n \in Nat /\ FieldWidth(kind) \in Nat
  BY FieldOffsetType DEF FieldWidth, IsField
<1>1. ASSUME NEW cell \in Cell
      PROVE  /\ CellOffset(cell) \in base .. base + n - 1 =>
                  w[cell] = words[CellOffset(cell) - base + 1]
             /\ CellOffset(cell) \notin base .. base + n - 1 => w[cell] = s[cell]
  <2>1. PICK k, q, lane : cell = <<k, q, lane>>
    BY DEF Cell
  <2>2. w[cell] = IF k = kind /\ q = r /\ lane < n THEN words[lane + 1] ELSE s[cell]
    BY <2>1 DEF Written, destination
  <2>3. lane \in Nat
    BY <2>1 DEF Cell
  <2>4. CASE k = kind /\ q = r
    <3>1. CellOffset(cell) = base + lane
      BY <2>1, <2>4 DEF CellOffset
    <3> HIDE DEF base, w, n
    <3> QED BY <1>0, <2>2, <2>3, <2>4, <3>1
  <2>5. CASE ~ (k = kind /\ q = r)
    <3>1. ASSUME CellOffset(cell) \in base .. base + n - 1 PROVE FALSE
      <4> DEFINE l == CellOffset(cell) - base
      <4>1. l \in 0 .. FieldWidth(kind) - 1 /\ CellOffset(cell) = base + l
        <5> HIDE DEF base, n
        <5>1. n <= FieldWidth(kind)
          BY DEF n
        <5> QED BY <1>0, <3>1, <5>1
      <4>2. <<kind, r, l>> \in Cell /\ CellOffset(<<kind, r, l>>) = CellOffset(cell)
        BY <4>1, FieldIsLocated
      <4>3. cell = <<kind, r, l>>
        BY <4>2, CellsDiffer
      <4> QED BY <2>1, <2>5, <4>3
    <3> QED BY <2>2, <2>5, <3>1
  <2> QED BY <2>4, <2>5
<1>2. ASSUME NEW o \in Offset
      PROVE  InMemory(w)[o] = Stored(InMemory(s), base, words)[o]
  <2> DEFINE cells == {cell \in Cell : CellOffset(cell) = o}
  <2> HIDE DEF w, base
  <2>1. CASE cells = {}
    <3>1. InMemory(w)[o] = {} /\ InMemory(s)[o] = {}
      BY <2>1 DEF InMemory
    <3>2. o \notin base .. base + n - 1
      <4> SUFFICES ASSUME o \in base .. base + n - 1 PROVE FALSE
        OBVIOUS
      <4> DEFINE l == o - base
      <4>1. l \in 0 .. FieldWidth(kind) - 1 /\ o = base + l
        <5> HIDE DEF n
        <5>1. n <= FieldWidth(kind)
          BY DEF n
        <5> QED BY <1>0, <5>1
      <4>2. <<kind, r, l>> \in cells
        BY <4>1, FieldIsLocated DEF base
      <4> QED BY <2>1, <4>2
    <3> QED BY <3>1, <3>2 DEF Stored
  <2>2. CASE cells # {}
    <3>1. PICK cell \in Cell : CellOffset(cell) = o
      BY <2>2
    <3>2. InMemory(w)[o] = w[cell] /\ InMemory(s)[o] = s[cell]
      BY <3>1, MemoryOfCell
    <3> QED BY <1>1, <3>1, <3>2 DEF Stored
  <2> QED BY <2>1, <2>2
<1>3. InMemory(w) = [o \in Offset |-> InMemory(w)[o]]
  BY DEF InMemory
<1>4. Stored(InMemory(s), base, words)
        = [o \in Offset |-> Stored(InMemory(s), base, words)[o]]
  BY DEF Stored
<1> HIDE DEF w, base
<1>5. [o \in Offset |-> InMemory(w)[o]]
        = [o \in Offset |-> Stored(InMemory(s), base, words)[o]]
  BY <1>2
<1>6. InMemory(w) = Stored(InMemory(s), base, words)
  BY <1>3, <1>4, <1>5
<1> QED BY <1>6 DEF w, base

\* A set that holds zero and is closed under successor holds every number.
LEMMA Induction ==
  ASSUME NEW S, 0 \in S, \A n \in Nat : n \in S => n + 1 \in S
  PROVE  \A n \in Nat : n \in S
<1> SUFFICES ASSUME Nat \ S # {} PROVE FALSE
  OBVIOUS
<1>1. PICK x \in Nat \ S : \A y \in Nat \ S : ~ (<<y, x>> \in OpToRel(<, Nat))
  BY NatLessThanWellFounded, WFMin
<1>2. x - 1 \in Nat /\ x = (x - 1) + 1
  OBVIOUS
<1>3. <<x - 1, x>> \in OpToRel(<, Nat)
  BY <1>2 DEF OpToRel
<1> QED BY <1>1, <1>2, <1>3

(***************************************************************************)
(* FlattenSeq                                                               *)
(***************************************************************************)
\* Where each of the sequences is in what they are flattened to.
Starts(n, seqs, start) ==
  /\ start \in [1 .. n + 1 -> Nat] /\ start[1] = 0
  /\ \A i \in 1 .. n : start[i + 1] = start[i] + Len(seqs[i])

IsLayout(n, seqs, c, start) ==
  /\ Starts(n, seqs, start) /\ Len(c) = start[n + 1]
  /\ \A i \in 1 .. n : \A k \in 1 .. Len(seqs[i]) : c[start[i] + k] = seqs[i][k]

\* The flattening of n sequences is laid out one sequence after the other.
LEMMA Flattened ==
  ASSUME NEW U, NEW n \in Nat, NEW seqs \in [1 .. n -> Seq(U)]
  PROVE  \A c : c = FlattenSeq(seqs) =>
                 c \in Seq(U) /\ \E start : IsLayout(n, seqs, c, start)
<1> SUFFICES
      \E start :
        /\ Starts(n, seqs, start)
        /\ FlattenSeq(seqs) \in Seq(U) /\ Len(FlattenSeq(seqs)) = start[n + 1]
        /\ \A i \in 1 .. n : \A k \in 1 .. Len(seqs[i]) :
             FlattenSeq(seqs)[start[i] + k] = seqs[i][k]
  BY DEF IsLayout
<1>0. Len(seqs) = n
  OBVIOUS
<1>1. CASE n = 0
  <2> DEFINE start == [i \in 1 .. 1 |-> 0]
  <2>1. seqs = <<>>
    BY <1>1
  <2>2. FlattenSeq(seqs) = seqs
    BY <1>0, <1>1 DEF FlattenSeq
  <2>3. Starts(n, seqs, start)
    BY <1>1 DEF Starts
  <2>4. seqs \in Seq(U) /\ Len(seqs) = start[n + 1]
    BY <1>1, <2>1
  <2> QED BY <1>1, <2>2, <2>3, <2>4
<1>2. CASE n # 0
  <2> DEFINE Next_(f, i) == IF i = 1 THEN seqs[i] ELSE f[i - 1] \o seqs[i]
             Defined(f, m) == \A i \in 1 .. m : f[i] = Next_(f, i)
             S == {m \in Nat : m <= n => \E f : Defined(f, m)}
  <2>1. 0 \in S
    <3>1. Defined([i \in {} |-> <<>>], 0)
      OBVIOUS
    <3> HIDE DEF Defined
    <3> QED BY <3>1
  <2>2. ASSUME NEW m \in Nat, m \in S PROVE m + 1 \in S
    <3>1. SUFFICES ASSUME m + 1 <= n PROVE \E f : Defined(f, m + 1)
      OBVIOUS
    <3>2. PICK f : Defined(f, m)
      <4> HIDE DEF Defined
      <4> QED BY <2>2, <3>1
    <3> DEFINE g == [i \in 1 .. m + 1 |-> Next_(f, i)]
    <3>3. ASSUME NEW i \in 1 .. m + 1 PROVE g[i] = Next_(g, i)
      <4>1. CASE i = 1
        BY <4>1
      <4>2. CASE i # 1
        <5>1. i - 1 \in 1 .. m /\ g[i - 1] = Next_(f, i - 1)
          BY <4>2
        <5>2. g[i - 1] = f[i - 1]
          BY <3>2, <5>1
        <5> QED BY <4>2, <5>2
      <4> QED BY <4>1, <4>2
    <3>4. Defined(g, m + 1)
      BY <3>3
    <3> HIDE DEF Defined
    <3> QED BY <3>4
  <2>3. PICK f : Defined(f, n)
    <3>1. n \in S
      <4> HIDE DEF S
      <4> QED BY <2>1, <2>2, Induction
    <3> HIDE DEF Defined
    <3> QED BY <3>1
  <2> DEFINE flatten == CHOOSE h : h = [i \in 1 .. n |-> Next_(h, i)]
  <2>4. flatten = [i \in 1 .. n |-> Next_(flatten, i)]
    <3> DEFINE h == [i \in 1 .. n |-> f[i]]
    <3>1. ASSUME NEW i \in 1 .. n PROVE h[i] = Next_(h, i)
      BY <2>3
    <3>2. h = [i \in 1 .. n |-> Next_(h, i)]
      BY <3>1
    <3> HIDE DEF h
    <3> QED BY <3>2
  <2>5. FlattenSeq(seqs) = flatten[n]
    BY <1>0, <1>2 DEF FlattenSeq
  <2> HIDE DEF flatten
  <2>6. /\ flatten[1] = seqs[1]
        /\ \A i \in 2 .. n : flatten[i] = flatten[i - 1] \o seqs[i]
    <3>1. \A i \in 1 .. n : flatten[i] = Next_(flatten, i)
      BY <2>4
    <3>2. 1 \in 1 .. n /\ \A i \in 2 .. n : i \in 1 .. n /\ i # 1
      BY <1>2
    <3>3. flatten[1] = seqs[1]
      BY <3>1, <3>2
    <3>4. ASSUME NEW i \in 2 .. n PROVE flatten[i] = flatten[i - 1] \o seqs[i]
      BY <3>1, <3>2
    <3> QED BY <3>3, <3>4
  <2> DEFINE start == [i \in 1 .. n + 1 |-> IF i = 1 THEN 0 ELSE Len(flatten[i - 1])]
  <2>7. start[1] = 0 /\ \A i \in 1 .. n : start[i + 1] = Len(flatten[i])
    OBVIOUS
  <2>8. DOMAIN start = 1 .. n + 1 /\ start = [i \in 1 .. n + 1 |-> start[i]]
    OBVIOUS
  <2> HIDE DEF start
  <2> DEFINE In(x, m) == \A i \in 1 .. m : \A k \in 1 .. Len(seqs[i]) :
                           start[i] + k \in 1 .. Len(x) /\ x[start[i] + k] = seqs[i][k]
             Placed(m) == /\ flatten[m] \in Seq(U)
                          /\ Len(flatten[m]) = start[m] + Len(seqs[m])
                          /\ In(flatten[m], m)
             T == {m \in Nat : m + 1 <= n => Placed(m + 1)}
  <2>9. 0 \in T
    <3>1. flatten[1] \in Seq(U) /\ Len(flatten[1]) = Len(seqs[1]) /\ Len(seqs[1]) \in Nat
      BY <1>2, <2>6
    <3>2. In(flatten[1], 1)
      BY <2>6, <2>7, <3>1
    <3> QED BY <2>7, <3>1, <3>2
  <2>10. ASSUME NEW m \in Nat, m \in T PROVE m + 1 \in T
    <3>1. SUFFICES ASSUME m + 1 + 1 <= n PROVE Placed(m + 1 + 1)
      OBVIOUS
    <3> DEFINE j == m + 1
               x == flatten[j]
               y == seqs[j + 1]
               z == flatten[j + 1]
    <3>2. j \in 1 .. n /\ j + 1 \in 2 .. n /\ (j + 1) - 1 = j /\ Placed(j)
      <4> HIDE DEF Placed
      <4> QED BY <2>10, <3>1
    <3>3. z = x \o y /\ start[j + 1] = Len(x)
      <4> HIDE DEF j
      <4>1. flatten[j + 1] = flatten[(j + 1) - 1] \o seqs[j + 1]
        <5> DEFINE i == j + 1
        <5>1. i \in 2 .. n
          BY <3>2
        <5> HIDE DEF i
        <5>2. flatten[i] = flatten[i - 1] \o seqs[i]
          BY <2>6, <5>1
        <5> QED BY <5>2 DEF i
      <4>2. start[j + 1] = Len(flatten[j])
        BY <2>7, <3>2
      <4> QED BY <3>2, <4>1, <4>2
    <3>4. x \in Seq(U) /\ y \in Seq(U) /\ In(x, j)
      <4> HIDE DEF In, j
      <4> QED BY <3>2
    <3> HIDE DEF x, y, z
    <3>5. /\ z \in Seq(U) /\ Len(z) = Len(x) + Len(y)
          /\ \A k \in 1 .. Len(x) : z[k] = x[k]
          /\ \A k \in 1 .. Len(y) : z[Len(x) + k] = y[k]
      BY <3>3, <3>4
    <3>6. Len(x) \in Nat /\ Len(y) \in Nat
      BY <3>4
    <3>7. ASSUME NEW i \in 1 .. j + 1, NEW k \in 1 .. Len(seqs[i])
          PROVE  start[i] + k \in 1 .. Len(z) /\ z[start[i] + k] = seqs[i][k]
      <4>1. CASE i = j + 1
        <5>1. k \in 1 .. Len(y) /\ start[i] = Len(x) /\ seqs[i][k] = y[k]
          BY <3>3, <4>1 DEF y
        <5>2. z[Len(x) + k] = y[k]
          BY <3>5, <5>1
        <5>3. Len(x) + k \in 1 .. Len(z)
          BY <3>5, <3>6, <5>1
        <5> QED BY <5>1, <5>2, <5>3
      <4>2. CASE i # j + 1
        <5>1. i \in 1 .. j
          BY <4>2
        <5>2. start[i] + k \in 1 .. Len(x) /\ x[start[i] + k] = seqs[i][k]
          BY <3>4, <5>1
        <5> QED BY <3>5, <3>6, <5>2
      <4> QED BY <4>1, <4>2
    <3>8. In(z, j + 1)
      BY <3>7
    <3> HIDE DEF In
    <3>9. Placed(j + 1)
      BY <3>3, <3>5, <3>8 DEF y, z
    <3> HIDE DEF Placed
    <3> QED BY <3>9
  <2>11. ASSUME NEW m \in 1 .. n PROVE Placed(m)
    <3>1. m - 1 \in T
      <4> HIDE DEF T
      <4>1. m - 1 \in Nat
        OBVIOUS
      <4> QED BY <2>9, <2>10, <4>1, Induction
    <3>2. m - 1 + 1 = m
      OBVIOUS
    <3> HIDE DEF Placed
    <3> QED BY <3>1, <3>2
  <2>12. Starts(n, seqs, start)
    <3>1. \A i \in 1 .. n : Len(flatten[i]) \in Nat /\ Len(flatten[i]) = start[i] + Len(seqs[i])
      <4> HIDE DEF In
      <4> QED BY <2>11
    <3>2. ASSUME NEW i \in 1 .. n + 1 PROVE start[i] \in Nat
      <4>1. CASE i = 1
        BY <2>7, <4>1
      <4>2. CASE i # 1
        <5>1. i - 1 \in 1 .. n /\ i - 1 + 1 = i
          BY <4>2
        <5>2. start[i - 1 + 1] = Len(flatten[i - 1])
          BY <2>7, <5>1
        <5> QED BY <3>1, <5>1, <5>2
      <4> QED BY <4>1, <4>2
    <3>3. start \in [1 .. n + 1 -> Nat]
      BY <2>8, <3>2
    <3> QED BY <2>7, <3>1, <3>3 DEF Starts
  <2>13. n \in 1 .. n
    BY <1>2
  <2>14. Placed(n) /\ start[n + 1] = Len(flatten[n])
    <3> HIDE DEF Placed
    <3> QED BY <2>7, <2>11, <2>13
  <2> QED BY <2>5, <2>12, <2>14
<1> QED BY <1>1, <1>2

(***************************************************************************)
(* The machine                                                              *)
(***************************************************************************)
\* What native code can change, and the registers as a record.
Machine == [memory |-> memory, rax |-> regs.rax, rdx |-> regs.rdx, carry |-> regs.carry,
            xmm0 |-> regs.xmm0, xmm1 |-> regs.xmm1]

RegsShape == regs \in [rax : {regs.rax}, rdx : {regs.rdx}, carry : {regs.carry},
                       xmm0 : {regs.xmm0}, xmm1 : {regs.xmm1}]

LanesOf(m, offset, count) == [lane \in 1 .. count |-> m[offset + lane - 1]]

Stores == {"store32", "store64", "store f32"}

\* What one instruction makes of the machine: p before it, q after it.
Effect(c, p, q) ==
  /\ c.op \notin Stores => q.memory = p.memory
  /\ c.op = "store32"   => q.memory = Stored(p.memory, c.offset, <<p.rax[1]>>)
  /\ c.op = "store64"   => q.memory = Stored(p.memory, c.offset, p.rax)
  /\ c.op = "store f32" => q.memory = Stored(p.memory, c.offset, <<p.xmm0[1]>>)
  /\ c.op \in Stores    => /\ q.rax = p.rax /\ q.rdx = p.rdx
                           /\ q.xmm0 = p.xmm0 /\ q.xmm1 = p.xmm1
  /\ c.op = "load32" /\ c.register = "rax" =>
       q.rax = Low(p.memory[c.offset]) /\ q.rdx = p.rdx
  /\ c.op = "load32" /\ c.register = "rdx" =>
       q.rdx = Low(p.memory[c.offset]) /\ q.rax = p.rax
  /\ c.op = "load64" /\ c.register = "rax" =>
       q.rax = LanesOf(p.memory, c.offset, 2) /\ q.rdx = p.rdx
  /\ c.op = "load64" /\ c.register = "rdx" =>
       q.rdx = LanesOf(p.memory, c.offset, 2) /\ q.rax = p.rax
  /\ c.op = "load128" /\ c.register = "xmm0" =>
       q.xmm0 = LanesOf(p.memory, c.offset, 4) /\ q.xmm1 = p.xmm1
  /\ c.op = "load128" /\ c.register = "xmm1" =>
       q.xmm1 = LanesOf(p.memory, c.offset, 4) /\ q.xmm0 = p.xmm0
  /\ c.op = "load f32" /\ c.register = "xmm0" =>
       q.xmm0 = <<p.memory[c.offset], {}, {}, {}>>
  /\ c.op = "mov" /\ c.register = "rax" => q.rax = c.value /\ q.rdx = p.rdx
  /\ c.op = "mov" /\ c.register = "rdx" => q.rdx = c.value /\ q.rax = p.rax
  /\ c.op = "xor eax, eax" => q.rax = Low({})
  /\ c.op = "add eax, edx" => /\ q.rax = Low(AddWord(p.rax[1], p.rdx[1]))
                              /\ q.carry = Carries(p.rax[1], p.rdx[1])
                              /\ q.xmm0 = p.xmm0 /\ q.xmm1 = p.xmm1
  /\ c.op = "cdqe" => q.rax = sign_extend_word(p.rax[1])
  /\ c.op = "or rax, rdx" =>
       q.rax = <<p.rax[1] \cup p.rdx[1], p.rax[2] \cup p.rdx[2]>>
  /\ c.op = "and rax, rdx" =>
       q.rax = <<p.rax[1] \cap p.rdx[1], p.rax[2] \cap p.rdx[2]>>
  /\ c.op = "and eax, 7"  => q.rax = Low(p.rax[1] \cap Low3)
  /\ c.op = "xor eax"     => q.rax = Low(Xor(p.rax[1], c.value))
  /\ c.op = "shl eax, 1"  => q.rax = Low(ShiftLeft(p.rax[1], 1))
  /\ c.op = "sbb edx, edx" => /\ q.rdx = Low(IF p.carry THEN Bit ELSE {}) /\ q.rax = p.rax
                              /\ q.xmm0 = p.xmm0 /\ q.xmm1 = p.xmm1
  /\ c.op = "or eax, edx" => /\ q.rax = Low(p.rax[1] \cup p.rdx[1])
                             /\ q.xmm0 = p.xmm0 /\ q.xmm1 = p.xmm1
  /\ c.op = "movd eax, xmm0" => /\ q.rax = Low(p.xmm0[1])
                                /\ q.xmm0 = p.xmm0 /\ q.xmm1 = p.xmm1
  /\ c.op = "movd edx, xmm1" => /\ q.rdx = Low(p.xmm1[1]) /\ q.rax = p.rax
                                /\ q.xmm0 = p.xmm0 /\ q.xmm1 = p.xmm1
  /\ c.op = "psrldq xmm0, xmm1" => /\ q.xmm0 = Append(Tail(p.xmm0), {})
                                   /\ q.xmm1 = Append(Tail(p.xmm1), {})
  /\ c.op = "add f32" =>
       q.xmm0 = [p.xmm0 EXCEPT ![1] = FloatAdd(p.xmm0[1], p.memory[c.offset])]

Loads == {"load32", "load64", "load128", "load f32"}
Computes == {"mov", "xor eax, eax", "add eax, edx", "cdqe", "or rax, rdx",
             "and rax, rdx", "and eax, 7", "xor eax", "shl eax, 1", "sbb edx, edx",
             "or eax, edx", "movd eax, xmm0", "movd edx, xmm1", "psrldq xmm0, xmm1",
             "add f32"}

\* Registers with these values.
IsRegs(r, a, d, f, x, y) == r \in [rax : {a}, rdx : {d}, carry : {f}, xmm0 : {x}, xmm1 : {y}]

\* A write of one register leaves the others alone.
LEMMA Writes ==
  ASSUME RegsShape
  PROVE  /\ \A v : IsRegs([regs EXCEPT !["rax"] = v],
                          v, regs.rdx, regs.carry, regs.xmm0, regs.xmm1)
         /\ \A v : IsRegs([regs EXCEPT !["rdx"] = v],
                          regs.rax, v, regs.carry, regs.xmm0, regs.xmm1)
         /\ \A v : IsRegs([regs EXCEPT !["xmm0"] = v],
                          regs.rax, regs.rdx, regs.carry, v, regs.xmm1)
         /\ \A v : IsRegs([regs EXCEPT !["xmm1"] = v],
                          regs.rax, regs.rdx, regs.carry, regs.xmm0, v)
BY DEF RegsShape, IsRegs

\* What each operation on the registers makes of them.
LEMMA Computations ==
  ASSUME RegsShape
  PROVE
    LET R(op, a, d, f, x, y) == IsRegs(Computed(op), a, d, f, x, y)
        a == regs.rax
        d == regs.rdx
        x == regs.xmm0
        y == regs.xmm1
        f == regs.carry
    IN
      /\ R("xor eax, eax", Low({}), d, FALSE, x, y)
      /\ R("add eax, edx", Low(AddWord(a[1], d[1])), d, Carries(a[1], d[1]), x, y)
      /\ R("cdqe", sign_extend_word(a[1]), d, f, x, y)
      /\ R("or rax, rdx", <<a[1] \cup d[1], a[2] \cup d[2]>>, d, FALSE, x, y)
      /\ R("and rax, rdx", <<a[1] \cap d[1], a[2] \cap d[2]>>, d, FALSE, x, y)
      /\ R("and eax, 7", Low(a[1] \cap Low3), d, FALSE, x, y)
      /\ R("xor eax", Low(Xor(a[1], code[rip].value)), d, FALSE, x, y)
      /\ R("shl eax, 1", Low(ShiftLeft(a[1], 1)), d, WordBits - 1 \in a[1], x, y)
      /\ R("sbb edx, edx", a, Low(IF f THEN Bit ELSE {}), f, x, y)
      /\ R("or eax, edx", Low(a[1] \cup d[1]), d, FALSE, x, y)
      /\ R("movd eax, xmm0", Low(x[1]), d, f, x, y)
      /\ R("movd edx, xmm1", a, Low(y[1]), f, x, y)
      /\ R("psrldq xmm0, xmm1", a, d, f, Append(Tail(x), {}), Append(Tail(y), {}))
      /\ R("add f32", a, d, f, [x EXCEPT ![1] = FloatAdd(x[1], memory[code[rip].offset])], y)
<1> DEFINE R(op, a, d, f, x, y) == IsRegs(Computed(op), a, d, f, x, y)
           a == regs.rax
           d == regs.rdx
           x == regs.xmm0
           y == regs.xmm1
           f == regs.carry
<1> USE DEF RegsShape, IsRegs, Computed, eax, edx
<1>1. R("xor eax, eax", Low({}), d, FALSE, x, y)
  OBVIOUS
<1>2. R("add eax, edx", Low(AddWord(a[1], d[1])), d, Carries(a[1], d[1]), x, y)
  OBVIOUS
<1>3. R("cdqe", sign_extend_word(a[1]), d, f, x, y)
  OBVIOUS
<1>4. R("or rax, rdx", <<a[1] \cup d[1], a[2] \cup d[2]>>, d, FALSE, x, y)
  OBVIOUS
<1>5. R("and rax, rdx", <<a[1] \cap d[1], a[2] \cap d[2]>>, d, FALSE, x, y)
  OBVIOUS
<1>6. R("and eax, 7", Low(a[1] \cap Low3), d, FALSE, x, y)
  OBVIOUS
<1>7. R("xor eax", Low(Xor(a[1], code[rip].value)), d, FALSE, x, y)
  OBVIOUS
<1>8. R("shl eax, 1", Low(ShiftLeft(a[1], 1)), d, WordBits - 1 \in a[1], x, y)
  OBVIOUS
<1>9. R("sbb edx, edx", a, Low(IF f THEN Bit ELSE {}), f, x, y)
  OBVIOUS
<1>10. R("or eax, edx", Low(a[1] \cup d[1]), d, FALSE, x, y)
  OBVIOUS
<1>11. R("movd eax, xmm0", Low(x[1]), d, f, x, y)
  OBVIOUS
<1>12. R("movd edx, xmm1", a, Low(y[1]), f, x, y)
  OBVIOUS
<1>13. R("psrldq xmm0, xmm1", a, d, f, Append(Tail(x), {}), Append(Tail(y), {}))
  OBVIOUS
<1>14. R("add f32", a, d, f, [x EXCEPT ![1] = FloatAdd(x[1], memory[code[rip].offset])], y)
  OBVIOUS
<1> QED BY <1>1, <1>2, <1>3, <1>4, <1>5, <1>6, <1>7, <1>8, <1>9, <1>10, <1>11, <1>12, <1>13, <1>14

\* The registers of a record are the ones it was made of.
LEMMA RegsComponents ==
  ASSUME NEW r, NEW a, NEW d, NEW f, NEW x, NEW y, IsRegs(r, a, d, f, x, y)
  PROVE  /\ r.rax = a /\ r.rdx = d /\ r.carry = f /\ r.xmm0 = x /\ r.xmm1 = y
BY DEF IsRegs

\* The machine is memory and the registers, before and after a step.
LEMMA MachineFields ==
  /\ Machine.memory = memory /\ Machine.rax = regs.rax /\ Machine.rdx = regs.rdx
  /\ Machine.carry = regs.carry /\ Machine.xmm0 = regs.xmm0 /\ Machine.xmm1 = regs.xmm1
  /\ Machine'.memory = memory' /\ Machine'.rax = regs'.rax /\ Machine'.rdx = regs'.rdx
  /\ Machine'.carry = regs'.carry /\ Machine'.xmm0 = regs'.xmm0 /\ Machine'.xmm1 = regs'.xmm1
BY DEF Machine

\* A step of native code has the effect of the instruction it is at.
LEMMA StepHasEffect ==
  ASSUME RegsShape, native_status = "running", Native, NEW c, code[rip] = c,
         c.op # "ret",
         c.op \in Loads \cup {"mov"} => c.register \in {"rax", "rdx", "xmm0", "xmm1"}
  PROVE  /\ Effect(c, Machine, Machine') /\ RegsShape' /\ rip' = rip + 1
         /\ UNCHANGED <<code, native_status, native_error>>
<1>1. ExecuteLoad \/ ExecuteStore \/ Compute
  BY DEF Native, CompileRejects, CompileProgram, Call, ReturnFromCode, Running
<1>2. rip' = rip + 1 /\ UNCHANGED <<code, native_status, native_error>>
  BY <1>1 DEF ExecuteLoad, ExecuteStore, Compute, Step
<1>3. \A r, a, d, f, x, y : IsRegs(r, a, d, f, x, y) =>
        r.rax = a /\ r.rdx = d /\ r.carry = f /\ r.xmm0 = x /\ r.xmm1 = y
  BY RegsComponents
<1>4. \A a, d, f, x, y : IsRegs(regs', a, d, f, x, y) => RegsShape'
  BY DEF IsRegs, RegsShape
<1>5. CASE ExecuteLoad
  <2>1. PICK op \in Loads :
          /\ Running(op)
          /\ regs' = [regs EXCEPT ![code[rip].register] =
               CASE op = "load32"   -> Low(memory[code[rip].offset])
                 [] op = "load64"   -> Lanes(code[rip].offset, 2)
                 [] op = "load128"  -> Lanes(code[rip].offset, 4)
                 [] op = "load f32" -> <<memory[code[rip].offset], {}, {}, {}>>]
          /\ UNCHANGED memory
    BY <1>5 DEF ExecuteLoad, Loads
  <2>2. c.op = op /\ memory' = memory
    BY <2>1 DEF Running
  <2> DEFINE v == CASE op = "load32"   -> Low(memory[c.offset])
                    [] op = "load64"   -> Lanes(c.offset, 2)
                    [] op = "load128"  -> Lanes(c.offset, 4)
                    [] op = "load f32" -> <<memory[c.offset], {}, {}, {}>>
  <2>3. regs' = [regs EXCEPT ![c.register] = v]
    BY <2>1
  <2>4. \A o, n : Lanes(o, n) = LanesOf(memory, o, n)
    BY DEF Lanes, LanesOf
  <2>5. /\ op = "load32"   => v = Low(memory[c.offset])
        /\ op = "load64"   => v = LanesOf(memory, c.offset, 2)
        /\ op = "load128"  => v = LanesOf(memory, c.offset, 4)
        /\ op = "load f32" => v = <<memory[c.offset], {}, {}, {}>>
    BY <2>4
  <2> HIDE DEF v
  <2>6. /\ c.register = "rax" =>
             IsRegs(regs', v, regs.rdx, regs.carry, regs.xmm0, regs.xmm1)
        /\ c.register = "rdx" =>
             IsRegs(regs', regs.rax, v, regs.carry, regs.xmm0, regs.xmm1)
        /\ c.register = "xmm0" =>
             IsRegs(regs', regs.rax, regs.rdx, regs.carry, v, regs.xmm1)
        /\ c.register = "xmm1" =>
             IsRegs(regs', regs.rax, regs.rdx, regs.carry, regs.xmm0, v)
    BY <2>3, Writes
  <2>7. RegsShape'
    BY <1>4, <2>2, <2>6
  <2>8. /\ c.register = "rax" => regs'.rax = v /\ regs'.rdx = regs.rdx
        /\ c.register = "rdx" => regs'.rdx = v /\ regs'.rax = regs.rax
        /\ c.register = "xmm0" => regs'.xmm0 = v /\ regs'.xmm1 = regs.xmm1
        /\ c.register = "xmm1" => regs'.xmm1 = v /\ regs'.xmm0 = regs.xmm0
    BY <1>3, <2>6
  <2>9. Effect(c, Machine, Machine')
    BY ONLY <2>2, <2>5, <2>8, MachineFields DEF Effect, Stores, Loads
  <2> QED BY <1>2, <2>7, <2>9
<1>6. CASE ExecuteStore
  <2>1. PICK op \in Stores :
          /\ Running(op)
          /\ LET offset == code[rip].offset
                 words  == CASE op = "store32"   -> <<eax>>
                             [] op = "store64"   -> regs.rax
                             [] op = "store f32" -> <<regs.xmm0[1]>>
             IN  memory' = [o \in Offset |-> IF o \in offset .. offset + Len(words) - 1
                                             THEN words[o - offset + 1] ELSE memory[o]]
          /\ UNCHANGED regs
    BY <1>6 DEF ExecuteStore, Stores
  <2>2. c.op = op /\ regs' = regs
    BY <2>1 DEF Running
  <2> DEFINE v == CASE op = "store32"   -> <<eax>>
                    [] op = "store64"   -> regs.rax
                    [] op = "store f32" -> <<regs.xmm0[1]>>
  <2>3. memory' = Stored(memory, c.offset, v)
    <3>1. memory' = Stored(memory, code[rip].offset, v)
      BY <2>1, Zenon DEF Stored
    <3> QED BY <3>1
  <2>4. /\ op = "store32"   => v = <<regs.rax[1]>>
        /\ op = "store64"   => v = regs.rax
        /\ op = "store f32" => v = <<regs.xmm0[1]>>
    BY DEF eax
  <2> HIDE DEF v
  <2>5. RegsShape'
    BY <2>2 DEF RegsShape
  <2>6. Effect(c, Machine, Machine')
    BY ONLY <2>2, <2>3, <2>4, MachineFields DEF Effect, Stores
  <2> QED BY <1>2, <2>5, <2>6
<1>7. CASE Compute
  <2>1. PICK op \in Computes : Running(op) /\ regs' = Computed(op) /\ UNCHANGED memory
    BY <1>7 DEF Compute, Computes
  <2>2. c.op = op /\ memory' = memory
    BY <2>1 DEF Running
  <2> DEFINE R(a, d, f, x, y) == IsRegs(regs', a, d, f, x, y)
  <2>3. op = "mov" => regs' = [regs EXCEPT ![c.register] = c.value]
    BY <2>1 DEF Computed
  <2> DEFINE a == regs.rax
             d == regs.rdx
             x == regs.xmm0
             y == regs.xmm1
  <2>6. CASE op = "mov"
    <3>1. \/ c.register = "rax"  /\ R(c.value, d, regs.carry, x, y)
          \/ c.register = "rdx"  /\ R(a, c.value, regs.carry, x, y)
          \/ c.register = "xmm0" /\ R(a, d, regs.carry, c.value, y)
          \/ c.register = "xmm1" /\ R(a, d, regs.carry, x, c.value)
      <4>1. regs' = [regs EXCEPT ![c.register] = c.value]
        BY <2>3, <2>6
      <4>2. c.register \in {"rax", "rdx", "xmm0", "xmm1"}
        BY <2>2, <2>6
      <4> QED BY <4>1, <4>2, Writes
    <3>2. RegsShape'
      BY <1>4, <3>1
    <3>3. /\ c.register = "rax" => regs'.rax = c.value /\ regs'.rdx = d
          /\ c.register = "rdx" => regs'.rdx = c.value /\ regs'.rax = a
      BY <3>1 DEF IsRegs
    <3>4. Effect(c, Machine, Machine')
      BY ONLY <2>2, <2>6, <3>3, MachineFields DEF Effect, Stores
    <3> QED BY <1>2, <3>2, <3>4
  <2>7. CASE op \in {"xor eax, eax", "add eax, edx", "or rax, rdx", "and rax, rdx",
                     "and eax, 7", "xor eax", "shl eax, 1", "or eax, edx"}
    <3>1. /\ op = "xor eax, eax" => R(Low({}), d, FALSE, x, y)
          /\ op = "add eax, edx" => R(Low(AddWord(a[1], d[1])), d, Carries(a[1], d[1]), x, y)
          /\ op = "or rax, rdx"  => R(<<a[1] \cup d[1], a[2] \cup d[2]>>, d, FALSE, x, y)
          /\ op = "and rax, rdx" => R(<<a[1] \cap d[1], a[2] \cap d[2]>>, d, FALSE, x, y)
          /\ op = "and eax, 7"   => R(Low(a[1] \cap Low3), d, FALSE, x, y)
          /\ op = "xor eax"      => R(Low(Xor(a[1], c.value)), d, FALSE, x, y)
          /\ op = "shl eax, 1"   => R(Low(ShiftLeft(a[1], 1)), d, WordBits - 1 \in a[1], x, y)
          /\ op = "or eax, edx"  => R(Low(a[1] \cup d[1]), d, FALSE, x, y)
      BY ONLY RegsShape, <2>1, <2>2, code[rip] = c, Computations
    <3>2. RegsShape'
      BY ONLY <1>4, <2>7, <3>1
    <3>3. regs'.rdx = d /\ regs'.xmm0 = x /\ regs'.xmm1 = y
      BY ONLY <2>7, <3>1 DEF IsRegs
    <3>4. /\ op = "xor eax, eax" => regs'.rax = Low({})
          /\ op = "add eax, edx" =>
               regs'.rax = Low(AddWord(a[1], d[1])) /\ regs'.carry = Carries(a[1], d[1])
          /\ op = "or rax, rdx"  => regs'.rax = <<a[1] \cup d[1], a[2] \cup d[2]>>
          /\ op = "and rax, rdx" => regs'.rax = <<a[1] \cap d[1], a[2] \cap d[2]>>
          /\ op = "and eax, 7"   => regs'.rax = Low(a[1] \cap Low3)
          /\ op = "xor eax"      => regs'.rax = Low(Xor(a[1], c.value))
          /\ op = "shl eax, 1"   => regs'.rax = Low(ShiftLeft(a[1], 1))
          /\ op = "or eax, edx"  => regs'.rax = Low(a[1] \cup d[1])
      BY ONLY <3>1 DEF IsRegs
    <3>5. Effect(c, Machine, Machine')
      <4>1. CASE op \in {"xor eax, eax", "add eax, edx", "or rax, rdx", "and rax, rdx"}
        BY ONLY <2>2, <3>3, <3>4, <4>1, MachineFields DEF Effect, Stores
      <4>2. CASE op \in {"and eax, 7", "xor eax", "shl eax, 1", "or eax, edx"}
        BY ONLY <2>2, <3>3, <3>4, <4>2, MachineFields DEF Effect, Stores
      <4> QED BY <2>7, <4>1, <4>2
    <3> QED BY <1>2, <3>2, <3>5
  <2>8. CASE op \in {"cdqe", "sbb edx, edx", "movd eax, xmm0", "movd edx, xmm1"}
    <3>1. /\ op = "cdqe" => R(sign_extend_word(a[1]), d, regs.carry, x, y)
          /\ op = "sbb edx, edx" =>
               R(a, Low(IF regs.carry THEN Bit ELSE {}), regs.carry, x, y)
          /\ op = "movd eax, xmm0" => R(Low(x[1]), d, regs.carry, x, y)
          /\ op = "movd edx, xmm1" => R(a, Low(y[1]), regs.carry, x, y)
      BY <2>1, <2>2, Computations
    <3>2. RegsShape'
      BY <1>4, <2>8, <3>1
    <3>3. regs'.xmm0 = x /\ regs'.xmm1 = y
      BY <2>8, <3>1 DEF IsRegs
    <3>4. /\ op = "cdqe" => regs'.rax = sign_extend_word(a[1])
          /\ op = "sbb edx, edx" =>
               regs'.rdx = Low(IF regs.carry THEN Bit ELSE {}) /\ regs'.rax = a
          /\ op = "movd eax, xmm0" => regs'.rax = Low(x[1])
          /\ op = "movd edx, xmm1" => regs'.rdx = Low(y[1]) /\ regs'.rax = a
      BY ONLY <3>1 DEF IsRegs
    <3>5. Effect(c, Machine, Machine')
      BY ONLY <2>2, <2>8, <3>3, <3>4, MachineFields DEF Effect, Stores
    <3> QED BY <1>2, <3>2, <3>5
  <2>9. CASE op \in {"psrldq xmm0, xmm1", "add f32"}
    <3>1. /\ op = "psrldq xmm0, xmm1" =>
               R(a, d, regs.carry, Append(Tail(x), {}), Append(Tail(y), {}))
          /\ op = "add f32" =>
               R(a, d, regs.carry, [x EXCEPT ![1] = FloatAdd(x[1], memory[c.offset])], y)
      <4>1. code[rip].offset = c.offset
        OBVIOUS
      <4>2. CASE op = "psrldq xmm0, xmm1"
        BY <2>1, <4>2, Computations
      <4>3. CASE op = "add f32"
        BY <2>1, <4>1, <4>3, Computations
      <4> QED BY <2>9, <4>2, <4>3
    <3>2. RegsShape'
      BY <1>4, <2>9, <3>1
    <3>3. /\ op = "psrldq xmm0, xmm1" =>
               regs'.xmm0 = Append(Tail(x), {}) /\ regs'.xmm1 = Append(Tail(y), {})
          /\ op = "add f32" =>
               regs'.xmm0 = [x EXCEPT ![1] = FloatAdd(x[1], memory[c.offset])]
      BY <3>1 DEF IsRegs
    <3>4. Effect(c, Machine, Machine')
      BY ONLY <2>2, <2>9, <3>3, MachineFields DEF Effect, Stores
    <3> QED BY <1>2, <3>2, <3>4
  <2> QED BY <2>6, <2>7, <2>8, <2>9 DEF Computes
<1> QED BY <1>1, <1>5, <1>6, <1>7

(***************************************************************************)
(* What a valid instruction looks like                                      *)
(***************************************************************************)
IsOperand(operand, kinds) ==
  /\ operand.kind \in kinds
  /\ operand.kind \in {"Gpr", "Fpr"} => operand.index \in Register
  /\ operand.kind = "Immediate" => operand.value \in SeqOfWords(2)

WritesGpr(ir) ==
  /\ ir.destination = destination("Gpr", ir.destination.index)
  /\ ir.destination.kind = "Gpr" /\ ir.destination.index \in Register

WritesSpecial(ir, kinds) ==
  /\ ir.destination = destination(ir.destination.kind, 0)
  /\ ir.destination.kind \in kinds /\ ir.destination.index = 0

Valid(ir) ==
  CASE ir.opcode = "Nop" -> ir = Nop
    [] ir.opcode \in {"AddWordSignExtend", "Or64"} ->
         /\ WritesGpr(ir) /\ ir.write_mode # "Full128"
         /\ IsOperand(ir.inputs[1], {"Gpr", "Immediate"})
         /\ IsOperand(ir.inputs[2], {"Gpr", "Immediate"})
    [] ir.opcode = "And64" ->
         /\ WritesGpr(ir) /\ ir.write_mode # "Full128"
         /\ IsOperand(ir.inputs[1], {"Gpr"}) /\ IsOperand(ir.inputs[2], {"Immediate"})
    [] ir.opcode = "LoadUpperImmediateSignExtend" ->
         /\ WritesGpr(ir) /\ ir.write_mode # "Full128"
         /\ IsOperand(ir.inputs[1], {"Immediate"})
    [] ir.opcode = "AddPackedU32Saturate128" ->
         /\ WritesGpr(ir) /\ ir.write_mode = "Full128"
         /\ IsOperand(ir.inputs[1], {"Gpr"}) /\ IsOperand(ir.inputs[2], {"Gpr"})
    [] ir.opcode = "MoveGprLow64" ->
         WritesSpecial(ir, {"Hi", "Lo", "Hi1", "Lo1"}) /\ IsOperand(ir.inputs[1], {"Gpr"})
    [] ir.opcode = "ComputeMtsah" ->
         /\ WritesSpecial(ir, {"Sa"})
         /\ IsOperand(ir.inputs[1], {"Gpr"}) /\ IsOperand(ir.inputs[2], {"Immediate"})
    [] ir.opcode = "MoveBits32" ->
         /\ IsOperand(ir.inputs[1], {"Gpr"})
         /\ \/ WritesSpecial(ir, {"Fcr31"})
            \/ /\ ir.destination = destination("Fpr", ir.destination.index)
               /\ ir.destination.kind = "Fpr" /\ ir.destination.index \in Register
    [] ir.opcode = "AddF32ToAccumulator" ->
         /\ WritesSpecial(ir, {"FpAccumulator"})
         /\ IsOperand(ir.inputs[1], {"Fpr"}) /\ IsOperand(ir.inputs[2], {"Fpr"})
    [] OTHER -> FALSE

\* A list of checks passes when each of them does.
LEMMA AllChecksPass ==
  /\ \A a, b : (a ?? b) = "None" <=> a = "None" /\ b = "None"
  /\ Shaped(TRUE) = "None" /\ Shaped(FALSE) # "None"
  /\ \A r \in Nat : Indexed(r) = "None" <=> r \in Register
BY WidthAssumption DEF ??, Shaped, Indexed, Register

\* An operand that passes is of a kind allowed, and names a register that exists.
LEMMA ValidOperand ==
  ASSUME NEW operand, IsInput(operand), NEW kinds
  PROVE  /\ validate_operand(operand) = "None" => IsOperand(operand, {operand.kind})
         /\ Input(operand, kinds) = "None" => IsOperand(operand, kinds)
<1>1. validate_operand(operand) = "None" => IsOperand(operand, {operand.kind})
  BY AllChecksPass DEF validate_operand, IsOperand, IsInput
<1>2. Input(operand, kinds) = "None" =>
        validate_operand(operand) = "None" /\ operand.kind \in kinds
  BY AllChecksPass DEF Input, Shaped
<1> QED BY <1>1, <1>2 DEF IsOperand

\* What the validator accepts has the form that the emitters rely on.
LEMMA VerdictIsValid ==
  ASSUME NEW ir, IsInstruction(ir), validate_r5900_ir_instruction(ir) = "None"
  PROVE  Valid(ir)
<1> USE AllChecksPass
<1>1. \A mode : validate_gpr_destination(ir, mode) = "None" =>
        WritesGpr(ir) /\ ir.write_mode = mode
  BY DEF validate_gpr_destination, Shaped, WritesGpr, IsInstruction
<1>2. \A kinds : Unindexed(ir, kinds) = "None" => WritesSpecial(ir, kinds)
  BY DEF Unindexed, Shaped, WritesSpecial, IsInstruction
<1>3. \A n : Inputs(ir, n) = "None" => Len(ir.inputs) = n
  BY DEF Inputs, Shaped
<1>4. ASSUME NEW i \in 1 .. Len(ir.inputs)
      PROVE  LET operand == ir.inputs[i]
             IN  /\ validate_operand(operand) = "None" => IsOperand(operand, {operand.kind})
                 /\ \A kinds : Input(operand, kinds) = "None" => IsOperand(operand, kinds)
  BY ValidOperand DEF IsInstruction
<1>5. Len(ir.inputs) = 2 => \A kinds : TwoInputs(ir, kinds) = "None" =>
        IsOperand(ir.inputs[1], kinds) /\ IsOperand(ir.inputs[2], kinds)
  BY <1>4 DEF TwoInputs
<1>6. CASE ir.opcode = "Nop"
  BY <1>6 DEF validate_r5900_ir_instruction, Valid, Shaped
<1>7. CASE ir.opcode \in {"AddWordSignExtend", "Or64"}
  <2>1. validate_existing_integer_write(ir) = "None"
    BY <1>7 DEF validate_r5900_ir_instruction
  <2>2. /\ validate_gpr_destination(ir, "Low64PreserveUpper64") = "None"
        /\ Len(ir.inputs) = 2 /\ TwoInputs(ir, {"Gpr", "Immediate"}) = "None"
    BY <2>1 DEF validate_existing_integer_write, Shaped
  <2>3. WritesGpr(ir) /\ ir.write_mode # "Full128"
    BY <1>1, <2>2
  <2> QED BY <1>5, <1>7, <2>2, <2>3 DEF Valid
<1>8. CASE ir.opcode = "And64"
  <2>1. validate_and64(ir) = "None"
    BY <1>8 DEF validate_r5900_ir_instruction
  <2>2. /\ validate_gpr_destination(ir, "Low64PreserveUpper64") = "None"
        /\ Len(ir.inputs) = 2
        /\ validate_operand(ir.inputs[1]) = "None" /\ validate_operand(ir.inputs[2]) = "None"
        /\ ir.inputs[1].kind = "Gpr" /\ ir.inputs[2].kind = "Immediate"
    BY <2>1 DEF validate_and64, Shaped
  <2>3. WritesGpr(ir) /\ ir.write_mode # "Full128"
    BY <1>1, <2>2
  <2>4. IsOperand(ir.inputs[1], {"Gpr"}) /\ IsOperand(ir.inputs[2], {"Immediate"})
    BY <1>4, <2>2
  <2> QED BY <1>8, <2>3, <2>4 DEF Valid
<1>9. CASE ir.opcode = "LoadUpperImmediateSignExtend"
  <2>1. validate_lui(ir) = "None"
    BY <1>9 DEF validate_r5900_ir_instruction
  <2>2. /\ validate_gpr_destination(ir, "Low64PreserveUpper64") = "None"
        /\ Len(ir.inputs) = 1 /\ ir.inputs[1].kind = "Immediate"
    BY <2>1 DEF validate_lui, Shaped
  <2>3. WritesGpr(ir) /\ ir.write_mode # "Full128"
    BY <1>1, <2>2
  <2>4. IsOperand(ir.inputs[1], {"Immediate"})
    BY <2>2 DEF IsInstruction, IsInput, IsOperand
  <2> QED BY <1>9, <2>3, <2>4 DEF Valid
<1>10. CASE ir.opcode = "AddPackedU32Saturate128"
  <2>1. validate_packed_u32_add(ir) = "None"
    BY <1>10 DEF validate_r5900_ir_instruction
  <2>2. /\ validate_gpr_destination(ir, "Full128") = "None"
        /\ Len(ir.inputs) = 2 /\ TwoInputs(ir, {"Gpr"}) = "None"
    BY <2>1 DEF validate_packed_u32_add, Shaped
  <2>3. WritesGpr(ir) /\ ir.write_mode = "Full128"
    BY <1>1, <2>2
  <2> QED BY <1>5, <1>10, <2>2, <2>3 DEF Valid
<1>11. CASE ir.opcode = "MoveGprLow64"
  <2>1. validate_move_gpr_low64(ir) = "None"
    BY <1>11 DEF validate_r5900_ir_instruction
  <2>2. /\ Unindexed(ir, {"Hi", "Lo", "Hi1", "Lo1"}) = "None" /\ Inputs(ir, 1) = "None"
        /\ Input(ir.inputs[1], {"Gpr"}) = "None"
    BY <2>1 DEF validate_move_gpr_low64
  <2>3. Len(ir.inputs) = 1
    BY <1>3, <2>2
  <2> QED BY <1>2, <1>4, <1>11, <2>2, <2>3 DEF Valid
<1>12. CASE ir.opcode = "ComputeMtsah"
  <2>1. validate_mtsah(ir) = "None"
    BY <1>12 DEF validate_r5900_ir_instruction
  <2>2. /\ Unindexed(ir, {"Sa"}) = "None" /\ Inputs(ir, 2) = "None"
        /\ Input(ir.inputs[1], {"Gpr"}) = "None" /\ ir.inputs[2].kind = "Immediate"
    BY <2>1 DEF validate_mtsah, Shaped
  <2>3. Len(ir.inputs) = 2
    BY <1>3, <2>2
  <2>4. IsOperand(ir.inputs[1], {"Gpr"})
    BY <1>4, <2>2, <2>3
  <2>5. IsOperand(ir.inputs[2], {"Immediate"})
    BY <2>2, <2>3 DEF IsInstruction, IsInput, IsOperand
  <2> QED BY <1>2, <1>12, <2>2, <2>4, <2>5 DEF Valid
<1>13. CASE ir.opcode = "MoveBits32"
  <2>1. validate_move_bits32(ir) = "None"
    BY <1>13 DEF validate_r5900_ir_instruction
  <2>2. /\ Inputs(ir, 1) = "None" /\ Input(ir.inputs[1], {"Gpr"}) = "None"
        /\ IF ir.destination.kind = "Fpr" THEN Indexed(ir.destination.index) = "None"
                                          ELSE Unindexed(ir, {"Fcr31"}) = "None"
    BY <2>1 DEF validate_move_bits32
  <2>3. Len(ir.inputs) = 1
    BY <1>3, <2>2
  <2>4. ir.destination.kind = "Fpr" =>
          /\ ir.destination = destination("Fpr", ir.destination.index)
          /\ ir.destination.index \in Register
    BY <2>2 DEF IsInstruction
  <2>5. IsOperand(ir.inputs[1], {"Gpr"})
    BY <1>4, <2>2, <2>3
  <2> QED BY <1>2, <1>13, <2>2, <2>4, <2>5 DEF Valid
<1>14. CASE ir.opcode = "AddF32ToAccumulator"
  <2>1. validate_add_f32_accumulator(ir) = "None"
    BY <1>14 DEF validate_r5900_ir_instruction
  <2>2. /\ Unindexed(ir, {"FpAccumulator"}) = "None" /\ Inputs(ir, 2) = "None"
        /\ TwoInputs(ir, {"Fpr"}) = "None"
    BY <2>1 DEF validate_add_f32_accumulator
  <2>3. Len(ir.inputs) = 2
    BY <1>3, <2>2
  <2> QED BY <1>2, <1>5, <1>14, <2>2, <2>3 DEF Valid
<1>15. CASE ir.opcode \notin {"Nop", "AddWordSignExtend", "Or64", "And64",
                              "LoadUpperImmediateSignExtend", "AddPackedU32Saturate128",
                              "MoveGprLow64", "ComputeMtsah", "MoveBits32",
                              "AddF32ToAccumulator"}
  BY <1>15 DEF validate_r5900_ir_instruction
<1> QED BY <1>6, <1>7, <1>8, <1>9, <1>10, <1>11, <1>12, <1>13, <1>14, <1>15

(***************************************************************************)
(* What the code of an instruction does                                     *)
(***************************************************************************)
\* The machine goes through u while it executes c.
Runs(u, c) == \A k \in 1 .. Len(c) : Effect(c[k], u[k - 1], u[k])

\* A sequence with one element appended.
LEMMA OneMore ==
  ASSUME NEW U, NEW c \in Seq(U), NEW last \in U
  PROVE  /\ c \o <<>> = c
         /\ Len(c \o <<last>>) = Len(c) + 1
         /\ (c \o <<last>>)[Len(c) + 1] = last
         /\ \A k \in 1 .. Len(c) : (c \o <<last>>)[k] = c[k]
         /\ c \o <<last>> \in Seq(U)
OBVIOUS

\* A word of a general register is in memory at its place.
LEMMA GprInMemory ==
  ASSUME NEW s, NEW r \in Register, NEW lane \in 0 .. 3
  PROVE  InMemory(s)[gpr_offset(r) + lane] = s[<<"Gpr", r, lane>>]
<1>1. <<"Gpr", r, lane>> \in Cell
  BY DEF Cell
<1>2. CellOffset(<<"Gpr", r, lane>>) = gpr_offset(r) + lane
  BY DEF CellOffset, FieldOffset
<1> QED BY <1>1, <1>2, MemoryOfCell

\* The words that a load of a general register reads.
LEMMA GprWordsInMemory ==
  ASSUME NEW s, NEW r \in Register
  PROVE  /\ InMemory(s)[gpr_offset(r)] = s[<<"Gpr", r, 0>>]
         /\ LanesOf(InMemory(s), gpr_offset(r), 2)
              = <<s[<<"Gpr", r, 0>>], s[<<"Gpr", r, 1>>]>>
         /\ LanesOf(InMemory(s), gpr_offset(r), 4)
              = [lane \in 1 .. 4 |-> s[<<"Gpr", r, lane - 1>>]]
<1>1. gpr_offset(r) \in Nat
  BY WidthAssumption DEF gpr_offset, Register
<1>2. \A lane \in 1 .. 4 :
        InMemory(s)[gpr_offset(r) + lane - 1] = s[<<"Gpr", r, lane - 1>>]
  <2> TAKE lane \in 1 .. 4
  <2> DEFINE l == lane - 1
  <2>1. l \in 0 .. 3
    OBVIOUS
  <2> HIDE DEF l
  <2>2. InMemory(s)[gpr_offset(r) + l] = s[<<"Gpr", r, l>>]
    BY <2>1, GprInMemory
  <2> QED BY <2>2 DEF l
<1>3. InMemory(s)[gpr_offset(r)] = s[<<"Gpr", r, 0>>]
  <2>1. gpr_offset(r) + 0 = gpr_offset(r)
    BY <1>1
  <2>2. 0 \in 0 .. 3
    OBVIOUS
  <2>3. InMemory(s)[gpr_offset(r) + 0] = s[<<"Gpr", r, 0>>]
    BY <2>2, GprInMemory
  <2> QED BY <2>1, <2>3
<1>4. LanesOf(InMemory(s), gpr_offset(r), 4)
        = [lane \in 1 .. 4 |-> s[<<"Gpr", r, lane - 1>>]]
  BY <1>2 DEF LanesOf
<1>5. LanesOf(InMemory(s), gpr_offset(r), 2)
        = [lane \in 1 .. 2 |-> s[<<"Gpr", r, lane - 1>>]]
  BY <1>2 DEF LanesOf
<1>6. [lane \in 1 .. 2 |-> s[<<"Gpr", r, lane - 1>>]]
        = <<s[<<"Gpr", r, 0>>], s[<<"Gpr", r, 1>>]>>
  OBVIOUS
<1> QED BY <1>3, <1>4, <1>5, <1>6

\* An operand in a register is what the executor reads for it.
LEMMA OperandsAreRead ==
  ASSUME NEW s, NEW operand, IsOperand(operand, {"Gpr", "Immediate"}),
         NEW p, NEW q, p.memory = InMemory(s)
  PROVE  LET v == read_operand_value(s, operand)
         IN  /\ Effect(emit_operand32("rax", operand), p, q) =>
                  q.memory = p.memory /\ q.rax[1] = v[1]
             /\ Effect(emit_operand32("rdx", operand), p, q) =>
                  q.memory = p.memory /\ q.rdx[1] = v[1] /\ q.rax = p.rax
             /\ Effect(emit_operand64("rax", operand), p, q) =>
                  q.memory = p.memory /\ q.rax[1] = v[1] /\ q.rax[2] = v[2]
             /\ Effect(emit_operand64("rdx", operand), p, q) =>
                  /\ q.memory = p.memory /\ q.rdx[1] = v[1] /\ q.rdx[2] = v[2]
                  /\ q.rax = p.rax
<1> DEFINE v == read_operand_value(s, operand)
<1>1. CASE operand.kind = "Gpr"
  <2> DEFINE r == operand.index
  <2>1. r \in Register
    BY <1>1 DEF IsOperand
  <2>2. v[1] = s[<<"Gpr", r, 0>>] /\ v[2] = s[<<"Gpr", r, 1>>]
    BY <1>1 DEF read_operand_value
  <2>3. /\ p.memory[gpr_offset(r)] = v[1]
        /\ LanesOf(p.memory, gpr_offset(r), 2)[1] = v[1]
        /\ LanesOf(p.memory, gpr_offset(r), 2)[2] = v[2]
    <3>1. /\ p.memory[gpr_offset(r)] = s[<<"Gpr", r, 0>>]
          /\ LanesOf(p.memory, gpr_offset(r), 2)
               = <<s[<<"Gpr", r, 0>>], s[<<"Gpr", r, 1>>]>>
      <4>1. /\ InMemory(s)[gpr_offset(r)] = s[<<"Gpr", r, 0>>]
            /\ LanesOf(InMemory(s), gpr_offset(r), 2)
                 = <<s[<<"Gpr", r, 0>>], s[<<"Gpr", r, 1>>]>>
        BY ONLY <2>1, GprWordsInMemory
      <4> QED BY <4>1
    <3> HIDE DEF v, r
    <3> QED BY <2>2, <3>1
  <2> HIDE DEF v, r
  <2>4. /\ emit_operand32("rax", operand) = Load("load32", "rax", gpr_offset(r))
        /\ emit_operand32("rdx", operand) = Load("load32", "rdx", gpr_offset(r))
        /\ emit_operand64("rax", operand) = Load("load64", "rax", gpr_offset(r))
        /\ emit_operand64("rdx", operand) = Load("load64", "rdx", gpr_offset(r))
    BY <1>1 DEF emit_operand32, emit_operand64, r
  <2>5. Effect(Load("load32", "rax", gpr_offset(r)), p, q) =>
          q.memory = p.memory /\ q.rax[1] = v[1]
    BY <2>3 DEF Effect, Load, Low, Stores
  <2>6. Effect(Load("load32", "rdx", gpr_offset(r)), p, q) =>
          q.memory = p.memory /\ q.rdx[1] = v[1] /\ q.rax = p.rax
    BY <2>3 DEF Effect, Load, Low, Stores
  <2>7. Effect(Load("load64", "rax", gpr_offset(r)), p, q) =>
          q.memory = p.memory /\ q.rax[1] = v[1] /\ q.rax[2] = v[2]
    BY <2>3 DEF Effect, Load, Stores
  <2>8. Effect(Load("load64", "rdx", gpr_offset(r)), p, q) =>
          /\ q.memory = p.memory /\ q.rdx[1] = v[1] /\ q.rdx[2] = v[2]
          /\ q.rax = p.rax
    BY <2>3 DEF Effect, Load, Stores
  <2> QED BY <2>4, <2>5, <2>6, <2>7, <2>8 DEF v
<1>2. CASE operand.kind = "Immediate"
  <2>1. v = operand.value
    BY <1>2 DEF read_operand_value
  <2> HIDE DEF v
  <2>2. /\ emit_operand32("rax", operand) = Move("mov", "rax", <<v[1], {}>>)
        /\ emit_operand32("rdx", operand) = Move("mov", "rdx", <<v[1], {}>>)
        /\ emit_operand64("rax", operand) = Move("mov", "rax", v)
        /\ emit_operand64("rdx", operand) = Move("mov", "rdx", v)
    BY <1>2, <2>1 DEF emit_operand32, emit_operand64
  <2>3. \A w : Effect(Move("mov", "rax", w), p, q) => q.memory = p.memory /\ q.rax = w
    BY DEF Effect, Move, Stores
  <2>4. \A w : Effect(Move("mov", "rdx", w), p, q) =>
                 q.memory = p.memory /\ q.rdx = w /\ q.rax = p.rax
    BY DEF Effect, Move, Stores
  <2>5. <<v[1], {}>>[1] = v[1]
    OBVIOUS
  <2> QED BY <2>2, <2>3, <2>4, <2>5 DEF v
<1> QED BY <1>1, <1>2 DEF IsOperand

(***************************************************************************)
(* Each opcode                                                              *)
(***************************************************************************)
\* A store of the result to the low half of a general register.
LEMMA StoreLow64Writes ==
  ASSUME NEW s, NEW ir, WritesGpr(ir), ir # Nop, ir.destination.index # 0,
         Len(Value(s, ir)) = 2, NEW p, NEW q,
         p.memory = InMemory(s), p.rax = Value(s, ir),
         Effect(Store("store64", gpr_offset(ir.destination.index)), p, q)
  PROVE  q.memory = InMemory(Performed(s, ir))
<1> DEFINE r == ir.destination.index
           v == Value(s, ir)
<1>1. ir.destination = destination("Gpr", r) /\ r \in Register /\ r # 0
  BY DEF WritesGpr
<1>2. ir.destination # destination("Gpr", 0)
  BY <1>1 DEF destination
<1>3. Performed(s, ir) = Written(s, destination("Gpr", r), v)
  BY <1>1, <1>2 DEF Performed
<1>4. IsField("Gpr", r) /\ Len(v) \in 1 .. FieldWidth("Gpr")
      /\ FieldOffset("Gpr", r) = gpr_offset(r)
  BY <1>1 DEF IsField, FieldWidth, FieldOffset
<1>5. q.memory = Stored(p.memory, gpr_offset(r), p.rax)
  BY DEF Effect, Store
<1> HIDE DEF r, v
<1>6. InMemory(Written(s, destination("Gpr", r), v)) = Stored(InMemory(s), gpr_offset(r), v)
  BY <1>4, StoreWritesField
<1> QED BY <1>3, <1>5, <1>6 DEF v

\* The low word of a 32-bit result.
LEMMA LowFirst == \A w : Low(w)[1] = w
BY DEF Low

\* A 32-bit operand that is loaded to rax.
LEMMA LoadsRax32 ==
  ASSUME NEW s, NEW operand, IsOperand(operand, {"Gpr", "Immediate"}), NEW p, NEW q,
         p.memory = InMemory(s), Effect(emit_operand32("rax", operand), p, q)
  PROVE  q.memory = InMemory(s) /\ q.rax[1] = read_operand_value(s, operand)[1]
BY OperandsAreRead

\* A 32-bit operand that is loaded to rdx.
LEMMA LoadsRdx32 ==
  ASSUME NEW s, NEW operand, IsOperand(operand, {"Gpr", "Immediate"}), NEW p, NEW q,
         p.memory = InMemory(s), Effect(emit_operand32("rdx", operand), p, q)
  PROVE  /\ q.memory = InMemory(s) /\ q.rdx[1] = read_operand_value(s, operand)[1]
         /\ q.rax = p.rax
BY OperandsAreRead

\* A 64-bit operand that is loaded to rax.
LEMMA LoadsRax64 ==
  ASSUME NEW s, NEW operand, IsOperand(operand, {"Gpr", "Immediate"}), NEW p, NEW q,
         p.memory = InMemory(s), Effect(emit_operand64("rax", operand), p, q)
  PROVE  /\ q.memory = InMemory(s)
         /\ q.rax[1] = read_operand_value(s, operand)[1]
         /\ q.rax[2] = read_operand_value(s, operand)[2]
BY OperandsAreRead

\* A 64-bit operand that is loaded to rdx.
LEMMA LoadsRdx64 ==
  ASSUME NEW s, NEW operand, IsOperand(operand, {"Gpr", "Immediate"}), NEW p, NEW q,
         p.memory = InMemory(s), Effect(emit_operand64("rdx", operand), p, q)
  PROVE  /\ q.memory = InMemory(s) /\ q.rax = p.rax
         /\ q.rdx[1] = read_operand_value(s, operand)[1]
         /\ q.rdx[2] = read_operand_value(s, operand)[2]
BY OperandsAreRead

\* The steps of a run, one by one.
LEMMA Runs2 ==
  ASSUME NEW a, NEW b, NEW u, Runs(u, <<a, b>>)
  PROVE  /\ Len(<<a, b>>) = 2
         /\ Effect(a, u[0], u[1])
         /\ Effect(b, u[1], u[2])
<1> DEFINE t == <<a, b>>
<1>0. Len(t) = 2
  OBVIOUS
<1>1. \A k \in 1 .. 2 : Effect(t[k], u[k - 1], u[k])
  BY <1>0 DEF Runs
<1>2. t[1] = a /\ t[2] = b
  OBVIOUS
<1> HIDE DEF t
<1>3. Effect(a, u[0], u[1])
  <2>1. 1 \in 1 .. 2 /\ 1 - 1 = 0
    OBVIOUS
  <2>2. Effect(t[1], u[1 - 1], u[1])
    BY <1>1, <2>1
  <2> QED BY <1>2, <2>1, <2>2
<1>4. Effect(b, u[1], u[2])
  <2>1. 2 \in 1 .. 2 /\ 2 - 1 = 1
    OBVIOUS
  <2>2. Effect(t[2], u[2 - 1], u[2])
    BY <1>1, <2>1
  <2> QED BY <1>2, <2>1, <2>2
<1> QED BY <1>0, <1>3, <1>4 DEF t

\* Code of three instructions.
LEMMA Runs3 ==
  ASSUME NEW a, NEW b, NEW c, NEW u, Runs(u, <<a, b, c>>)
  PROVE  /\ Len(<<a, b, c>>) = 3
         /\ Effect(a, u[0], u[1])
         /\ Effect(b, u[1], u[2])
         /\ Effect(c, u[2], u[3])
<1> DEFINE t == <<a, b, c>>
<1>0. Len(t) = 3
  OBVIOUS
<1>1. \A k \in 1 .. 3 : Effect(t[k], u[k - 1], u[k])
  BY <1>0 DEF Runs
<1>2. t[1] = a /\ t[2] = b /\ t[3] = c
  OBVIOUS
<1> HIDE DEF t
<1>3. Effect(a, u[0], u[1])
  <2>1. 1 \in 1 .. 3 /\ 1 - 1 = 0
    OBVIOUS
  <2>2. Effect(t[1], u[1 - 1], u[1])
    BY <1>1, <2>1
  <2> QED BY <1>2, <2>1, <2>2
<1>4. Effect(b, u[1], u[2])
  <2>1. 2 \in 1 .. 3 /\ 2 - 1 = 1
    OBVIOUS
  <2>2. Effect(t[2], u[2 - 1], u[2])
    BY <1>1, <2>1
  <2> QED BY <1>2, <2>1, <2>2
<1>5. Effect(c, u[2], u[3])
  <2>1. 3 \in 1 .. 3 /\ 3 - 1 = 2
    OBVIOUS
  <2>2. Effect(t[3], u[3 - 1], u[3])
    BY <1>1, <2>1
  <2> QED BY <1>2, <2>1, <2>2
<1> QED BY <1>0, <1>3, <1>4, <1>5 DEF t

\* Code of four instructions.
LEMMA Runs4 ==
  ASSUME NEW a, NEW b, NEW c, NEW d, NEW u, Runs(u, <<a, b, c, d>>)
  PROVE  /\ Len(<<a, b, c, d>>) = 4
         /\ Effect(a, u[0], u[1])
         /\ Effect(b, u[1], u[2])
         /\ Effect(c, u[2], u[3])
         /\ Effect(d, u[3], u[4])
<1> DEFINE t == <<a, b, c, d>>
<1>0. Len(t) = 4
  OBVIOUS
<1>1. \A k \in 1 .. 4 : Effect(t[k], u[k - 1], u[k])
  BY <1>0 DEF Runs
<1>2. t[1] = a /\ t[2] = b /\ t[3] = c /\ t[4] = d
  OBVIOUS
<1> HIDE DEF t
<1>3. Effect(a, u[0], u[1])
  <2>1. 1 \in 1 .. 4 /\ 1 - 1 = 0
    OBVIOUS
  <2>2. Effect(t[1], u[1 - 1], u[1])
    BY <1>1, <2>1
  <2> QED BY <1>2, <2>1, <2>2
<1>4. Effect(b, u[1], u[2])
  <2>1. 2 \in 1 .. 4 /\ 2 - 1 = 1
    OBVIOUS
  <2>2. Effect(t[2], u[2 - 1], u[2])
    BY <1>1, <2>1
  <2> QED BY <1>2, <2>1, <2>2
<1>5. Effect(c, u[2], u[3])
  <2>1. 3 \in 1 .. 4 /\ 3 - 1 = 2
    OBVIOUS
  <2>2. Effect(t[3], u[3 - 1], u[3])
    BY <1>1, <2>1
  <2> QED BY <1>2, <2>1, <2>2
<1>6. Effect(d, u[3], u[4])
  <2>1. 4 \in 1 .. 4 /\ 4 - 1 = 3
    OBVIOUS
  <2>2. Effect(t[4], u[4 - 1], u[4])
    BY <1>1, <2>1
  <2> QED BY <1>2, <2>1, <2>2
<1> QED BY <1>0, <1>3, <1>4, <1>5, <1>6 DEF t

\* Code of five instructions.
LEMMA Runs5 ==
  ASSUME NEW a, NEW b, NEW c, NEW d, NEW e, NEW u, Runs(u, <<a, b, c, d, e>>)
  PROVE  /\ Len(<<a, b, c, d, e>>) = 5
         /\ Effect(a, u[0], u[1])
         /\ Effect(b, u[1], u[2])
         /\ Effect(c, u[2], u[3])
         /\ Effect(d, u[3], u[4])
         /\ Effect(e, u[4], u[5])
<1> DEFINE t == <<a, b, c, d, e>>
<1>0. Len(t) = 5
  OBVIOUS
<1>1. \A k \in 1 .. 5 : Effect(t[k], u[k - 1], u[k])
  BY <1>0 DEF Runs
<1>2. t[1] = a /\ t[2] = b /\ t[3] = c /\ t[4] = d /\ t[5] = e
  OBVIOUS
<1> HIDE DEF t
<1>3. Effect(a, u[0], u[1])
  <2>1. 1 \in 1 .. 5 /\ 1 - 1 = 0
    OBVIOUS
  <2>2. Effect(t[1], u[1 - 1], u[1])
    BY <1>1, <2>1
  <2> QED BY <1>2, <2>1, <2>2
<1>4. Effect(b, u[1], u[2])
  <2>1. 2 \in 1 .. 5 /\ 2 - 1 = 1
    OBVIOUS
  <2>2. Effect(t[2], u[2 - 1], u[2])
    BY <1>1, <2>1
  <2> QED BY <1>2, <2>1, <2>2
<1>5. Effect(c, u[2], u[3])
  <2>1. 3 \in 1 .. 5 /\ 3 - 1 = 2
    OBVIOUS
  <2>2. Effect(t[3], u[3 - 1], u[3])
    BY <1>1, <2>1
  <2> QED BY <1>2, <2>1, <2>2
<1>6. Effect(d, u[3], u[4])
  <2>1. 4 \in 1 .. 5 /\ 4 - 1 = 3
    OBVIOUS
  <2>2. Effect(t[4], u[4 - 1], u[4])
    BY <1>1, <2>1
  <2> QED BY <1>2, <2>1, <2>2
<1>7. Effect(e, u[4], u[5])
  <2>1. 5 \in 1 .. 5 /\ 5 - 1 = 4
    OBVIOUS
  <2>2. Effect(t[5], u[5 - 1], u[5])
    BY <1>1, <2>1
  <2> QED BY <1>2, <2>1, <2>2
<1> QED BY <1>0, <1>3, <1>4, <1>5, <1>6, <1>7 DEF t

\* A body, and a last step or none.
LEMMA RunsThenOne ==
  ASSUME NEW U, NEW body \in Seq(U), NEW last \in U, NEW u,
         NEW tail, tail = <<>> \/ tail = <<last>>, Runs(u, body \o tail)
  PROVE  /\ Runs(u, body)
         /\ tail = <<>> => Len(body \o tail) = Len(body)
         /\ tail = <<last>> =>
              /\ Len(body \o tail) = Len(body) + 1
              /\ Effect(last, u[Len(body)], u[Len(body) + 1])
<1> DEFINE c == body \o tail
           n == Len(body)
<1>1. n \in Nat
  OBVIOUS
<1>2. CASE tail = <<>>
  <2>1. c = body
    BY <1>2, OneMore
  <2>2. tail # <<last>>
    BY <1>2
  <2> QED BY <2>1, <2>2
<1>3. CASE tail = <<last>>
  <2>1. Len(c) = n + 1 /\ c[n + 1] = last /\ \A k \in 1 .. n : c[k] = body[k]
    BY <1>3, OneMore
  <2>2. \A k \in 1 .. n + 1 : Effect(c[k], u[k - 1], u[k])
    BY <2>1 DEF Runs
  <2>3. tail # <<>>
    BY <1>3
  <2> HIDE DEF c
  <2>4. \A k \in 1 .. n : Effect(body[k], u[k - 1], u[k])
    BY <1>1, <2>1, <2>2
  <2>5. Effect(last, u[n], u[n + 1])
    <3>1. (n + 1) - 1 = n /\ n + 1 \in 1 .. n + 1
      BY <1>1
    <3> DEFINE m == n + 1
    <3>2. c[m] = last /\ m - 1 = n /\ m \in 1 .. m
      BY <2>1, <3>1
    <3>3. \A k \in 1 .. m : Effect(c[k], u[k - 1], u[k])
      BY <2>2
    <3> HIDE DEF m
    <3>4. Effect(c[m], u[m - 1], u[m])
      BY <3>2, <3>3
    <3>5. Effect(last, u[n], u[m])
      BY <3>2, <3>4
    <3> QED BY <3>5 DEF m
  <2> QED BY <2>1, <2>3, <2>4, <2>5 DEF Runs, c
<1> QED BY <1>2, <1>3

\* An instruction that stores its result from rax, unless its destination is zero.
LEMMA BodyAndStore ==
  ASSUME NEW s, NEW ir, WritesGpr(ir), ir # Nop, Len(Value(s, ir)) = 2,
         NEW U, NEW body \in Seq(U), Emit(ir) = body \o StoreLow64(ir),
         NEW u, Runs(u, Emit(ir))
  PROVE  /\ Runs(u, body)
         /\ u[Len(body)].memory = InMemory(s) /\ u[Len(body)].rax = Value(s, ir) =>
              u[Len(Emit(ir))].memory = InMemory(Performed(s, ir))
<1> DEFINE last == Store("store64", gpr_offset(ir.destination.index))
           tail == StoreLow64(ir)
           n == Len(body)
<1>1. tail = IF ir.destination.index = 0 THEN <<>> ELSE <<last>>
  BY DEF StoreLow64, UnlessZero
<1>2. body \in Seq(U \cup {last}) /\ last \in U \cup {last}
  OBVIOUS
<1> HIDE DEF last, tail
<1>3. Emit(ir) = body \o tail
  BY DEF tail
<1>4. /\ Runs(u, body)
      /\ tail = <<>> => Len(Emit(ir)) = n
      /\ tail = <<last>> => Len(Emit(ir)) = n + 1 /\ Effect(last, u[n], u[n + 1])
  <2>1. tail = <<>> \/ tail = <<last>>
    BY <1>1
  <2>2. Runs(u, body \o tail)
    BY <1>3
  <2> QED BY <1>2, <1>3, <2>1, <2>2, RunsThenOne
<1> HIDE DEF n
<1>5. CASE ir.destination.index = 0
  <2>1. Performed(s, ir) = s
    BY <1>5 DEF Performed, WritesGpr
  <2> QED BY <1>1, <1>4, <1>5, <2>1 DEF n
<1>6. CASE ir.destination.index # 0
  <2>1. Len(Emit(ir)) = n + 1
    BY <1>1, <1>4, <1>6
  <2>2. Effect(Store("store64", gpr_offset(ir.destination.index)), u[n], u[n + 1])
    BY <1>1, <1>4, <1>6 DEF last
  <2>3. ASSUME u[n].memory = InMemory(s), u[n].rax = Value(s, ir)
        PROVE  u[n + 1].memory = InMemory(Performed(s, ir))
    BY <1>6, <2>2, <2>3, StoreLow64Writes
  <2> QED BY <1>4, <2>1, <2>3 DEF n
<1> QED BY <1>5, <1>6

\* The code of a 32-bit addition.
LEMMA AddRuns ==
  ASSUME NEW s, NEW ir, ir.opcode = "AddWordSignExtend", Valid(ir),
         NEW u, u[0].memory = InMemory(s), Runs(u, Emit(ir))
  PROVE  u[Len(Emit(ir))].memory = InMemory(Performed(s, ir))
<1> DEFINE lhs == ir.inputs[1]
           rhs == ir.inputs[2]
           a == read_operand_value(s, lhs)[1]
           b == read_operand_value(s, rhs)[1]
           load == emit_operand32("rax", lhs)
           load2 == emit_operand32("rdx", rhs)
           add == Op("add eax, edx")
           extend == Op("cdqe")
           body == <<load, load2, add, extend>>
           U == {load, load2, add, extend}
<1>1. /\ WritesGpr(ir) /\ ir # Nop
      /\ IsOperand(lhs, {"Gpr", "Immediate"}) /\ IsOperand(rhs, {"Gpr", "Immediate"})
  BY DEF Valid, Nop, Ir
<1>11. IsOperand(lhs, {"Gpr", "Immediate"})
  BY <1>1
<1>12. IsOperand(rhs, {"Gpr", "Immediate"})
  BY <1>1
<1>2. Value(s, ir) = sign_extend_word(AddWord(a, b))
  BY DEF Value
<1>3. Emit(ir) = body \o StoreLow64(ir)
  BY DEF Emit, emit_add_word_sign_extend
<1> HIDE DEF lhs, rhs
<1>4. Len(Value(s, ir)) = 2
  BY <1>2 DEF sign_extend_word
<1>5. body \in Seq(U)
  <2> HIDE DEF load, load2, add, extend
  <2> QED OBVIOUS
<1> HIDE DEF U
<1>6. /\ Runs(u, body)
      /\ u[Len(body)].memory = InMemory(s) /\ u[Len(body)].rax = Value(s, ir) =>
           u[Len(Emit(ir))].memory = InMemory(Performed(s, ir))
  <2> HIDE DEF body
  <2> QED BY <1>1, <1>3, <1>4, <1>5, BodyAndStore
<1>60. Len(body) = 4 /\ Runs(u, <<load, load2, add, extend>>)
  BY <1>6
<1> HIDE DEF load, load2, add, extend, body
<1>61. /\ Effect(load, u[0], u[1]) /\ Effect(load2, u[1], u[2])
       /\ Effect(add, u[2], u[3]) /\ Effect(extend, u[3], u[4])
  BY <1>60, Runs4
<1>62. Effect(emit_operand32("rax", lhs), u[0], u[1])
  BY <1>61 DEF load
<1>63. Effect(emit_operand32("rdx", rhs), u[1], u[2])
  BY <1>61 DEF load2
<1>7. u[1].memory = InMemory(s) /\ u[1].rax[1] = a
  BY <1>11, <1>62, LoadsRax32
<1>71. u[1].memory = InMemory(s)
  BY <1>7
<1>8. /\ u[2].memory = InMemory(s) /\ u[2].rdx[1] = b
      /\ u[2].rax = u[1].rax
  BY <1>12, <1>63, <1>71, LoadsRdx32
<1> HIDE DEF a, b
<1>9. u[3].memory = InMemory(s) /\ u[3].rax = Low(AddWord(a, b))
  <2>1. u[2].rax[1] = a
    BY <1>7, <1>8
  <2> QED BY <1>61, <1>8, <2>1 DEF Effect, Op, Stores, add
<1>10. u[4].memory = InMemory(s) /\ u[4].rax = sign_extend_word(u[3].rax[1])
  BY <1>61, <1>9 DEF Effect, Op, Stores, extend
<1>13. u[3].rax[1] = AddWord(a, b)
  BY <1>9, LowFirst
<1> QED BY <1>2, <1>6, <1>60, <1>10, <1>13

\* The code of an or and of an and.
LEMMA LogicRuns ==
  ASSUME NEW s, NEW ir, ir.opcode \in {"Or64", "And64"}, Valid(ir),
         NEW u, u[0].memory = InMemory(s), Runs(u, Emit(ir))
  PROVE  u[Len(Emit(ir))].memory = InMemory(Performed(s, ir))
<1> DEFINE lhs == ir.inputs[1]
           rhs == ir.inputs[2]
           a == read_operand_value(s, lhs)
           b == read_operand_value(s, rhs)
           op == Op(IF ir.opcode = "Or64" THEN "or rax, rdx" ELSE "and rax, rdx")
           load == emit_operand64("rax", lhs)
           load2 == emit_operand64("rdx", rhs)
           body == <<load, load2, op>>
           U == {load, load2, op}
<1>1. /\ WritesGpr(ir) /\ ir # Nop
      /\ IsOperand(lhs, {"Gpr", "Immediate"}) /\ IsOperand(rhs, {"Gpr", "Immediate"})
  BY DEF Valid, Nop, Ir, IsOperand
<1>11. IsOperand(lhs, {"Gpr", "Immediate"})
  BY <1>1
<1>12. IsOperand(rhs, {"Gpr", "Immediate"})
  BY <1>1
<1>2. /\ ir.opcode = "Or64"  => Value(s, ir) = <<a[1] \cup b[1], a[2] \cup b[2]>>
      /\ ir.opcode = "And64" => Value(s, ir) = <<a[1] \cap b[1], a[2] \cap b[2]>>
  BY DEF Value
<1>3. Emit(ir) = body \o StoreLow64(ir)
  BY DEF Emit, emit_or64, emit_and64
<1> HIDE DEF lhs, rhs
<1>4. Len(Value(s, ir)) = 2
  BY <1>2
<1>5. body \in Seq(U)
  <2> HIDE DEF load, load2, op
  <2> QED OBVIOUS
<1> HIDE DEF U
<1>6. /\ Runs(u, body)
      /\ u[Len(body)].memory = InMemory(s) /\ u[Len(body)].rax = Value(s, ir) =>
           u[Len(Emit(ir))].memory = InMemory(Performed(s, ir))
  <2> HIDE DEF body
  <2> QED BY <1>1, <1>3, <1>4, <1>5, BodyAndStore
<1>60. Len(body) = 3 /\ Runs(u, <<load, load2, op>>)
  BY <1>6
<1> HIDE DEF load, load2, op, body
<1>61. Effect(load, u[0], u[1]) /\ Effect(load2, u[1], u[2]) /\ Effect(op, u[2], u[3])
  BY <1>60, Runs3
<1>62. Effect(emit_operand64("rax", lhs), u[0], u[1])
  BY <1>61 DEF load
<1>63. Effect(emit_operand64("rdx", rhs), u[1], u[2])
  BY <1>61 DEF load2
<1>7. u[1].memory = InMemory(s) /\ u[1].rax[1] = a[1] /\ u[1].rax[2] = a[2]
  BY <1>11, <1>62, LoadsRax64
<1>71. u[1].memory = InMemory(s)
  BY <1>7
<1>8. /\ u[2].memory = InMemory(s) /\ u[2].rax = u[1].rax
      /\ u[2].rdx[1] = b[1] /\ u[2].rdx[2] = b[2]
  BY <1>12, <1>63, <1>71, LoadsRdx64
<1> HIDE DEF a, b
<1>9. /\ u[3].memory = InMemory(s)
      /\ ir.opcode = "Or64"  => u[3].rax = <<a[1] \cup b[1], a[2] \cup b[2]>>
      /\ ir.opcode = "And64" => u[3].rax = <<a[1] \cap b[1], a[2] \cap b[2]>>
  <2>1. u[2].rax[1] = a[1] /\ u[2].rax[2] = a[2]
    BY <1>7, <1>8
  <2> QED BY <1>61, <1>8, <2>1 DEF Effect, Op, Stores, op
<1>10. u[3].rax = Value(s, ir)
  BY <1>2, <1>9
<1> QED BY <1>6, <1>60, <1>9, <1>10

\* The code of a load of an upper immediate.
LEMMA LuiRuns ==
  ASSUME NEW s, NEW ir, ir.opcode = "LoadUpperImmediateSignExtend", Valid(ir),
         NEW u, u[0].memory = InMemory(s), Runs(u, Emit(ir))
  PROVE  u[Len(Emit(ir))].memory = InMemory(Performed(s, ir))
<1> DEFINE w == ShiftLeft(ir.inputs[1].value[1] \cap HalfBit, WordBits \div 2)
           move == Move("mov", "rax", <<w, {}>>)
           extend == Op("cdqe")
           body == <<move, extend>>
           U == {move, extend}
<1>1. WritesGpr(ir) /\ ir # Nop /\ ir.inputs[1].kind = "Immediate"
  BY DEF Valid, Nop, Ir, IsOperand
<1>2. Value(s, ir) = sign_extend_word(w)
  BY <1>1 DEF Value, read_operand_value
<1>3. Emit(ir) = body \o StoreLow64(ir)
  BY DEF Emit, emit_lui
<1> HIDE DEF w
<1>4. Len(Value(s, ir)) = 2
  BY <1>2 DEF sign_extend_word
<1>5. body \in Seq(U)
  <2> HIDE DEF move, extend
  <2> QED OBVIOUS
<1> HIDE DEF U
<1>6. /\ Runs(u, body)
      /\ u[Len(body)].memory = InMemory(s) /\ u[Len(body)].rax = Value(s, ir) =>
           u[Len(Emit(ir))].memory = InMemory(Performed(s, ir))
  <2> HIDE DEF body
  <2> QED BY <1>1, <1>3, <1>4, <1>5, BodyAndStore
<1>60. Len(body) = 2 /\ Runs(u, <<move, extend>>)
  BY <1>6
<1> HIDE DEF move, extend, body
<1>61. Effect(move, u[0], u[1]) /\ Effect(extend, u[1], u[2])
  BY <1>60, Runs2
<1>7. u[1].memory = InMemory(s) /\ u[1].rax = <<w, {}>>
  BY <1>61 DEF Effect, Move, Stores, move
<1>8. u[2].memory = InMemory(s) /\ u[2].rax = sign_extend_word(u[1].rax[1])
  BY <1>61, <1>7 DEF Effect, Op, Stores, extend
<1>9. u[1].rax[1] = w
  BY <1>7
<1> QED BY <1>2, <1>6, <1>60, <1>8, <1>9

\* A store of the result to a register that is not a general one.
LEMMA SpecialStoreWrites ==
  ASSUME NEW s, NEW ir, NEW kind, NEW r, ir.destination = destination(kind, r),
         kind # "Gpr", ir # Nop, IsField(kind, r),
         Len(Value(s, ir)) \in 1 .. FieldWidth(kind), NEW m,
         m = Stored(InMemory(s), FieldOffset(kind, r), Value(s, ir))
  PROVE  m = InMemory(Performed(s, ir))
<1>1. ir.destination # destination("Gpr", 0)
  BY DEF destination
<1>2. Performed(s, ir) = Written(s, destination(kind, r), Value(s, ir))
  BY <1>1 DEF Performed
<1> QED BY <1>2, StoreWritesField

\* The code of a move to a special register.
LEMMA MoveLow64Runs ==
  ASSUME NEW s, NEW ir, ir.opcode = "MoveGprLow64", Valid(ir),
         NEW u, u[0].memory = InMemory(s), Runs(u, Emit(ir))
  PROVE  u[Len(Emit(ir))].memory = InMemory(Performed(s, ir))
<1> DEFINE r == ir.inputs[1].index
           kind == ir.destination.kind
           v == <<s[<<"Gpr", r, 0>>], s[<<"Gpr", r, 1>>]>>
           load == Load("load64", "rax", gpr_offset(r))
           store == Store("store64", FieldOffset(kind, 0))
<1>1. /\ kind \in {"Hi", "Lo", "Hi1", "Lo1"} /\ ir.destination = destination(kind, 0)
      /\ r \in Register /\ ir.inputs[1].kind = "Gpr" /\ ir # Nop
  BY DEF Valid, WritesSpecial, IsOperand, Nop, Ir
<1>2. Value(s, ir) = v
  BY <1>1 DEF Value, read_operand_value
<1>3. Emit(ir) = <<load, store>>
  BY DEF Emit, emit_move_gpr_low64
<1>4. LanesOf(InMemory(s), gpr_offset(r), 2) = v
  BY <1>1, GprWordsInMemory
<1>5. IsField(kind, 0) /\ FieldWidth(kind) = 2 /\ Len(v) = 2
  BY <1>1 DEF IsField, FieldWidth
<1> HIDE DEF r, kind, v
<1>6. Effect(load, u[0], u[1]) /\ Effect(store, u[1], u[2]) /\ Len(Emit(ir)) = 2
  BY <1>3, Runs2
<1>7. u[1].memory = InMemory(s) /\ u[1].rax = v
  BY <1>4, <1>6 DEF Effect, Load, Stores
<1>8. u[2].memory = Stored(InMemory(s), FieldOffset(kind, 0), v)
  BY <1>6, <1>7 DEF Effect, Store
<1>9. kind # "Gpr" /\ IsField(kind, 0) /\ Len(Value(s, ir)) \in 1 .. FieldWidth(kind)
  BY <1>1, <1>2, <1>5
<1>10. u[2].memory = Stored(InMemory(s), FieldOffset(kind, 0), Value(s, ir))
  BY <1>2, <1>8
<1>11. ir.destination = destination(kind, 0) /\ ir # Nop
  BY <1>1
<1>12. u[2].memory = InMemory(Performed(s, ir))
  BY <1>9, <1>10, <1>11, SpecialStoreWrites
<1> QED BY <1>6, <1>12

\* The code of a move to the shift amount.
LEMMA MtsahRuns ==
  ASSUME NEW s, NEW ir, ir.opcode = "ComputeMtsah", Valid(ir),
         NEW u, u[0].memory = InMemory(s), Runs(u, Emit(ir))
  PROVE  u[Len(Emit(ir))].memory = InMemory(Performed(s, ir))
<1> DEFINE r == ir.inputs[1].index
           w == s[<<"Gpr", r, 0>>]
           imm == ir.inputs[2].value[1] \cap Low3
           z == ShiftLeft(Xor(w \cap Low3, imm), 1)
           load == Load("load32", "rax", gpr_offset(r))
           xor == Move("xor eax", "rax", imm)
           store == Store("store32", sa_offset)
<1>1. /\ ir.destination = destination("Sa", 0) /\ ir # Nop
      /\ r \in Register /\ ir.inputs[1].kind = "Gpr" /\ ir.inputs[2].kind = "Immediate"
  BY DEF Valid, WritesSpecial, IsOperand, Nop, Ir
<1>2. Value(s, ir) = <<z>>
  <2>1. /\ read_operand_value(s, ir.inputs[1])[1] = w
        /\ read_operand_value(s, ir.inputs[2])[1] = ir.inputs[2].value[1]
    BY <1>1 DEF read_operand_value
  <2> QED BY <2>1 DEF Value
<1>3. Emit(ir) = <<load, Op("and eax, 7"), xor, Op("shl eax, 1"), store>>
  BY DEF Emit, emit_mtsah
<1>4. InMemory(s)[gpr_offset(r)] = w
  BY <1>1, GprWordsInMemory
<1>5. IsField("Sa", 0) /\ FieldWidth("Sa") = 1 /\ FieldOffset("Sa", 0) = sa_offset
  BY DEF IsField, FieldWidth, FieldOffset
<1> HIDE DEF r, w, imm, z
<1>6. /\ Effect(load, u[0], u[1]) /\ Effect(Op("and eax, 7"), u[1], u[2])
      /\ Effect(xor, u[2], u[3]) /\ Effect(Op("shl eax, 1"), u[3], u[4])
      /\ Effect(store, u[4], u[5]) /\ Len(Emit(ir)) = 5
  BY <1>3, Runs5
<1>7. u[1].memory = InMemory(s) /\ u[1].rax = Low(w)
  BY <1>4, <1>6 DEF Effect, Load, Stores
<1>8. u[2].memory = InMemory(s) /\ u[2].rax = Low(w \cap Low3)
  <2>1. u[2].memory = InMemory(s) /\ u[2].rax = Low(u[1].rax[1] \cap Low3)
    BY <1>6, <1>7 DEF Effect, Op, Stores
  <2> QED BY <1>7, <2>1, LowFirst
<1>9. u[3].memory = InMemory(s) /\ u[3].rax = Low(Xor(w \cap Low3, imm))
  <2>1. u[3].memory = InMemory(s) /\ u[3].rax = Low(Xor(u[2].rax[1], imm))
    BY <1>6, <1>8 DEF Effect, Move, Stores
  <2> QED BY <1>8, <2>1, LowFirst
<1>10. u[4].memory = InMemory(s) /\ u[4].rax = Low(z)
  <2>1. u[4].memory = InMemory(s) /\ u[4].rax = Low(ShiftLeft(u[3].rax[1], 1))
    BY <1>6, <1>9 DEF Effect, Op, Stores
  <2> QED BY <1>9, <2>1, LowFirst DEF z
<1>11. u[5].memory = Stored(InMemory(s), sa_offset, <<z>>)
  <2>1. u[5].memory = Stored(InMemory(s), sa_offset, <<u[4].rax[1]>>)
    BY <1>6, <1>10 DEF Effect, Store
  <2> QED BY <1>10, <2>1, LowFirst
<1>12. "Sa" # "Gpr" /\ IsField("Sa", 0) /\ Len(Value(s, ir)) \in 1 .. FieldWidth("Sa")
  BY <1>2, <1>5
<1>13. u[5].memory = Stored(InMemory(s), FieldOffset("Sa", 0), Value(s, ir))
  BY <1>2, <1>5, <1>11
<1>14. ir.destination = destination("Sa", 0) /\ ir # Nop
  BY <1>1
<1>15. u[5].memory = InMemory(Performed(s, ir))
  BY <1>12, <1>13, <1>14, SpecialStoreWrites
<1> QED BY <1>6, <1>15

\* The code of a move to the coprocessor.
LEMMA MoveBits32Runs ==
  ASSUME NEW s, NEW ir, ir.opcode = "MoveBits32", Valid(ir),
         NEW u, u[0].memory = InMemory(s), Runs(u, Emit(ir))
  PROVE  u[Len(Emit(ir))].memory = InMemory(Performed(s, ir))
<1> DEFINE r == ir.inputs[1].index
           kind == ir.destination.kind
           to == ir.destination.index
           w == s[<<"Gpr", r, 0>>]
           load == Load("load32", "rax", gpr_offset(r))
           store == Store("store32", FieldOffset(kind, to))
<1>1. /\ ir.destination = destination(kind, to) /\ ir # Nop
      /\ \/ kind = "Fcr31" /\ to = 0
         \/ kind = "Fpr" /\ to \in Register
      /\ r \in Register /\ ir.inputs[1].kind = "Gpr"
  BY DEF Valid, WritesSpecial, IsOperand, Nop, Ir
<1>2. Value(s, ir) = <<w>>
  <2>1. read_operand_value(s, ir.inputs[1])[1] = w
    BY <1>1 DEF read_operand_value
  <2> QED BY <2>1 DEF Value
<1>3. Emit(ir) = <<load, store>>
  BY DEF Emit, emit_move_bits32
<1>4. InMemory(s)[gpr_offset(r)] = w
  BY <1>1, GprWordsInMemory
<1>5. kind # "Gpr" /\ IsField(kind, to) /\ FieldWidth(kind) = 1
  BY <1>1 DEF IsField, FieldWidth
<1> HIDE DEF r, kind, to, w
<1>6. Effect(load, u[0], u[1]) /\ Effect(store, u[1], u[2]) /\ Len(Emit(ir)) = 2
  BY <1>3, Runs2
<1>7. u[1].memory = InMemory(s) /\ u[1].rax = Low(w)
  BY <1>4, <1>6 DEF Effect, Load, Stores
<1>8. u[2].memory = Stored(InMemory(s), FieldOffset(kind, to), <<w>>)
  <2>1. u[2].memory = Stored(InMemory(s), FieldOffset(kind, to), <<u[1].rax[1]>>)
    BY <1>6, <1>7 DEF Effect, Store
  <2> QED BY <1>7, <2>1, LowFirst
<1>9. kind # "Gpr" /\ IsField(kind, to) /\ Len(Value(s, ir)) \in 1 .. FieldWidth(kind)
  BY <1>2, <1>5
<1>10. u[2].memory = Stored(InMemory(s), FieldOffset(kind, to), Value(s, ir))
  BY <1>2, <1>8
<1>11. ir.destination = destination(kind, to) /\ ir # Nop
  BY <1>1
<1>12. u[2].memory = InMemory(Performed(s, ir))
  BY <1>9, <1>10, <1>11, SpecialStoreWrites
<1> QED BY <1>6, <1>12

\* The code of a float addition.
LEMMA AddFloatRuns ==
  ASSUME NEW s, NEW ir, ir.opcode = "AddF32ToAccumulator", Valid(ir),
         NEW u, u[0].memory = InMemory(s), Runs(u, Emit(ir))
  PROVE  u[Len(Emit(ir))].memory = InMemory(Performed(s, ir))
<1> DEFINE x == ir.inputs[1].index
           y == ir.inputs[2].index
           a == s[<<"Fpr", x, 0>>]
           b == s[<<"Fpr", y, 0>>]
           load == Load("load f32", "xmm0", fpr_offset(x))
           add == Load("add f32", "xmm0", fpr_offset(y))
           store == Store("store f32", fp_acc_offset)
<1>1. /\ ir.destination = destination("FpAccumulator", 0) /\ ir # Nop
      /\ x \in Register /\ y \in Register
  BY DEF Valid, WritesSpecial, IsOperand, Nop, Ir
<1>2. Value(s, ir) = <<FloatAdd(a, b)>>
  BY DEF Value
<1>3. Emit(ir) = <<load, add, store>>
  BY DEF Emit, emit_add_f32_to_accumulator
<1>4. InMemory(s)[fpr_offset(x)] = a /\ InMemory(s)[fpr_offset(y)] = b
  <2>1. \A q \in Register : InMemory(s)[fpr_offset(q)] = s[<<"Fpr", q, 0>>]
    <3> TAKE q \in Register
    <3>1. IsField("Fpr", q) /\ 0 \in 0 .. FieldWidth("Fpr") - 1
      BY DEF IsField, FieldWidth
    <3>2. <<"Fpr", q, 0>> \in Cell
      BY <3>1, FieldIsLocated
    <3>3. CellOffset(<<"Fpr", q, 0>>) = fpr_offset(q) + 0
      BY DEF CellOffset, FieldOffset
    <3>4. fpr_offset(q) \in Nat
      BY <3>1, FieldOffsetType DEF FieldOffset
    <3> QED BY <3>2, <3>3, <3>4, MemoryOfCell
  <2> QED BY <1>1, <2>1
<1>5. /\ IsField("FpAccumulator", 0) /\ FieldWidth("FpAccumulator") = 1
      /\ FieldOffset("FpAccumulator", 0) = fp_acc_offset
  BY DEF IsField, FieldWidth, FieldOffset
<1> HIDE DEF x, y, a, b
<1>6. /\ Effect(load, u[0], u[1]) /\ Effect(add, u[1], u[2]) /\ Effect(store, u[2], u[3])
      /\ Len(Emit(ir)) = 3
  BY <1>3, Runs3
<1>7. u[1].memory = InMemory(s) /\ u[1].xmm0 = <<a, {}, {}, {}>>
  BY <1>4, <1>6 DEF Effect, Load, Stores
<1>8. /\ u[2].memory = InMemory(s)
      /\ u[2].xmm0 = [u[1].xmm0 EXCEPT ![1] = FloatAdd(u[1].xmm0[1], b)]
  BY <1>4, <1>6, <1>7 DEF Effect, Load, Stores
<1>9. u[2].xmm0[1] = FloatAdd(a, b)
  BY <1>7, <1>8
<1>10. u[3].memory = Stored(InMemory(s), fp_acc_offset, <<FloatAdd(a, b)>>)
  BY <1>6, <1>8, <1>9 DEF Effect, Store
<1>12. /\ "FpAccumulator" # "Gpr" /\ IsField("FpAccumulator", 0)
       /\ Len(Value(s, ir)) \in 1 .. FieldWidth("FpAccumulator")
  BY <1>2, <1>5
<1>13. u[3].memory = Stored(InMemory(s), FieldOffset("FpAccumulator", 0), Value(s, ir))
  BY <1>2, <1>5, <1>10
<1>14. ir.destination = destination("FpAccumulator", 0) /\ ir # Nop
  BY <1>1
<1>15. u[3].memory = InMemory(Performed(s, ir))
  BY <1>12, <1>13, <1>14, SpecialStoreWrites
<1> QED BY <1>6, <1>15

(***************************************************************************)
(* The packed addition                                                      *)
(***************************************************************************)
\* A register of four lanes, shifted down by some of them.
Shifted(x, lanes) == [i \in 1 .. 4 |-> IF i + lanes <= 4 THEN x[i + lanes] ELSE {}]

\* A fourth lane after three.
LEMMA AppendToThree ==
  ASSUME NEW S, NEW t \in Seq(S), NEW e \in S
  PROVE  Len(t) = 3 =>
         /\ Append(t, e) \in Seq(S) /\ Len(Append(t, e)) = 4
         /\ \A i \in 1 .. 3 : Append(t, e)[i] = t[i]
         /\ Append(t, e)[4] = e
<1> DEFINE n == Len(t)
<1>1. /\ Append(t, e) \in Seq(S) /\ Len(Append(t, e)) = n + 1
      /\ \A i \in 1 .. n : Append(t, e)[i] = t[i]
      /\ Append(t, e)[n + 1] = e
  OBVIOUS
<1> HIDE DEF n
<1>2. n = 3 => n + 1 = 4
  OBVIOUS
<1>3. n = 3 => /\ Append(t, e) \in Seq(S) /\ Len(Append(t, e)) = 4
               /\ \A i \in 1 .. 3 : Append(t, e)[i] = t[i]
               /\ Append(t, e)[4] = e
  BY <1>1, <1>2
<1> QED BY <1>3 DEF n

\* Four lanes without the first.
LEMMA TailOfFour ==
  ASSUME NEW S, NEW q \in Seq(S)
  PROVE  Len(q) = 4 =>
         /\ Tail(q) \in Seq(S) /\ Len(Tail(q)) = 3
         /\ \A i \in 1 .. 3 : Tail(q)[i] = q[i + 1]
<1> DEFINE n == Len(q)
<1>1. q # <<>> => /\ Tail(q) \in Seq(S) /\ Len(Tail(q)) = n - 1
                  /\ \A i \in 1 .. n - 1 : Tail(q)[i] = q[i + 1]
  OBVIOUS
<1>2. q = <<>> => n = 0
  OBVIOUS
<1> HIDE DEF n
<1>3. n = 4 => /\ Tail(q) \in Seq(S) /\ Len(Tail(q)) = 3
               /\ \A i \in 1 .. 3 : Tail(q)[i] = q[i + 1]
  BY <1>1, <1>2
<1> QED BY <1>3 DEF n

\* A shift by one more lane.
LEMMA ShiftedOnce ==
  ASSUME NEW x, NEW lanes \in 0 .. 3
  PROVE  /\ Append(Tail(Shifted(x, lanes)), {}) = Shifted(x, lanes + 1)
         /\ Shifted(x, lanes)[1] = x[lanes + 1]
<1> DEFINE q == Shifted(x, lanes)
           S == {q[i] : i \in 1 .. 4} \cup {{}}
<1>1. q = [i \in 1 .. 4 |-> q[i]] /\ q[1] = x[lanes + 1]
  <2>1. 1 + lanes <= 4 /\ 1 + lanes = lanes + 1
    OBVIOUS
  <2> QED BY <2>1 DEF Shifted
<1>2. \A i \in 1 .. 4 : Shifted(x, lanes + 1)[i] = IF i <= 3 THEN q[i + 1] ELSE {}
  <2> TAKE i \in 1 .. 4
  <2>1. i + (lanes + 1) = (i + 1) + lanes
    OBVIOUS
  <2>2. CASE i <= 3
    <3>1. q[i + 1] = IF (i + 1) + lanes <= 4 THEN x[(i + 1) + lanes] ELSE {}
      BY <2>2 DEF Shifted
    <3> QED BY <2>1, <2>2, <3>1 DEF Shifted
  <2>3. CASE ~ (i <= 3)
    BY <2>3 DEF Shifted
  <2> QED BY <2>2, <2>3
<1>3. Shifted(x, lanes + 1) = [i \in 1 .. 4 |-> Shifted(x, lanes + 1)[i]]
  BY DEF Shifted
<1> HIDE DEF q
<1>4. q \in Seq(S) /\ Len(q) = 4
  BY <1>1
<1>5. Tail(q) \in Seq(S) /\ Len(Tail(q)) = 3 /\ \A i \in 1 .. 3 : Tail(q)[i] = q[i + 1]
  BY <1>4, TailOfFour
<1> HIDE DEF S
<1>6. {} \in S
  BY DEF S
<1>7. /\ Append(Tail(q), {}) = [i \in 1 .. 4 |-> Append(Tail(q), {})[i]]
      /\ \A i \in 1 .. 4 : Append(Tail(q), {})[i] = IF i <= 3 THEN q[i + 1] ELSE {}
  <2> DEFINE t == Tail(q)
             r == Append(t, {})
  <2> HIDE DEF t, r
  <2>1. t \in Seq(S) /\ Len(t) = 3 /\ \A i \in 1 .. 3 : t[i] = q[i + 1]
    BY <1>5 DEF t
  <2>2. r \in Seq(S) /\ Len(r) = 4 /\ (\A i \in 1 .. 3 : r[i] = t[i]) /\ r[4] = {}
    <3> DEFINE e == {}
    <3>1. e \in S
      BY <1>6
    <3> HIDE DEF e
    <3>2. /\ Append(t, e) \in Seq(S) /\ Len(Append(t, e)) = 4
          /\ \A i \in 1 .. 3 : Append(t, e)[i] = t[i]
          /\ Append(t, e)[4] = e
      BY <2>1, <3>1, AppendToThree
    <3> QED BY <3>2 DEF r, e
  <2>3. r = [i \in 1 .. 4 |-> r[i]]
    BY <2>2
  <2>4. \A i \in 1 .. 4 : r[i] = IF i <= 3 THEN q[i + 1] ELSE {}
    <3> TAKE i \in 1 .. 4
    <3>1. CASE i = 4
      BY <2>2, <3>1
    <3>2. CASE i \in 1 .. 3
      BY <2>1, <2>2, <3>2
    <3> QED BY <3>1, <3>2
  <2> QED BY <2>3, <2>4 DEF r, t
<1>8. \A i \in 1 .. 4 : Append(Tail(q), {})[i] = Shifted(x, lanes + 1)[i]
  BY <1>2, <1>7
<1>9. Append(Tail(q), {}) = Shifted(x, lanes + 1)
  BY <1>3, <1>7, <1>8
<1> QED BY <1>1, <1>9 DEF q

\* Memory when the first lanes of the sum are stored.
FirstLanes(s, ir, lanes) ==
  IF ir.destination.index = 0 THEN InMemory(s)
  ELSE [o \in Offset |->
          IF o \in gpr_offset(ir.destination.index)
                   .. (gpr_offset(ir.destination.index) + lanes) - 1
          THEN Value(s, ir)[(o - gpr_offset(ir.destination.index)) + 1]
          ELSE InMemory(s)[o]]

\* The machine when the first lanes are added.
AtLane(s, ir, lanes, p) ==
  /\ p.memory = FirstLanes(s, ir, lanes)
  /\ lanes < 4 => /\ p.xmm0 = Shifted(GprLanes(s, ir.inputs[1]), lanes)
                  /\ p.xmm1 = Shifted(GprLanes(s, ir.inputs[2]), lanes)

\* The sum of a lane, with its saturation.
LaneSum(ir) == <<Op("movd eax, xmm0"), Op("movd edx, xmm1"),
                 Op("add eax, edx"), Op("sbb edx, edx"), Op("or eax, edx")>>

\* The first five instructions of a lane compute its saturated sum.
LEMMA SumRuns ==
  ASSUME NEW ir, NEW u, Runs(u, LaneSum(ir))
  PROVE  /\ Len(LaneSum(ir)) = 5
         /\ u[5].memory = u[0].memory
         /\ u[5].xmm0 = u[0].xmm0 /\ u[5].xmm1 = u[0].xmm1
         /\ u[5].rax[1] = saturating_add_u32(u[0].xmm0[1], u[0].xmm1[1])
<1> DEFINE a == Op("movd eax, xmm0")
           b == Op("movd edx, xmm1")
           c == Op("add eax, edx")
           d == Op("sbb edx, edx")
           e == Op("or eax, edx")
           x == u[0].xmm0[1]
           y == u[0].xmm1[1]
<1> HIDE DEF a, b, c, d, e
<1>1. LaneSum(ir) = <<a, b, c, d, e>>
  BY DEF LaneSum, a, b, c, d, e
<1>2. /\ Len(LaneSum(ir)) = 5 /\ Effect(a, u[0], u[1]) /\ Effect(b, u[1], u[2])
      /\ Effect(c, u[2], u[3]) /\ Effect(d, u[3], u[4]) /\ Effect(e, u[4], u[5])
  BY <1>1, Runs5
<1>3. /\ u[1].memory = u[0].memory /\ u[1].xmm0 = u[0].xmm0 /\ u[1].xmm1 = u[0].xmm1
      /\ u[1].rax = Low(x)
  BY <1>2 DEF Effect, Op, Stores, a
<1>4. /\ u[2].memory = u[1].memory /\ u[2].xmm0 = u[1].xmm0 /\ u[2].xmm1 = u[1].xmm1
      /\ u[2].rax = u[1].rax /\ u[2].rdx = Low(u[1].xmm1[1])
  BY <1>2 DEF Effect, Op, Stores, b
<1>5. /\ u[3].memory = u[2].memory /\ u[3].xmm0 = u[2].xmm0 /\ u[3].xmm1 = u[2].xmm1
      /\ u[3].rax = Low(AddWord(u[2].rax[1], u[2].rdx[1]))
      /\ u[3].carry = Carries(u[2].rax[1], u[2].rdx[1])
  BY <1>2 DEF Effect, Op, Stores, c
<1>6. /\ u[4].memory = u[3].memory /\ u[4].xmm0 = u[3].xmm0 /\ u[4].xmm1 = u[3].xmm1
      /\ u[4].rax = u[3].rax /\ u[4].rdx = Low(IF u[3].carry THEN Bit ELSE {})
  BY <1>2 DEF Effect, Op, Stores, d
<1>7. /\ u[5].memory = u[4].memory /\ u[5].xmm0 = u[4].xmm0 /\ u[5].xmm1 = u[4].xmm1
      /\ u[5].rax = Low(u[4].rax[1] \cup u[4].rdx[1])
  BY <1>2 DEF Effect, Op, Stores, e
<1>8. u[2].rax[1] = x /\ u[2].rdx[1] = y
  BY <1>3, <1>4, LowFirst
<1>9. u[4].rax[1] = AddWord(x, y) /\ u[4].rdx[1] = IF Carries(x, y) THEN Bit ELSE {}
  <2>1. u[3].rax[1] = AddWord(x, y) /\ u[3].carry = Carries(x, y)
    BY <1>5, <1>8, LowFirst
  <2> QED BY <1>6, <2>1, LowFirst
<1>10. u[4].rax[1] \cup u[4].rdx[1] = saturating_add_u32(x, y)
  <2>1. AddWord(x, y) \subseteq Bit
    BY DEF AddWord, Bits
  <2> HIDE DEF x, y
  <2>2. CASE Carries(x, y)
    BY <1>9, <2>1, <2>2 DEF saturating_add_u32
  <2>3. CASE ~ Carries(x, y)
    <3>1. saturating_add_u32(x, y) = AddWord(x, y)
      BY <2>3 DEF saturating_add_u32
    <3>2. u[4].rax[1] = AddWord(x, y) /\ u[4].rdx[1] = {}
      BY <1>9, <2>3
    <3> QED BY <3>1, <3>2
  <2> QED BY <2>2, <2>3
<1>11. u[5].rax[1] = saturating_add_u32(x, y)
  <2>1. u[5].rax = Low(u[4].rax[1] \cup u[4].rdx[1])
    BY <1>7
  <2> HIDE DEF x, y
  <2> QED BY <1>10, <2>1, LowFirst
<1> QED BY <1>2, <1>3, <1>4, <1>5, <1>6, <1>7, <1>11

\* One lane more is stored.
LEMMA FirstLanesStep ==
  ASSUME NEW s, NEW ir, ir.destination.index \in Register, ir.destination.index # 0,
         NEW lane \in 0 .. 3
  PROVE  Stored(FirstLanes(s, ir, lane), gpr_offset(ir.destination.index) + lane,
                <<Value(s, ir)[lane + 1]>>) = FirstLanes(s, ir, lane + 1)
<1> DEFINE base == gpr_offset(ir.destination.index)
           v == Value(s, ir)
           first_lanes(k) == [o \in Offset |-> IF o \in base .. (base + k) - 1
                                         THEN v[(o - base) + 1] ELSE InMemory(s)[o]]
           stored == Stored(first_lanes(lane), base + lane, <<v[lane + 1]>>)
<1>1. base \in Nat
  BY WidthAssumption DEF gpr_offset, Register
<1>2. \A k : FirstLanes(s, ir, k) = first_lanes(k)
  BY DEF FirstLanes
<1> HIDE DEF base, v
<1>3. stored = [o \in Offset |-> IF o \in base + lane .. (base + lane) + 1 - 1
                                 THEN <<v[lane + 1]>>[o - (base + lane) + 1]
                                 ELSE first_lanes(lane)[o]]
  BY DEF Stored
<1>4. \A o \in Offset : stored[o] = first_lanes(lane + 1)[o]
  <2> TAKE o \in Offset
  <2>0. o \in Nat
    BY WidthAssumption DEF Offset, fp_acc_offset, fcr31_offset, fpr_offset, sa_offset,
       lo1_offset, hi1_offset, lo_offset, hi_offset
  <2>1. CASE o = base + lane
    <3>1. stored[o] = <<v[lane + 1]>>[o - (base + lane) + 1]
      BY <1>1, <1>3, <2>1
    <3>2. o - (base + lane) + 1 = 1 /\ (o - base) + 1 = lane + 1
          /\ o \in base .. (base + (lane + 1)) - 1
      BY <1>1, <2>1
    <3>3. stored[o] = v[lane + 1]
      BY <3>1, <3>2
    <3>4. first_lanes(lane + 1)[o] = v[(o - base) + 1]
      BY <3>2
    <3> HIDE DEF stored, first_lanes
    <3> QED BY <3>2, <3>3, <3>4
  <2>2. CASE o # base + lane
    <3>1. o \notin base + lane .. (base + lane) + 1 - 1
      BY <1>1, <2>0, <2>2
    <3>2. stored[o] = first_lanes(lane)[o]
      BY <1>3, <3>1
    <3>3. o \in base .. (base + lane) - 1 <=> o \in base .. (base + (lane + 1)) - 1
      BY <1>1, <2>0, <2>2
    <3>4. first_lanes(lane)[o] = first_lanes(lane + 1)[o]
      BY <3>3
    <3> HIDE DEF stored, first_lanes
    <3> QED BY <3>2, <3>4
  <2> QED BY <2>1, <2>2
<1>5. stored = first_lanes(lane + 1)
  <2>1. stored = [o \in Offset |-> stored[o]]
    BY <1>3
  <2>2. first_lanes(lane + 1) = [o \in Offset |-> first_lanes(lane + 1)[o]]
    OBVIOUS
  <2> HIDE DEF stored, first_lanes
  <2>3. [o \in Offset |-> stored[o]] = [o \in Offset |-> first_lanes(lane + 1)[o]]
    BY <1>4
  <2> QED BY <2>1, <2>2, <2>3
<1> HIDE DEF first_lanes
<1> QED BY <1>2, <1>5 DEF base, v

\* The store of the sum of a lane.
LaneStore(ir, lane) ==
  UnlessZero(ir, Store("store32", gpr_offset(ir.destination.index) + lane))

LaneDone(s, ir, lane, p, q) ==
  q.memory = FirstLanes(s, ir, lane + 1) /\ q.xmm0 = p.xmm0 /\ q.xmm1 = p.xmm1

\* The memory and the lanes after the sum of a lane and its store, if it has one.
LEMMA LaneIsStored ==
  ASSUME NEW s, NEW ir, ir.opcode = "AddPackedU32Saturate128", WritesGpr(ir),
         NEW lane \in 0 .. 3, NEW u, AtLane(s, ir, lane, u[0]),
         NEW body, body = LaneSum(ir) \o LaneStore(ir, lane), Runs(u, body),
         NEW n, n = Len(body)
  PROVE  n \in {5, 6} /\ LaneDone(s, ir, lane, u[0], u[n])
<1> DEFINE store == Store("store32", gpr_offset(ir.destination.index) + lane)
           tail == LaneStore(ir, lane)
           sum == LaneSum(ir)
           a == Op("movd eax, xmm0")
           b == Op("movd edx, xmm1")
           c == Op("add eax, edx")
           d == Op("sbb edx, edx")
           e == Op("or eax, edx")
           U == {a, b, c, d, e, store}
           x == GprLanes(s, ir.inputs[1])
           y == GprLanes(s, ir.inputs[2])
<1>1. sum \in Seq(U) /\ store \in U
  <2>1. sum = <<a, b, c, d, e>>
    BY DEF LaneSum
  <2> HIDE DEF a, b, c, d, e, store, sum
  <2> QED BY <2>1
<1>2. tail = IF ir.destination.index = 0 THEN <<>> ELSE <<store>>
  BY DEF UnlessZero, LaneStore
<1>3. tail = <<>> \/ tail = <<store>>
  BY <1>2
<1> HIDE DEF U, store, tail
<1>31. body = sum \o tail
  BY DEF tail
<1> HIDE DEF sum
<1>4. /\ Runs(u, sum)
      /\ tail = <<>> => Len(sum \o tail) = Len(sum)
      /\ tail = <<store>> => /\ Len(sum \o tail) = Len(sum) + 1
                             /\ Effect(store, u[Len(sum)], u[Len(sum) + 1])
  BY <1>1, <1>3, <1>31, RunsThenOne
<1>5. /\ Len(sum) = 5 /\ u[5].memory = u[0].memory
      /\ u[5].xmm0 = u[0].xmm0 /\ u[5].xmm1 = u[0].xmm1
      /\ u[5].rax[1] = saturating_add_u32(u[0].xmm0[1], u[0].xmm1[1])
  BY <1>4, SumRuns DEF sum
<1>6. u[5].rax[1] = Value(s, ir)[lane + 1]
  <2>1. u[0].xmm0 = Shifted(x, lane) /\ u[0].xmm1 = Shifted(y, lane)
    BY DEF AtLane
  <2> HIDE DEF x, y
  <2>2. u[0].xmm0[1] = x[lane + 1] /\ u[0].xmm1[1] = y[lane + 1]
    BY <2>1, ShiftedOnce
  <2>3. Value(s, ir) = [k \in 1 .. 4 |-> saturating_add_u32(x[k], y[k])]
    BY DEF Value, x, y
  <2>4. lane + 1 \in 1 .. 4
    OBVIOUS
  <2>5. Value(s, ir)[lane + 1] = saturating_add_u32(x[lane + 1], y[lane + 1])
    BY <2>3, <2>4
  <2> QED BY <1>5, <2>2, <2>5
<1>7. u[5].memory = FirstLanes(s, ir, lane)
  BY <1>5 DEF AtLane
<1> HIDE DEF sum, x, y
<1>8. CASE ir.destination.index = 0
  <2>1. FirstLanes(s, ir, lane) = FirstLanes(s, ir, lane + 1)
    BY <1>8 DEF FirstLanes
  <2>2. Len(sum \o tail) = 5
    BY <1>2, <1>4, <1>5, <1>8
  <2> QED BY <1>5, <1>7, <2>1, <2>2, <1>31 DEF LaneDone
<1>9. CASE ir.destination.index # 0
  <2>1. Len(sum \o tail) = 6 /\ Effect(store, u[5], u[6])
    BY <1>2, <1>4, <1>5, <1>9
  <2>2. /\ u[6].memory = Stored(u[5].memory, gpr_offset(ir.destination.index) + lane,
                                <<u[5].rax[1]>>)
        /\ u[6].xmm0 = u[5].xmm0 /\ u[6].xmm1 = u[5].xmm1
    BY <2>1 DEF Effect, Store, Stores, store
  <2>3. ir.destination.index \in Register
    BY DEF WritesGpr
  <2>4. Stored(FirstLanes(s, ir, lane), gpr_offset(ir.destination.index) + lane,
               <<Value(s, ir)[lane + 1]>>) = FirstLanes(s, ir, lane + 1)
    BY <1>9, <2>3, FirstLanesStep
  <2>5. u[6].memory = FirstLanes(s, ir, lane + 1)
    BY <1>6, <1>7, <2>2, <2>4
  <2> QED BY <1>5, <2>1, <2>2, <2>5, <1>31 DEF LaneDone
<1> QED BY <1>8, <1>9

\* The code of a lane stores its sum and shifts the operands.
LEMMA LaneRuns ==
  ASSUME NEW s, NEW ir, ir.opcode = "AddPackedU32Saturate128", WritesGpr(ir),
         NEW lane \in 0 .. 3, NEW u, AtLane(s, ir, lane, u[0]),
         Runs(u, PadduwLane(ir, lane))
  PROVE  /\ Len(PadduwLane(ir, lane)) \in Nat
         /\ AtLane(s, ir, lane + 1, u[Len(PadduwLane(ir, lane))])
<1> DEFINE store == Store("store32", gpr_offset(ir.destination.index) + lane)
           shift == Op("psrldq xmm0, xmm1")
           tail == LaneStore(ir, lane)
           tail2 == IF lane = 3 THEN <<>> ELSE <<shift>>
           body == LaneSum(ir) \o tail
           a == Op("movd eax, xmm0")
           b == Op("movd edx, xmm1")
           c == Op("add eax, edx")
           d == Op("sbb edx, edx")
           e == Op("or eax, edx")
           U == {a, b, c, d, e, store, shift}
           x == GprLanes(s, ir.inputs[1])
           y == GprLanes(s, ir.inputs[2])
<1>1. PadduwLane(ir, lane) = body \o tail2
  BY DEF PadduwLane, LaneSum, LaneStore
<1>2. body \in Seq(U) /\ shift \in U
  <2>1. LaneSum(ir) = <<a, b, c, d, e>> /\ (tail = <<>> \/ tail = <<store>>)
    BY DEF LaneSum, LaneStore, UnlessZero
  <2> HIDE DEF a, b, c, d, e, store, shift, tail
  <2>2. LaneSum(ir) \in Seq(U) /\ tail \in Seq(U)
    <3>1. <<a, b, c, d, e>> \in Seq(U) /\ <<>> \in Seq(U) /\ <<store>> \in Seq(U)
      OBVIOUS
    <3> QED BY <2>1, <3>1
  <2> HIDE DEF U
  <2>3. body \in Seq(U)
    BY <2>2
  <2> QED BY <2>3 DEF U
<1>3. tail2 = <<>> \/ tail2 = <<shift>>
  OBVIOUS
<1> HIDE DEF U, tail, shift
<1>4. /\ Runs(u, body)
      /\ tail2 = <<>> => Len(body \o tail2) = Len(body)
      /\ tail2 = <<shift>> => /\ Len(body \o tail2) = Len(body) + 1
                              /\ Effect(shift, u[Len(body)], u[Len(body) + 1])
  <2> HIDE DEF body, tail2
  <2>1. Runs(u, body \o tail2)
    BY <1>1
  <2> QED BY <1>2, <1>3, <2>1, RunsThenOne
<1> DEFINE n == Len(body)
<1>5. /\ n \in {5, 6} /\ u[n].memory = FirstLanes(s, ir, lane + 1)
      /\ u[n].xmm0 = u[0].xmm0 /\ u[n].xmm1 = u[0].xmm1
  <2>1. body = LaneSum(ir) \o LaneStore(ir, lane) /\ Runs(u, body)
    BY <1>4 DEF tail
  <2>2. n = Len(body)
    OBVIOUS
  <2> HIDE DEF body, n
  <2>3. n \in {5, 6} /\ LaneDone(s, ir, lane, u[0], u[n])
    BY <2>1, <2>2, LaneIsStored
  <2> QED BY <2>3 DEF LaneDone
<1>6. u[0].xmm0 = Shifted(x, lane) /\ u[0].xmm1 = Shifted(y, lane)
  BY DEF AtLane
<1> HIDE DEF body, n, x, y
<1>7. CASE lane = 3
  <2>1. Len(PadduwLane(ir, lane)) = n
    BY <1>1, <1>4, <1>7 DEF n
  <2>2. lane + 1 = 4
    BY <1>7
  <2> QED BY <1>5, <2>1, <2>2 DEF AtLane
<1>8. CASE lane # 3
  <2>1. Len(PadduwLane(ir, lane)) = n + 1 /\ Effect(shift, u[n], u[n + 1])
    BY <1>1, <1>4, <1>8 DEF n
  <2>2. /\ u[n + 1].memory = u[n].memory
        /\ u[n + 1].xmm0 = Append(Tail(u[n].xmm0), {})
        /\ u[n + 1].xmm1 = Append(Tail(u[n].xmm1), {})
    BY <2>1 DEF Effect, Op, Stores, shift
  <2>3. /\ Append(Tail(Shifted(x, lane)), {}) = Shifted(x, lane + 1)
        /\ Append(Tail(Shifted(y, lane)), {}) = Shifted(y, lane + 1)
    BY ShiftedOnce
  <2>4. /\ u[n + 1].xmm0 = Shifted(x, lane + 1) /\ u[n + 1].xmm1 = Shifted(y, lane + 1)
    BY <1>5, <1>6, <2>2, <2>3
  <2>5. n + 1 \in Nat
    BY <1>5
  <2>6. AtLane(s, ir, lane + 1, u[n + 1])
    BY <1>5, <2>2, <2>4 DEF AtLane, x, y
  <2> QED BY <2>1, <2>5, <2>6
<1> QED BY <1>7, <1>8

(***************************************************************************)
(* Code that is put together                                                *)
(***************************************************************************)
\* The part of a run from a position.
From(u, p) == [k \in Nat |-> u[p + k]]

\* The part of a run that begins at p.
LEMMA FromStart ==
  ASSUME NEW u, NEW p \in Nat
  PROVE  From(u, p)[0] = u[p] /\ \A k \in Nat : From(u, p)[k] = u[p + k]
BY DEF From

\* A part that sits at p in the code runs from p.
LEMMA PartRuns ==
  ASSUME NEW u, NEW c, NEW p \in Nat, NEW part, Len(part) \in Nat,
         NEW n \in Nat, p + Len(part) <= n,
         \A k \in 1 .. n : Effect(c[k], u[k - 1], u[k]),
         \A k \in 1 .. Len(part) : c[p + k] = part[k]
  PROVE  Runs(From(u, p), part)
<1> SUFFICES ASSUME NEW k \in 1 .. Len(part)
             PROVE  Effect(part[k], From(u, p)[k - 1], From(u, p)[k])
  BY DEF Runs
<1> DEFINE j == p + k
           i == k - 1
<1>1. j \in 1 .. n /\ k \in Nat /\ i \in Nat /\ j - 1 = p + i
  OBVIOUS
<1>2. c[j] = part[k]
  OBVIOUS
<1>3. From(u, p)[k] = u[j]
  BY <1>1, FromStart
<1> HIDE DEF j
<1>4. Effect(c[j], u[j - 1], u[j])
  BY <1>1
<1> HIDE DEF i
<1>5. From(u, p)[i] = u[p + i]
  BY <1>1, FromStart
<1>6. Effect(part[k], From(u, p)[i], From(u, p)[k])
  BY <1>1, <1>2, <1>3, <1>4, <1>5
<1> QED BY <1>6 DEF i

\* The elements of two sequences put together.
LEMMA ConcatParts ==
  ASSUME NEW U, NEW a \in Seq(U), NEW b \in Seq(U)
  PROVE  /\ Len(a) \in Nat /\ Len(b) \in Nat /\ Len(a \o b) = Len(a) + Len(b)
         /\ a \o b \in Seq(U)
         /\ \A k \in 1 .. Len(a) : (a \o b)[k] = a[k]
         /\ \A k \in 1 .. Len(b) : (a \o b)[Len(a) + k] = b[k]
OBVIOUS

\* A run of two pieces of code is a run of each.
LEMMA ConcatRuns ==
  ASSUME NEW U, NEW a \in Seq(U), NEW b \in Seq(U), NEW u, Runs(u, a \o b)
  PROVE  Runs(From(u, 0), a) /\ Runs(From(u, Len(a)), b)
<1> DEFINE c == a \o b
           n == Len(c)
           la == Len(a)
<1>1. /\ la \in Nat /\ Len(b) \in Nat /\ n = la + Len(b)
      /\ \A k \in 1 .. la : c[k] = a[k]
      /\ \A k \in 1 .. Len(b) : c[la + k] = b[k]
  BY ConcatParts
<1>2. \A k \in 1 .. n : Effect(c[k], u[k - 1], u[k])
  BY DEF Runs
<1> HIDE DEF c, n, la
<1>3. n \in Nat /\ la + Len(b) <= n /\ la <= n
  BY <1>1
<1>4. \A k \in 1 .. la : c[0 + k] = a[k]
  BY <1>1
<1>5. Runs(From(u, 0), a)
  <2> DEFINE p == 0
  <2>1. p \in Nat /\ p + Len(a) <= n
    BY <1>1, <1>3 DEF la
  <2>2. \A k \in 1 .. Len(a) : c[p + k] = a[k]
    BY <1>4 DEF la
  <2>3. Len(a) \in Nat
    BY <1>1 DEF la
  <2> HIDE DEF p
  <2>4. Runs(From(u, p), a)
    BY <1>2, <1>3, <2>1, <2>2, <2>3, PartRuns
  <2> QED BY <2>4 DEF p
<1>6. Runs(From(u, la), b)
  <2>1. Len(b) \in Nat /\ la \in Nat
    BY <1>1
  <2>2. \A k \in 1 .. Len(b) : c[la + k] = b[k]
    BY <1>1
  <2> QED BY <1>2, <1>3, <2>1, <2>2, PartRuns
<1> QED BY <1>5, <1>6 DEF la

\* Where the pieces of code start.
LEMMA StartsGrow ==
  ASSUME NEW n \in Nat, NEW seqs, NEW start, Starts(n, seqs, start),
         \A i \in 1 .. n : Len(seqs[i]) \in Nat
  PROVE  \A i \in 1 .. n : start[i + 1] <= start[n + 1]
<1> DEFINE S == {k \in Nat : k < n => start[n - k + 1] <= start[n + 1]}
<1>1. 0 \in S
  BY DEF Starts
<1>2. ASSUME NEW k \in Nat, k \in S PROVE k + 1 \in S
  <2> SUFFICES ASSUME k + 1 < n PROVE start[n - (k + 1) + 1] <= start[n + 1]
    OBVIOUS
  <2> DEFINE i == n - k
  <2>1. i \in 1 .. n /\ n - (k + 1) + 1 = i /\ i + 1 \in 1 .. n + 1
    OBVIOUS
  <2>2. start[i + 1] <= start[n + 1]
    BY <1>2
  <2> HIDE DEF i
  <2>3. start[i + 1] = start[i] + Len(seqs[i]) /\ Len(seqs[i]) \in Nat
    BY <2>1 DEF Starts
  <2>4. start[i] \in Nat /\ start[i + 1] \in Nat /\ start[n + 1] \in Nat
    BY <2>1 DEF Starts
  <2> QED BY <2>1, <2>2, <2>3, <2>4
<1> HIDE DEF S
<1>3. \A k \in Nat : k \in S
  BY <1>1, <1>2, Induction
<1> SUFFICES ASSUME NEW i \in 1 .. n PROVE start[i + 1] <= start[n + 1]
  OBVIOUS
<1> DEFINE k == n - i
<1>4. k \in Nat /\ k < n /\ n - k = i
  OBVIOUS
<1> HIDE DEF k
<1>5. k \in S
  BY <1>3, <1>4
<1> QED BY <1>4, <1>5 DEF S

\* A run of pieces of code is a run of each of them.
LEMMA FlattenRuns ==
  ASSUME NEW U, NEW n \in Nat, NEW seqs \in [1 .. n -> Seq(U)], NEW u,
         Runs(u, FlattenSeq(seqs))
  PROVE  \E start : /\ Starts(n, seqs, start)
                    /\ Len(FlattenSeq(seqs)) = start[n + 1]
                    /\ \A i \in 1 .. n : Runs(From(u, start[i]), seqs[i])
<1> DEFINE c == FlattenSeq(seqs)
<1>0. c = FlattenSeq(seqs)
  OBVIOUS
<1> HIDE DEF c
<1>1. PICK start : IsLayout(n, seqs, c, start)
  BY <1>0, Flattened
<1>2. \A k \in 1 .. start[n + 1] : Effect(c[k], u[k - 1], u[k])
  BY <1>0, <1>1 DEF Runs, IsLayout
<1>3. \A i \in 1 .. n : Len(seqs[i]) \in Nat
  OBVIOUS
<1>4. \A i \in 1 .. n : start[i + 1] <= start[n + 1]
  BY <1>1, <1>3, StartsGrow DEF IsLayout
<1>5. ASSUME NEW i \in 1 .. n PROVE Runs(From(u, start[i]), seqs[i])
  <2> DEFINE part == seqs[i]
             p == start[i]
             m == start[n + 1]
  <2>1. p \in Nat /\ m \in Nat /\ start[i + 1] = p + Len(part)
    BY <1>1 DEF Starts, IsLayout
  <2>2. Len(part) \in Nat /\ p + Len(part) <= m
    BY <1>3, <1>4, <2>1
  <2>3. \A k \in 1 .. Len(part) : c[p + k] = part[k]
    BY <1>1 DEF IsLayout
  <2>4. \A k \in 1 .. m : Effect(c[k], u[k - 1], u[k])
    BY <1>2
  <2> HIDE DEF part, p, m
  <2>5. Runs(From(u, p), part)
    BY <2>1, <2>2, <2>3, <2>4, PartRuns
  <2> QED BY <2>5 DEF p, part
<1> QED BY <1>0, <1>1, <1>5 DEF IsLayout

(***************************************************************************)
(* The shape of the code                                                    *)
(***************************************************************************)
\* Pairs of words.
LEMMA Pairs ==
  /\ \A a, b \in Word : <<a, b>> \in SeqOfWords(2)
  /\ \A w \in SeqOfWords(2) : w[1] \in Word /\ w[2] \in Word
  /\ \A w \in Word : sign_extend_word(w) \in SeqOfWords(2)
  /\ \A w \in Word : Low(w) \in SeqOfWords(2)
<1>1. \A a, b \in Word : <<a, b>> \in SeqOfWords(2)
  BY DEF SeqOfWords
<1>2. \A w \in SeqOfWords(2) : w[1] \in Word /\ w[2] \in Word
  BY DEF SeqOfWords
<1>3. {} \in Word /\ Bit \in Word
  BY DEF Word
<1>4. \A w \in Word : sign_extend_word(w) \in SeqOfWords(2)
  BY <1>1, <1>3 DEF sign_extend_word
<1>5. \A w \in Word : Low(w) \in SeqOfWords(2)
  BY <1>1, <1>3 DEF Low
<1> QED BY <1>1, <1>2, <1>4, <1>5

\* How many words an access reads or writes.
AccessWidth(op) ==
  CASE op \in {"load64", "store64"} -> 2
    [] op = "load128" -> 4
    [] OTHER -> 1

\* So many words from an offset on are in the guest state.
Room(offset, width) == offset \in Nat /\ offset + width - 1 \in Offset

\* What an instruction reads and writes of memory is in the guest state.
StaysInside(c) ==
  c.op \in Loads \cup Stores \cup {"add f32"} => Room(c.offset, AccessWidth(c.op))

\* A register has the width of what is put there.
FitsRegister(c) ==
  /\ c.op \in {"load32", "load64", "mov"} => c.register \in {"rax", "rdx"}
  /\ c.op \in {"load128", "load f32"} => c.register \in {"xmm0", "xmm1"}
  /\ c.op = "mov" => c.value \in SeqOfWords(2)
  /\ c.op = "xor eax" => c.value \in Word

\* An instruction of the body of a program.
IsBody(c) == c.op # "ret" /\ StaysInside(c) /\ FitsRegister(c)

IsCode(c) == \E U : c \in Seq(U) /\ \A x \in U : IsBody(x)

\* The fields have room for what is stored in them.
LEMMA FieldsHaveRoom ==
  /\ \A r \in Register : /\ Room(gpr_offset(r), 1) /\ Room(gpr_offset(r), 2)
                         /\ Room(gpr_offset(r), 4) /\ Room(fpr_offset(r), 1)
                         /\ Room(FieldOffset("Fpr", r), 1)
                         /\ \A lane \in 0 .. 3 : Room(gpr_offset(r) + lane, 1)
  /\ Room(gpr_offset(0), 2) /\ Room(gpr_offset(0) + 2, 2)
  /\ \A kind \in {"Hi", "Lo", "Hi1", "Lo1"} : Room(FieldOffset(kind, 0), 2)
  /\ Room(sa_offset, 1) /\ Room(FieldOffset("Fcr31", 0), 1) /\ Room(fp_acc_offset, 1)
<1>1. RegisterCount \in Nat \ {0} /\ Register = 0 .. RegisterCount - 1
  BY WidthAssumption DEF Register
<1>2. Offset = 0 .. 5 * RegisterCount + 11
  BY <1>1, FieldOffsets DEF Offset
<1>3. sa_offset = 4 * RegisterCount + 8
  BY <1>1 DEF sa_offset, lo1_offset, hi1_offset, lo_offset, hi_offset
<1>4. ASSUME NEW r \in Register
      PROVE  /\ Room(gpr_offset(r), 1) /\ Room(gpr_offset(r), 2)
             /\ Room(gpr_offset(r), 4)
             /\ \A lane \in 0 .. 3 : Room(gpr_offset(r) + lane, 1)
  BY <1>1, <1>2 DEF Room, gpr_offset
<1>5. ASSUME NEW r \in Register
      PROVE  Room(fpr_offset(r), 1) /\ Room(FieldOffset("Fpr", r), 1)
  <2>1. fpr_offset(r) = 4 * RegisterCount + 9 + r /\ FieldOffset("Fpr", r) = fpr_offset(r)
    BY <1>1, <1>3 DEF fpr_offset, FieldOffset
  <2> QED BY <1>1, <1>2, <2>1 DEF Room
<1>6. Room(gpr_offset(0), 2) /\ Room(gpr_offset(0) + 2, 2)
  BY <1>1, <1>2 DEF Room, gpr_offset
<1>7. /\ FieldOffset("Hi", 0) = 4 * RegisterCount
      /\ FieldOffset("Lo", 0) = 4 * RegisterCount + 2
      /\ FieldOffset("Hi1", 0) = 4 * RegisterCount + 4
      /\ FieldOffset("Lo1", 0) = 4 * RegisterCount + 6
      /\ FieldOffset("Fcr31", 0) = 5 * RegisterCount + 9
      /\ fp_acc_offset = 5 * RegisterCount + 10
  BY FieldOffsets
<1>8. \A offset \in Nat : /\ offset <= 4 * RegisterCount + 6 => Room(offset, 2)
                          /\ offset <= 5 * RegisterCount + 10 => Room(offset, 1)
  BY ONLY <1>1, <1>2 DEF Room
<1>9. /\ Room(FieldOffset("Hi", 0), 2) /\ Room(FieldOffset("Lo", 0), 2)
      /\ Room(FieldOffset("Hi1", 0), 2) /\ Room(FieldOffset("Lo1", 0), 2)
  BY ONLY <1>1, <1>7, <1>8
<1>10. Room(sa_offset, 1) /\ Room(FieldOffset("Fcr31", 0), 1) /\ Room(fp_acc_offset, 1)
  BY ONLY <1>1, <1>3, <1>7, <1>8
<1> QED BY <1>4, <1>5, <1>6, <1>9, <1>10

\* What the emitters build is an instruction of a body.
LEMMA BodyOps ==
  /\ \A op : op \notin Loads \cup Stores \cup {"mov", "xor eax", "add f32", "ret"} =>
       IsBody(Op(op))
  /\ \A op \in Stores : \A offset : Room(offset, AccessWidth(op)) => IsBody(Store(op, offset))
  /\ \A op \in {"load32", "load64"}, r \in {"rax", "rdx"} : \A offset :
       Room(offset, AccessWidth(op)) => IsBody(Load(op, r, offset))
  /\ \A op \in {"load128", "load f32", "add f32"}, r \in {"xmm0", "xmm1"} : \A offset :
       Room(offset, AccessWidth(op)) => IsBody(Load(op, r, offset))
  /\ \A r \in {"rax", "rdx"} : \A value \in SeqOfWords(2) : IsBody(Move("mov", r, value))
  /\ \A value \in Word : IsBody(Move("xor eax", "rax", value))
<1>1. \A op : op \notin Loads \cup Stores \cup {"mov", "xor eax", "add f32", "ret"} =>
        IsBody(Op(op))
  BY DEF IsBody, StaysInside, FitsRegister, Op, Loads, Stores
<1>2. \A op \in Stores : \A offset : Room(offset, AccessWidth(op)) => IsBody(Store(op, offset))
  BY DEF IsBody, StaysInside, FitsRegister, Store, Stores
<1>3. ASSUME NEW op \in {"load32", "load64"}, NEW r \in {"rax", "rdx"}, NEW offset,
             Room(offset, AccessWidth(op))
      PROVE  IsBody(Load(op, r, offset))
  <2> DEFINE c == Load(op, r, offset)
  <2>1. c.op = op /\ c.register = r /\ c.offset = offset
    BY DEF Load
  <2> HIDE DEF c
  <2>2. StaysInside(c)
    BY <1>3, <2>1 DEF StaysInside
  <2>3. FitsRegister(c)
    BY <2>1 DEF FitsRegister
  <2>4. c.op # "ret"
    BY <2>1
  <2>5. IsBody(c)
    BY <2>2, <2>3, <2>4 DEF IsBody
  <2> QED BY <2>5 DEF c
<1>4. ASSUME NEW op \in {"load128", "load f32", "add f32"}, NEW r \in {"xmm0", "xmm1"}, NEW offset,
             Room(offset, AccessWidth(op))
      PROVE  IsBody(Load(op, r, offset))
  <2> DEFINE c == Load(op, r, offset)
  <2>1. c.op = op /\ c.register = r /\ c.offset = offset
    BY DEF Load
  <2> HIDE DEF c
  <2>2. StaysInside(c)
    BY <1>4, <2>1 DEF StaysInside
  <2>3. FitsRegister(c)
    BY <2>1 DEF FitsRegister
  <2>4. c.op # "ret"
    BY <2>1
  <2>5. IsBody(c)
    BY <2>2, <2>3, <2>4 DEF IsBody
  <2> QED BY <2>5 DEF c
<1>5. \A r \in {"rax", "rdx"} : \A value \in SeqOfWords(2) : IsBody(Move("mov", r, value))
  BY DEF IsBody, StaysInside, FitsRegister, Move, Loads, Stores
<1>6. \A value \in Word : IsBody(Move("xor eax", "rax", value))
  BY DEF IsBody, StaysInside, FitsRegister, Move, Loads, Stores
<1> QED BY <1>1, <1>2, <1>3, <1>4, <1>5, <1>6

\* An operation on registers alone.
LEMMA RegisterOps ==
  /\ IsBody(Op("xor eax, eax")) /\ IsBody(Op("add eax, edx")) /\ IsBody(Op("cdqe"))
  /\ IsBody(Op("or rax, rdx")) /\ IsBody(Op("and rax, rdx")) /\ IsBody(Op("and eax, 7"))
  /\ IsBody(Op("shl eax, 1")) /\ IsBody(Op("sbb edx, edx")) /\ IsBody(Op("or eax, edx"))
  /\ IsBody(Op("movd eax, xmm0")) /\ IsBody(Op("movd edx, xmm1"))
  /\ IsBody(Op("psrldq xmm0, xmm1"))
BY BodyOps DEF Loads, Stores

\* An operand is read from its register or carried by the instruction.
LEMMA OperandOps ==
  ASSUME NEW r \in {"rax", "rdx"}, NEW operand, IsOperand(operand, {"Gpr", "Immediate"})
  PROVE  IsBody(emit_operand32(r, operand)) /\ IsBody(emit_operand64(r, operand))
<1>1. AccessWidth("load32") = 1 /\ AccessWidth("load64") = 2
  BY DEF AccessWidth
<1>2. CASE operand.kind = "Gpr"
  <2>1. operand.index \in Register
    BY <1>2 DEF IsOperand
  <2>2. Room(gpr_offset(operand.index), 1) /\ Room(gpr_offset(operand.index), 2)
    BY <2>1, FieldsHaveRoom
  <2>3. /\ IsBody(Load("load32", r, gpr_offset(operand.index)))
        /\ IsBody(Load("load64", r, gpr_offset(operand.index)))
    BY <1>1, <2>2, BodyOps
  <2> QED BY <1>2, <2>3 DEF emit_operand32, emit_operand64
<1>3. CASE operand.kind = "Immediate"
  <2>1. operand.value \in SeqOfWords(2)
    BY <1>3 DEF IsOperand
  <2>2. <<operand.value[1], {}>> \in SeqOfWords(2)
    BY <2>1, Pairs DEF Word
  <2>3. /\ IsBody(Move("mov", r, operand.value))
        /\ IsBody(Move("mov", r, <<operand.value[1], {}>>))
    BY <2>1, <2>2, BodyOps
  <2> QED BY <1>3, <2>3 DEF emit_operand32, emit_operand64
<1> QED BY <1>2, <1>3 DEF IsOperand

\* No code.
LEMMA Shape0 == IsCode(<<>>)
<1> DEFINE U == {}
           c == <<>>
<1>1. c \in Seq(U) /\ \A x \in U : IsBody(x)
  OBVIOUS
<1> HIDE DEF U, c
<1>2. IsCode(c)
  BY <1>1 DEF IsCode
<1> QED BY <1>2 DEF c

\* One instruction.
LEMMA Shape1 ==
  ASSUME NEW a,
         IsBody(a)
  PROVE  IsCode(<<a>>)
<1> DEFINE U == {a}
           z == <<a>>
<1>1. z \in Seq(U) /\ \A x \in U : IsBody(x)
  OBVIOUS
<1> HIDE DEF U, z
<1>2. IsCode(z)
  BY <1>1 DEF IsCode
<1> QED BY <1>2 DEF z

\* Two instructions.
LEMMA Shape2 ==
  ASSUME NEW a, NEW b,
         IsBody(a), IsBody(b)
  PROVE  IsCode(<<a, b>>)
<1> DEFINE U == {a, b}
           z == <<a, b>>
<1>1. z \in Seq(U) /\ \A x \in U : IsBody(x)
  OBVIOUS
<1> HIDE DEF U, z
<1>2. IsCode(z)
  BY <1>1 DEF IsCode
<1> QED BY <1>2 DEF z

\* Three instructions.
LEMMA Shape3 ==
  ASSUME NEW a, NEW b, NEW c,
         IsBody(a), IsBody(b), IsBody(c)
  PROVE  IsCode(<<a, b, c>>)
<1> DEFINE U == {a, b, c}
           z == <<a, b, c>>
<1>1. z \in Seq(U) /\ \A x \in U : IsBody(x)
  OBVIOUS
<1> HIDE DEF U, z
<1>2. IsCode(z)
  BY <1>1 DEF IsCode
<1> QED BY <1>2 DEF z

\* Four instructions.
LEMMA Shape4 ==
  ASSUME NEW a, NEW b, NEW c, NEW d,
         IsBody(a), IsBody(b), IsBody(c), IsBody(d)
  PROVE  IsCode(<<a, b, c, d>>)
<1> DEFINE U == {a, b, c, d}
           z == <<a, b, c, d>>
<1>1. z \in Seq(U) /\ \A x \in U : IsBody(x)
  OBVIOUS
<1> HIDE DEF U, z
<1>2. IsCode(z)
  BY <1>1 DEF IsCode
<1> QED BY <1>2 DEF z

\* Five instructions.
LEMMA Shape5 ==
  ASSUME NEW a, NEW b, NEW c, NEW d, NEW e,
         IsBody(a), IsBody(b), IsBody(c), IsBody(d), IsBody(e)
  PROVE  IsCode(<<a, b, c, d, e>>)
<1> DEFINE U == {a, b, c, d, e}
           z == <<a, b, c, d, e>>
<1>1. z \in Seq(U) /\ \A x \in U : IsBody(x)
  OBVIOUS
<1> HIDE DEF U, z
<1>2. IsCode(z)
  BY <1>1 DEF IsCode
<1> QED BY <1>2 DEF z

\* Two pieces of code are a piece of code.
LEMMA ConcatShape ==
  ASSUME NEW a, NEW b, IsCode(a), IsCode(b)
  PROVE  IsCode(a \o b)
<1>1. PICK U : a \in Seq(U) /\ \A x \in U : IsBody(x)
  BY DEF IsCode
<1>2. PICK V : b \in Seq(V) /\ \A x \in V : IsBody(x)
  BY DEF IsCode
<1> DEFINE W == U \cup V
<1>3. a \in Seq(W) /\ b \in Seq(W) /\ \A x \in W : IsBody(x)
  BY <1>1, <1>2
<1> HIDE DEF W
<1>4. a \o b \in Seq(W)
  BY <1>3
<1> QED BY <1>3, <1>4 DEF IsCode

\* Pieces of code are sequences over one set.
LEMMA PiecesShape ==
  ASSUME NEW n \in Nat, NEW seqs, seqs = [i \in 1 .. n |-> seqs[i]],
         \A i \in 1 .. n : IsCode(seqs[i])
  PROVE  \E U : seqs \in [1 .. n -> Seq(U)] /\ \A x \in U : IsBody(x)
<1> DEFINE U == {x \in UNION {{seqs[i][k] : k \in 1 .. Len(seqs[i])} : i \in 1 .. n} : IsBody(x)}
<1>1. ASSUME NEW i \in 1 .. n PROVE seqs[i] \in Seq(U)
  <2> DEFINE c == seqs[i]
  <2>1. PICK V : c \in Seq(V) /\ \A x \in V : IsBody(x)
    BY DEF IsCode
  <2>2. \A k \in 1 .. Len(c) : c[k] \in V
    BY <2>1
  <2>3. \A k \in 1 .. Len(c) : c[k] \in U
    BY <2>1, <2>2
  <2> HIDE DEF c, U
  <2>4. c \in Seq(U)
    BY <2>1, <2>3
  <2> QED BY <2>4 DEF c
<1>2. \A x \in U : IsBody(x)
  OBVIOUS
<1> HIDE DEF U
<1>3. seqs \in [1 .. n -> Seq(U)]
  BY <1>1
<1> QED BY <1>2, <1>3

\* Pieces of code put together are a piece of code.
LEMMA FlattenShape ==
  ASSUME NEW n \in Nat, NEW seqs, seqs = [i \in 1 .. n |-> seqs[i]],
         \A i \in 1 .. n : IsCode(seqs[i])
  PROVE  IsCode(FlattenSeq(seqs))
<1>1. PICK U : seqs \in [1 .. n -> Seq(U)] /\ \A x \in U : IsBody(x)
  BY PiecesShape
<1>2. FlattenSeq(seqs) \in Seq(U)
  BY <1>1, Flattened
<1> QED BY <1>1, <1>2 DEF IsCode

\* A store that may be left out.
LEMMA StoreShapes ==
  ASSUME NEW ir, WritesGpr(ir)
  PROVE  IsCode(StoreLow64(ir)) /\ \A lane \in 0 .. 3 : IsCode(LaneStore(ir, lane))
<1>1. ir.destination.index \in Register
  BY DEF WritesGpr
<1>2. AccessWidth("store64") = 2 /\ AccessWidth("store32") = 1
      /\ "store64" \in Stores /\ "store32" \in Stores
  BY DEF AccessWidth, Stores
<1>3. IsCode(StoreLow64(ir))
  <2> DEFINE wide == Store("store64", gpr_offset(ir.destination.index))
  <2>1. IsBody(wide)
    BY <1>1, <1>2, FieldsHaveRoom, BodyOps
  <2>2. StoreLow64(ir) = IF ir.destination.index = 0 THEN <<>> ELSE <<wide>>
    BY DEF StoreLow64, UnlessZero
  <2> HIDE DEF wide
  <2>3. IsCode(<<wide>>) /\ IsCode(<<>>)
    BY <2>1, Shape0, Shape1
  <2> QED BY <2>2, <2>3
<1>4. ASSUME NEW lane \in 0 .. 3 PROVE IsCode(LaneStore(ir, lane))
  <2> DEFINE word == Store("store32", gpr_offset(ir.destination.index) + lane)
  <2>1. IsBody(word)
    BY <1>1, <1>2, FieldsHaveRoom, BodyOps
  <2>2. LaneStore(ir, lane) = IF ir.destination.index = 0 THEN <<>> ELSE <<word>>
    BY DEF LaneStore, UnlessZero
  <2> HIDE DEF word
  <2>3. IsCode(<<word>>) /\ IsCode(<<>>)
    BY <2>1, Shape0, Shape1
  <2> QED BY <2>2, <2>3
<1> QED BY <1>3, <1>4

\* The code of a lane.
LEMMA LaneShape ==
  ASSUME NEW ir, WritesGpr(ir), NEW lane \in 0 .. 3
  PROVE  IsCode(PadduwLane(ir, lane))
<1> DEFINE a == Op("movd eax, xmm0")
           b == Op("movd edx, xmm1")
           c == Op("add eax, edx")
           d == Op("sbb edx, edx")
           e == Op("or eax, edx")
           shift == Op("psrldq xmm0, xmm1")
           sum == <<a, b, c, d, e>>
           tail == IF lane = 3 THEN <<>> ELSE <<shift>>
           store == LaneStore(ir, lane)
<1>1. IsBody(a) /\ IsBody(b) /\ IsBody(c) /\ IsBody(d) /\ IsBody(e) /\ IsBody(shift)
  BY RegisterOps
<1>2. PadduwLane(ir, lane) = (sum \o store) \o tail
  BY DEF PadduwLane, LaneStore
<1> HIDE DEF a, b, c, d, e, shift, store
<1>3. IsCode(sum)
  BY <1>1, Shape5
<1>4. IsCode(tail)
  <2>1. IsCode(<<shift>>)
    BY <1>1, Shape1
  <2> QED BY <2>1, Shape0
<1>5. IsCode(store)
  BY StoreShapes DEF store
<1> HIDE DEF sum, tail
<1>6. IsCode(sum \o store)
  BY <1>3, <1>5, ConcatShape
<1> QED BY <1>2, <1>4, <1>6, ConcatShape

\* A body and the store of its result.
LEMMA StoredShape ==
  ASSUME NEW ir, WritesGpr(ir), NEW body, IsCode(body), Emit(ir) = body \o StoreLow64(ir)
  PROVE  IsCode(Emit(ir))
<1>1. IsCode(StoreLow64(ir))
  BY StoreShapes
<1>2. IsCode(body \o StoreLow64(ir))
  BY <1>1, ConcatShape
<1> QED BY <1>2

\* The code of an instruction is a piece of code: no emitter returns early.
LEMMA EmitShape ==
  ASSUME NEW ir, Valid(ir)
  PROVE  IsCode(Emit(ir))
<1> DEFINE lhs == ir.inputs[1]
           rhs == ir.inputs[2]
<1>0. /\ AccessWidth("load32") = 1 /\ AccessWidth("load64") = 2
      /\ AccessWidth("load128") = 4 /\ AccessWidth("load f32") = 1
      /\ AccessWidth("add f32") = 1
      /\ AccessWidth("store32") = 1 /\ AccessWidth("store64") = 2
      /\ AccessWidth("store f32") = 1
      /\ Stores = {"store32", "store64", "store f32"}
  BY DEF AccessWidth, Stores
<1>1. CASE ir.opcode = "Nop"
  BY <1>1, Shape0 DEF Emit
<1>2. CASE ir.opcode = "AddWordSignExtend"
  <2> DEFINE a == emit_operand32("rax", lhs)
             b == emit_operand32("rdx", rhs)
             c == Op("add eax, edx")
             d == Op("cdqe")
             body == <<a, b, c, d>>
  <2>0. /\ WritesGpr(ir) /\ IsOperand(lhs, {"Gpr", "Immediate"})
        /\ IsOperand(rhs, {"Gpr", "Immediate"})
    BY <1>2 DEF Valid
  <2>1. IsBody(a) /\ IsBody(b) /\ IsBody(c) /\ IsBody(d)
    BY <2>0, OperandOps, RegisterOps
  <2>2. Emit(ir) = body \o StoreLow64(ir)
    BY <1>2 DEF Emit, emit_add_word_sign_extend
  <2> HIDE DEF a, b, c, d
  <2>3. IsCode(body)
    BY <2>1, Shape4
  <2> HIDE DEF body
  <2> QED BY <2>0, <2>2, <2>3, StoredShape
<1>3. CASE ir.opcode \in {"Or64", "And64"}
  <2> DEFINE a == emit_operand64("rax", lhs)
             b == emit_operand64("rdx", rhs)
             c == Op(IF ir.opcode = "Or64" THEN "or rax, rdx" ELSE "and rax, rdx")
             body == <<a, b, c>>
  <2>0. /\ WritesGpr(ir) /\ IsOperand(lhs, {"Gpr", "Immediate"})
        /\ IsOperand(rhs, {"Gpr", "Immediate"})
    BY <1>3 DEF Valid, IsOperand
  <2>1. IsBody(a) /\ IsBody(b) /\ IsBody(c)
    BY <2>0, OperandOps, RegisterOps
  <2>2. Emit(ir) = body \o StoreLow64(ir)
    BY <1>3 DEF Emit, emit_or64, emit_and64
  <2> HIDE DEF a, b, c
  <2>3. IsCode(body)
    BY <2>1, Shape3
  <2> HIDE DEF body
  <2> QED BY <2>0, <2>2, <2>3, StoredShape
<1>4. CASE ir.opcode = "LoadUpperImmediateSignExtend"
  <2> DEFINE a == Move("mov", "rax", <<ShiftLeft(lhs.value[1] \cap HalfBit,
                                                 WordBits \div 2), {}>>)
             b == Op("cdqe")
             body == <<a, b>>
  <2>0. WritesGpr(ir) /\ lhs.value \in SeqOfWords(2)
    BY <1>4 DEF Valid, IsOperand
  <2>1. IsBody(a) /\ IsBody(b)
    <3>1. <<ShiftLeft(lhs.value[1] \cap HalfBit, WordBits \div 2), {}>> \in SeqOfWords(2)
      BY Pairs DEF ShiftLeft, Word
    <3> QED BY <3>1, BodyOps, RegisterOps
  <2>2. Emit(ir) = body \o StoreLow64(ir)
    BY <1>4 DEF Emit, emit_lui
  <2> HIDE DEF a, b
  <2>3. IsCode(body)
    BY <2>1, Shape2
  <2> HIDE DEF body
  <2> QED BY <2>0, <2>2, <2>3, StoredShape
<1>5. CASE ir.opcode = "MoveGprLow64"
  <2> DEFINE a == Load("load64", "rax", gpr_offset(lhs.index))
             b == Store("store64", FieldOffset(ir.destination.kind, 0))
  <2>0. ir.destination.kind \in {"Hi", "Lo", "Hi1", "Lo1"} /\ lhs.index \in Register
    BY <1>5 DEF Valid, WritesSpecial, IsOperand
  <2>1. IsBody(a) /\ IsBody(b)
    BY <1>0, <2>0, FieldsHaveRoom, BodyOps
  <2>2. Emit(ir) = <<a, b>>
    BY <1>5 DEF Emit, emit_move_gpr_low64
  <2> HIDE DEF a, b
  <2> QED BY <2>1, <2>2, Shape2
<1>6. CASE ir.opcode = "ComputeMtsah"
  <2> DEFINE a == Load("load32", "rax", gpr_offset(lhs.index))
             b == Op("and eax, 7")
             c == Move("xor eax", "rax", rhs.value[1] \cap Low3)
             d == Op("shl eax, 1")
             e == Store("store32", sa_offset)
  <2>0. lhs.index \in Register /\ rhs.value \in SeqOfWords(2)
    BY <1>6 DEF Valid, IsOperand
  <2>1. IsBody(a) /\ IsBody(b) /\ IsBody(c) /\ IsBody(d) /\ IsBody(e)
    <3>1. IsBody(a) /\ IsBody(e)
      BY <1>0, <2>0, FieldsHaveRoom, BodyOps
    <3>2. rhs.value[1] \cap Low3 \in Word
      BY <2>0, Pairs DEF Word
    <3> QED BY <3>1, <3>2, BodyOps, RegisterOps
  <2>2. Emit(ir) = <<a, b, c, d, e>>
    BY <1>6 DEF Emit, emit_mtsah
  <2> HIDE DEF a, b, c, d, e
  <2> QED BY <2>1, <2>2, Shape5
<1>7. CASE ir.opcode = "AddPackedU32Saturate128"
  <2> DEFINE lanes == [i \in 1 .. 4 |-> PadduwLane(ir, i - 1)]
             a == Load("load128", "xmm0", gpr_offset(lhs.index))
             b == Load("load128", "xmm1", gpr_offset(rhs.index))
  <2>1. Emit(ir) = <<a, b>> \o FlattenSeq(lanes)
    BY <1>7 DEF Emit, emit_padduw
  <2>0. WritesGpr(ir) /\ lhs.index \in Register /\ rhs.index \in Register
    BY <1>7 DEF Valid, IsOperand
  <2>2. lanes = [i \in 1 .. 4 |-> lanes[i]] /\ \A i \in 1 .. 4 : IsCode(lanes[i])
    <3>1. \A i \in 1 .. 4 : i - 1 \in 0 .. 3
      OBVIOUS
    <3> QED BY <2>0, <3>1, LaneShape
  <2>3. IsBody(a) /\ IsBody(b)
    BY <1>0, <2>0, FieldsHaveRoom, BodyOps
  <2> HIDE DEF lanes, a, b
  <2>4. IsCode(FlattenSeq(lanes))
    <3> DEFINE n == 4
    <3>1. n \in Nat
      OBVIOUS
    <3>2. lanes = [i \in 1 .. n |-> lanes[i]] /\ \A i \in 1 .. n : IsCode(lanes[i])
      BY <2>2
    <3> HIDE DEF n
    <3> QED BY <3>1, <3>2, FlattenShape
  <2>5. IsCode(<<a, b>>)
    BY <2>3, Shape2
  <2> QED BY <2>1, <2>4, <2>5, ConcatShape
<1>8. CASE ir.opcode = "MoveBits32"
  <2> DEFINE a == Load("load32", "rax", gpr_offset(lhs.index))
             b == Store("store32", FieldOffset(ir.destination.kind, ir.destination.index))
  <2>0. /\ lhs.index \in Register
        /\ \/ ir.destination.kind = "Fcr31" /\ ir.destination.index = 0
           \/ ir.destination.kind = "Fpr" /\ ir.destination.index \in Register
    BY <1>8 DEF Valid, WritesSpecial, IsOperand
  <2>1. IsBody(a) /\ IsBody(b)
    BY <1>0, <2>0, FieldsHaveRoom, BodyOps
  <2>2. Emit(ir) = <<a, b>>
    BY <1>8 DEF Emit, emit_move_bits32
  <2> HIDE DEF a, b
  <2> QED BY <2>1, <2>2, Shape2
<1>9. CASE ir.opcode = "AddF32ToAccumulator"
  <2> DEFINE a == Load("load f32", "xmm0", fpr_offset(lhs.index))
             b == Load("add f32", "xmm0", fpr_offset(rhs.index))
             c == Store("store f32", fp_acc_offset)
  <2>0. lhs.index \in Register /\ rhs.index \in Register
    BY <1>9 DEF Valid, IsOperand
  <2>1. IsBody(a) /\ IsBody(b) /\ IsBody(c)
    BY <1>0, <2>0, FieldsHaveRoom, BodyOps
  <2>2. Emit(ir) = <<a, b, c>>
    BY <1>9 DEF Emit, emit_add_f32_to_accumulator
  <2> HIDE DEF a, b, c
  <2> QED BY <2>1, <2>2, Shape3
<1> QED BY <1>1, <1>2, <1>3, <1>4, <1>5, <1>6, <1>7, <1>8, <1>9 DEF Valid

(***************************************************************************)
(* The code of an instruction does what the executor does                   *)
(***************************************************************************)
\* The operands of a packed addition are loaded.
LEMMA PadduwBegins ==
  ASSUME NEW s, NEW ir, ir.opcode = "AddPackedU32Saturate128", Valid(ir),
         NEW u, u[0].memory = InMemory(s),
         NEW a, a = Load("load128", "xmm0", gpr_offset(ir.inputs[1].index)),
         NEW b, b = Load("load128", "xmm1", gpr_offset(ir.inputs[2].index)),
         Effect(a, u[0], u[1]), Effect(b, u[1], u[2])
  PROVE  AtLane(s, ir, 0, u[2])
<1> DEFINE x == GprLanes(s, ir.inputs[1])
           y == GprLanes(s, ir.inputs[2])
<1>1. ir.inputs[1].index \in Register /\ ir.inputs[2].index \in Register
  BY DEF Valid, IsOperand
<1>2. /\ LanesOf(InMemory(s), gpr_offset(ir.inputs[1].index), 4) = x
      /\ LanesOf(InMemory(s), gpr_offset(ir.inputs[2].index), 4) = y
  BY <1>1, GprWordsInMemory DEF GprLanes
<1>3. u[1].memory = InMemory(s) /\ u[1].xmm0 = x
  BY <1>2 DEF Effect, Load, Stores
<1>4. u[2].memory = InMemory(s) /\ u[2].xmm0 = x /\ u[2].xmm1 = y
  BY <1>2, <1>3 DEF Effect, Load, Stores
<1>5. Shifted(x, 0) = x /\ Shifted(y, 0) = y
  <2>1. x = [i \in 1 .. 4 |-> x[i]] /\ y = [i \in 1 .. 4 |-> y[i]]
    BY DEF GprLanes
  <2> HIDE DEF x, y
  <2>2. Shifted(x, 0) = [i \in 1 .. 4 |-> x[i]] /\ Shifted(y, 0) = [i \in 1 .. 4 |-> y[i]]
    <3>1. \A i \in 1 .. 4 : i + 0 <= 4 /\ i + 0 = i
      OBVIOUS
    <3>2. \A i \in 1 .. 4 : Shifted(x, 0)[i] = x[i] /\ Shifted(y, 0)[i] = y[i]
      BY <3>1 DEF Shifted
    <3> QED BY <3>1 DEF Shifted
  <2> QED BY <2>1, <2>2
<1>6. FirstLanes(s, ir, 0) = InMemory(s)
  <2>1. CASE ir.destination.index = 0
    BY <2>1 DEF FirstLanes
  <2>2. CASE ir.destination.index # 0
    <3> DEFINE base == gpr_offset(ir.destination.index)
               m == FirstLanes(s, ir, 0)
    <3>1. base \in Nat
      BY WidthAssumption DEF Valid, WritesGpr, gpr_offset, Register
    <3>2. m = [o \in Offset |-> IF o \in base .. (base + 0) - 1
                                THEN Value(s, ir)[(o - base) + 1] ELSE InMemory(s)[o]]
      BY <2>2 DEF FirstLanes
    <3> HIDE DEF base, m
    <3>3. \A o : o \notin base .. (base + 0) - 1
      BY <3>1
    <3>4. m = [o \in Offset |-> InMemory(s)[o]]
      BY <3>2, <3>3
    <3>5. InMemory(s) = [o \in Offset |-> InMemory(s)[o]]
      BY DEF InMemory
    <3> QED BY <3>4, <3>5 DEF m
  <2> QED BY <2>1, <2>2
<1> QED BY <1>4, <1>5, <1>6 DEF AtLane

\* The code of the four lanes, one after the other.
LEMMA LanesRun ==
  ASSUME NEW s, NEW ir, ir.opcode = "AddPackedU32Saturate128", WritesGpr(ir),
         NEW lanes, lanes = [i \in 1 .. 4 |-> PadduwLane(ir, i - 1)],
         NEW u, AtLane(s, ir, 0, u[0]), Runs(u, FlattenSeq(lanes))
  PROVE  AtLane(s, ir, 4, u[Len(FlattenSeq(lanes))])
<1>1. \A i \in 1 .. 4 : IsCode(lanes[i])
  <2>1. WritesGpr(ir) /\ \A i \in 1 .. 4 : i - 1 \in 0 .. 3
    OBVIOUS
  <2> QED BY <2>1, LaneShape
<1>2. PICK U : lanes \in [1 .. 4 -> Seq(U)]
  <2> DEFINE n == 4
  <2>1. n \in Nat /\ lanes = [i \in 1 .. n |-> lanes[i]] /\ \A i \in 1 .. n : IsCode(lanes[i])
    BY <1>1
  <2> HIDE DEF n
  <2>2. \E U : lanes \in [1 .. n -> Seq(U)] /\ \A x \in U : IsBody(x)
    BY <2>1, PiecesShape
  <2> QED BY <2>2 DEF n
<1>3. PICK start : /\ Starts(4, lanes, start) /\ Len(FlattenSeq(lanes)) = start[5]
                   /\ \A i \in 1 .. 4 : Runs(From(u, start[i]), lanes[i])
  <2> DEFINE n == 4
  <2>1. n \in Nat /\ lanes \in [1 .. n -> Seq(U)]
    BY <1>2
  <2> HIDE DEF n
  <2>2. \E start : /\ Starts(n, lanes, start) /\ Len(FlattenSeq(lanes)) = start[n + 1]
                   /\ \A i \in 1 .. n : Runs(From(u, start[i]), lanes[i])
    BY <2>1, FlattenRuns
  <2>3. 4 + 1 = 5
    OBVIOUS
  <2>4. PICK start : /\ Starts(n, lanes, start) /\ Len(FlattenSeq(lanes)) = start[n + 1]
                     /\ \A i \in 1 .. n : Runs(From(u, start[i]), lanes[i])
    BY <2>2
  <2>5. /\ Starts(4, lanes, start) /\ Len(FlattenSeq(lanes)) = start[4 + 1]
        /\ \A i \in 1 .. 4 : Runs(From(u, start[i]), lanes[i])
    BY <2>4 DEF n
  <2> QED BY <2>3, <2>5
<1>4. ASSUME NEW i \in 1 .. 4, AtLane(s, ir, i - 1, u[start[i]])
      PROVE  AtLane(s, ir, i, u[start[i + 1]])
  <2> DEFINE lane == i - 1
             part == PadduwLane(ir, lane)
             p == start[i]
             v == From(u, p)
             n == Len(part)
  <2>1. lane \in 0 .. 3 /\ lane + 1 = i /\ lanes[i] = part
    OBVIOUS
  <2>2. p \in Nat /\ start[i + 1] = p + Len(lanes[i])
    <3>1. /\ start \in [1 .. 4 + 1 -> Nat]
          /\ \A k \in 1 .. 4 : start[k + 1] = start[k] + Len(lanes[k])
      BY <1>3 DEF Starts
    <3>2. start[i] \in Nat
      <4>1. i \in 1 .. 4 + 1
        OBVIOUS
      <4>2. start \in [1 .. 4 + 1 -> Nat]
        BY <3>1
      <4> QED BY <4>1, <4>2
    <3>3. \A k \in 1 .. 4 : start[k + 1] = start[k] + Len(lanes[k])
      BY <3>1
    <3> HIDE DEF part, lane, v, n
    <3>4. start[i + 1] = start[i] + Len(lanes[i])
      BY <3>3, Zenon
    <3> QED BY <3>2, <3>4
  <2>3. Runs(v, part)
    BY <1>3, <2>1
  <2> HIDE DEF part, lane, p
  <2>4. v[0] = u[p] /\ \A k \in Nat : v[k] = u[p + k]
    BY <2>2, FromStart
  <2> HIDE DEF v
  <2>5. AtLane(s, ir, lane, v[0])
    BY <1>4, <2>4 DEF lane, p
  <2>6. n \in Nat /\ AtLane(s, ir, lane + 1, v[n])
    BY <2>1, <2>3, <2>5, LaneRuns DEF part
  <2>7. v[n] = u[p + n] /\ start[i + 1] = p + n
    BY <2>1, <2>2, <2>4, <2>6
  <2> QED BY <2>1, <2>6, <2>7
<1>5. start[1] = 0
  BY <1>3 DEF Starts
<1>6. AtLane(s, ir, 1, u[start[2]])
  <2>1. AtLane(s, ir, 1 - 1, u[start[1]])
    BY <1>5
  <2>2. AtLane(s, ir, 1, u[start[1 + 1]])
    BY <1>4, <2>1
  <2> QED BY <2>2
<1>7. AtLane(s, ir, 2, u[start[3]])
  <2>1. AtLane(s, ir, 2 - 1, u[start[2]])
    BY <1>6
  <2>2. AtLane(s, ir, 2, u[start[2 + 1]])
    BY <1>4, <2>1
  <2> QED BY <2>2
<1>8. AtLane(s, ir, 3, u[start[4]])
  <2>1. AtLane(s, ir, 3 - 1, u[start[3]])
    BY <1>7
  <2>2. AtLane(s, ir, 3, u[start[3 + 1]])
    BY <1>4, <2>1
  <2> QED BY <2>2
<1>9. AtLane(s, ir, 4, u[start[5]])
  <2>1. AtLane(s, ir, 4 - 1, u[start[4]])
    BY <1>8
  <2>2. AtLane(s, ir, 4, u[start[4 + 1]])
    BY <1>4, <2>1
  <2> QED BY <2>2
<1> QED BY <1>3, <1>9

\* The code of a packed addition.
LEMMA PadduwRuns ==
  ASSUME NEW s, NEW ir, ir.opcode = "AddPackedU32Saturate128", Valid(ir),
         NEW u, u[0].memory = InMemory(s), Runs(u, Emit(ir))
  PROVE  u[Len(Emit(ir))].memory = InMemory(Performed(s, ir))
<1> DEFINE lanes == [i \in 1 .. 4 |-> PadduwLane(ir, i - 1)]
           a == Load("load128", "xmm0", gpr_offset(ir.inputs[1].index))
           b == Load("load128", "xmm1", gpr_offset(ir.inputs[2].index))
           loads == <<a, b>>
           sums == FlattenSeq(lanes)
<1>1. Emit(ir) = loads \o sums
  BY DEF Emit, emit_padduw
<1>2. IsCode(loads) /\ IsCode(sums)
  <2>0. /\ WritesGpr(ir) /\ ir.inputs[1].index \in Register
        /\ ir.inputs[2].index \in Register
    BY DEF Valid, IsOperand
  <2>1. IsBody(a) /\ IsBody(b)
    <3>1. AccessWidth("load128") = 4
      BY DEF AccessWidth
    <3> QED BY <2>0, <3>1, FieldsHaveRoom, BodyOps
  <2>2. \A i \in 1 .. 4 : IsCode(lanes[i])
    <3>1. \A i \in 1 .. 4 : i - 1 \in 0 .. 3
      OBVIOUS
    <3> QED BY <2>0, <3>1, LaneShape
  <2>3. lanes = [i \in 1 .. 4 |-> lanes[i]]
    OBVIOUS
  <2> HIDE DEF lanes, a, b
  <2>4. IsCode(FlattenSeq(lanes))
    <3> DEFINE n == 4
    <3>1. n \in Nat /\ lanes = [i \in 1 .. n |-> lanes[i]] /\ \A i \in 1 .. n : IsCode(lanes[i])
      BY <2>2, <2>3
    <3> HIDE DEF n
    <3> QED BY <3>1, FlattenShape
  <2> QED BY <2>1, <2>4, Shape2
<1>3. WritesGpr(ir) /\ ir # Nop
  BY DEF Valid, Nop, Ir
<1> HIDE DEF lanes, a, b
<1>4. Len(loads) = 2
  OBVIOUS
<1> HIDE DEF loads, sums
<1>5. /\ Runs(From(u, 0), loads) /\ Runs(From(u, Len(loads)), sums)
      /\ Len(Emit(ir)) = Len(loads) + Len(sums) /\ Len(sums) \in Nat
  <2>1. PICK U : loads \in Seq(U)
    BY <1>2 DEF IsCode
  <2>2. PICK V : sums \in Seq(V)
    BY <1>2 DEF IsCode
  <2> DEFINE W == U \cup V
  <2>3. loads \in Seq(W) /\ sums \in Seq(W)
    BY <2>1, <2>2
  <2> HIDE DEF W
  <2>4. Runs(u, loads \o sums)
    BY <1>1
  <2>5. Runs(From(u, 0), loads) /\ Runs(From(u, Len(loads)), sums)
    BY <2>3, <2>4, ConcatRuns
  <2>6. Len(loads \o sums) = Len(loads) + Len(sums) /\ Len(sums) \in Nat
    BY <2>3, ConcatParts
  <2> QED BY <1>1, <2>5, <2>6
<1> DEFINE v == From(u, 0)
           w == From(u, 2)
<1>6. v[0] = u[0] /\ v[1] = u[1] /\ v[2] = u[2]
  BY DEF From
<1>7. w[0] = u[2] /\ \A k \in Nat : w[k] = u[2 + k]
  BY FromStart
<1> HIDE DEF v, w
<1>8. Effect(a, v[0], v[1]) /\ Effect(b, v[1], v[2])
  <2>1. Runs(v, <<a, b>>)
    BY <1>5 DEF v, loads
  <2> QED BY <2>1, Runs2
<1>9. AtLane(s, ir, 0, u[2])
  <2>1. Effect(a, u[0], u[1]) /\ Effect(b, u[1], u[2])
    BY <1>6, <1>8
  <2> QED BY <2>1, PadduwBegins DEF a, b
<1>10. AtLane(s, ir, 4, w[Len(sums)])
  <2>1. AtLane(s, ir, 0, w[0])
    BY <1>7, <1>9
  <2>2. Runs(w, sums)
    BY <1>4, <1>5 DEF w
  <2> QED BY <1>3, <2>1, <2>2, LanesRun DEF sums, lanes
<1>11. w[Len(sums)] = u[Len(Emit(ir))]
  BY <1>4, <1>5, <1>7
<1>12. u[Len(Emit(ir))].memory = FirstLanes(s, ir, 4)
  BY <1>10, <1>11 DEF AtLane
<1>13. FirstLanes(s, ir, 4) = InMemory(Performed(s, ir))
  <2> DEFINE r == ir.destination.index
             base == gpr_offset(r)
             x == Value(s, ir)
  <2>1. CASE r = 0
    BY <1>3, <2>1 DEF FirstLanes, Performed, WritesGpr
  <2>2. CASE r # 0
    <3>1. r \in Register /\ ir.destination = destination("Gpr", r)
      BY <1>3 DEF WritesGpr
    <3>2. ir.destination # destination("Gpr", 0)
      BY <2>2, <3>1 DEF destination
    <3>3. Performed(s, ir) = Written(s, destination("Gpr", r), x)
      BY <1>3, <3>1, <3>2 DEF Performed
    <3>4. Len(x) = 4
      BY DEF Value
    <3>5. IsField("Gpr", r) /\ FieldWidth("Gpr") = 4 /\ FieldOffset("Gpr", r) = base
      BY <3>1 DEF IsField, FieldWidth, FieldOffset
    <3>6. base \in Nat
      BY <3>1, WidthAssumption DEF Register, gpr_offset
    <3>7. FirstLanes(s, ir, 4)
            = [o \in Offset |-> IF o \in base .. (base + 4) - 1
                                THEN x[(o - base) + 1] ELSE InMemory(s)[o]]
      BY <2>2 DEF FirstLanes
    <3> HIDE DEF base, r, x
    <3>8. Len(x) \in 1 .. FieldWidth("Gpr")
      BY <3>4, <3>5
    <3>9. InMemory(Written(s, destination("Gpr", r), x))
            = Stored(InMemory(s), FieldOffset("Gpr", r), x)
      BY <3>5, <3>8, StoreWritesField
    <3>10. Stored(InMemory(s), base, x) = FirstLanes(s, ir, 4)
      <4> DEFINE m == FirstLanes(s, ir, 4)
      <4>1. base + Len(x) - 1 = (base + 4) - 1 /\ \A o \in Nat : o - base + 1 = (o - base) + 1
        BY <3>4, <3>6
      <4>2. Stored(InMemory(s), base, x)
              = [o \in Offset |-> IF o \in base .. (base + 4) - 1
                                  THEN x[o - base + 1] ELSE InMemory(s)[o]]
        BY <4>1 DEF Stored
      <4>3. Offset \subseteq Nat
        BY WidthAssumption DEF Offset, fp_acc_offset, fcr31_offset, fpr_offset, sa_offset,
           lo1_offset, hi1_offset, lo_offset, hi_offset
      <4> QED BY <3>7, <4>1, <4>2, <4>3
    <3> QED BY <3>3, <3>5, <3>9, <3>10
  <2> QED BY <2>1, <2>2
<1> QED BY <1>12, <1>13

\* There is no code for a Nop.
LEMMA NopRuns ==
  ASSUME NEW s, NEW ir, ir.opcode = "Nop", Valid(ir), NEW u, u[0].memory = InMemory(s)
  PROVE  u[Len(Emit(ir))].memory = InMemory(Performed(s, ir))
<1>1. ir = Nop /\ Emit(ir) = <<>>
  BY DEF Valid, Emit
<1>2. Performed(s, ir) = s /\ Len(Emit(ir)) = 0
  BY <1>1 DEF Performed
<1> QED BY <1>2

\* The code of every instruction the validator accepts takes the memory of a guest
\* state to the memory of the state the executor makes of it.
THEOREM EmitRuns ==
  ASSUME NEW s, NEW ir, Valid(ir), NEW u, u[0].memory = InMemory(s), Runs(u, Emit(ir))
  PROVE  u[Len(Emit(ir))].memory = InMemory(Performed(s, ir))
<1>1. CASE ir.opcode = "Nop"
  BY <1>1, NopRuns
<1>2. CASE ir.opcode = "AddWordSignExtend"
  BY <1>2, AddRuns
<1>3. CASE ir.opcode \in {"Or64", "And64"}
  BY <1>3, LogicRuns
<1>4. CASE ir.opcode = "LoadUpperImmediateSignExtend"
  BY <1>4, LuiRuns
<1>5. CASE ir.opcode = "MoveGprLow64"
  BY <1>5, MoveLow64Runs
<1>6. CASE ir.opcode = "ComputeMtsah"
  BY <1>6, MtsahRuns
<1>7. CASE ir.opcode = "AddPackedU32Saturate128"
  BY <1>7, PadduwRuns
<1>8. CASE ir.opcode = "MoveBits32"
  BY <1>8, MoveBits32Runs
<1>9. CASE ir.opcode = "AddF32ToAccumulator"
  BY <1>9, AddFloatRuns
<1> QED BY <1>1, <1>2, <1>3, <1>4, <1>5, <1>6, <1>7, <1>8, <1>9 DEF Valid

(***************************************************************************)
(* The code of a program                                                    *)
(***************************************************************************)
\* Register zero is cleared in two halves.
LEMMA ZeroRuns ==
  ASSUME NEW s, NEW u, u[0].memory = InMemory(s), Runs(u, emit_zero_gpr0)
  PROVE  u[3].memory = InMemory(normalize_zero(s))
<1> DEFINE a == Op("xor eax, eax")
           b == Store("store64", gpr_offset(0))
           c == Store("store64", gpr_offset(0) + 2)
           m == InMemory(s)
           z == <<{}, {}>>
<1>1. emit_zero_gpr0 = <<a, b, c>>
  BY DEF emit_zero_gpr0
<1> HIDE DEF a, b, c
<1>2. Runs(u, <<a, b, c>>)
  BY <1>1
<1>3. Effect(a, u[0], u[1]) /\ Effect(b, u[1], u[2]) /\ Effect(c, u[2], u[3])
  BY <1>2, Runs3
<1>4. u[1].memory = m /\ u[1].rax = z
  BY <1>3 DEF Effect, Op, Stores, Low, a
<1> HIDE DEF m
<1>5. u[2].memory = Stored(m, gpr_offset(0), z) /\ u[2].rax = z
  BY <1>3, <1>4 DEF Effect, Store, Stores, b
<1>6. u[3].memory = Stored(Stored(m, gpr_offset(0), z), gpr_offset(0) + 2, z)
  BY <1>3, <1>5 DEF Effect, Store, Stores, c
<1>7. gpr_offset(0) = 0
  BY DEF gpr_offset
<1>8. Stored(Stored(m, 0, z), 0 + 2, z) = Stored(m, 0, Zero128)
  <2> DEFINE p == Stored(m, 0, z)
             q == Stored(p, 0 + 2, z)
             r == Stored(m, 0, Zero128)
  <2>0. Offset \subseteq Nat
    BY WidthAssumption DEF Offset, fp_acc_offset, fcr31_offset, fpr_offset, sa_offset,
       lo1_offset, hi1_offset, lo_offset, hi_offset
  <2>1. ASSUME NEW o \in Offset PROVE q[o] = r[o]
    <3>1. o \in Nat
      BY <2>0
    <3>2. p[o] = IF o \in {0, 1} THEN z[o - 0 + 1] ELSE m[o]
      BY <3>1 DEF Stored
    <3>3. q[o] = IF o \in {2, 3} THEN z[o - (0 + 2) + 1] ELSE p[o]
      BY <3>1 DEF Stored
    <3>4. r[o] = IF o \in {0, 1, 2, 3} THEN Zero128[o - 0 + 1] ELSE m[o]
      BY <3>1 DEF Stored, Zero128
    <3>5. z[1] = {} /\ z[2] = {}
      OBVIOUS
    <3>6. Zero128[1] = {} /\ Zero128[2] = {} /\ Zero128[3] = {} /\ Zero128[4] = {}
      BY DEF Zero128
    <3> HIDE DEF p, q, r, z
    <3>7. CASE o = 0
      BY <3>2, <3>3, <3>4, <3>5, <3>6, <3>7
    <3>8. CASE o = 1
      BY <3>2, <3>3, <3>4, <3>5, <3>6, <3>8
    <3>9. CASE o = 2
      BY <3>3, <3>4, <3>5, <3>6, <3>9
    <3>10. CASE o = 3
      BY <3>3, <3>4, <3>5, <3>6, <3>10
    <3>11. CASE o \notin {0, 1, 2, 3}
      BY <3>2, <3>3, <3>4, <3>11
    <3> QED BY <3>7, <3>8, <3>9, <3>10, <3>11
  <2>2. q = [o \in Offset |-> q[o]] /\ r = [o \in Offset |-> r[o]]
    BY DEF Stored
  <2> HIDE DEF q, r
  <2>3. [o \in Offset |-> q[o]] = [o \in Offset |-> r[o]]
    BY <2>1
  <2>4. q = r
    BY <2>2, <2>3
  <2> QED BY <2>4 DEF q, r
<1>9. u[3].memory = Stored(m, 0, Zero128)
  <2> HIDE DEF z
  <2> QED BY <1>6, <1>7, <1>8
<1>10. /\ IsField("Gpr", 0) /\ FieldOffset("Gpr", 0) = 0
       /\ Len(Zero128) \in 1 .. FieldWidth("Gpr")
  BY WidthAssumption DEF IsField, FieldOffset, FieldWidth, gpr_offset, Zero128, Register
<1>11. InMemory(Written(s, destination("Gpr", 0), Zero128)) = Stored(m, 0, Zero128)
  BY <1>10, StoreWritesField DEF m
<1> QED BY <1>9, <1>11 DEF normalize_zero

\* The parts of the code of a program.
Pieces(instructions) == [i \in DOMAIN instructions |-> Emit(instructions[i])]

CodeBody(instructions) ==
  (emit_zero_gpr0 \o FlattenSeq(Pieces(instructions))) \o emit_zero_gpr0

\* The parts of the code of a program.
LEMMA PartsShape ==
  ASSUME NEW ins, Len(ins) \in Nat, DOMAIN ins = 1 .. Len(ins),
         \A i \in 1 .. Len(ins) : Valid(ins[i])
  PROVE  /\ IsCode(emit_zero_gpr0) /\ Len(emit_zero_gpr0) = 3
         /\ IsCode(FlattenSeq(Pieces(ins)))
         /\ IsCode(CodeBody(ins))
<1>1. IsCode(emit_zero_gpr0)
  <2> DEFINE a == Op("xor eax, eax")
             b == Store("store64", gpr_offset(0))
             c == Store("store64", gpr_offset(0) + 2)
  <2>1. emit_zero_gpr0 = <<a, b, c>>
    BY DEF emit_zero_gpr0
  <2>2. IsBody(a) /\ IsBody(b) /\ IsBody(c)
    <3>1. AccessWidth("store64") = 2 /\ "store64" \in Stores
      BY DEF AccessWidth, Stores
    <3> QED BY <3>1, FieldsHaveRoom, BodyOps, RegisterOps
  <2> HIDE DEF a, b, c
  <2> QED BY <2>1, <2>2, Shape3
<1>2. IsCode(FlattenSeq(Pieces(ins)))
  <2> DEFINE n == Len(ins)
             seqs == Pieces(ins)
  <2>1. n \in Nat /\ seqs = [i \in 1 .. n |-> seqs[i]] /\ \A i \in 1 .. n : IsCode(seqs[i])
    BY EmitShape DEF Pieces
  <2> HIDE DEF n, seqs
  <2>2. IsCode(FlattenSeq(seqs))
    BY <2>1, FlattenShape
  <2> QED BY <2>2 DEF seqs
<1>3. IsCode(CodeBody(ins))
  <2>1. IsCode(emit_zero_gpr0 \o FlattenSeq(Pieces(ins)))
    BY <1>1, <1>2, ConcatShape
  <2> QED BY <1>1, <2>1, ConcatShape DEF CodeBody
<1>4. Len(emit_zero_gpr0) = 3
  BY DEF emit_zero_gpr0
<1> QED BY <1>1, <1>2, <1>3, <1>4

\* Code ends with its only return.
Returns(c) ==
  /\ Len(c) \in Nat \ {0} /\ DOMAIN c = 1 .. Len(c)
  /\ c[Len(c)].op = "ret"
  /\ \A k \in 1 .. Len(c) - 1 : IsBody(c[k])

\* The code of a program is its body and a return.
LEMMA CodeShape ==
  ASSUME NEW ins, Len(ins) \in Nat, DOMAIN ins = 1 .. Len(ins),
         \A i \in 1 .. Len(ins) : Valid(ins[i])
  PROVE  /\ Returns(CodeOf(ins))
         /\ Len(CodeOf(ins)) = Len(CodeBody(ins)) + 1 /\ Len(CodeBody(ins)) \in Nat
         /\ \A k \in 1 .. Len(CodeBody(ins)) : CodeOf(ins)[k] = CodeBody(ins)[k]
<1> DEFINE b == CodeBody(ins)
           ret == Op("ret")
           c == CodeOf(ins)
           n == Len(b)
<1>1. c = b \o <<ret>>
  BY DEF CodeOf, CodeBody, Pieces
<1>2. PICK U : b \in Seq(U) /\ \A x \in U : IsBody(x)
  BY PartsShape DEF IsCode
<1>3. ret.op = "ret"
  BY DEF Op
<1> HIDE DEF b, c, ret
<1>4. /\ n \in Nat /\ Len(c) = n + 1 /\ c[n + 1] = ret
      /\ \A k \in 1 .. n : c[k] = b[k] /\ IsBody(b[k])
      /\ c \in Seq(U \cup {ret})
  <2> DEFINE W == U \cup {ret}
  <2>1. b \in Seq(W) /\ ret \in W
    BY <1>2
  <2> HIDE DEF W
  <2>2. /\ Len(b \o <<ret>>) = Len(b) + 1
        /\ (b \o <<ret>>)[Len(b) + 1] = ret
        /\ \A k \in 1 .. Len(b) : (b \o <<ret>>)[k] = b[k]
        /\ b \o <<ret>> \in Seq(W)
    BY <2>1, OneMore
  <2>3. \A k \in 1 .. n : IsBody(b[k])
    BY <1>2
  <2>4. n \in Nat
    BY <1>2
  <2> QED BY <1>1, <2>2, <2>3, <2>4 DEF W
<1> HIDE DEF n
<1>5. Returns(c)
  <2>1. Len(c) - 1 = n /\ Len(c) = n + 1 /\ Len(c) \in Nat \ {0}
    BY <1>4
  <2>2. DOMAIN c = 1 .. Len(c)
    BY <1>4
  <2>3. c[Len(c)].op = "ret"
    BY <1>3, <1>4, <2>1
  <2>4. \A k \in 1 .. Len(c) - 1 : IsBody(c[k])
    BY <1>4, <2>1
  <2> QED BY <2>1, <2>2, <2>3, <2>4 DEF Returns
<1> QED BY <1>4, <1>5 DEF b, c, n

\* What the executor makes of a guest state: t[i] is the state after i instructions.
IsTrace(instructions, n, s, t) ==
  t[0] = normalize_zero(s) /\ \A i \in 1 .. n : t[i] = Performed(t[i - 1], instructions[i])

\* The code of the instructions, one after the other.
LEMMA PiecesRun ==
  ASSUME NEW ins, NEW n \in Nat, n = Len(ins), DOMAIN ins = 1 .. n,
         \A i \in 1 .. n : Valid(ins[i]),
         NEW t, \A i \in 1 .. n : t[i] = Performed(t[i - 1], ins[i]),
         NEW u, u[0].memory = InMemory(t[0]), Runs(u, FlattenSeq(Pieces(ins)))
  PROVE  u[Len(FlattenSeq(Pieces(ins)))].memory = InMemory(t[n])
<1> DEFINE seqs == Pieces(ins)
<1>1. seqs = [i \in 1 .. n |-> seqs[i]] /\ \A i \in 1 .. n : IsCode(seqs[i])
  BY EmitShape DEF Pieces
<1>2. \A i \in 1 .. n : seqs[i] = Emit(ins[i])
  BY DEF Pieces
<1> HIDE DEF seqs
<1>3. PICK U : seqs \in [1 .. n -> Seq(U)] /\ \A x \in U : IsBody(x)
  BY <1>1, PiecesShape
<1>4. PICK start : /\ Starts(n, seqs, start) /\ Len(FlattenSeq(seqs)) = start[n + 1]
                   /\ \A i \in 1 .. n : Runs(From(u, start[i]), seqs[i])
  <2>1. Runs(u, FlattenSeq(seqs))
    BY DEF seqs
  <2> QED BY <1>3, <2>1, FlattenRuns
<1> DEFINE Reached(i) == u[start[i + 1]].memory = InMemory(t[i])
           S == {i \in Nat : i <= n => Reached(i)}
<1>5. start \in [1 .. n + 1 -> Nat] /\ start[1] = 0
      /\ \A i \in 1 .. n : start[i + 1] = start[i] + Len(seqs[i])
  BY <1>4 DEF Starts
<1>6. Reached(0)
  <2>1. 0 + 1 = 1
    OBVIOUS
  <2> QED BY <1>5, <2>1
<1>7. ASSUME NEW j \in Nat, j + 1 <= n, Reached(j) PROVE Reached(j + 1)
  <2> DEFINE i == j + 1
             p == start[i]
             part == seqs[i]
             v == From(u, p)
             k == Len(part)
  <2>1. i \in 1 .. n /\ i - 1 = j /\ i \in 1 .. n + 1
    BY <1>7
  <2> HIDE DEF i
  <2>2. p \in Nat /\ start[i + 1] = p + k
    BY <1>5, <2>1
  <2>3. k \in Nat
    BY <1>3, <2>1
  <2>4. Valid(ins[i]) /\ part = Emit(ins[i]) /\ t[i] = Performed(t[i - 1], ins[i])
    BY <1>2, <2>1
  <2>5. Runs(v, part)
    BY <1>4, <2>1
  <2> HIDE DEF p, part
  <2>6. v[0] = u[p] /\ v[k] = u[p + k]
    <3> HIDE DEF k
    <3> QED BY ONLY <2>2, <2>3, FromStart
  <2> HIDE DEF v
  <2>7. v[0].memory = InMemory(t[j])
    BY <1>7, <2>6 DEF p, i
  <2>8. v[Len(Emit(ins[i]))].memory = InMemory(Performed(t[j], ins[i]))
    <3>1. Runs(v, Emit(ins[i]))
      BY <2>4, <2>5
    <3> QED BY <2>4, <2>7, <3>1, EmitRuns
  <2>9. v[k].memory = InMemory(t[i])
    BY <2>1, <2>4, <2>8
  <2>10. u[start[i + 1]].memory = InMemory(t[i])
    BY <2>2, <2>6, <2>9
  <2> QED BY <2>10 DEF i
<1> HIDE DEF Reached
<1>8. 0 \in S
  BY <1>6
<1>9. ASSUME NEW j \in Nat, j \in S PROVE j + 1 \in S
  BY <1>7, <1>9
<1> HIDE DEF S
<1>10. n \in S
  BY <1>8, <1>9, Induction
<1>11. Reached(n)
  BY <1>10 DEF S
<1> QED BY <1>4, <1>11 DEF Reached, seqs

\* The code of a program takes the memory of a guest state to the memory of the state
\* that the executor ends with.
THEOREM CodeRuns ==
  ASSUME NEW ins, NEW n \in Nat, n = Len(ins), DOMAIN ins = 1 .. n,
         \A i \in 1 .. n : Valid(ins[i]),
         NEW s, NEW t, IsTrace(ins, n, s, t),
         NEW u, u[0].memory = InMemory(s), Runs(u, CodeBody(ins))
  PROVE  u[Len(CodeBody(ins))].memory = InMemory(normalize_zero(t[n]))
<1> DEFINE z == emit_zero_gpr0
           f == FlattenSeq(Pieces(ins))
           a == z \o f
           b == a \o z
<1>1. IsCode(z) /\ Len(z) = 3 /\ IsCode(f) /\ CodeBody(ins) = b
  BY PartsShape DEF CodeBody
<1>2. PICK V : z \in Seq(V)
  BY <1>1 DEF IsCode
<1>3. PICK W : f \in Seq(W)
  BY <1>1 DEF IsCode
<1> DEFINE U == V \cup W
<1> HIDE DEF z, f
<1>4. z \in Seq(U) /\ f \in Seq(U)
  BY <1>2, <1>3
<1> HIDE DEF U
<1>5. /\ a \in Seq(U) /\ Len(a) = 3 + Len(f) /\ Len(f) \in Nat
  <2>1. z \o f \in Seq(U) /\ Len(z \o f) = Len(z) + Len(f) /\ Len(f) \in Nat
    BY <1>4, ConcatParts
  <2> QED BY <1>1, <2>1
<1> HIDE DEF a
<1>6. Len(b) = Len(a) + 3 /\ Len(a) \in Nat
  <2>1. Len(a \o z) = Len(a) + Len(z) /\ Len(a) \in Nat
    BY <1>4, <1>5, ConcatParts
  <2> QED BY <1>1, <2>1
<1> DEFINE v == From(u, 0)
           la == Len(a)
           w == From(u, la)
<1>7. Runs(v, a) /\ Runs(w, z)
  <2>1. Runs(u, a \o z)
    BY <1>1
  <2> QED BY <1>4, <1>5, <2>1, ConcatRuns
<1>8. \A k \in Nat : v[k] = u[k]
  BY DEF From
<1>9. w[0] = u[la] /\ w[3] = u[Len(b)]
  <2>1. \A k \in Nat : w[k] = u[la + k]
    BY <1>6, FromStart
  <2>2. w[0] = u[la]
    BY <1>6, FromStart
  <2> HIDE DEF w, la
  <2>3. w[3] = u[la + 3]
    BY <2>1
  <2> QED BY <1>6, <2>2, <2>3 DEF la
<1> HIDE DEF v, w, b
<1> DEFINE x == From(v, 0)
           y == From(v, 3)
<1>10. Runs(x, z) /\ Runs(y, f)
  <2>1. Runs(v, z \o f)
    BY <1>7 DEF a
  <2>2. Runs(From(v, 0), z) /\ Runs(From(v, Len(z)), f)
    BY <1>4, <2>1, ConcatRuns
  <2> QED BY <1>1, <2>2
<1>11. x[0] = u[0] /\ x[3] = u[3]
  BY <1>8 DEF From
<1>12. y[0] = u[3] /\ y[Len(f)] = u[la]
  <2>1. \A k \in Nat : y[k] = v[3 + k]
    BY DEF From
  <2>2. y[Len(f)] = v[3 + Len(f)] /\ y[0] = v[3]
    BY <1>5, <2>1
  <2>3. v[3 + Len(f)] = u[la] /\ v[3] = u[3]
    BY <1>5, <1>8
  <2> QED BY <2>2, <2>3
<1> HIDE DEF x, y, la
<1>13. u[3].memory = InMemory(t[0])
  <2>1. x[0].memory = InMemory(s) /\ Runs(x, emit_zero_gpr0)
    BY <1>10, <1>11 DEF z
  <2>2. x[3].memory = InMemory(normalize_zero(s))
    BY <2>1, ZeroRuns
  <2> QED BY <1>11, <2>2 DEF IsTrace
<1>14. u[la].memory = InMemory(t[n])
  <2>1. y[0].memory = InMemory(t[0])
    BY <1>12, <1>13
  <2>2. Runs(y, FlattenSeq(Pieces(ins)))
    BY <1>10 DEF f
  <2>3. \A i \in 1 .. n : t[i] = Performed(t[i - 1], ins[i])
    BY DEF IsTrace
  <2>4. y[Len(FlattenSeq(Pieces(ins)))].memory = InMemory(t[n])
    BY <2>1, <2>2, <2>3, PiecesRun
  <2> QED BY <1>12, <2>4 DEF f
<1>15. w[3].memory = InMemory(normalize_zero(t[n]))
  <2>1. w[0].memory = InMemory(t[n]) /\ Runs(w, emit_zero_gpr0)
    BY <1>7, <1>9, <1>14 DEF z
  <2> QED BY <2>1, ZeroRuns
<1> QED BY <1>1, <1>9, <1>15

(***************************************************************************)
(* Programs                                                                 *)
(***************************************************************************)
ProgramOK ==
  /\ Len(program) \in Nat /\ DOMAIN program = 1 .. Len(program)
  /\ \A i \in 1 .. Len(program) : IsInstruction(program[i])

\* What the lowering builds is an instruction.
LEMMA BuiltInstructions ==
  /\ IsInstruction(Nop)
  /\ \A opcode, mode, kind, r, inputs :
       /\ r \in Nat
       /\ \A i \in 1 .. Len(inputs) : IsInput(inputs[i])
       => IsInstruction(Ir(opcode, destination(kind, r), mode, inputs))
<1>1. IsInstruction(Nop)
  BY DEF IsInstruction, Nop, Ir, NoDestination, destination
<1>2. ASSUME NEW opcode, NEW mode, NEW kind, NEW r \in Nat, NEW inputs,
             \A i \in 1 .. Len(inputs) : IsInput(inputs[i])
      PROVE  IsInstruction(Ir(opcode, destination(kind, r), mode, inputs))
  BY <1>2 DEF IsInstruction, Ir, destination
<1> QED BY <1>1, <1>2

\* Operands with a register that exists or with a value that fits.
LEMMA BuiltInputs ==
  /\ \A r \in Register : IsInput(gpr(r)) /\ IsInput(fpr(r))
  /\ \A value \in SeqOfWords(2) : IsInput(immediate(value))
BY WidthAssumption DEF gpr, fpr, immediate, Register, IsInput

\* An immediate of half a word is one of two words, extended with zeros or its sign.
LEMMA ExtendedImmediates ==
  ASSUME NEW d, d.immediate \subseteq HalfBit
  PROVE  unsigned_immediate(d) \in SeqOfWords(2) /\ signed_immediate(d) \in SeqOfWords(2)
<1>1. HalfBit \subseteq Bit
  BY WidthAssumption DEF HalfBit, Bit
<1>2. d.immediate \in Word /\ d.immediate \cup (Bit \ HalfBit) \in Word /\ {} \in Word
  BY <1>1 DEF Word
<1> QED BY <1>2, Pairs DEF unsigned_immediate, signed_immediate

\* A guest word that lowers lowers to an instruction.
LEMMA LoweredInstruction ==
  ASSUME NEW d, Lowerable(d), d.rs \in Register, d.rt \in Register,
         d.instruction # "Ctc1" => d.rd \in Register, d.immediate \subseteq HalfBit
  PROVE  IsInstruction(Lower(d))
<1>0. \A r \in Register : r \in Nat
  BY WidthAssumption DEF Register
<1> DEFINE Fits(inputs) == \A i \in 1 .. Len(inputs) : IsInput(inputs[i])
<1>1. ASSUME NEW a, IsInput(a) PROVE Fits(<<a>>)
  BY <1>1
<1>2. ASSUME NEW a, IsInput(a), NEW b, IsInput(b) PROVE Fits(<<a, b>>)
  <2> DEFINE c == <<a, b>>
  <2>1. Len(c) = 2 /\ c[1] = a /\ c[2] = b
    OBVIOUS
  <2> HIDE DEF c
  <2>2. \A i \in 1 .. Len(c) : IsInput(c[i])
    <3> TAKE i \in 1 .. Len(c)
    <3>1. CASE i = 1
      BY <1>2, <2>1, <3>1
    <3>2. CASE i = 2
      BY <1>2, <2>1, <3>2
    <3> QED BY <2>1, <3>1, <3>2
  <2> QED BY <2>2 DEF c
<1>3. ASSUME NEW opcode, NEW r \in Nat, NEW inputs, Fits(inputs)
      PROVE  /\ IsInstruction(Low64(opcode, r, inputs))
             /\ \A kind : IsInstruction(Special(opcode, kind, r, inputs))
             /\ IsInstruction(IF r = 0 THEN Nop
                              ELSE Ir(opcode, destination("Gpr", r), "Full128", inputs))
  BY <1>3, BuiltInstructions DEF Low64, Special
<1>4. 0 \in Nat
  OBVIOUS
<1> DEFINE s == gpr(d.rs)
           t == gpr(d.rt)
           u == immediate(unsigned_immediate(d))
           v == immediate(signed_immediate(d))
<1>5. IsInput(s) /\ IsInput(t) /\ IsInput(u) /\ IsInput(v)
  BY BuiltInputs, ExtendedImmediates
<1>6. d.rt \in Nat /\ (d.instruction # "Ctc1" => d.rd \in Nat)
  BY <1>0
<1>7. Fits(<<s>>) /\ Fits(<<t>>) /\ Fits(<<u>>)
  <2> HIDE DEF s, t, u, v, Fits
  <2> QED BY <1>1, <1>5
<1>8. Fits(<<s, t>>) /\ Fits(<<s, u>>) /\ Fits(<<s, v>>)
  <2> HIDE DEF s, t, u, v, Fits
  <2> QED BY <1>2, <1>5
<1>9. CASE d.instruction \in {"Nop", "Sync"}
  BY <1>9, BuiltInstructions DEF Lower
<1>10. CASE d.instruction = "Addu"
  <2> DEFINE x == <<s, t>>
  <2>1. Lower(d) = Low64("AddWordSignExtend", d.rd, x) /\ d.rd \in Nat
    BY <1>6, <1>10 DEF Lower
  <2>2. Fits(x)
    BY <1>8
  <2> HIDE DEF x
  <2> QED BY <1>3, <2>1, <2>2
<1>11. CASE d.instruction = "Addiu"
  <2> DEFINE x == <<s, v>>
  <2>1. Lower(d) = Low64("AddWordSignExtend", d.rt, x)
    BY <1>11 DEF Lower
  <2>2. Fits(x)
    BY <1>8
  <2> HIDE DEF x
  <2> QED BY <1>3, <1>6, <2>1, <2>2
<1>12. CASE d.instruction \in {"Ori", "Andi"}
  <2> DEFINE x == <<s, u>>
             op == IF d.instruction = "Ori" THEN "Or64" ELSE "And64"
  <2>1. Lower(d) = Low64(op, d.rt, x)
    BY <1>12 DEF Lower
  <2>2. Fits(x)
    BY <1>8
  <2> HIDE DEF x, op
  <2> QED BY <1>3, <1>6, <2>1, <2>2
<1>13. CASE d.instruction = "Lui"
  <2> DEFINE x == <<u>>
  <2>1. Lower(d) = Low64("LoadUpperImmediateSignExtend", d.rt, x)
    BY <1>13 DEF Lower
  <2>2. Fits(x)
    BY <1>7
  <2> HIDE DEF x
  <2> QED BY <1>3, <1>6, <2>1, <2>2
<1>14. CASE d.instruction \in {"Mthi", "Mtlo", "Mthi1", "Mtlo1"}
  <2> DEFINE x == <<s>>
  <2>1. \E kind : Lower(d) = Special("MoveGprLow64", kind, 0, x)
    BY <1>14 DEF Lower
  <2>2. Fits(x)
    BY <1>7
  <2> HIDE DEF x
  <2> QED BY <1>3, <1>4, <2>1, <2>2
<1>15. CASE d.instruction = "Mtsah"
  <2> DEFINE x == <<s, u>>
  <2>1. Lower(d) = Special("ComputeMtsah", "Sa", 0, x)
    BY <1>15 DEF Lower
  <2>2. Fits(x)
    BY <1>8
  <2> HIDE DEF x
  <2> QED BY <1>3, <1>4, <2>1, <2>2
<1>16. CASE d.instruction = "Padduw"
  <2> DEFINE x == <<s, t>>
  <2>1. /\ Lower(d) = IF d.rd = 0 THEN Nop
                      ELSE Ir("AddPackedU32Saturate128", destination("Gpr", d.rd), "Full128", x)
        /\ d.rd \in Nat
    BY <1>6, <1>16 DEF Lower, LowerPadduw
  <2>2. Fits(x)
    BY <1>8
  <2> HIDE DEF x
  <2>3. IsInstruction(IF d.rd = 0 THEN Nop
                      ELSE Ir("AddPackedU32Saturate128", destination("Gpr", d.rd), "Full128", x))
    BY <1>3, <2>1, <2>2
  <2> QED BY <2>1, <2>3
<1>17. CASE d.instruction = "Mtc1"
  <2> DEFINE x == <<t>>
  <2>1. Lower(d) = Special("MoveBits32", "Fpr", d.rd, x) /\ d.rd \in Nat
    BY <1>6, <1>17 DEF Lower
  <2>2. Fits(x)
    BY <1>7
  <2> HIDE DEF x
  <2> QED BY <1>3, <2>1, <2>2
<1>18. CASE d.instruction = "Ctc1"
  <2> DEFINE x == <<t>>
  <2>1. Lower(d) = Special("MoveBits32", "Fcr31", 0, x)
    BY <1>18 DEF Lower
  <2>2. Fits(x)
    BY <1>7
  <2> HIDE DEF x
  <2> QED BY <1>3, <1>4, <2>1, <2>2
<1>19. CASE d.instruction = "AddaS"
  <2> DEFINE a == fpr(d.rd)
             b == fpr(d.rt)
             x == <<a, b>>
  <2>1. Lower(d) = Special("AddF32ToAccumulator", "FpAccumulator", 0, x)
    BY <1>19 DEF Lower
  <2>2. IsInput(a) /\ IsInput(b)
    BY <1>19, BuiltInputs
  <2> HIDE DEF a, b
  <2>3. Fits(x)
    BY <1>2, <2>2
  <2> HIDE DEF x
  <2> QED BY <1>3, <1>4, <2>1, <2>3
<1> QED BY <1>9, <1>10, <1>11, <1>12, <1>13, <1>14, <1>15, <1>16, <1>17, <1>18, <1>19
    DEF Lowerable, DispatcherEligible

\* Every program that a caller passes is well formed.
LEMMA ProgramInit == Init => ProgramOK
<1> SUFFICES ASSUME Init PROVE ProgramOK
  OBVIOUS
<1>1. CASE program \in IrProgram
  BY <1>1, IrAssumption DEF ProgramOK
<1>2. CASE \E words \in GuestProgram : program = LoweredProgram(words)
  <2>1. PICK words \in GuestProgram : program = LoweredProgram(words)
    BY <1>2
  <2>2. PICK n \in Nat : n = Len(words) /\ DOMAIN words = 1 .. n
    BY GuestAssumption
  <2>3. program = [i \in 1 .. n |-> Lower(words[i])]
    BY <2>1, <2>2 DEF LoweredProgram
  <2>4. \A i \in 1 .. n : IsInstruction(Lower(words[i]))
    BY <2>2, GuestAssumption, LoweredInstruction
  <2>5. Len(program) = n /\ DOMAIN program = 1 .. n
    BY <2>3
  <2> QED BY <2>3, <2>4, <2>5 DEF ProgramOK
<1> QED BY <1>1, <1>2 DEF Init

(***************************************************************************)
(* The executor                                                             *)
(***************************************************************************)
IsZero(cell) == cell[1] = "Gpr" /\ cell[2] = 0

\* What the words of a result are stored to.
LEMMA ValueIsNarrow ==
  ASSUME NEW ir, Valid(ir), NEW s, ir # Nop, ir.destination.kind = "Gpr",
         ir.write_mode # "Full128"
  PROVE  Len(Value(s, ir)) = 2
<1>1. \A w : Len(sign_extend_word(w)) = 2
  BY DEF sign_extend_word
<1>2. \A a, b : Len(<<a, b>>) = 2
  OBVIOUS
<1>3. ir.opcode \in {"AddWordSignExtend", "Or64", "And64", "LoadUpperImmediateSignExtend"}
  BY DEF Valid, WritesGpr, WritesSpecial
<1>4. CASE ir.opcode = "AddWordSignExtend"
  BY <1>1, <1>4 DEF Value
<1>5. CASE ir.opcode = "Or64"
  BY <1>2, <1>5 DEF Value
<1>6. CASE ir.opcode = "And64"
  BY <1>2, <1>6 DEF Value
<1>7. CASE ir.opcode = "LoadUpperImmediateSignExtend"
  BY <1>1, <1>7 DEF Value
<1> QED BY <1>3, <1>4, <1>5, <1>6, <1>7

\* An instruction changes the cells that it is meant to write, and never register zero.
LEMMA PerformedKeeps ==
  ASSUME NEW ir, Valid(ir), IsInstruction(ir), NEW s, NEW cell \in Cell,
         cell \notin WrittenCells(ir) \/ IsZero(cell)
  PROVE  Performed(s, ir)[cell] = s[cell]
<1> DEFINE d == ir.destination
           v == Value(s, ir)
<1>1. CASE ir = Nop \/ d = destination("Gpr", 0)
  BY <1>1 DEF Performed
<1>2. CASE ir # Nop /\ d # destination("Gpr", 0)
  <2>1. Performed(s, ir) = Written(s, d, v)
    BY <1>2 DEF Performed
  <2>2. (cell[1] = d.kind /\ cell[2] = d.index) => ~ IsZero(cell)
    BY <1>2 DEF IsInstruction, IsZero
  <2>3. (cell[1] = d.kind /\ cell[2] = d.index) => ~ (cell[3] < Len(v))
    <3> SUFFICES ASSUME cell[1] = d.kind, cell[2] = d.index PROVE ~ (cell[3] < Len(v))
      OBVIOUS
    <3>1. cell[1] = "Gpr" /\ ir.write_mode # "Full128" /\ ~ (cell[3] < 2)
      BY <2>2 DEF WrittenCells
    <3>2. Len(v) = 2
      BY <1>2, <3>1, ValueIsNarrow
    <3> QED BY <3>1, <3>2
  <2> HIDE DEF d, v
  <2>4. Written(s, d, v)[cell] = s[cell]
    BY <2>3 DEF Written
  <2> QED BY <2>1, <2>4
<1> QED BY <1>1, <1>2

\* The cells of a guest state whose register zero is cleared.
LEMMA NormalizedCells ==
  ASSUME NEW s, NEW cell \in Cell
  PROVE  normalize_zero(s)[cell] = IF IsZero(cell) THEN {} ELSE s[cell]
<1>1. cell[1] = "Gpr" => cell[3] \in 0 .. 3
  BY DEF Cell
<1>2. Len(Zero128) = 4 /\ \A lane \in 0 .. 3 : Zero128[lane + 1] = {}
  BY DEF Zero128
<1> QED BY <1>1, <1>2 DEF normalize_zero, Written, destination, IsZero

\* What the executor may have made of a guest state after n instructions.
Kept(instructions, first, n, s) ==
  \A cell \in Cell :
    /\ IsZero(cell) => s[cell] = {}
    /\ ~ IsZero(cell) =>
         s[cell] = first[cell] \/ \E i \in 1 .. n : cell \in WrittenCells(instructions[i])

\* The guest state s is the one after n instructions.
HasPerformed(instructions, first, n, s) ==
  \E t : IsTrace(instructions, n, first, t) /\ t[n] = s

ExecutorInvariant ==
  /\ status \in {"ready", "running", "done", "rejected"}
  /\ index \in 0 .. Len(program)
  /\ \A i \in 1 .. index : VerdictAt(i) = "None"
  /\ status = "ready" => index = 0 /\ state = entry
  /\ status # "rejected" => error = "None"
  /\ status = "running" => /\ HasPerformed(program, entry, index, state)
                           /\ Kept(program, entry, index, state)
  /\ ExecutorStops => /\ \E s : HasPerformed(program, entry, index, s) /\ state = normalize_zero(s)
                      /\ Kept(program, entry, index, state)
  /\ status = "done" => index = Len(program)
  /\ status = "rejected" =>
       index < Len(program) /\ error = VerdictAt(index + 1) /\ error # "None"

\* No step changes the program.
LEMMA ProgramStays == ProgramOK /\ program' = program => ProgramOK'
BY DEF ProgramOK

\* An instruction of the program that passes is valid.
LEMMA ProgramValid ==
  ASSUME ProgramOK, NEW i \in 1 .. Len(program), VerdictAt(i) = "None"
  PROVE  Valid(program[i]) /\ IsInstruction(program[i])
BY VerdictIsValid DEF ProgramOK, VerdictAt

\* Nothing is written at the start.
LEMMA KeptBegins == Kept(program, entry, 0, normalize_zero(entry))
BY NormalizedCells DEF Kept

\* An instruction adds its own cells to what may have changed.
LEMMA KeptPerforms ==
  ASSUME NEW n \in Nat, NEW s, Kept(program, entry, n, s), Valid(program[n + 1]),
         IsInstruction(program[n + 1])
  PROVE  Kept(program, entry, n + 1, Performed(s, program[n + 1]))
<1> DEFINE q == Performed(s, program[n + 1])
<1>1. \A cell \in Cell : cell \notin WrittenCells(program[n + 1]) \/ IsZero(cell)
                           => q[cell] = s[cell]
  BY PerformedKeeps
<1> HIDE DEF q
<1>2. 1 .. n \subseteq 1 .. n + 1 /\ n + 1 \in 1 .. n + 1
  OBVIOUS
<1>3. Kept(program, entry, n + 1, q)
  BY <1>1, <1>2, Zenon DEF Kept
<1> QED BY <1>3 DEF q

\* Clearing register zero changes no other cell.
LEMMA KeptNormalizes ==
  ASSUME NEW n, NEW s, Kept(program, entry, n, s)
  PROVE  Kept(program, entry, n, normalize_zero(s))
BY NormalizedCells DEF Kept

\* The guest state before the first instruction.
LEMMA HasPerformedBegins == HasPerformed(program, entry, 0, normalize_zero(entry))
<1> DEFINE t == [i \in {0} |-> normalize_zero(entry)]
<1>1. t[0] = normalize_zero(entry) /\ 1 .. 0 = {}
  OBVIOUS
<1> HIDE DEF t
<1> QED BY <1>1 DEF HasPerformed, IsTrace

\* The guest state after one instruction more.
LEMMA HasPerformedNext ==
  ASSUME NEW n \in Nat, NEW s, HasPerformed(program, entry, n, s)
  PROVE  HasPerformed(program, entry, n + 1, Performed(s, program[n + 1]))
<1> DEFINE q == Performed(s, program[n + 1])
<1>1. PICK t : IsTrace(program, n, entry, t) /\ t[n] = s
  BY DEF HasPerformed
<1> DEFINE v == [i \in 0 .. n + 1 |-> IF i = n + 1 THEN q ELSE t[i]]
<1>2. v[n + 1] = q /\ \A i \in 0 .. n : v[i] = t[i]
  OBVIOUS
<1> HIDE DEF v
<1>3. v[0] = normalize_zero(entry)
  BY <1>1, <1>2 DEF IsTrace
<1>4. ASSUME NEW i \in 1 .. n + 1 PROVE v[i] = Performed(v[i - 1], program[i])
  <2>1. CASE i = n + 1
    <3>1. v[i - 1] = s
      BY <1>1, <1>2, <2>1
    <3> QED BY <1>2, <2>1, <3>1
  <2>2. CASE i \in 1 .. n
    <3> DEFINE j == i - 1
    <3>1. j \in 0 .. n /\ i \in 0 .. n
      BY <2>2
    <3> HIDE DEF j
    <3>2. v[j] = t[j] /\ v[i] = t[i]
      BY <1>2, <3>1
    <3>3. t[i] = Performed(t[i - 1], program[i])
      BY <1>1, <2>2 DEF IsTrace
    <3> QED BY <3>2, <3>3 DEF j
  <2> QED BY <2>1, <2>2
<1>5. IsTrace(program, n + 1, entry, v)
  BY <1>3, <1>4 DEF IsTrace
<1> QED BY <1>2, <1>5 DEF HasPerformed

\* The executor's invariant holds at the start.
LEMMA ExecutorInit == Init => ExecutorInvariant
<1> SUFFICES ASSUME Init PROVE ExecutorInvariant
  OBVIOUS
<1>1. Len(program) \in Nat
  BY ProgramInit DEF ProgramOK
<1> QED BY <1>1 DEF Init, ExecutorInvariant, ExecutorStops

\* A step of the executor keeps its invariant.
LEMMA ExecutorKeeps ==
  ASSUME ProgramOK, ExecutorInvariant, Executor, UNCHANGED <<program, entry>>
  PROVE  ExecutorInvariant'
<1>0. Len(program) \in Nat
  BY DEF ProgramOK
<1>1. \A i : VerdictAt(i)' = VerdictAt(i)
  BY DEF VerdictAt
<1>2. program' = program /\ entry' = entry
  OBVIOUS
<1>3. CASE BeginExecution
  <2>1. /\ status' = "running" /\ index' = 0 /\ state' = normalize_zero(entry)
        /\ error' = "None"
    BY <1>3 DEF BeginExecution, ExecutorInvariant
  <2>2. HasPerformed(program, entry, index', state') /\ Kept(program, entry, index', state')
    BY <1>2, <2>1, HasPerformedBegins, KeptBegins
  <2> QED BY <1>0, <1>2, <2>1, <2>2 DEF ExecutorInvariant, ExecutorStops
<1>4. CASE Perform
  <2> DEFINE n == index
  <2>1. /\ index < Len(program) /\ VerdictAt(index + 1) = "None" /\ index \in Nat
        /\ state' = Performed(state, program[index + 1]) /\ index' = index + 1
        /\ status' = "running" /\ error' = "None" /\ status = "running"
    BY <1>0, <1>4 DEF Perform, ExecutorInvariant, Verdict, VerdictAt
  <2>2. index + 1 \in 1 .. Len(program)
    BY <1>0, <2>1
  <2>3. Valid(program[index + 1]) /\ IsInstruction(program[index + 1])
    <3> DEFINE i == index + 1
    <3>1. i \in 1 .. Len(program) /\ VerdictAt(i) = "None"
      BY <2>1, <2>2
    <3> HIDE DEF i
    <3>2. Valid(program[i]) /\ IsInstruction(program[i])
      BY <3>1, ProgramValid
    <3> QED BY <3>2 DEF i
  <2>4. HasPerformed(program, entry, index, state) /\ Kept(program, entry, index, state)
    BY <2>1 DEF ExecutorInvariant
  <2>5. HasPerformed(program, entry, index + 1, Performed(state, program[index + 1]))
    BY <2>1, <2>4, HasPerformedNext
  <2>6. Kept(program, entry, index + 1, Performed(state, program[index + 1]))
    BY <2>1, <2>3, <2>4, KeptPerforms
  <2>7. HasPerformed(program, entry, index', state') /\ Kept(program, entry, index', state')
    BY <1>2, <2>1, <2>5, <2>6
  <2>9. \A i \in 1 .. index' : VerdictAt(i)' = "None"
    <3> SUFFICES ASSUME NEW i \in 1 .. index' PROVE VerdictAt(i) = "None"
      BY <1>1
    <3>1. i = index + 1 \/ i \in 1 .. index
      BY <2>1
    <3> QED BY <2>1, <3>1 DEF ExecutorInvariant
  <2>10. index' \in 0 .. Len(program)'
    BY <1>0, <2>1, <2>2
  <2> QED BY <1>2, <2>1, <2>7, <2>9, <2>10 DEF ExecutorInvariant, ExecutorStops
<1>5. CASE Reject
  <2>1. /\ index' = index /\ status' = "rejected" /\ status = "running"
        /\ state' = normalize_zero(state)
        /\ index < Len(program) /\ error' = VerdictAt(index + 1) /\ error' # "None"
    BY <1>5 DEF Reject, Verdict, VerdictAt
  <2>2. HasPerformed(program, entry, index, state) /\ Kept(program, entry, index, state)
    BY <2>1 DEF ExecutorInvariant
  <2>3. Kept(program, entry, index, state')
    BY <2>1, <2>2, KeptNormalizes
  <2>5. \E s : HasPerformed(program, entry, index', s) /\ state' = normalize_zero(s)
    BY <1>2, <2>1, <2>2
  <2>6. Kept(program, entry, index', state')
    BY <1>2, <2>1, <2>3
  <2>7. \A i \in 1 .. index' : VerdictAt(i)' = "None"
    BY <1>1, <2>1 DEF ExecutorInvariant
  <2>8. index' \in 0 .. Len(program)'
    BY <2>1 DEF ExecutorInvariant
  <2>9. (error = VerdictAt(index + 1))'
    BY <1>2, <2>1 DEF VerdictAt
  <2> QED BY <1>2, <2>1, <2>5, <2>6, <2>7, <2>8, <2>9 DEF ExecutorInvariant, ExecutorStops
<1>6. CASE EndExecution
  <2>1. /\ index' = index /\ status' = "done" /\ status = "running"
        /\ state' = normalize_zero(state) /\ index = Len(program) /\ error' = "None"
    BY <1>6 DEF EndExecution, ExecutorInvariant
  <2>2. HasPerformed(program, entry, index, state) /\ Kept(program, entry, index, state)
    BY <2>1 DEF ExecutorInvariant
  <2>3. Kept(program, entry, index, state')
    BY <2>1, <2>2, KeptNormalizes
  <2>5. \E s : HasPerformed(program, entry, index', s) /\ state' = normalize_zero(s)
    BY <1>2, <2>1, <2>2
  <2>6. Kept(program, entry, index', state')
    BY <1>2, <2>1, <2>3
  <2>7. \A i \in 1 .. index' : VerdictAt(i)' = "None"
    BY <1>1, <2>1 DEF ExecutorInvariant
  <2>8. index' \in 0 .. Len(program)' /\ index' = Len(program)'
    BY <2>1 DEF ExecutorInvariant
  <2> QED BY <1>2, <2>1, <2>5, <2>6, <2>7, <2>8 DEF ExecutorInvariant, ExecutorStops
<1> QED BY <1>3, <1>4, <1>5, <1>6 DEF Executor

\* So does a step of anything else.
LEMMA ExecutorStays ==
  ASSUME ExecutorInvariant, UNCHANGED <<program, entry, executor_vars>>
  PROVE  ExecutorInvariant'
<1>1. \A i : VerdictAt(i)' = VerdictAt(i)
  BY DEF VerdictAt
<1>2. program' = program /\ entry' = entry
  OBVIOUS
<1>3. status' = status /\ index' = index /\ state' = state /\ error' = error
  BY DEF executor_vars
<1> QED BY <1>1, <1>2, <1>3 DEF ExecutorInvariant, ExecutorStops

(***************************************************************************)
(* Native code                                                              *)
(***************************************************************************)
\* The machine is m when the code is at instruction r.
HasRun(c, first, r, m) ==
  \E u : /\ u[0].memory = InMemory(first) /\ u[r - 1] = m
         /\ \A k \in 1 .. r - 1 : Effect(c[k], u[k - 1], u[k])

NativeInvariant ==
  /\ native_status \in {"ready", "compiled", "running", "done", "rejected"}
  /\ native_status # "ready" => ExecutorStops
  /\ native_status \in {"ready", "compiled", "rejected"} => memory = InMemory(entry)
  /\ native_status # "rejected" => native_error = "None"
  /\ native_status = "rejected" => status = "rejected" /\ native_error = error
  /\ native_status \in {"compiled", "running", "done"} =>
       status = "done" /\ code = CodeOf(program)
  /\ RegsShape
  /\ native_status = "running" =>
       rip \in 1 .. Len(code) /\ HasRun(code, entry, rip, Machine)
  /\ native_status = "done" => memory = InMemory(state)

\* Native code is at its first instruction.
LEMMA HasRunBegins ==
  ASSUME NEW c, NEW first, NEW m, m.memory = InMemory(first)
  PROVE  HasRun(c, first, 1, m)
<1> DEFINE u == [i \in {0} |-> m]
<1>1. u[0] = m
  OBVIOUS
<1> HIDE DEF u
<1>2. u[1 - 1] = m /\ 1 .. 1 - 1 = {}
  BY <1>1
<1> QED BY <1>1, <1>2 DEF HasRun

\* Native code has executed one instruction more.
LEMMA HasRunNext ==
  ASSUME NEW c, NEW first, NEW r \in Nat \ {0}, NEW m, NEW q,
         HasRun(c, first, r, m), Effect(c[r], m, q)
  PROVE  HasRun(c, first, r + 1, q)
<1>1. PICK u : /\ u[0].memory = InMemory(first) /\ u[r - 1] = m
               /\ \A k \in 1 .. r - 1 : Effect(c[k], u[k - 1], u[k])
  BY DEF HasRun
<1> DEFINE v == [i \in 0 .. r |-> IF i = r THEN q ELSE u[i]]
<1>2. v[r] = q /\ \A i \in 0 .. r - 1 : v[i] = u[i]
  OBVIOUS
<1> HIDE DEF v
<1>3. 0 \in 0 .. r - 1 /\ r - 1 \in 0 .. r - 1 /\ (r + 1) - 1 = r
  OBVIOUS
<1>4. v[0].memory = InMemory(first) /\ v[r - 1] = m
  <2>1. v[0] = u[0] /\ v[r - 1] = u[r - 1]
    BY <1>2, <1>3
  <2> QED BY <1>1, <2>1
<1>5. ASSUME NEW k \in 1 .. r PROVE Effect(c[k], v[k - 1], v[k])
  <2>1. CASE k = r
    BY <1>2, <1>4, <2>1
  <2>2. CASE k \in 1 .. r - 1
    <3> DEFINE j == k - 1
    <3>1. j \in 0 .. r - 1 /\ k \in 0 .. r - 1
      BY <2>2
    <3> HIDE DEF j
    <3>2. v[j] = u[j] /\ v[k] = u[k]
      BY <1>2, <3>1
    <3>3. Effect(c[k], u[k - 1], u[k])
      BY <1>1, <2>2
    <3> QED BY <3>2, <3>3 DEF j
  <2> QED BY <2>1, <2>2
<1> DEFINE n == r + 1
<1>6. n - 1 = r
  OBVIOUS
<1> HIDE DEF n
<1>7. HasRun(c, first, n, q)
  BY <1>2, <1>4, <1>5, <1>6 DEF HasRun
<1> QED BY <1>7 DEF n

\* The code that returns has left the guest state of the executor in memory.
LEMMA CodeIsDone ==
  ASSUME ProgramOK, ExecutorInvariant, status = "done",
         HasRun(CodeOf(program), entry, Len(CodeOf(program)), Machine)
  PROVE  memory = InMemory(state)
<1> DEFINE n == Len(program)
           c == CodeOf(program)
           b == CodeBody(program)
           l == Len(b)
<1>1. /\ n \in Nat /\ DOMAIN program = 1 .. n /\ index = n
      /\ \A i \in 1 .. n : Valid(program[i])
  BY ProgramValid DEF ProgramOK, ExecutorInvariant
<1>2. Len(c) = l + 1 /\ l \in Nat /\ \A k \in 1 .. l : c[k] = b[k]
  BY <1>1, CodeShape
<1>3. PICK s : HasPerformed(program, entry, n, s) /\ state = normalize_zero(s)
  BY <1>1 DEF ExecutorInvariant, ExecutorStops
<1>4. PICK t : IsTrace(program, n, entry, t) /\ t[n] = s
  BY <1>3 DEF HasPerformed
<1> HIDE DEF n, c, b
<1>5. PICK u : /\ u[0].memory = InMemory(entry) /\ u[Len(c) - 1] = Machine
               /\ \A k \in 1 .. Len(c) - 1 : Effect(c[k], u[k - 1], u[k])
  BY DEF HasRun, c
<1>6. Len(c) - 1 = l
  BY <1>2
<1>7. \A k \in 1 .. l : Effect(b[k], u[k - 1], u[k])
  BY <1>2, <1>5, <1>6
<1>8. Runs(u, CodeBody(program))
  BY <1>7 DEF Runs, b
<1>9. u[Len(CodeBody(program))].memory = InMemory(normalize_zero(t[n]))
  <2>1. n = Len(program)
    BY DEF n
  <2> QED BY <1>1, <1>4, <1>5, <1>8, <2>1, CodeRuns
<1>10. u[l] = Machine
  BY <1>5, <1>6
<1>11. Machine.memory = InMemory(state)
  BY <1>3, <1>4, <1>9, <1>10 DEF b
<1> QED BY <1>11, MachineFields

\* The invariant of native code holds at the start.
LEMMA NativeInit == Init => NativeInvariant
<1> SUFFICES ASSUME Init PROVE NativeInvariant
  OBVIOUS
<1>1. RegsShape
  BY DEF Init, RegsShape
<1> QED BY <1>1 DEF Init, NativeInvariant

\* The executor is done before native code is made.
LEMMA NativeWaits ==
  ASSUME NativeInvariant, Executor, UNCHANGED <<program, entry, native_vars>>
  PROVE  NativeInvariant'
<1>1. ~ ExecutorStops
  BY DEF Executor, BeginExecution, Perform, Reject, EndExecution, ExecutorStops
<1>2. native_status = "ready"
  BY <1>1 DEF NativeInvariant
<1>3. /\ native_status' = native_status /\ memory' = memory /\ native_error' = native_error
      /\ regs' = regs /\ entry' = entry
  BY DEF native_vars
<1>4. RegsShape'
  BY <1>3 DEF RegsShape, NativeInvariant
<1> QED BY <1>2, <1>3, <1>4 DEF NativeInvariant

\* A step that changes nothing keeps it.
LEMMA NativeStays ==
  ASSUME NativeInvariant, UNCHANGED vars
  PROVE  NativeInvariant'
<1>1. /\ native_status' = native_status /\ memory' = memory /\ native_error' = native_error
      /\ regs' = regs /\ entry' = entry /\ status' = status /\ error' = error
      /\ state' = state /\ code' = code /\ rip' = rip /\ program' = program
  BY DEF vars, native_vars, executor_vars
<1>2. Machine' = Machine
  BY <1>1 DEF Machine
<1>3. RegsShape'
  BY <1>1 DEF RegsShape, NativeInvariant
<1> QED BY <1>1, <1>2, <1>3 DEF NativeInvariant, ExecutorStops

\* The backend finds the instruction that the executor rejects, or none.
LEMMA NativeCompiles ==
  ASSUME ProgramOK, ExecutorInvariant, NativeInvariant,
         UNCHANGED <<program, entry, executor_vars>>,
         ExecutorStops, CompileRejects \/ CompileProgram
  PROVE  NativeInvariant'
<1>1. status' = status /\ error' = error /\ state' = state /\ program' = program
      /\ entry' = entry
  BY DEF executor_vars
<1>2. native_status = "ready" /\ memory' = memory /\ regs' = regs
      /\ native_error = "None" /\ memory = InMemory(entry)
  BY DEF CompileRejects, CompileProgram, NativeInvariant
<1>3. RegsShape'
  BY <1>2 DEF NativeInvariant, RegsShape
<1>4. Len(program) \in Nat /\ DOMAIN program = 1 .. Len(program)
  BY DEF ProgramOK
<1>5. CASE CompileRejects /\ ExecutorStops
  <2>1. PICK i \in DOMAIN program :
          /\ VerdictAt(i) # "None" /\ \A j \in 1 .. i - 1 : VerdictAt(j) = "None"
          /\ native_error' = VerdictAt(i)
    BY <1>5 DEF CompileRejects
  <2>2. /\ index \in 0 .. Len(program) /\ \A j \in 1 .. index : VerdictAt(j) = "None"
    BY DEF ExecutorInvariant
  <2>3. i \in 1 .. Len(program) /\ i > index
    BY <1>4, <2>1, <2>2
  <2>4. status = "rejected" /\ index < Len(program) /\ error = VerdictAt(index + 1)
        /\ error # "None"
    <3>1. status # "done"
      <4>1. index # Len(program)
        <5>1. i \in 1 .. Len(program) /\ i > index
          BY <2>3
        <5> QED BY <1>4, <5>1
      <4> QED BY <4>1 DEF ExecutorInvariant
    <3>2. status = "rejected"
      BY <3>1 DEF ExecutorStops
    <3> QED BY <3>2 DEF ExecutorInvariant
  <2>5. i = index + 1
    <3> SUFFICES ASSUME i # index + 1 PROVE FALSE
      OBVIOUS
    <3> DEFINE j == index + 1
    <3>1. j \in 1 .. i - 1 /\ VerdictAt(j) # "None"
      BY <1>4, <2>2, <2>3, <2>4
    <3> HIDE DEF j
    <3> QED BY <2>1, <3>1
  <2>6. native_error' = error /\ native_status' = "rejected"
    BY <1>5, <2>1, <2>4, <2>5 DEF CompileRejects
  <2> QED BY <1>1, <1>2, <1>3, <1>5, <2>4, <2>6 DEF NativeInvariant, ExecutorStops
<1>6. CASE CompileProgram /\ ExecutorStops
  <2>1. /\ \A i \in DOMAIN program : VerdictAt(i) = "None"
        /\ code' = CodeOf(program) /\ native_status' = "compiled"
        /\ native_error' = native_error
    BY <1>6 DEF CompileProgram
  <2>2. status # "rejected"
    <3> SUFFICES ASSUME status = "rejected" PROVE FALSE
      OBVIOUS
    <3> DEFINE j == index + 1
    <3>1. /\ index < Len(program) /\ index \in 0 .. Len(program)
          /\ error = VerdictAt(j) /\ error # "None"
      BY DEF ExecutorInvariant
    <3>2. j \in 1 .. Len(program)
      BY <1>4, <3>1
    <3> HIDE DEF j
    <3> QED BY <1>4, <2>1, <3>1, <3>2
  <2>3. status = "done"
    BY <1>6, <2>2 DEF ExecutorStops
  <2> QED BY <1>1, <1>2, <1>3, <2>1, <2>3 DEF NativeInvariant, ExecutorStops
<1> QED BY <1>5, <1>6

\* Native code keeps it while it executes, and when it returns.
LEMMA NativeRuns ==
  ASSUME ProgramOK, ExecutorInvariant, NativeInvariant,
         UNCHANGED <<program, entry, executor_vars>>,
         Call \/ ExecuteLoad \/ ExecuteStore \/ Compute \/ ReturnFromCode
  PROVE  NativeInvariant'
<1>1. /\ status' = status /\ error' = error /\ state' = state /\ program' = program
      /\ entry' = entry /\ (ExecutorStops)' = ExecutorStops
  BY DEF executor_vars, ExecutorStops
<1>2. /\ native_status \in {"compiled", "running"} /\ status = "done"
      /\ code = CodeOf(program) /\ RegsShape /\ native_error = "None" /\ ExecutorStops
  BY DEF Call, ExecuteLoad, ExecuteStore, Compute, ReturnFromCode, Running, NativeInvariant
<1>3. Returns(code)
  <2>1. /\ Len(program) \in Nat /\ DOMAIN program = 1 .. Len(program)
        /\ \A i \in 1 .. Len(program) : Valid(program[i])
    BY <1>2, ProgramValid DEF ProgramOK, ExecutorInvariant
  <2> QED BY <1>2, <2>1, CodeShape
<1>4. Len(code) \in Nat \ {0}
  BY <1>3 DEF Returns
<1>5. CASE Call
  <2>1. /\ rip' = 1 /\ memory' = memory /\ regs' = regs /\ code' = code
        /\ native_error' = native_error /\ native_status' = "running"
        /\ memory = InMemory(entry)
    BY <1>5 DEF Call, NativeInvariant
  <2>2. Machine'.memory = InMemory(entry)
    BY <2>1, MachineFields
  <2>3. HasRun(code, entry, 1, Machine')
    BY <2>2, HasRunBegins
  <2>4. RegsShape'
    BY <1>2, <2>1 DEF RegsShape
  <2> QED BY <1>1, <1>2, <1>4, <2>1, <2>3, <2>4 DEF NativeInvariant
<1>6. CASE ReturnFromCode
  <2>1. /\ native_status = "running" /\ code[rip].op = "ret" /\ native_status' = "done"
        /\ UNCHANGED <<memory, native_error, code, regs>>
    BY <1>6 DEF ReturnFromCode, Running
  <2>2. rip \in 1 .. Len(code) /\ HasRun(code, entry, rip, Machine)
    BY <2>1 DEF NativeInvariant
  <2>3. rip = Len(code)
    <3>1. \A k \in 1 .. Len(code) - 1 : code[k].op # "ret"
      BY <1>3 DEF Returns, IsBody
    <3>2. rip \notin 1 .. Len(code) - 1
      BY <2>1, <3>1
    <3> QED BY <1>4, <2>2, <3>2
  <2>4. memory = InMemory(state)
    BY <1>2, <2>2, <2>3, CodeIsDone
  <2>5. RegsShape'
    BY <1>2, <2>1 DEF RegsShape
  <2> QED BY <1>1, <1>2, <2>1, <2>4, <2>5 DEF NativeInvariant
<1>7. CASE ExecuteLoad \/ ExecuteStore \/ Compute
  <2> DEFINE c == code[rip]
  <2>1. native_status = "running" /\ Native /\ c.op # "ret"
    BY <1>7 DEF ExecuteLoad, ExecuteStore, Compute, Running, Native
  <2>2. rip \in 1 .. Len(code) /\ HasRun(code, entry, rip, Machine)
    BY <2>1 DEF NativeInvariant
  <2>3. rip \in 1 .. Len(code) - 1
    <3>1. rip # Len(code)
      BY <1>3, <2>1 DEF Returns
    <3> QED BY <1>4, <2>2, <3>1
  <2>4. IsBody(c)
    BY <1>3, <2>3 DEF Returns
  <2> HIDE DEF c
  <2>5. c.op \in Loads \cup {"mov"} => c.register \in {"rax", "rdx", "xmm0", "xmm1"}
    BY <2>4 DEF IsBody, FitsRegister, Loads
  <2>6. c = code[rip]
    BY DEF c
  <2>7. /\ Effect(c, Machine, Machine') /\ RegsShape' /\ rip' = rip + 1
        /\ code' = code /\ native_status' = native_status /\ native_error' = native_error
    BY <1>2, <2>1, <2>5, <2>6, StepHasEffect
  <2>8. HasRun(code, entry, rip + 1, Machine')
    BY <2>2, <2>6, <2>7, HasRunNext
  <2>9. rip + 1 \in 1 .. Len(code)
    BY <1>4, <2>3
  <2> QED BY <1>1, <1>2, <2>1, <2>7, <2>8, <2>9 DEF NativeInvariant
<1> QED BY <1>5, <1>6, <1>7

(***************************************************************************)
(* The two together                                                         *)
(***************************************************************************)
\* The program is well formed, the executor has performed a prefix of it, and native
\* code, which begins when the executor is done, is at an instruction of its code.
PipelineInvariant == ProgramOK /\ ExecutorInvariant /\ NativeInvariant

\* Every step keeps the invariant.
LEMMA PipelineNext == PipelineInvariant /\ [Next]_vars => PipelineInvariant'
<1> SUFFICES ASSUME PipelineInvariant, [Next]_vars PROVE PipelineInvariant'
  OBVIOUS
<1>1. ProgramOK /\ ExecutorInvariant /\ NativeInvariant
  BY DEF PipelineInvariant
<1>2. program' = program /\ entry' = entry
  BY DEF Next, vars
<1>3. ProgramOK'
  BY <1>1, <1>2, ProgramStays
<1>4. CASE Executor /\ UNCHANGED native_vars
  BY <1>1, <1>2, <1>3, <1>4, ExecutorKeeps, NativeWaits DEF PipelineInvariant
<1>5. CASE ExecutorStops /\ Native /\ UNCHANGED executor_vars
  <2>1. ExecutorInvariant'
    BY <1>1, <1>2, <1>5, ExecutorStays
  <2>2. NativeInvariant'
    BY <1>1, <1>2, <1>5, NativeCompiles, NativeRuns DEF Native
  <2> QED BY <1>3, <2>1, <2>2 DEF PipelineInvariant
<1>6. CASE UNCHANGED vars
  <2>1. ExecutorInvariant'
    BY <1>1, <1>2, <1>6, ExecutorStays DEF vars
  <2>2. NativeInvariant'
    BY <1>1, <1>6, NativeStays
  <2> QED BY <1>3, <2>1, <2>2 DEF PipelineInvariant
<1> QED BY <1>4, <1>5, <1>6 DEF Next

\* In every run the executor has performed a prefix of a well-formed program, of which it
\* has rejected no instruction, and native code has run a prefix of the code of a program
\* that the executor accepts, from the guest state at the start.
THEOREM PipelineInvariance == Spec => []PipelineInvariant
<1>1. Init => PipelineInvariant
  BY ProgramInit, ExecutorInit, NativeInit DEF PipelineInvariant
<1> QED BY <1>1, PipelineNext, PTL DEF Spec

\* The executor and the backend give the same verdict on every program, and the code of
\* one that is accepted leaves the guest state of the executor, whatever the width of a
\* word, the number of registers, the program and the guest state.
THEOREM BackendsAgree == Spec => []NativeAgreesWithExecutor
<1>1. PipelineInvariant => NativeAgreesWithExecutor
  <2> SUFFICES ASSUME PipelineInvariant, ExecutorStops, NativeStops
               PROVE  /\ native_status = status /\ native_error = error
                      /\ memory = InMemory(IF status = "done" THEN state ELSE entry)
    BY DEF NativeAgreesWithExecutor
  <2>1. ExecutorInvariant /\ NativeInvariant
    BY DEF PipelineInvariant
  <2>2. CASE native_status = "done"
    BY <2>1, <2>2 DEF ExecutorInvariant, NativeInvariant
  <2>3. CASE native_status = "rejected"
    BY <2>1, <2>3 DEF ExecutorInvariant, NativeInvariant
  <2> QED BY <2>2, <2>3 DEF NativeStops
<1> QED BY PipelineInvariance, <1>1, PTL

\* Neither of them changes a cell that the program does not write, and both leave
\* register zero at zero, for every program.
THEOREM OthersAreKept == Spec => []OnlyDestinationsChange
<1>1. PipelineInvariant => OnlyDestinationsChange
  <2> SUFFICES ASSUME PipelineInvariant, ExecutorStops, NEW cell \in Cell
               PROVE  LET expected == IF cell[1] = "Gpr" /\ cell[2] = 0 THEN {} ELSE entry[cell]
                      IN  \/ cell \in MayWrite /\ ~ (cell[1] = "Gpr" /\ cell[2] = 0)
                          \/ /\ state[cell] = expected
                             /\ native_status = "done" => memory[CellOffset(cell)] = expected
    BY DEF OnlyDestinationsChange
  <2>1. Kept(program, entry, index, state)
    BY DEF PipelineInvariant, ExecutorInvariant
  <2>2. native_status = "done" => memory[CellOffset(cell)] = state[cell]
    BY MemoryOfCell DEF PipelineInvariant, NativeInvariant
  <2>3. CASE IsZero(cell)
    BY <2>1, <2>2, <2>3 DEF Kept, IsZero
  <2>4. CASE ~ IsZero(cell)
    <3>1. state[cell] = entry[cell] \/ cell \in MayWrite
      BY <2>1, <2>4 DEF Kept, MayWrite
    <3> QED BY <2>2, <2>4, <3>1 DEF IsZero
  <2> QED BY <2>3, <2>4
<1> QED BY PipelineInvariance, <1>1, PTL

(***************************************************************************)
(* Accesses and types                                                       *)
(***************************************************************************)
\* Native code is inside of what was emitted, and what it is about to read or write is
\* inside of the guest state: nothing but an offset in the code keeps it there.
NativeStaysInside ==
  native_status = "running" => rip \in DOMAIN code /\ StaysInside(code[rip])

\* Code that runs is at an instruction of a body, or at its return.
LEMMA RunningCode ==
  ASSUME PipelineInvariant, native_status = "running"
  PROVE  rip \in DOMAIN code /\ (IsBody(code[rip]) \/ code[rip].op = "ret")
<1>1. /\ ProgramOK /\ ExecutorInvariant /\ code = CodeOf(program) /\ status = "done"
      /\ rip \in 1 .. Len(code)
  BY DEF PipelineInvariant, NativeInvariant
<1>2. Returns(code)
  <2>1. /\ Len(program) \in Nat /\ DOMAIN program = 1 .. Len(program)
        /\ \A i \in 1 .. Len(program) : Valid(program[i])
    BY <1>1, ProgramValid DEF ProgramOK, ExecutorInvariant
  <2> QED BY <1>1, <2>1, CodeShape
<1> DEFINE n == Len(code)
<1>3. n \in Nat /\ rip \in 1 .. n
  BY <1>1, <1>2 DEF Returns
<1> HIDE DEF n
<1>4. rip = n \/ rip \in 1 .. n - 1
  BY ONLY <1>3
<1> QED BY <1>1, <1>2, <1>4 DEF Returns, n

\* No program, valid or not and whatever it holds, makes native code that reads or writes
\* outside of the guest state, or that runs past its return.
THEOREM AccessesStayInside == Spec => []NativeStaysInside
<1>1. PipelineInvariant => NativeStaysInside
  <2> SUFFICES ASSUME PipelineInvariant, native_status = "running"
               PROVE  rip \in DOMAIN code /\ StaysInside(code[rip])
    BY DEF NativeStaysInside
  <2>1. rip \in DOMAIN code /\ (IsBody(code[rip]) \/ code[rip].op = "ret")
    BY RunningCode
  <2> QED BY <2>1 DEF IsBody, StaysInside, Loads, Stores
<1> QED BY <1>1, PipelineInvariance, PTL

\* A value made of words.
IsWords(v) == Len(v) \in Nat /\ \A k \in 1 .. Len(v) : v[k] \in Word

\* Words from the operators of the executor.
LEMMA WordsOfOperators ==
  /\ {} \in Word /\ Bit \in Word
  /\ \A a, b : AddWord(a, b) \in Word /\ saturating_add_u32(a, b) \in Word
  /\ \A a, n : ShiftLeft(a, n) \in Word
  /\ \A a, b \in Word : a \cup b \in Word /\ a \cap b \in Word /\ Xor(a, b) \in Word
  /\ \A a \in Word : \A b : a \cap b \in Word
<1>1. {} \in Word /\ Bit \in Word
  BY DEF Word
<1>2. \A a, b : AddWord(a, b) \in Word
  BY DEF AddWord, Bits, Word
<1>3. \A a, b : saturating_add_u32(a, b) \in Word
  BY <1>1, <1>2 DEF saturating_add_u32
<1>4. \A a, n : ShiftLeft(a, n) \in Word
  BY DEF ShiftLeft, Word
<1>5. \A a, b \in Word : a \cup b \in Word /\ a \cap b \in Word /\ Xor(a, b) \in Word
  BY DEF Xor, Word
<1>6. \A a \in Word : \A b : a \cap b \in Word
  BY DEF Word
<1> QED BY <1>1, <1>2, <1>3, <1>4, <1>5, <1>6

\* Tuples of words.
LEMMA WordTuples ==
  /\ \A a \in Word : IsWords(<<a>>)
  /\ \A v \in SeqOfWords(2) : IsWords(v)
  /\ \A v \in SeqOfWords(4) : IsWords(v)
  /\ IsWords(Zero128)
<1>1. \A a \in Word : IsWords(<<a>>)
  BY DEF IsWords
<1>2. \A v \in SeqOfWords(2) : Len(v) = 2 /\ \A k \in 1 .. 2 : v[k] \in Word
  BY DEF SeqOfWords
<1>3. \A v \in SeqOfWords(4) : Len(v) = 4 /\ \A k \in 1 .. 4 : v[k] \in Word
  BY DEF SeqOfWords
<1>4. Zero128 \in SeqOfWords(4)
  BY WordsOfOperators DEF Zero128, SeqOfWords
<1> QED BY <1>1, <1>2, <1>3, <1>4 DEF IsWords

\* What an instruction computes from a guest state of words is made of words.
LEMMA ValueOfWords ==
  ASSUME NEW s \in [Cell -> Word], NEW ir, Valid(ir), ir # Nop
  PROVE  IsWords(Value(s, ir))
<1> DEFINE lhs == ir.inputs[1]
           rhs == ir.inputs[2]
           a == read_operand_value(s, lhs)
           b == read_operand_value(s, rhs)
<1>1. ASSUME NEW r \in Register
      PROVE  /\ s[<<"Fpr", r, 0>>] \in Word
             /\ \A lane \in 0 .. 3 : s[<<"Gpr", r, lane>>] \in Word
  <2>1. <<"Fpr", r, 0>> \in Cell /\ \A lane \in 0 .. 3 : <<"Gpr", r, lane>> \in Cell
    BY DEF Cell
  <2> QED BY <2>1
<1>2. ASSUME NEW operand, IsOperand(operand, {"Gpr", "Immediate"})
      PROVE  read_operand_value(s, operand) \in SeqOfWords(2)
  <2>1. CASE operand.kind = "Gpr"
    <3> DEFINE r == operand.index
    <3>1. r \in Register
      BY <1>2, <2>1 DEF IsOperand
    <3>2. read_operand_value(s, operand) = <<s[<<"Gpr", r, 0>>], s[<<"Gpr", r, 1>>]>>
      BY <2>1 DEF read_operand_value
    <3> HIDE DEF r
    <3>3. s[<<"Gpr", r, 0>>] \in Word /\ s[<<"Gpr", r, 1>>] \in Word
      <4>1. 0 \in 0 .. 3 /\ 1 \in 0 .. 3
        OBVIOUS
      <4> QED BY <1>1, <3>1, <4>1
    <3> QED BY <3>2, <3>3, Pairs
  <2>2. CASE operand.kind = "Immediate"
    BY <1>2, <2>2 DEF IsOperand, read_operand_value
  <2> QED BY <1>2, <2>1, <2>2 DEF IsOperand
<1>3. \A operand : IsOperand(operand, {"Gpr"}) \/ IsOperand(operand, {"Immediate"}) =>
        IsOperand(operand, {"Gpr", "Immediate"})
  BY DEF IsOperand
<1>4. CASE ir.opcode = "AddWordSignExtend"
  <2>1. Value(s, ir) = sign_extend_word(AddWord(a[1], b[1]))
    BY <1>4 DEF Value
  <2> QED BY <2>1, WordsOfOperators, Pairs, WordTuples
<1>5. CASE ir.opcode \in {"Or64", "And64"}
  <2>1. /\ IsOperand(lhs, {"Gpr", "Immediate"}) /\ IsOperand(rhs, {"Gpr", "Immediate"})
    BY <1>3, <1>5 DEF Valid
  <2>2. a \in SeqOfWords(2) /\ b \in SeqOfWords(2)
    BY <1>2, <2>1
  <2>3. Value(s, ir) = IF ir.opcode = "Or64" THEN <<a[1] \cup b[1], a[2] \cup b[2]>>
                                             ELSE <<a[1] \cap b[1], a[2] \cap b[2]>>
    BY <1>5 DEF Value
  <2> HIDE DEF a, b
  <2>4. a[1] \in Word /\ a[2] \in Word /\ b[1] \in Word /\ b[2] \in Word
    BY <2>2, Pairs
  <2>5. /\ <<a[1] \cup b[1], a[2] \cup b[2]>> \in SeqOfWords(2)
        /\ <<a[1] \cap b[1], a[2] \cap b[2]>> \in SeqOfWords(2)
    BY <2>4, WordsOfOperators, Pairs
  <2> QED BY <2>3, <2>5, WordTuples
<1>6. CASE ir.opcode = "LoadUpperImmediateSignExtend"
  <2>1. Value(s, ir) = sign_extend_word(ShiftLeft(a[1] \cap HalfBit, WordBits \div 2))
    BY <1>6 DEF Value
  <2> QED BY <2>1, WordsOfOperators, Pairs, WordTuples
<1>7. CASE ir.opcode = "MoveGprLow64"
  <2>1. IsOperand(lhs, {"Gpr", "Immediate"})
    BY <1>3, <1>7 DEF Valid
  <2>2. Value(s, ir) = a
    BY <1>7 DEF Value
  <2> QED BY <1>2, <2>1, <2>2, WordTuples
<1>8. CASE ir.opcode = "ComputeMtsah"
  <2>1. Value(s, ir) = <<ShiftLeft(Xor(a[1] \cap Low3, b[1] \cap Low3), 1)>>
    BY <1>8 DEF Value
  <2> QED BY <2>1, WordsOfOperators, WordTuples
<1>9. CASE ir.opcode = "AddPackedU32Saturate128"
  <2> DEFINE v == [lane \in 1 .. 4 |-> saturating_add_u32(GprLanes(s, lhs)[lane],
                                                          GprLanes(s, rhs)[lane])]
  <2>1. Value(s, ir) = v
    BY <1>9 DEF Value
  <2>2. v \in SeqOfWords(4)
    BY WordsOfOperators DEF SeqOfWords
  <2> QED BY <2>1, <2>2, WordTuples
<1>10. CASE ir.opcode = "MoveBits32"
  <2>1. IsOperand(lhs, {"Gpr", "Immediate"})
    BY <1>3, <1>10 DEF Valid
  <2>2. a \in SeqOfWords(2)
    BY <1>2, <2>1
  <2>3. Value(s, ir) = <<a[1]>>
    BY <1>10 DEF Value
  <2> HIDE DEF a
  <2> QED BY <2>2, <2>3, Pairs, WordTuples
<1>11. CASE ir.opcode = "AddF32ToAccumulator"
  <2>1. lhs.index \in Register /\ rhs.index \in Register
    BY <1>11 DEF Valid, IsOperand
  <2> DEFINE x == s[<<"Fpr", lhs.index, 0>>]
             y == s[<<"Fpr", rhs.index, 0>>]
  <2>2. x \in Word /\ y \in Word
    BY <1>1, <2>1
  <2>3. Value(s, ir) = <<FloatAdd(x, y)>>
    BY <1>11 DEF Value
  <2> HIDE DEF x, y
  <2>4. FloatAdd(x, y) \in Word
    BY <2>2, FloatAssumption
  <2> QED BY <2>3, <2>4, WordTuples
<1> QED BY <1>4, <1>5, <1>6, <1>7, <1>8, <1>9, <1>10, <1>11 DEF Valid

\* A guest state of words remains one when words are written to it.
LEMMA WrittenOfWords ==
  ASSUME NEW s \in [Cell -> Word], NEW d, NEW v, IsWords(v)
  PROVE  Written(s, d, v) \in [Cell -> Word]
<1>1. \A cell \in Cell : cell[3] \in Nat
  BY DEF Cell
<1>2. ASSUME NEW cell \in Cell, cell[3] < Len(v) PROVE v[cell[3] + 1] \in Word
  <2>1. cell[3] + 1 \in 1 .. Len(v)
    BY <1>1, <1>2 DEF IsWords
  <2> QED BY <2>1 DEF IsWords
<1> QED BY <1>2 DEF Written

\* So does it when an instruction is performed.
LEMMA PerformedOfWords ==
  ASSUME NEW s \in [Cell -> Word]
  PROVE  /\ normalize_zero(s) \in [Cell -> Word]
         /\ \A ir : Valid(ir) => Performed(s, ir) \in [Cell -> Word]
<1>1. normalize_zero(s) \in [Cell -> Word]
  BY WrittenOfWords, WordTuples DEF normalize_zero
<1>2. ASSUME NEW ir, Valid(ir) PROVE Performed(s, ir) \in [Cell -> Word]
  <2>1. CASE ir = Nop \/ ir.destination = destination("Gpr", 0)
    BY <2>1 DEF Performed
  <2>2. CASE ir # Nop /\ ir.destination # destination("Gpr", 0)
    <3>1. IsWords(Value(s, ir))
      BY <1>2, <2>2, ValueOfWords
    <3>2. Performed(s, ir) = Written(s, ir.destination, Value(s, ir))
      BY <2>2 DEF Performed
    <3> QED BY <3>1, <3>2, WrittenOfWords
  <2> QED BY <2>1, <2>2
<1> QED BY <1>1, <1>2

\* The executor keeps a guest state of words.
LEMMA ExecutorOfWords ==
  ASSUME ProgramOK, ExecutorInvariant, Executor, state \in [Cell -> Word]
  PROVE  state' \in [Cell -> Word]
<1>1. CASE BeginExecution \/ Reject \/ EndExecution
  <2>1. state' = normalize_zero(state)
    BY <1>1 DEF BeginExecution, Reject, EndExecution
  <2> QED BY <2>1, PerformedOfWords
<1>2. CASE Perform
  <2>1. /\ index < Len(program) /\ VerdictAt(index + 1) = "None"
        /\ state' = Performed(state, program[index + 1])
    BY <1>2 DEF Perform, Verdict, VerdictAt
  <2>2. index + 1 \in 1 .. Len(program)
    <3> DEFINE n == Len(program)
    <3>1. n \in Nat /\ index \in 0 .. n /\ index < n
      BY <2>1 DEF ProgramOK, ExecutorInvariant
    <3> HIDE DEF n
    <3>2. index + 1 \in 1 .. n
      BY ONLY <3>1
    <3> QED BY <3>2 DEF n
  <2>3. Valid(program[index + 1])
    BY <2>1, <2>2, ProgramValid
  <2> QED BY <2>1, <2>3, PerformedOfWords
<1> QED BY <1>1, <1>2 DEF Executor

\* A guest state of words is one in memory too.
LEMMA MemoryOfWords ==
  ASSUME NEW s \in [Cell -> Word]
  PROVE  InMemory(s) \in [Offset -> Word]
<1>1. ASSUME NEW offset \in Offset
      PROVE  LET cells == {cell \in Cell : CellOffset(cell) = offset}
             IN  (IF cells = {} THEN {} ELSE s[CHOOSE cell \in cells : TRUE]) \in Word
  <2> DEFINE cells == {cell \in Cell : CellOffset(cell) = offset}
  <2>1. cells # {} => (CHOOSE cell \in cells : TRUE) \in Cell
    OBVIOUS
  <2> HIDE DEF cells
  <2>2. (IF cells = {} THEN {} ELSE s[CHOOSE cell \in cells : TRUE]) \in Word
    BY <2>1, WordsOfOperators
  <2> QED BY <2>2 DEF cells
<1> QED BY <1>1 DEF InMemory

\* Words that are read from memory.
LEMMA LoadedOfWords ==
  ASSUME NEW m \in [Offset -> Word], NEW offset, NEW width \in Nat \ {0}, Room(offset, width)
  PROVE  m[offset] \in Word /\ LanesOf(m, offset, width) \in SeqOfWords(width)
<1> DEFINE last == fp_acc_offset + 1
<1>1. last \in Nat /\ Offset = 0 .. last
  BY FieldOffsets, WidthAssumption DEF Offset
<1> HIDE DEF last
<1>2. offset \in Nat /\ offset + width - 1 \in Offset
  BY DEF Room
<1>3. offset \in Offset /\ \A lane \in 1 .. width : offset + lane - 1 \in Offset
  BY <1>1, <1>2
<1>4. \A lane \in 1 .. width : m[offset + lane - 1] \in Word
  BY <1>3
<1> QED BY <1>3, <1>4 DEF LanesOf, SeqOfWords

\* Memory of words remains so when words are stored in it.
LEMMA StoredOfWords ==
  ASSUME NEW m \in [Offset -> Word], NEW offset \in Nat, NEW v, IsWords(v)
  PROVE  Stored(m, offset, v) \in [Offset -> Word]
<1>1. \A o \in Offset : o \in Nat
  BY FieldOffsets, WidthAssumption DEF Offset
<1>2. ASSUME NEW o \in Offset, o \in offset .. offset + Len(v) - 1
      PROVE  v[o - offset + 1] \in Word
  <2>1. o - offset + 1 \in 1 .. Len(v)
    BY <1>1, <1>2 DEF IsWords
  <2> QED BY <2>1 DEF IsWords
<1> QED BY <1>2 DEF Stored

\* Registers made of words.
HasWords(r) ==
  /\ r.rax \in SeqOfWords(2) /\ r.rdx \in SeqOfWords(2)
  /\ r.xmm0 \in SeqOfWords(4) /\ r.xmm1 \in SeqOfWords(4)

\* Registers with these values have words if the values do.
LEMMA RegsOfWords ==
  ASSUME NEW r, NEW a \in SeqOfWords(2), NEW d \in SeqOfWords(2), NEW f,
         NEW x \in SeqOfWords(4), NEW y \in SeqOfWords(4), IsRegs(r, a, d, f, x, y)
  PROVE  HasWords(r)
<1>1. r.rax = a /\ r.rdx = d /\ r.xmm0 = x /\ r.xmm1 = y
  BY RegsComponents
<1> QED BY <1>1 DEF HasWords

\* A load puts words into a register that has their width.
LEMMA LoadOfWords ==
  ASSUME RegsShape, HasWords(regs), memory \in [Offset -> Word], IsBody(code[rip]), ExecuteLoad
  PROVE  HasWords(regs') /\ memory' = memory
<1> DEFINE c == code[rip]
<1>1. PICK op \in Loads :
        /\ Running(op)
        /\ regs' = [regs EXCEPT ![code[rip].register] =
             CASE op = "load32"   -> Low(memory[code[rip].offset])
               [] op = "load64"   -> Lanes(code[rip].offset, 2)
               [] op = "load128"  -> Lanes(code[rip].offset, 4)
               [] op = "load f32" -> <<memory[code[rip].offset], {}, {}, {}>>]
        /\ UNCHANGED memory
  BY DEF ExecuteLoad, Loads
<1> DEFINE v == CASE op = "load32"   -> Low(memory[c.offset])
                  [] op = "load64"   -> Lanes(c.offset, 2)
                  [] op = "load128"  -> Lanes(c.offset, 4)
                  [] op = "load f32" -> <<memory[c.offset], {}, {}, {}>>
<1>2. regs' = [regs EXCEPT ![c.register] = v] /\ c.op = op
  BY <1>1 DEF Running
<1>3. Room(c.offset, AccessWidth(op)) /\ FitsRegister(c)
  BY <1>2 DEF IsBody, StaysInside
<1>4. \A o, n : Lanes(o, n) = LanesOf(memory, o, n)
  BY DEF Lanes, LanesOf
<1>5. /\ op = "load32"   => v = Low(memory[c.offset])
      /\ op = "load64"   => v = LanesOf(memory, c.offset, 2)
      /\ op = "load128"  => v = LanesOf(memory, c.offset, 4)
      /\ op = "load f32" => v = <<memory[c.offset], {}, {}, {}>>
  BY <1>4
<1> HIDE DEF c, v
<1>6. CASE op \in {"load32", "load64"}
  <2>1. v \in SeqOfWords(2)
    <3>1. CASE op = "load32"
      <4>1. Room(c.offset, 1)
        BY <1>3, <3>1 DEF AccessWidth
      <4>2. memory[c.offset] \in Word
        BY <4>1, LoadedOfWords
      <4> QED BY <1>5, <3>1, <4>2, Pairs
    <3>2. CASE op = "load64"
      <4>1. Room(c.offset, 2)
        BY <1>3, <3>2 DEF AccessWidth
      <4>2. LanesOf(memory, c.offset, 2) \in SeqOfWords(2)
        BY <4>1, LoadedOfWords
      <4> QED BY <1>5, <3>2, <4>2
    <3> QED BY <1>6, <3>1, <3>2
  <2>2. c.register \in {"rax", "rdx"}
    BY <1>2, <1>3, <1>6 DEF FitsRegister
  <2>3. CASE c.register = "rax"
    <3>1. IsRegs(regs', v, regs.rdx, regs.carry, regs.xmm0, regs.xmm1)
      BY <1>2, <2>3, Writes
    <3> QED BY <1>1, <2>1, <3>1, RegsOfWords DEF HasWords
  <2>4. CASE c.register = "rdx"
    <3>1. IsRegs(regs', regs.rax, v, regs.carry, regs.xmm0, regs.xmm1)
      BY <1>2, <2>4, Writes
    <3> QED BY <1>1, <2>1, <3>1, RegsOfWords DEF HasWords
  <2> QED BY <2>2, <2>3, <2>4
<1>7. CASE op \in {"load128", "load f32"}
  <2>1. v \in SeqOfWords(4)
    <3>1. CASE op = "load128"
      <4>1. Room(c.offset, 4)
        BY <1>3, <3>1 DEF AccessWidth
      <4>2. LanesOf(memory, c.offset, 4) \in SeqOfWords(4)
        BY <4>1, LoadedOfWords
      <4> QED BY <1>5, <3>1, <4>2
    <3>2. CASE op = "load f32"
      <4>1. Room(c.offset, 1)
        BY <1>3, <3>2 DEF AccessWidth
      <4>2. memory[c.offset] \in Word
        BY <4>1, LoadedOfWords
      <4>3. \A w \in Word : <<w, {}, {}, {}>> \in SeqOfWords(4)
        BY DEF SeqOfWords, Word
      <4> QED BY <1>5, <3>2, <4>2, <4>3
    <3> QED BY <1>7, <3>1, <3>2
  <2>2. c.register \in {"xmm0", "xmm1"}
    BY <1>2, <1>3, <1>7 DEF FitsRegister
  <2>3. CASE c.register = "xmm0"
    <3>1. IsRegs(regs', regs.rax, regs.rdx, regs.carry, v, regs.xmm1)
      BY <1>2, <2>3, Writes
    <3> QED BY <1>1, <2>1, <3>1, RegsOfWords DEF HasWords
  <2>4. CASE c.register = "xmm1"
    <3>1. IsRegs(regs', regs.rax, regs.rdx, regs.carry, regs.xmm0, v)
      BY <1>2, <2>4, Writes
    <3> QED BY <1>1, <2>1, <3>1, RegsOfWords DEF HasWords
  <2> QED BY <2>2, <2>3, <2>4
<1> QED BY <1>1, <1>6, <1>7 DEF Loads

\* A value of four words is a sequence of four.
LEMMA Quads ==
  /\ \A v \in SeqOfWords(4) : v \in Seq(Word) /\ Len(v) = 4 /\ v[1] \in Word
  /\ \A v \in Seq(Word) : Len(v) = 4 => v \in SeqOfWords(4)
<1> DEFINE n == 4
<1>1. n \in Nat /\ 1 \in 1 .. n
  OBVIOUS
<1> HIDE DEF n
<1>2. \A v \in [1 .. n -> Word] : v \in Seq(Word) /\ Len(v) = n /\ v[1] \in Word
  BY <1>1
<1>3. \A v \in Seq(Word) : Len(v) = n => v \in [1 .. n -> Word]
  OBVIOUS
<1> QED BY <1>2, <1>3 DEF n, SeqOfWords

\* A store puts words into memory.
LEMMA StoreOfWords ==
  ASSUME HasWords(regs), memory \in [Offset -> Word], IsBody(code[rip]), ExecuteStore
  PROVE  memory' \in [Offset -> Word] /\ regs' = regs
<1> DEFINE c == code[rip]
<1>1. PICK op \in Stores :
        /\ Running(op)
        /\ LET offset == code[rip].offset
               words  == CASE op = "store32"   -> <<eax>>
                           [] op = "store64"   -> regs.rax
                           [] op = "store f32" -> <<regs.xmm0[1]>>
           IN  memory' = [o \in Offset |-> IF o \in offset .. offset + Len(words) - 1
                                           THEN words[o - offset + 1] ELSE memory[o]]
        /\ UNCHANGED regs
  BY DEF ExecuteStore, Stores
<1> DEFINE v == CASE op = "store32"   -> <<eax>>
                  [] op = "store64"   -> regs.rax
                  [] op = "store f32" -> <<regs.xmm0[1]>>
<1>2. memory' = Stored(memory, c.offset, v)
  BY <1>1, Zenon DEF Stored
<1>3. c.offset \in Nat
  BY <1>1 DEF IsBody, StaysInside, Room, Running
<1>4. IsWords(v)
  <2>1. CASE op = "store32"
    <3>1. v = <<regs.rax[1]>> /\ regs.rax[1] \in Word
      BY <2>1, Pairs DEF eax, HasWords
    <3> QED BY <3>1, WordTuples
  <2>2. CASE op = "store64"
    <3>1. v = regs.rax /\ regs.rax \in SeqOfWords(2)
      BY <2>2 DEF HasWords
    <3> QED BY <3>1, WordTuples
  <2>3. CASE op = "store f32"
    <3>1. v = <<regs.xmm0[1]>>
      BY <2>3
    <3>2. regs.xmm0[1] \in Word
      BY Quads DEF HasWords
    <3> QED BY <3>1, <3>2, WordTuples
  <2> QED BY <2>1, <2>2, <2>3 DEF Stores
<1>5. regs' = regs
  BY <1>1
<1> HIDE DEF c, v
<1> QED BY <1>2, <1>3, <1>4, <1>5, StoredOfWords

\* A shift by a lane brings a zero in.
LEMMA ShiftOfWords ==
  ASSUME NEW x \in SeqOfWords(4)
  PROVE  Append(Tail(x), {}) \in SeqOfWords(4)
<1>1. x \in Seq(Word) /\ Len(x) = 4
  BY Quads
<1>2. Tail(x) \in Seq(Word) /\ Len(Tail(x)) = 3
  BY <1>1, TailOfFour
<1>3. Append(Tail(x), {}) \in Seq(Word) /\ Len(Append(Tail(x), {})) = 4
  BY <1>2, WordsOfOperators, AppendToThree
<1> QED BY <1>3, Quads

\* An operation on registers makes words of words.
LEMMA ComputeOfWords ==
  ASSUME RegsShape, HasWords(regs), memory \in [Offset -> Word], IsBody(code[rip]), Compute
  PROVE  HasWords(regs') /\ memory' = memory
<1> DEFINE c == code[rip]
           a == regs.rax
           d == regs.rdx
           x == regs.xmm0
           y == regs.xmm1
           R(p, q, g, v, w) == IsRegs(regs', p, q, g, v, w)
<1>1. PICK op \in Computes : Running(op) /\ regs' = Computed(op) /\ UNCHANGED memory
  BY DEF Compute, Computes
<1>2. c.op = op /\ memory' = memory
  BY <1>1 DEF Running
<1>3. /\ a \in SeqOfWords(2) /\ d \in SeqOfWords(2)
      /\ x \in SeqOfWords(4) /\ y \in SeqOfWords(4)
  BY DEF HasWords
<1>4. a[1] \in Word /\ a[2] \in Word /\ d[1] \in Word /\ d[2] \in Word
  BY <1>3, Pairs
<1>5. x[1] \in Word /\ y[1] \in Word
  BY <1>3 DEF SeqOfWords
<1>6. \A p, q \in SeqOfWords(2) : \A g : \A v, w \in SeqOfWords(4) :
        R(p, q, g, v, w) => HasWords(regs')
  BY RegsOfWords
<1>7. CASE op = "mov"
  <2>1. regs' = [regs EXCEPT ![c.register] = c.value]
    BY <1>1, <1>7 DEF Computed
  <2>2. c.register \in {"rax", "rdx"} /\ c.value \in SeqOfWords(2)
    BY <1>2, <1>7 DEF IsBody, FitsRegister
  <2>3. \/ R(c.value, d, regs.carry, x, y)
        \/ R(a, c.value, regs.carry, x, y)
    BY <2>1, <2>2, Writes
  <2> QED BY <1>2, <1>3, <1>6, <2>2, <2>3
<1>8. CASE op \in {"xor eax, eax", "add eax, edx", "or rax, rdx", "and rax, rdx",
                   "and eax, 7", "xor eax", "shl eax, 1", "or eax, edx"}
  <2>1. op = "xor eax" => c.value \in Word
    BY <1>2 DEF IsBody, FitsRegister
  <2>2. /\ op = "xor eax, eax" => R(Low({}), d, FALSE, x, y)
        /\ op = "add eax, edx" => R(Low(AddWord(a[1], d[1])), d, Carries(a[1], d[1]), x, y)
        /\ op = "or rax, rdx"  => R(<<a[1] \cup d[1], a[2] \cup d[2]>>, d, FALSE, x, y)
        /\ op = "and rax, rdx" => R(<<a[1] \cap d[1], a[2] \cap d[2]>>, d, FALSE, x, y)
        /\ op = "and eax, 7"   => R(Low(a[1] \cap Low3), d, FALSE, x, y)
        /\ op = "xor eax"      => R(Low(Xor(a[1], c.value)), d, FALSE, x, y)
        /\ op = "shl eax, 1"   => R(Low(ShiftLeft(a[1], 1)), d, WordBits - 1 \in a[1], x, y)
        /\ op = "or eax, edx"  => R(Low(a[1] \cup d[1]), d, FALSE, x, y)
    BY ONLY RegsShape, <1>1, Computations
  <2>3. /\ Low({}) \in SeqOfWords(2) /\ Low(AddWord(a[1], d[1])) \in SeqOfWords(2)
        /\ <<a[1] \cup d[1], a[2] \cup d[2]>> \in SeqOfWords(2)
        /\ <<a[1] \cap d[1], a[2] \cap d[2]>> \in SeqOfWords(2)
        /\ Low(a[1] \cap Low3) \in SeqOfWords(2)
        /\ c.value \in Word => Low(Xor(a[1], c.value)) \in SeqOfWords(2)
        /\ Low(ShiftLeft(a[1], 1)) \in SeqOfWords(2)
        /\ Low(a[1] \cup d[1]) \in SeqOfWords(2)
    <3> HIDE DEF a, d, c
    <3> QED BY ONLY <1>4, WordsOfOperators, Pairs
  <2>4. \E p \in SeqOfWords(2) : \E g : R(p, d, g, x, y)
    <3> HIDE DEF R, a, d, x, y, c
    <3> QED BY ONLY <1>8, <2>1, <2>2, <2>3
  <2> QED BY <1>2, <1>3, <1>6, <2>4
<1>9. CASE op \in {"cdqe", "sbb edx, edx", "movd eax, xmm0", "movd edx, xmm1"}
  <2>1. /\ op = "cdqe" => R(sign_extend_word(a[1]), d, regs.carry, x, y)
        /\ op = "sbb edx, edx" => R(a, Low(IF regs.carry THEN Bit ELSE {}), regs.carry, x, y)
        /\ op = "movd eax, xmm0" => R(Low(x[1]), d, regs.carry, x, y)
        /\ op = "movd edx, xmm1" => R(a, Low(y[1]), regs.carry, x, y)
    BY ONLY RegsShape, <1>1, Computations
  <2>2. /\ sign_extend_word(a[1]) \in SeqOfWords(2) /\ Low(x[1]) \in SeqOfWords(2)
        /\ Low(y[1]) \in SeqOfWords(2)
        /\ Low(IF regs.carry THEN Bit ELSE {}) \in SeqOfWords(2)
    <3> HIDE DEF a, x, y
    <3> QED BY <1>4, <1>5, WordsOfOperators, Pairs
  <2>3. \E p, q \in SeqOfWords(2) : \E g : R(p, q, g, x, y)
    <3> HIDE DEF R, a, d, x, y
    <3> QED BY ONLY <1>3, <1>9, <2>1, <2>2
  <2> QED BY <1>2, <1>3, <1>6, <2>3
<1>10. CASE op = "psrldq xmm0, xmm1"
  <2>1. R(a, d, regs.carry, Append(Tail(x), {}), Append(Tail(y), {}))
    BY ONLY RegsShape, <1>1, <1>10, Computations
  <2>2. Append(Tail(x), {}) \in SeqOfWords(4) /\ Append(Tail(y), {}) \in SeqOfWords(4)
    BY <1>3, ShiftOfWords
  <2> QED BY <1>2, <1>3, <1>6, <2>1, <2>2
<1>11. CASE op = "add f32"
  <2> DEFINE z == memory[c.offset]
             sum == [x EXCEPT ![1] = FloatAdd(x[1], z)]
  <2>1. R(a, d, regs.carry, sum, y)
    BY ONLY RegsShape, <1>1, <1>11, Computations
  <2>2. Room(c.offset, 1)
    BY <1>2, <1>11 DEF IsBody, StaysInside, AccessWidth
  <2>3. z \in Word
    BY <2>2, LoadedOfWords
  <2>4. FloatAdd(x[1], z) \in Word
    BY <1>5, <2>3, FloatAssumption
  <2>5. sum \in SeqOfWords(4)
    BY <1>3, <2>4 DEF SeqOfWords
  <2> HIDE DEF sum
  <2> QED BY <1>2, <1>3, <1>6, <2>1, <2>5
<1> QED BY <1>1, <1>7, <1>8, <1>9, <1>10, <1>11 DEF Computes

\* Guest state, memory and registers are made of words.
OfWords == state \in [Cell -> Word] /\ memory \in [Offset -> Word] /\ HasWords(regs)

\* At the start.
LEMMA OfWordsInit == Init => OfWords
<1> SUFFICES ASSUME Init PROVE OfWords
  OBVIOUS
<1>1. state \in [Cell -> Word] /\ memory \in [Offset -> Word]
  BY StateAssumption, MemoryOfWords DEF Init
<1>2. regs = [rax |-> Low({}), rdx |-> Low({}), carry |-> FALSE,
              xmm0 |-> Zero128, xmm1 |-> Zero128]
  BY DEF Init
<1>3. Low({}) \in SeqOfWords(2) /\ Zero128 \in SeqOfWords(4)
  BY WordsOfOperators, Pairs DEF Zero128, SeqOfWords
<1>4. HasWords(regs)
  BY <1>2, <1>3 DEF HasWords
<1> QED BY <1>1, <1>4 DEF OfWords

\* And after every step, of the executor or of native code.
LEMMA OfWordsNext == PipelineInvariant /\ OfWords /\ [Next]_vars => OfWords'
<1> SUFFICES ASSUME PipelineInvariant, OfWords, [Next]_vars PROVE OfWords'
  OBVIOUS
<1>1. state \in [Cell -> Word] /\ memory \in [Offset -> Word] /\ HasWords(regs)
  BY DEF OfWords
<1>2. CASE Executor /\ UNCHANGED native_vars
  <2>1. state' \in [Cell -> Word]
    BY <1>1, <1>2, ExecutorOfWords DEF PipelineInvariant
  <2>2. memory' = memory /\ regs' = regs
    BY <1>2 DEF native_vars
  <2> QED BY <1>1, <2>1, <2>2 DEF OfWords
<1>3. CASE Native /\ UNCHANGED executor_vars
  <2>1. state' = state
    BY <1>3 DEF executor_vars
  <2>2. CASE CompileRejects \/ CompileProgram \/ Call \/ ReturnFromCode
    <3>1. memory' = memory /\ regs' = regs
      BY <2>2 DEF CompileRejects, CompileProgram, Call, ReturnFromCode
    <3> QED BY <1>1, <2>1, <3>1 DEF OfWords
  <2>3. CASE ExecuteLoad \/ ExecuteStore \/ Compute
    <3>1. native_status = "running" /\ code[rip].op # "ret"
      BY <2>3 DEF ExecuteLoad, ExecuteStore, Compute, Running
    <3>2. RegsShape /\ IsBody(code[rip])
      BY <3>1, RunningCode DEF PipelineInvariant, NativeInvariant
    <3>3. memory' \in [Offset -> Word] /\ HasWords(regs')
      BY <1>1, <2>3, <3>2, LoadOfWords, StoreOfWords, ComputeOfWords
    <3>4. HasWords(regs)'
      BY <3>3 DEF HasWords
    <3> QED BY <1>1, <2>1, <3>3, <3>4 DEF OfWords
  <2> QED BY <1>3, <2>2, <2>3 DEF Native
<1>4. CASE UNCHANGED vars
  BY <1>1, <1>4 DEF vars, executor_vars, native_vars, OfWords
<1> QED BY <1>2, <1>3, <1>4 DEF Next

\* No instruction, of either machine, makes a value wider than the place it is kept in,
\* and code that runs always has a next instruction.
THEOREM TypeCorrectness == Spec => []TypeOK
<1>1. Init => PipelineInvariant /\ OfWords
  BY ProgramInit, ExecutorInit, NativeInit, OfWordsInit DEF PipelineInvariant
<1>2. PipelineInvariant /\ OfWords /\ [Next]_vars => (PipelineInvariant /\ OfWords)'
  BY PipelineNext, OfWordsNext
<1>3. PipelineInvariant /\ OfWords => TypeOK
  <2> SUFFICES ASSUME PipelineInvariant, OfWords PROVE TypeOK
    OBVIOUS
  <2>1. native_status = "running" => rip \in DOMAIN code
    BY RunningCode
  <2> QED BY <2>1 DEF TypeOK, OfWords, HasWords, PipelineInvariant, ExecutorInvariant,
                      NativeInvariant
<1> QED BY <1>1, <1>2, <1>3, PTL DEF Spec
=============================================================================
