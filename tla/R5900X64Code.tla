---------------------------- MODULE R5900X64Code ----------------------------
(***************************************************************************)
(* The code that compile_r5900_ir_x64 emits, and what it does:              *)
(* src/src/recompiler/windows/r5900_x64_backend.cpp.                        *)
(*                                                                          *)
(* An x64 instruction is a record in place of its encoding.  Native code    *)
(* sees the guest state as memory behind rcx, at the offsets of the fields  *)
(* of R5900IrExecutionState, here in words: a store that is too wide or at  *)
(* a wrong offset changes a neighbour.                                      *)
(***************************************************************************)
EXTENDS R5900IrExecutor

VARIABLES
  memory,         \* the guest state as memory
  native_status,  \* "ready", "compiled", "running", "done" or "rejected"
  native_error,   \* the error of the compile result
  code,           \* the code emitted
  rip,            \* the instruction native code is at
  regs            \* the registers that it uses

native_vars == <<memory, native_status, native_error, code, rip, regs>>

(***************************************************************************)
(* The layout of R5900IrExecutionState                                      *)
(***************************************************************************)
gpr_offset(r) == 4 * r
hi_offset  == 4 * RegisterCount
lo_offset  == hi_offset + 2
hi1_offset == lo_offset + 2
lo1_offset == hi1_offset + 2
sa_offset  == lo1_offset + 2
fpr_offset(r) == sa_offset + 1 + r
fcr31_offset  == fpr_offset(RegisterCount)
fp_acc_offset == fcr31_offset + 1

\* Each field, and a word of padding.
Offset == 0 .. fp_acc_offset + 1

FieldOffset(kind, r) ==
  CASE kind = "Gpr" -> gpr_offset(r)
    [] kind = "Hi"  -> hi_offset    [] kind = "Lo"  -> lo_offset
    [] kind = "Hi1" -> hi1_offset   [] kind = "Lo1" -> lo1_offset
    [] kind = "Sa"  -> sa_offset    [] kind = "Fpr" -> fpr_offset(r)
    [] kind = "Fcr31" -> fcr31_offset [] kind = "FpAccumulator" -> fp_acc_offset

CellOffset(cell) == FieldOffset(cell[1], cell[2]) + cell[3]

(***************************************************************************)
(* Emitters                                                                 *)
(***************************************************************************)
Load(op, register, offset) == [op |-> op, register |-> register, offset |-> offset]
Move(op, register, value) == [op |-> op, register |-> register, value |-> value]
Store(op, offset) == [op |-> op, offset |-> offset]
Op(op) == [op |-> op]

emit_operand32(register, operand) ==
  IF operand.kind = "Gpr" THEN Load("load32", register, gpr_offset(operand.index))
                          ELSE Move("mov", register, <<operand.value[1], {}>>)

emit_operand64(register, operand) ==
  IF operand.kind = "Gpr" THEN Load("load64", register, gpr_offset(operand.index))
                          ELSE Move("mov", register, operand.value)

emit_zero_gpr0 ==
  <<Op("xor eax, eax"), Store("store64", gpr_offset(0)), Store("store64", gpr_offset(0) + 2)>>

\* A store that is not emitted when it would write register zero.
UnlessZero(ir, store) == IF ir.destination.index = 0 THEN <<>> ELSE <<store>>

StoreLow64(ir) == UnlessZero(ir, Store("store64", gpr_offset(ir.destination.index)))

emit_add_word_sign_extend(ir) ==
  <<emit_operand32("rax", ir.inputs[1]), emit_operand32("rdx", ir.inputs[2]),
    Op("add eax, edx"), Op("cdqe")>> \o StoreLow64(ir)

emit_or64(ir) ==
  <<emit_operand64("rax", ir.inputs[1]), emit_operand64("rdx", ir.inputs[2]),
    Op("or rax, rdx")>> \o StoreLow64(ir)

emit_and64(ir) ==
  <<emit_operand64("rax", ir.inputs[1]), emit_operand64("rdx", ir.inputs[2]),
    Op("and rax, rdx")>> \o StoreLow64(ir)

emit_lui(ir) ==
  <<Move("mov", "rax",
         <<ShiftLeft(ir.inputs[1].value[1] \cap HalfBit, WordBits \div 2), {}>>),
    Op("cdqe")>> \o StoreLow64(ir)

emit_move_gpr_low64(ir) ==
  <<Load("load64", "rax", gpr_offset(ir.inputs[1].index)),
    Store("store64", FieldOffset(ir.destination.kind, 0))>>

\* Mutant of emit_mtsah: the result is stored as a 64-bit value.
emit_mtsah_wide(ir) ==
  <<Load("load32", "rax", gpr_offset(ir.inputs[1].index)), Op("and eax, 7"),
    Move("xor eax", "rax", ir.inputs[2].value[1] \cap Low3), Op("shl eax, 1"),
    Store("store64", sa_offset)>>

emit_mtsah(ir) ==
  <<Load("load32", "rax", gpr_offset(ir.inputs[1].index)), Op("and eax, 7"),
    Move("xor eax", "rax", ir.inputs[2].value[1] \cap Low3), Op("shl eax, 1"),
    Store("store32", sa_offset)>>

\* Mutant of PadduwLane: the carry is taken before the sum.
PadduwLaneEarlyCarry(ir, lane) ==
  <<Op("movd eax, xmm0"), Op("movd edx, xmm1"),
    Op("sbb edx, edx"), Op("add eax, edx"), Op("or eax, edx")>>
  \o UnlessZero(ir, Store("store32", gpr_offset(ir.destination.index) + lane))
  \o IF lane = 3 THEN <<>> ELSE <<Op("psrldq xmm0, xmm1")>>

PadduwLane(ir, lane) ==
  <<Op("movd eax, xmm0"), Op("movd edx, xmm1"),
    Op("add eax, edx"), Op("sbb edx, edx"), Op("or eax, edx")>>
  \o UnlessZero(ir, Store("store32", gpr_offset(ir.destination.index) + lane))
  \o IF lane = 3 THEN <<>> ELSE <<Op("psrldq xmm0, xmm1")>>

emit_padduw(ir) ==
  <<Load("load128", "xmm0", gpr_offset(ir.inputs[1].index)),
    Load("load128", "xmm1", gpr_offset(ir.inputs[2].index))>>
  \o FlattenSeq([i \in 1 .. 4 |-> PadduwLane(ir, i - 1)])

emit_move_bits32(ir) ==
  <<Load("load32", "rax", gpr_offset(ir.inputs[1].index)),
    Store("store32", FieldOffset(ir.destination.kind, ir.destination.index))>>

emit_add_f32_to_accumulator(ir) ==
  <<Load("load f32", "xmm0", fpr_offset(ir.inputs[1].index)),
    Load("add f32", "xmm0", fpr_offset(ir.inputs[2].index)),
    Store("store f32", fp_acc_offset)>>

Emit(ir) ==
  CASE ir.opcode = "Nop" -> <<>>
    [] ir.opcode = "AddWordSignExtend" -> emit_add_word_sign_extend(ir)
    [] ir.opcode = "Or64"  -> emit_or64(ir)
    [] ir.opcode = "And64" -> emit_and64(ir)
    [] ir.opcode = "LoadUpperImmediateSignExtend" -> emit_lui(ir)
    [] ir.opcode = "MoveGprLow64" -> emit_move_gpr_low64(ir)
    [] ir.opcode = "ComputeMtsah" -> emit_mtsah(ir)
    [] ir.opcode = "AddPackedU32Saturate128" -> emit_padduw(ir)
    [] ir.opcode = "MoveBits32" -> emit_move_bits32(ir)
    [] ir.opcode = "AddF32ToAccumulator" -> emit_add_f32_to_accumulator(ir)

CodeOf(instructions) ==
  emit_zero_gpr0 \o FlattenSeq([i \in DOMAIN instructions |-> Emit(instructions[i])])
  \o emit_zero_gpr0 \o <<Op("ret")>>

(***************************************************************************)
(* compile_r5900_ir_x64, up to the allocation of a page                     *)
(***************************************************************************)
VerdictAt(i) == validate_r5900_ir_instruction(program[i])

\* The first instruction that does not validate decides the error.
CompileRejects ==
  /\ native_status = "ready" /\ native_status' = "rejected"
  /\ \E i \in DOMAIN program :
       /\ VerdictAt(i) # "None" /\ \A j \in 1 .. i - 1 : VerdictAt(j) = "None"
       /\ native_error' = VerdictAt(i)
  /\ UNCHANGED <<memory, code, rip, regs>>

CompileProgram ==
  /\ native_status = "ready" /\ native_status' = "compiled"
  /\ \A i \in DOMAIN program : VerdictAt(i) = "None"
  /\ code' = CodeOf(program)
  /\ UNCHANGED <<memory, native_error, rip, regs>>

(***************************************************************************)
(* R5900X64CompiledBlock::execute                                           *)
(***************************************************************************)
Call ==
  /\ native_status = "compiled" /\ native_status' = "running"
  /\ rip' = 1
  /\ UNCHANGED <<memory, native_error, code, regs>>

Running(op) == native_status = "running" /\ rip \in DOMAIN code /\ code[rip].op = op

Step ==
  /\ rip' = rip + 1
  /\ UNCHANGED <<native_status, native_error, code>>

Lanes(offset, count) == [lane \in 1 .. count |-> memory[offset + lane - 1]]

\* A 32-bit result clears the upper half of its register.
Low(word) == <<word, {}>>

eax == regs.rax[1]
edx == regs.rdx[1]

ExecuteLoad ==
  \E op \in {"load32", "load64", "load128", "load f32"} :
    /\ Running(op)
    /\ regs' = [regs EXCEPT ![code[rip].register] =
         CASE op = "load32"   -> Low(memory[code[rip].offset])
           [] op = "load64"   -> Lanes(code[rip].offset, 2)
           [] op = "load128"  -> Lanes(code[rip].offset, 4)
           [] op = "load f32" -> <<memory[code[rip].offset], {}, {}, {}>>]
    /\ Step /\ UNCHANGED memory

ExecuteStore ==
  \E op \in {"store32", "store64", "store f32"} :
    /\ Running(op)
    /\ LET offset == code[rip].offset
           words  == CASE op = "store32"   -> <<eax>>
                       [] op = "store64"   -> regs.rax
                       [] op = "store f32" -> <<regs.xmm0[1]>>
       IN  memory' = [o \in Offset |-> IF o \in offset .. offset + Len(words) - 1
                                       THEN words[o - offset + 1] ELSE memory[o]]
    /\ Step /\ UNCHANGED regs

\* Moves and arithmetic: what they do to the registers, the carry flag included.
Computed(op) ==
  CASE op = "mov"           -> [regs EXCEPT ![code[rip].register] = code[rip].value]
    [] op = "xor eax, eax"  -> [regs EXCEPT !.rax = Low({}), !.carry = FALSE]
    [] op = "add eax, edx"  -> [regs EXCEPT !.rax = Low(AddWord(eax, edx)),
                                            !.carry = Carries(eax, edx)]
    [] op = "cdqe"          -> [regs EXCEPT !.rax = sign_extend_word(eax)]
    [] op = "or rax, rdx"   -> [regs EXCEPT !.rax = <<eax \cup edx, regs.rax[2] \cup regs.rdx[2]>>,
                                            !.carry = FALSE]
    [] op = "and rax, rdx"  -> [regs EXCEPT !.rax = <<eax \cap edx, regs.rax[2] \cap regs.rdx[2]>>,
                                            !.carry = FALSE]
    [] op = "and eax, 7"    -> [regs EXCEPT !.rax = Low(eax \cap Low3), !.carry = FALSE]
    [] op = "xor eax"       -> [regs EXCEPT !.rax = Low(Xor(eax, code[rip].value)), !.carry = FALSE]
    [] op = "shl eax, 1"    -> [regs EXCEPT !.rax = Low(ShiftLeft(eax, 1)),
                                            !.carry = WordBits - 1 \in eax]
    [] op = "sbb edx, edx"  -> [regs EXCEPT !.rdx = Low(IF regs.carry THEN Bit ELSE {})]
    [] op = "or eax, edx"   -> [regs EXCEPT !.rax = Low(eax \cup edx), !.carry = FALSE]
    [] op = "movd eax, xmm0" -> [regs EXCEPT !.rax = Low(regs.xmm0[1])]
    [] op = "movd edx, xmm1" -> [regs EXCEPT !.rdx = Low(regs.xmm1[1])]
    [] op = "psrldq xmm0, xmm1" ->
         [regs EXCEPT !.xmm0 = Append(Tail(regs.xmm0), {}),
                      !.xmm1 = Append(Tail(regs.xmm1), {})]
    [] op = "add f32" ->
         [regs EXCEPT !.xmm0[1] = FloatAdd(regs.xmm0[1], memory[code[rip].offset])]

Compute ==
  \E op \in {"mov", "xor eax, eax", "add eax, edx", "cdqe", "or rax, rdx",
             "and rax, rdx", "and eax, 7", "xor eax", "shl eax, 1", "sbb edx, edx",
             "or eax, edx", "movd eax, xmm0", "movd edx, xmm1", "psrldq xmm0, xmm1",
             "add f32"} :
    /\ Running(op)
    /\ regs' = Computed(op)
    /\ Step /\ UNCHANGED memory

ReturnFromCode ==
  /\ Running("ret")
  /\ native_status' = "done"
  /\ UNCHANGED <<memory, native_error, code, rip, regs>>

Native ==
  CompileRejects \/ CompileProgram \/ Call \/ ExecuteLoad \/ ExecuteStore \/ Compute
    \/ ReturnFromCode
=============================================================================
