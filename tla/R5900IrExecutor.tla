--------------------------- MODULE R5900IrExecutor ---------------------------
(***************************************************************************)
(* The reference executor: execute_r5900_ir,                                *)
(* src/src/recompiler/r5900_ir_executor.cpp.                                *)
(*                                                                          *)
(* The guest state (R5900IrExecutionState) maps cells to words: a cell is   *)
(* one word of one register.  The executor performs a program instruction   *)
(* by instruction and validates each one only when it reaches it, so what   *)
(* came before a rejected instruction stays performed.                      *)
(***************************************************************************)
EXTENDS R5900Ir

CONSTANT FloatAdd(_, _)  \* addition of two floats, as bits, by the host

ASSUME FloatAssumption == \A lhs, rhs \in Word : FloatAdd(lhs, rhs) \in Word

VARIABLES
  program,  \* the IR instructions, an argument
  state,    \* the guest state, an argument
  index,    \* how many instructions have been performed
  status,   \* "ready" for the call, "running", "done" or "rejected"
  error     \* what the call returned

executor_vars == <<state, index, status, error>>

Cell ==
  ({"Gpr"} \X Register \X (0 .. 3)) \cup
  ({"Hi", "Lo", "Hi1", "Lo1"} \X {0} \X (0 .. 1)) \cup
  ({"Fpr"} \X Register \X {0}) \cup ({"Sa", "Fcr31", "FpAccumulator"} \X {0} \X {0})

(***************************************************************************)
(* Words as numbers                                                         *)
(***************************************************************************)
Number(word) == MapThenSumSet(LAMBDA bit : 2^bit, word)
Bits(number) == {bit \in Bit : (number \div 2^bit) % 2 = 1}

AddWord(lhs, rhs) == Bits((Number(lhs) + Number(rhs)) % 2^WordBits)
Carries(lhs, rhs) == Number(lhs) + Number(rhs) >= 2^WordBits
Xor(lhs, rhs) == (lhs \cup rhs) \ (lhs \cap rhs)
ShiftLeft(word, count) == {bit \in Bit : bit - count \in word}

\* The mask 0x7.
Low3 == 0 .. 2

saturating_add_u32(lhs, rhs) == IF Carries(lhs, rhs) THEN Bit ELSE AddWord(lhs, rhs)

(***************************************************************************)
(* Instructions                                                             *)
(***************************************************************************)
read_operand_value(s, operand) ==
  IF operand.kind = "Immediate" THEN operand.value
  ELSE <<s[<<"Gpr", operand.index, 0>>], s[<<"Gpr", operand.index, 1>>]>>

GprLanes(s, operand) == [lane \in 1 .. 4 |-> s[<<"Gpr", operand.index, lane - 1>>]]

\* The words an instruction that is not a Nop computes, for its destination.
Value(s, ir) ==
  LET lhs == read_operand_value(s, ir.inputs[1])
      rhs == read_operand_value(s, ir.inputs[2])
  IN  CASE ir.opcode = "AddWordSignExtend" -> sign_extend_word(AddWord(lhs[1], rhs[1]))
        [] ir.opcode = "Or64"  -> <<lhs[1] \cup rhs[1], lhs[2] \cup rhs[2]>>
        [] ir.opcode = "And64" -> <<lhs[1] \cap rhs[1], lhs[2] \cap rhs[2]>>
        [] ir.opcode = "LoadUpperImmediateSignExtend" ->
             sign_extend_word(ShiftLeft(lhs[1] \cap HalfBit, WordBits \div 2))
        [] ir.opcode = "MoveGprLow64" -> lhs
        [] ir.opcode = "ComputeMtsah" ->
             <<ShiftLeft(Xor(lhs[1] \cap Low3, rhs[1] \cap Low3), 1)>>
        [] ir.opcode = "AddPackedU32Saturate128" ->
             [lane \in 1 .. 4 |-> saturating_add_u32(GprLanes(s, ir.inputs[1])[lane],
                                                     GprLanes(s, ir.inputs[2])[lane])]
        [] ir.opcode = "MoveBits32" -> <<lhs[1]>>
        [] ir.opcode = "AddF32ToAccumulator" ->
             <<FloatAdd(s[<<"Fpr", ir.inputs[1].index, 0>>],
                        s[<<"Fpr", ir.inputs[2].index, 0>>])>>

Written(s, dest, words) ==
  [cell \in Cell |->
     IF cell[1] = dest.kind /\ cell[2] = dest.index /\ cell[3] < Len(words)
     THEN words[cell[3] + 1] ELSE s[cell]]

Zero128 == <<{}, {}, {}, {}>>

normalize_zero(s) == Written(s, destination("Gpr", 0), Zero128)

\* A write of register zero has no effect.
Performed(s, ir) ==
  IF ir = Nop \/ ir.destination = destination("Gpr", 0) THEN s
  ELSE Written(s, ir.destination, Value(s, ir))

(***************************************************************************)
(* execute_r5900_ir                                                         *)
(***************************************************************************)
Verdict == validate_r5900_ir_instruction(program[index + 1])

BeginExecution ==
  /\ status = "ready" /\ status' = "running"
  /\ state' = normalize_zero(state)
  /\ UNCHANGED <<index, error>>

Perform ==
  /\ status = "running" /\ index < Len(program) /\ Verdict = "None"
  /\ state' = Performed(state, program[index + 1])
  /\ index' = index + 1
  /\ UNCHANGED <<status, error>>

Reject ==
  /\ status = "running" /\ index < Len(program) /\ Verdict # "None"
  /\ status' = "rejected" /\ error' = Verdict
  /\ state' = normalize_zero(state)
  /\ UNCHANGED index

EndExecution ==
  /\ status = "running" /\ index = Len(program)
  /\ status' = "done"
  /\ state' = normalize_zero(state)
  /\ UNCHANGED <<index, error>>

Executor == BeginExecution \/ Perform \/ Reject \/ EndExecution
=============================================================================
