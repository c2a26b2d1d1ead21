-------------------------- MODULE MCR5900IrPipeline --------------------------
(***************************************************************************)
(* Programs for TLC, over four-bit words and three registers: every         *)
(* eligible guest instruction with registers that alias, register zero      *)
(* among them, alone and in pairs; and IR that no lowering emits, well      *)
(* formed or malformed in each way that the validator tells apart.          *)
(***************************************************************************)
EXTENDS R5900IrPipeline

MCFloatAdd(lhs, rhs) == Bits((Number(lhs) + Number(rhs) + 1) % 2^WordBits)

D(instruction, rs, rt, rd, imm) ==
  [instruction |-> instruction, rs |-> rs, rt |-> rt, rd |-> rd, immediate |-> imm]

MCGuestWord ==
  {D(i, rs, rt, rd, imm) : i \in DispatcherEligible \ {"Ctc1"}, rs \in {0, 1}, rt \in {0, 1, 2},
                           rd \in {0, 1, 2}, imm \in {{0}, {1}}}
    \cup {D("Ctc1", 0, rt, 31, {}) : rt \in {0, 1, 2}}

\* Words whose results feed one another.
MCLinkedWord ==
  {D("Addiu", 1, 1, 0, {1}), D("Addu", 1, 2, 1, {}), D("Lui", 0, 2, 0, {1}),
   D("Ori", 1, 2, 0, {0}), D("Andi", 2, 1, 0, {1}), D("Mthi", 2, 0, 0, {}),
   D("Mtsah", 1, 0, 0, {0, 1}), D("Padduw", 1, 2, 1, {}), D("Padduw", 2, 2, 2, {}),
   D("Mtc1", 0, 1, 2, {}), D("AddaS", 0, 2, 1, {})}

MCGuestProgram == {<<word>> : word \in MCGuestWord} \cup {<<a, b>> : a, b \in MCLinkedWord}

Imm == immediate(<<{0, 3}, {1}>>)

MCIr ==
  {Ir("AddWordSignExtend", destination("Gpr", 0), "Low64PreserveUpper64", <<gpr(1), Imm>>),
   Ir("AddWordSignExtend", destination("Gpr", 3), "Full128", <<gpr(1), Imm>>),
   Ir("Or64", destination("Gpr", 2), "Low64PreserveUpper64", <<Imm, gpr(1)>>),
   Ir("Or64", destination("Gpr", 1), "Low64PreserveUpper64", <<gpr(0), gpr(0)>>),
   Ir("Or64", destination("Gpr", 2), "Low64PreserveUpper64", <<fpr(0), gpr(9)>>),
   Ir("Or64", destination("Hi", 0), "Low64PreserveUpper64", <<gpr(0), gpr(1)>>),
   Ir("Or64", NoDestination, "Low64PreserveUpper64", <<gpr(0), gpr(1)>>),
   Ir("And64", destination("Gpr", 1), "Low64PreserveUpper64", <<gpr(1), Imm>>),
   Ir("And64", destination("Gpr", 1), "Low64PreserveUpper64", <<fpr(1), gpr(9)>>),
   Ir("And64", destination("Gpr", 1), "Low64PreserveUpper64", <<gpr(1)>>),
   Ir("LoadUpperImmediateSignExtend", destination("Gpr", 1), "Low64PreserveUpper64", <<Imm>>),
   Ir("LoadUpperImmediateSignExtend", destination("Gpr", 1), "Low64PreserveUpper64", <<gpr(9)>>),
   Ir("AddPackedU32Saturate128", destination("Gpr", 0), "Full128", <<gpr(1), gpr(2)>>),
   Ir("AddPackedU32Saturate128", destination("Gpr", 1), "Full128", <<gpr(0), gpr(2)>>),
   Ir("AddPackedU32Saturate128", destination("Gpr", 1), "Low64PreserveUpper64", <<gpr(1), gpr(2)>>),
   Ir("AddPackedU32Saturate128", destination("Gpr", 1), "Full128", <<gpr(1), Imm>>),
   Ir("MoveGprLow64", destination("Hi1", 1), "None", <<gpr(1)>>),
   Ir("MoveGprLow64", destination("Gpr", 0), "None", <<gpr(1)>>),
   Ir("ComputeMtsah", destination("Sa", 0), "None", <<gpr(9), gpr(9)>>),
   Ir("ComputeMtsah", destination("Sa", 0), "None", <<gpr(1), gpr(9)>>),
   Ir("MoveBits32", destination("Fpr", 3), "None", <<gpr(1)>>),
   Ir("MoveBits32", destination("Fcr31", 1), "None", <<gpr(1)>>),
   Ir("MoveBits32", destination("Fpr", 0), "Full128", <<gpr(1)>>),
   Ir("AddF32ToAccumulator", destination("FpAccumulator", 0), "None", <<fpr(1), gpr(1)>>),
   Ir("AddF32ToAccumulator", destination("FpAccumulator", 0), "None", <<fpr(1)>>),
   Ir("AddF32ToAccumulator", destination("FpAccumulator", 0), "None",
      <<[kind |-> "Vector", index |-> 0], fpr(9)>>),
   Ir("Nop", destination("Gpr", 0), "None", <<>>), Nop,
   Ir("Store", NoDestination, "None", <<>>)}

MCIrProgram == {<<>>} \cup {<<a, b>> : a, b \in MCIr}

\* Registers that hold every word, a sum that carries and one that does not among
\* them, and a register zero that does not hold zero.
MCGuestState ==
  {[cell \in Cell |-> Bits((n + 5 * cell[2] + 3 * cell[3]) % 16)] : n \in {3, 6, 9, 14}}
=============================================================================
