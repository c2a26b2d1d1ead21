------------------------ MODULE MCR5900Reachability ------------------------
(***************************************************************************)
(* Small instances of the reachability analysis for TLC.                    *)
(***************************************************************************)
EXTENDS R5900AnalysisReport

MCWord(instruction, immediate, target) ==
  [instruction |-> instruction, rd |-> 0, immediate |-> immediate, target |-> target]

\* Straight-line code, a branch back to the word before it, a jump to 16, a call
\* of 12, an indirect call, an indirect jump and a word the decoder does not know.
MCWords ==
  {MCWord("Addiu", 0, 0), MCWord("Bne", -2, 0), MCWord("J", 0, 4), MCWord("Jal", 0, 3),
   MCWord("Jalr", 0, 0), MCWord("Jr", 0, 0), MCWord("Unknown", 0, 0)}

\* 8 is a hole; 12, 16, 0 and 4 follow each other.
MCHolePages ==
  [pc \in AlignedPc |-> IF pc = 8 THEN "Unmapped" ELSE "Executable"]
=============================================================================
