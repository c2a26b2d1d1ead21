----------------------- MODULE MCR5900BlockDispatcher -----------------------
(***************************************************************************)
(* Small instances of the dispatcher for TLC.                               *)
(***************************************************************************)
EXTENDS R5900BlockDispatcher

MCWord(instruction, rd) ==
  [instruction |-> instruction, rd |-> rd, immediate |-> 0, target |-> 0]

\* Two native words whose fingerprints collide, an eligible word that lowering
\* rejects (CTC1 to a control register other than 31), a transfer and a trap.
MCWords ==
  {MCWord("Addiu", 1), MCWord("Addiu", 2), MCWord("Ctc1", 30),
   MCWord("Beq", 0), MCWord("Syscall", 0)}

\* A native word, one that lowering rejects, one that is decoded but not eligible
\* and a transfer.
MCFewWords ==
  {MCWord("Addiu", 1), MCWord("Ctc1", 30), MCWord("Xori", 1), MCWord("Jr", 0)}

\* A hash that collides for all blocks of one start address and length.
MCFingerprint(pc, words) == pc + Len(words)

\* 0 follows 16; 12 is a hole.
MCHolePages ==
  [pc \in AlignedPc |-> IF pc = 12 THEN "Unmapped" ELSE "Executable"]

\* Everything is executable: straight-line code can go on for ever.
MCFullPages == [pc \in AlignedPc |-> "Executable"]

\* 4 holds data.
MCDataPages ==
  [pc \in AlignedPc |-> IF pc = 4 THEN "NonExecutable" ELSE "Executable"]
=============================================================================
