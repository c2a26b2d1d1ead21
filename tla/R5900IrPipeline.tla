--------------------------- MODULE R5900IrPipeline ---------------------------
(***************************************************************************)
(* The reference executor and the native backend on the same program and    *)
(* the same guest state.  They share nothing, so the order in which they    *)
(* run does not matter: the executor is first.                              *)
(***************************************************************************)
EXTENDS R5900X64Code

CONSTANTS
  GuestProgram,  \* sequences of decoded words, each of which lowers
  IrProgram,     \* sequences of IR instructions that a caller may pass as well
  GuestState     \* what a guest state may hold

VARIABLES
  lowered,  \* the program is what a guest program lowers to
  entry     \* the guest state at the start

vars == <<program, lowered, entry, executor_vars, native_vars>>

SeqOfWords(count) == [1 .. count -> Word]

\* The program is made of words that lower; their fields name existing registers,
\* but for the control register of CTC1, and an immediate is half a word.
ASSUME GuestAssumption ==
  \A words \in GuestProgram :
    /\ Len(words) \in Nat /\ DOMAIN words = 1 .. Len(words)
    /\ \A i \in DOMAIN words :
         /\ Lowerable(words[i])
         /\ words[i].rs \in Register /\ words[i].rt \in Register
         /\ words[i].instruction # "Ctc1" => words[i].rd \in Register
         /\ words[i].immediate \subseteq HalfBit

\* What the types of an instruction say: numbers of registers are unsigned, and
\* an immediate has two words.
IsInput(operand) ==
  /\ operand.kind \in {"Gpr", "Fpr"} => operand.index \in Nat
  /\ operand.kind = "Immediate" => operand.value \in SeqOfWords(2)

IsInstruction(ir) ==
  /\ ir.destination = destination(ir.destination.kind, ir.destination.index)
  /\ ir.destination.index \in Nat
  /\ \A i \in 1 .. Len(ir.inputs) : IsInput(ir.inputs[i])

ASSUME IrAssumption ==
  \A instructions \in IrProgram :
    /\ Len(instructions) \in Nat /\ DOMAIN instructions = 1 .. Len(instructions)
    /\ \A i \in DOMAIN instructions : IsInstruction(instructions[i])

ASSUME StateAssumption == GuestState \subseteq [Cell -> Word]

LoweredProgram(words) == [i \in DOMAIN words |-> Lower(words[i])]

InMemory(s) ==
  [offset \in Offset |->
     LET cells == {cell \in Cell : CellOffset(cell) = offset}
     IN  IF cells = {} THEN {} ELSE s[CHOOSE cell \in cells : TRUE]]

Init ==
  /\ \/ lowered = TRUE /\ program \in {LoweredProgram(words) : words \in GuestProgram}
     \/ lowered = FALSE /\ program \in IrProgram
  /\ entry \in GuestState
  /\ state = entry /\ index = 0 /\ status = "ready" /\ error = "None"
  /\ memory = InMemory(entry)
  /\ native_status = "ready" /\ native_error = "None"
  /\ code = <<>> /\ rip = 0
  /\ regs = [rax |-> Low({}), rdx |-> Low({}), carry |-> FALSE,
             xmm0 |-> Zero128, xmm1 |-> Zero128]

ExecutorStops == status \in {"done", "rejected"}
NativeStops == native_status \in {"done", "rejected"}

Next ==
  \/ Executor /\ UNCHANGED <<program, lowered, entry, native_vars>>
  \/ ExecutorStops /\ Native /\ UNCHANGED <<program, lowered, entry, executor_vars>>

Spec == Init /\ [][Next]_vars

(***************************************************************************)
(* Properties                                                               *)
(***************************************************************************)
\* Every value is made of words of its width, and code that runs is inside of what
\* was emitted: it always reaches its return.
TypeOK ==
  /\ state \in [Cell -> Word] /\ memory \in [Offset -> Word]
  /\ index \in 0 .. Len(program)
  /\ status \in {"ready", "running", "done", "rejected"}
  /\ native_status \in {"ready", "compiled", "running", "done", "rejected"}
  /\ native_status = "running" => rip \in DOMAIN code
  /\ regs.rax \in SeqOfWords(2) /\ regs.rdx \in SeqOfWords(2)
  /\ regs.xmm0 \in SeqOfWords(4) /\ regs.xmm1 \in SeqOfWords(4)

\* The executor and the backend give the same verdict on every program; the backend
\* runs one that is accepted to the guest state of the executor, and touches nothing
\* for one that is rejected, of which the executor has performed a part.
NativeAgreesWithExecutor ==
  ExecutorStops /\ NativeStops =>
    /\ native_status = status /\ native_error = error
    /\ memory = InMemory(IF status = "done" THEN state ELSE entry)

\* What the lowering emits passes the validator and the backend, whatever the
\* registers and the immediates of the guest words.
LoweredProgramsAreAccepted ==
  lowered => status # "rejected" /\ native_status # "rejected"

\* The cells that an instruction may write: as many words as its destination and
\* its write mode say.
WrittenCells(ir) ==
  {cell \in Cell : /\ cell[1] = ir.destination.kind /\ cell[2] = ir.destination.index
                   /\ cell[1] = "Gpr" /\ ir.write_mode # "Full128" => cell[3] < 2}

MayWrite == UNION {WrittenCells(program[i]) : i \in 1 .. index}

\* Neither of them changes a cell that the program does not write: the upper half of
\* a register under a 64-bit write, the neighbours of a field in memory.  Register
\* zero reads as zero, whatever it held and whatever was written to it.
OnlyDestinationsChange ==
  ExecutorStops =>
    \A cell \in Cell :
      LET expected == IF cell[1] = "Gpr" /\ cell[2] = 0 THEN {} ELSE entry[cell]
      IN  \/ cell \in MayWrite /\ ~ (cell[1] = "Gpr" /\ cell[2] = 0)
          \/ /\ state[cell] = expected
             /\ native_status = "done" => memory[CellOffset(cell)] = expected
=============================================================================
