----------------------- MODULE StraightLineExecution -----------------------
(***************************************************************************)
(* What R5900BlockDispatcher::run promises its caller, without the cache,   *)
(* the compiler and the stages of a dispatch.                               *)
(*                                                                          *)
(* A run performs straight-line guest code, as memory holds it at that      *)
(* moment, in uninterrupted chunks, and stops with a reason that is true of *)
(* the address it reports.  That a block was cached, stale or compiled on   *)
(* demand is invisible.                                                     *)
(***************************************************************************)
EXTENDS R5900ControlFlow

CONSTANTS Word, StartPc, Budget

VARIABLES
  mem,      \* guest memory
  running,  \* a run is in progress
  pc,       \* the address the run has reached, or the one it reported
  budget,   \* chunks the run may perform
  chunks,   \* chunks the run has performed
  reason,   \* why the last run stopped; "Running" during a run
  trace     \* the instructions performed, with their addresses

vars == <<mem, running, pc, budget, chunks, reason, trace>>

\* Code a run may perform: executable, eligible, and with a lowering.
StraightLine(n) ==
  \A i \in 1 .. n :
    Fetchable(SitePc(pc, i)) /\ Lowerable(mem[SitePc(pc, i)])

Chunk(n) ==
  [i \in 1 .. n |-> [pc |-> SitePc(pc, i), decoded |-> mem[SitePc(pc, i)]]]

\* A boundary reported at stop: the next instruction is one no run performs.
AtBoundary(stop, why) ==
  /\ Fetchable(stop)
  /\ CASE IsControlTransfer(mem[stop]) -> why = "ControlFlow"
       [] IsTrap(mem[stop])            -> why = "Trap"
       [] OTHER -> /\ why = "UnsupportedInstruction"
                   /\ mem[stop].instruction \notin DispatcherEligible

Init ==
  /\ mem \in [MappedPc -> Word]
  /\ running = FALSE /\ pc \in StartPc /\ budget = 0 /\ chunks = 0
  /\ reason = "InvalidBlockBudget" /\ trace = <<>>

Begin(start, blocks) ==
  /\ ~ running
  /\ running' = (blocks > 0)
  /\ pc' = start /\ budget' = blocks /\ chunks' = 0 /\ trace' = <<>>
  /\ reason' = IF blocks > 0 THEN "Running" ELSE "InvalidBlockBudget"
  /\ UNCHANGED mem

\* Perform a chunk; go on, or stop at a boundary or at the end of the budget.
Execute(n) ==
  /\ running /\ chunks < budget
  /\ StraightLine(n)
  /\ trace' = trace \o Chunk(n)
  /\ pc' = Add32(pc, 4 * n)
  /\ chunks' = chunks + 1
  /\ \/ running' = TRUE /\ reason' = "Running" /\ chunks' < budget
     \/ running' = FALSE /\ reason' = "BlockBudgetExhausted" /\ chunks' = budget
     \/ running' = FALSE /\ AtBoundary(pc', reason')
  /\ UNCHANGED <<mem, budget>>

\* Stop without performing anything: at a boundary, because the code ahead
\* cannot be analysed or compiled, or at a word ahead that has no lowering.
Stop ==
  /\ running /\ running' = FALSE
  /\ \/ pc' = pc /\ AtBoundary(pc, reason')
     \/ pc' = pc /\ reason' = "AnalysisFailure" /\ ~ AnalysisOk(mem, pc)
     \/ pc' = pc /\ reason' = "CompileFailure"
     \/ \E i \in 1 .. max_instructions :
          /\ pc' = SitePc(pc, i)
          /\ Fetchable(pc') /\ mem[pc'].instruction \in DispatcherEligible
          /\ ~ Lowerable(mem[pc'])
          /\ reason' = "LoweringFailure"
  /\ UNCHANGED <<mem, budget, chunks, trace>>

Write(at, word) ==
  /\ ~ running
  /\ mem' = [mem EXCEPT ![at] = word]
  /\ UNCHANGED <<running, pc, budget, chunks, reason, trace>>

Next ==
  \/ \E start \in StartPc, blocks \in Budget \cup {0} : Begin(start, blocks)
  \/ \E n \in 1 .. max_instructions : Execute(n)
  \/ Stop
  \/ \E at \in MappedPc, word \in Word : Write(at, word)

Spec == Init /\ [][Next]_vars
=============================================================================
