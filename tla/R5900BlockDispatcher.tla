------------------------ MODULE R5900BlockDispatcher ------------------------
(***************************************************************************)
(* The block dispatcher: src/src/recompiler/windows/r5900_block_dispatcher. *)
(*                                                                          *)
(* run(start_pc, state, max_blocks) analyses one chunk of guest code at a   *)
(* time, selects the straight-line prefix it may execute, looks the prefix  *)
(* up in the cache of native blocks, lowers and compiles it when the cache  *)
(* has no exact match, executes it and goes on until a boundary, a failure  *)
(* or the end of the block budget.  The caller owns guest memory and may    *)
(* rewrite code, or clear the cache, between two runs.                      *)
(*                                                                          *)
(* One action per stage of run, one per failure of a stage, and one per     *)
(* operation of the caller.  The effect of a native block on the guest      *)
(* registers is abstracted to the instructions it performs, which are       *)
(* appended to trace.                                                       *)
(***************************************************************************)
EXTENDS R5900ControlFlow

CONSTANTS
  Word,                 \* the decoded guest words memory may hold
  StartPc,              \* the start_pc arguments callers pass
  Budget,               \* the max_blocks arguments callers pass
  Fingerprint(_, _),    \* fingerprint_guest_words(start_pc, words)
  NoEntry, NoCandidate, NoBoundary

ASSUME InputsAssumption ==
  /\ Word \subseteq DecodedInstruction
  /\ StartPc \subseteq Pc /\ Budget \subseteq Nat

VARIABLES
  mem,          \* guest words at the mapped addresses (Ps2MemoryMap)
  cache,        \* cache_: start pc -> CachedBlock
  phase,        \* the stage run is in; "idle" while no run is in progress
  start_pc,     \* the arguments of the current or last run
  max_blocks,
  current_pc,   \* local variable of run
  candidate,    \* prefix and boundary of the chunk being dispatched
  result,       \* R5900DispatchResult of the current or last run
  trace         \* instructions performed by the native blocks of this run

vars == <<mem, cache, phase, start_pc, max_blocks, current_pc, candidate,
          result, trace>>

runArguments == <<start_pc, max_blocks>>

BoundaryReasons == {"ControlFlow", "Trap", "UnsupportedInstruction"}
FailureReasons  == {"AnalysisFailure", "LoweringFailure", "CompileFailure"}
StopReason == BoundaryReasons \cup FailureReasons \cup
              {"BlockBudgetExhausted", "InvalidBlockBudget"}

(***************************************************************************)
(* Prefix selection                                                         *)
(***************************************************************************)
\* Mutant of Selectable: the eligibility test is dropped.
SelectableIgnoringEligibility(d) == ~ IsControlTransfer(d) /\ ~ IsTrap(d)

\* The loop body that pushes a site: no transfer, no trap, eligible.
Selectable(d) ==
  /\ ~ IsControlTransfer(d)
  /\ ~ IsTrap(d)
  /\ d.instruction \in DispatcherEligible

\* Mutant of BoundaryReason: traps are not told from unsupported words.
BoundaryReasonWithoutTrap(d) ==
  IF IsControlTransfer(d) THEN "ControlFlow" ELSE "UnsupportedInstruction"

BoundaryReason(d) ==
  IF IsControlTransfer(d) THEN "ControlFlow"
  ELSE IF IsTrap(d) THEN "Trap"
  ELSE "UnsupportedInstruction"

\* Indices of the analysed sites at which the selection loop would break.
Breaks(sites) == {i \in 1 .. Len(sites) : ~ Selectable(sites[i].decoded)}

PrefixLength(sites) ==
  IF Breaks(sites) = {} THEN Len(sites) ELSE First(Breaks(sites)) - 1

\* Mutant of Boundary: the boundary is placed after its instruction.
BoundaryAfter(sites) ==
  IF Breaks(sites) = {} THEN NoBoundary
  ELSE LET site == sites[First(Breaks(sites))]
       IN  [reason |-> BoundaryReason(site.decoded), pc |-> Add32(site.pc, 4)]

Boundary(sites) ==
  IF Breaks(sites) = {} THEN NoBoundary
  ELSE LET site == sites[First(Breaks(sites))]
       IN  [reason |-> BoundaryReason(site.decoded), pc |-> site.pc]

CandidateOf(sites) ==
  [prefix   |-> SubSeq(sites, 1, PrefixLength(sites)),
   boundary |-> Boundary(sites)]

WordsOf(sites) == [i \in 1 .. Len(sites) |-> sites[i].decoded]

(***************************************************************************)
(* The cache                                                                *)
(***************************************************************************)
\* The native block is what it performs: the words it was compiled from.
CachedBlockFor(pc, words) ==
  [start_pc                |-> pc,
   end_pc_exclusive        |-> Add32(pc, 4 * Len(words)),
   fingerprint             |-> Fingerprint(pc, words),
   guest_words             |-> words,
   guest_instruction_count |-> Len(words),
   native_block            |-> words]

\* Mutant of ExactCacheHit: the fingerprint is trusted.
FingerprintCacheHit(entry, pc, words) ==
  /\ entry # NoEntry
  /\ entry.start_pc = pc
  /\ entry.guest_instruction_count = Len(words)
  /\ entry.fingerprint = Fingerprint(pc, words)

\* exact_cache_hit
ExactCacheHit(entry, pc, words) ==
  /\ entry # NoEntry
  /\ entry.start_pc = pc
  /\ entry.guest_instruction_count = Len(words)
  /\ entry.fingerprint = Fingerprint(pc, words)
  /\ entry.guest_words = words

(***************************************************************************)
(* Starting and ending a run                                                *)
(***************************************************************************)
FreshResult(pc, reason) ==
  [reason |-> reason, next_pc |-> pc,
   blocks_executed |-> 0, instructions_executed |-> 0,
   cache_hits |-> 0, cache_misses |-> 0, recompilations |-> 0]

Init ==
  /\ mem \in [MappedPc -> Word]
  /\ cache = [pc \in Pc |-> NoEntry]
  /\ phase = "idle"
  /\ start_pc \in StartPc /\ max_blocks = 0 /\ current_pc = start_pc
  /\ candidate = NoCandidate
  /\ result = FreshResult(start_pc, "InvalidBlockBudget")
  /\ trace = <<>>

BeginRun(pc, budget, reason, nextPhase) ==
  /\ phase = "idle"
  /\ phase' = nextPhase
  /\ start_pc' = pc /\ max_blocks' = budget /\ current_pc' = pc
  /\ result' = FreshResult(pc, reason)
  /\ trace' = <<>>
  /\ UNCHANGED <<mem, cache, candidate>>

\* max_blocks == 0
RunWithoutBudget(pc) == BeginRun(pc, 0, "InvalidBlockBudget", "idle")

Run(pc, budget) ==
  /\ budget > 0
  /\ BeginRun(pc, budget, "AnalysisFailure", "analyze")

\* Every return before native execution: the result says why and where.
Return(reason, pc) ==
  /\ phase' = "idle"
  /\ candidate' = NoCandidate
  /\ result' = [result EXCEPT !.reason = reason, !.next_pc = pc]
  /\ UNCHANGED <<mem, cache, runArguments, current_pc, trace>>

(***************************************************************************)
(* Analysis and prefix selection                                            *)
(***************************************************************************)
FailAnalysis ==
  /\ phase = "analyze"
  /\ ~ AnalysisOk(mem, current_pc)
  /\ Return("AnalysisFailure", current_pc)

AnalyzedCandidate ==
  CandidateOf(AnalyzeBasicBlock(mem, current_pc).block.instructions)

\* Mutant of StopAtBoundary: the loop continues instead of returning.
StopAtBoundaryWithoutReturning ==
  /\ phase = "analyze"
  /\ AnalysisOk(mem, current_pc)
  /\ AnalyzedCandidate.prefix = <<>>
  /\ result' = [result EXCEPT !.reason = AnalyzedCandidate.boundary.reason]
  /\ UNCHANGED <<mem, cache, phase, runArguments, current_pc, candidate, trace>>

\* prefix.empty(): a chunk is never empty, so its first site is the boundary.
StopAtBoundary ==
  /\ phase = "analyze"
  /\ AnalysisOk(mem, current_pc)
  /\ AnalyzedCandidate.prefix = <<>>
  /\ Return(AnalyzedCandidate.boundary.reason, AnalyzedCandidate.boundary.pc)

SelectPrefix ==
  /\ phase = "analyze"
  /\ AnalysisOk(mem, current_pc)
  /\ AnalyzedCandidate.prefix # <<>>
  /\ candidate' = AnalyzedCandidate
  /\ phase' = "lookup"
  /\ UNCHANGED <<mem, cache, runArguments, current_pc, result, trace>>

(***************************************************************************)
(* Cache lookup                                                             *)
(***************************************************************************)
Lookup(nextPhase) ==
  /\ phase = "lookup"
  /\ phase' = nextPhase
  /\ UNCHANGED <<mem, cache, runArguments, current_pc, candidate, trace>>

CacheHit ==
  /\ Lookup("execute")
  /\ ExactCacheHit(cache[current_pc], current_pc, WordsOf(candidate.prefix))
  /\ result' = [result EXCEPT !.cache_hits = @ + 1]

CacheMiss ==
  /\ Lookup("lower")
  /\ cache[current_pc] = NoEntry
  /\ result' = [result EXCEPT !.cache_misses = @ + 1]

\* Mutant of StaleEntry: a stale lookup is also counted as a plain miss.
StaleEntryCountedTwice ==
  /\ Lookup("lower")
  /\ cache[current_pc] # NoEntry
  /\ ~ ExactCacheHit(cache[current_pc], current_pc, WordsOf(candidate.prefix))
  /\ result' = [result EXCEPT !.recompilations = @ + 1, !.cache_misses = @ + 1]

StaleEntry ==
  /\ Lookup("lower")
  /\ cache[current_pc] # NoEntry
  /\ ~ ExactCacheHit(cache[current_pc], current_pc, WordsOf(candidate.prefix))
  /\ result' = [result EXCEPT !.recompilations = @ + 1]

(***************************************************************************)
(* Lowering and compilation                                                 *)
(***************************************************************************)
NotLowerable(prefix) == {i \in 1 .. Len(prefix) : ~ Lowerable(prefix[i].decoded)}

FailLowering ==
  /\ phase = "lower"
  /\ NotLowerable(candidate.prefix) # {}
  /\ Return("LoweringFailure",
            candidate.prefix[First(NotLowerable(candidate.prefix))].pc)

LowerPrefix ==
  /\ phase = "lower"
  /\ NotLowerable(candidate.prefix) = {}
  /\ phase' = "compile"
  /\ UNCHANGED <<mem, cache, runArguments, current_pc, candidate, result, trace>>

\* Mutant of FailCompile: the replacement is installed before the pages are made
\* executable.
FailCompileAfterInstall ==
  /\ phase = "compile"
  /\ phase' = "idle"
  /\ candidate' = NoCandidate
  /\ result' = [result EXCEPT !.reason = "CompileFailure"]
  /\ cache' = [cache EXCEPT
                 ![current_pc] = CachedBlockFor(current_pc, WordsOf(candidate.prefix))]
  /\ UNCHANGED <<mem, runArguments, current_pc, trace>>

\* compile_r5900_ir_x64 fails: VirtualAlloc, VirtualProtect or the flush did.
FailCompile ==
  /\ phase = "compile"
  /\ Return("CompileFailure", current_pc)

\* Mutant of InstallBlock: a stale entry keeps its native block.
InstallBlockKeepingNative ==
  /\ phase = "compile"
  /\ LET old == cache[current_pc]
         new == CachedBlockFor(current_pc, WordsOf(candidate.prefix))
     IN  cache' = [cache EXCEPT
                     ![current_pc] = IF old = NoEntry THEN new
                                     ELSE [new EXCEPT !.native_block = old.native_block]]
  /\ phase' = "execute"
  /\ UNCHANGED <<mem, runArguments, current_pc, candidate, result, trace>>

\* emplace for a new start pc, move assignment over a stale entry.
InstallBlock ==
  /\ phase = "compile"
  /\ cache' = [cache EXCEPT
                 ![current_pc] = CachedBlockFor(current_pc, WordsOf(candidate.prefix))]
  /\ phase' = "execute"
  /\ UNCHANGED <<mem, runArguments, current_pc, candidate, result, trace>>

(***************************************************************************)
(* Native execution                                                         *)
(***************************************************************************)
PrefixEnd == Add32(current_pc, 4 * Len(candidate.prefix))

\* What execute(state) performs, placed at the guest addresses it stands for.
Performed ==
  LET words == cache[current_pc].native_block
  IN  [i \in 1 .. Len(words) |->
         [pc |-> SitePc(current_pc, i), decoded |-> words[i]]]

\* native_block.execute(state) and the accounting that follows it.
ExecuteBlock(reason, next_pc, nextPhase) ==
  /\ trace' = trace \o Performed
  /\ current_pc' = PrefixEnd
  /\ result' = [result EXCEPT
                  !.blocks_executed = @ + 1,
                  !.instructions_executed = @ + Len(candidate.prefix),
                  !.reason = reason,
                  !.next_pc = next_pc]
  /\ phase' = nextPhase
  /\ candidate' = NoCandidate
  /\ UNCHANGED <<mem, cache, runArguments>>

BudgetReached == result.blocks_executed + 1 = max_blocks

ExecuteToBoundary ==
  /\ phase = "execute"
  /\ candidate.boundary # NoBoundary
  /\ ExecuteBlock(candidate.boundary.reason, candidate.boundary.pc, "idle")

ExecuteToBudget ==
  /\ phase = "execute"
  /\ candidate.boundary = NoBoundary
  /\ BudgetReached
  /\ ExecuteBlock("BlockBudgetExhausted", PrefixEnd, "idle")

ExecuteAndContinue ==
  /\ phase = "execute"
  /\ candidate.boundary = NoBoundary
  /\ ~ BudgetReached
  /\ ExecuteBlock(result.reason, PrefixEnd, "analyze")

(***************************************************************************)
(* The caller, between runs                                                 *)
(***************************************************************************)
\* Ps2MemoryMap::write_u8/16/32 reaching the word at pc.
WriteGuest(pc, word) ==
  /\ phase = "idle"
  /\ mem' = [mem EXCEPT ![pc] = word]
  /\ UNCHANGED <<cache, phase, runArguments, current_pc, candidate, result, trace>>

ClearCache ==
  /\ phase = "idle"
  /\ cache' = [pc \in Pc |-> NoEntry]
  /\ UNCHANGED <<mem, phase, runArguments, current_pc, candidate, result, trace>>

Dispatch ==
  \/ FailAnalysis \/ StopAtBoundary \/ SelectPrefix
  \/ CacheHit \/ CacheMiss \/ StaleEntry
  \/ FailLowering \/ LowerPrefix \/ FailCompile \/ InstallBlock
  \/ ExecuteToBoundary \/ ExecuteToBudget \/ ExecuteAndContinue

Caller ==
  \/ \E pc \in StartPc : RunWithoutBudget(pc)
  \/ \E pc \in StartPc, budget \in Budget : Run(pc, budget)
  \/ \E pc \in MappedPc, word \in Word : WriteGuest(pc, word)
  \/ ClearCache

Next == Dispatch \/ Caller

Spec == Init /\ [][Next]_vars

\* run is one thread that does not wait for anything: a run keeps stepping.
FairSpec == Spec /\ WF_vars(Dispatch)

(***************************************************************************)
(* Properties                                                               *)
(***************************************************************************)
Site == [pc : Pc, decoded : Word]

Candidate ==
  [prefix   : Seq(Site),
   boundary : [reason : BoundaryReasons, pc : Pc] \cup {NoBoundary}]

Result ==
  [reason : StopReason, next_pc : Pc,
   blocks_executed : Nat, instructions_executed : Nat,
   cache_hits : Nat, cache_misses : Nat, recompilations : Nat]

\* The types of the dispatcher's state and of one run's locals and result.
TypeOK ==
  /\ mem \in [MappedPc -> Word]
  /\ DOMAIN cache = Pc
  /\ \A pc \in Pc : cache[pc] # NoEntry => cache[pc].guest_words \in Seq(Word)
  /\ phase \in {"idle", "analyze", "lookup", "lower", "compile", "execute"}
  /\ start_pc \in Pc /\ current_pc \in Pc /\ max_blocks \in Nat
  /\ candidate \in Candidate \cup {NoCandidate}
  /\ result \in Result
  /\ trace \in Seq(Site)

\* Only whole, successfully compiled blocks are in the cache: each entry is the
\* record of the words it was compiled from, under its own start address, and
\* none of those words is a transfer, a trap or a word lowering rejects.
CacheSound ==
  \A pc \in Pc : cache[pc] # NoEntry =>
    LET words == cache[pc].guest_words
    IN  /\ cache[pc] = CachedBlockFor(pc, words)
        /\ Len(words) \in 1 .. max_instructions
        /\ \A i \in 1 .. Len(words) : Lowerable(words[i])

\* The candidate of a run is always the one guest memory has at current_pc, and
\* the block about to execute was compiled from exactly these words, whether it
\* was found in the cache or has just been installed.
BlockMatchesCandidate ==
  /\ phase \in {"lookup", "lower", "compile", "execute"} =>
       /\ AnalysisOk(mem, current_pc)
       /\ candidate = AnalyzedCandidate
       /\ candidate.prefix # <<>>
  /\ phase \in {"compile", "execute"} => NotLowerable(candidate.prefix) = {}
  /\ phase = "execute" =>
       cache[current_pc] = CachedBlockFor(current_pc, WordsOf(candidate.prefix))

\* The reported progress is exact: the native blocks of a run have performed
\* instructions_executed instructions at consecutive addresses from start_pc,
\* and next_pc is the one after them, except after LoweringFailure, which reports
\* the rejected instruction.
ResumePoint ==
  LET reached == Add32(start_pc, 4 * result.instructions_executed)
  IN  /\ Len(trace) = result.instructions_executed
      /\ \A i \in 1 .. Len(trace) : trace[i].pc = SitePc(start_pc, i)
      /\ current_pc = reached
      /\ result.next_pc # reached => phase = "idle" /\ result.reason = "LoweringFailure"

\* Every lookup is counted once, as a hit, a miss or a recompilation, and every
\* counted lookup is a block executed, except the last one of a run that failed
\* to lower or to compile; the budget is never exceeded.
Accounting ==
  LET pending == \/ phase \in {"lower", "compile", "execute"}
                 \/ phase = "idle" /\ result.reason \in {"LoweringFailure", "CompileFailure"}
  IN  /\ result.cache_hits + result.cache_misses + result.recompilations
           = result.blocks_executed + (IF pending THEN 1 ELSE 0)
      /\ result.blocks_executed <= result.instructions_executed
      /\ result.blocks_executed <= max_blocks
      /\ phase # "idle" => result.blocks_executed < max_blocks

\* The inductive invariant: the types, what the cache holds, what the candidate
\* is, and how far the run has come.
Inv == TypeOK /\ CacheSound /\ BlockMatchesCandidate /\ ResumePoint /\ Accounting

\* Stale native code never executes: every instruction a native block performs
\* is the one guest memory holds at that address at that moment, whatever the
\* caller rewrote since the block was compiled and whichever fingerprints collide.
ExecutesCurrentWords ==
  [][trace' # <<>> =>
       \A i \in Len(trace) + 1 .. Len(trace') :
         /\ Fetchable(trace'[i].pc)
         /\ mem[trace'[i].pc] = trace'[i].decoded
         /\ Lowerable(trace'[i].decoded)]_vars

Returns == phase # "idle" /\ phase' = "idle"

\* The stop reason tells the truth about guest memory at next_pc.
HonestStop ==
  [][Returns =>
       LET reason == result'.reason
           stop   == result'.next_pc
       IN  /\ reason \in BoundaryReasons =>
                /\ Fetchable(stop)
                /\ ~ Selectable(mem[stop])
                /\ reason = "ControlFlow" <=> IsControlTransfer(mem[stop])
                /\ reason = "Trap" <=> IsTrap(mem[stop])
           /\ reason = "AnalysisFailure" => ~ AnalysisOk(mem, stop)
           /\ reason = "LoweringFailure" =>
                Selectable(mem[stop]) /\ ~ Lowerable(mem[stop])
           /\ reason = "BlockBudgetExhausted" => result'.blocks_executed = max_blocks]_vars

\* A candidate that fails before native execution has no effect: no instruction
\* is performed, no block is charged, and the cache, a stale entry included, is
\* as it was when the candidate was selected.
FailedCandidateIsAtomic ==
  [][Returns /\ result'.reason \in FailureReasons =>
       /\ UNCHANGED <<mem, cache, trace, current_pc>>
       /\ result'.blocks_executed = result.blocks_executed
       /\ result'.instructions_executed = result.instructions_executed]_vars

\* The dispatcher implements straight-line execution: with the cache, the stages
\* and the statistics hidden, each of its steps is a step of the abstract run.
Abstract ==
  INSTANCE StraightLineExecution WITH
    running <- phase # "idle",
    pc      <- result.next_pc,
    budget  <- max_blocks,
    chunks  <- result.blocks_executed,
    reason  <- IF phase = "idle" THEN result.reason ELSE "Running"

ImplementsStraightLineExecution == Abstract!Spec

\* Every run returns, whatever the code it meets and the state of the cache.
EveryRunReturns == (phase # "idle") ~> (phase = "idle")

\* What the design document says of next_pc at every stop, LoweringFailure
\* included: "If execution stops before any native instruction at a location,
\* next_pc is exactly that location."  Nothing past instructions_executed ran.
StopsWhereProgressStopped ==
  phase = "idle" =>
    result.next_pc = Add32(start_pc, 4 * result.instructions_executed)
=============================================================================
