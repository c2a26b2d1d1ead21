# Verification of Burnout 3 Recompiled

TLA+ models of the code under `src/src`, the TLC runs that check them on small
instances, and the theorems TLAPS proves about them for every value of their
constants. Paths below are those of the repository: `recompiler/...` is
`src/src/recompiler/...`.

The repository at this commit is an experimental PS2 recompiler. It loads a PS2
ELF, analyses its R5900 code, and executes straight-line prefixes of it as native
x86-64 code; next to that it has a Win32 window with a paced main loop, and
console tools. It does not execute branches, loads or stores yet, and so neither do
the models.

## 1. The system

### Components

| Component | State it keeps | Operations | What makes it correct |
|---|---|---|---|
| **Block dispatcher** `recompiler/windows/r5900_block_dispatcher.cpp` | the cache of native blocks by guest address, each with its words and their fingerprint; locals and result of a run | `run`, `clear_cache` | only code that memory holds now is executed; progress, counters and stop reason are exact; failures leave no trace; a run returns |
| **Basic-block analysis** `analysis/r5900_control_flow.cpp` | none | `analyze_r5900_basic_block` | every instruction fetched is in an executable region; edges go where the machine would; the program counter wraps |
| **Reachability analysis** `analysis/r5900_reachability.cpp` | worklist, scheduled addresses, the graph | `analyze_r5900_reachability` | finds exactly what is reachable, or says what it has left out; ends on every program |
| **IR lowering** `recompiler/r5900_ir.cpp` | none | `lower_r5900_instruction` | whatever it emits is accepted downstream |
| **IR validation** `recompiler/r5900_ir_validation.cpp` | none | `validate_r5900_ir_instruction` | nothing it accepts reads or writes a register that is not there |
| **Reference executor** `recompiler/r5900_ir_executor.cpp` | the guest state of its caller | `execute_r5900_ir` | the meaning of IR: later stages are measured against it |
| **Native code backend** `recompiler/windows/r5900_x64_backend.cpp` | one executable page per compiled block | `compile_r5900_ir_x64`; move, destroy and `execute` of `R5900X64CompiledBlock` | native code computes what the executor does; a page has one owner and is never writable and executable at once |
| **Guest memory map** `runtime/ps2_memory_map.cpp` | regions and their bytes | `from_elf`, `translate`, `read_*`, `write_*` | regions are disjoint; bytes are those of the file, the rest zero; an access is inside one region or fails |
| **Decoder** `recompiler/r5900_decoder.cpp` | none | `decode_r5900`, targets | classification of words |
| **ELF parser and analysis** `recompiler/ps2_elf.cpp`, `analysis/ps2_elf_analysis.cpp` | none | `parse_ps2_elf`, `analyze_ps2_elf` | exactly the well-formed files are accepted; what is loaded is what the file says |
| **Analysis report** `analysis/r5900_analysis_report.cpp` | none | `render_r5900_analysis_report` | equivalent evidence gives the same report; its counts are those of the guest program |
| **Frame pacing core** `core/frame_schedule.cpp`, `core/frame_stats.cpp`, `core/frame_pacing_telemetry.cpp` | next deadline; a ring of samples | `advance_after_frame`; `add_frame`, `snapshot`, `reset`; `summarize_frame_pacing` | no drift, no burst of frames after a delay; sums are those of the recent frames; percentiles are those of the capture |
| **Windows frame pacer** `platform/windows/windows_frame_pacer.cpp`, `qpc_clock.cpp` | a waitable timer, the raised resolution of the system clock | construction, `wait_for_next_frame`, destruction | no frame before its deadline; the wait returns whatever the timer does; nothing acquired is kept |
| **Window and bootstrap** `platform/windows/win_main.cpp`, `win32_window.cpp`, `crash_handler.cpp` | window handle, message queue, quit request, exit code | `wWinMain`, `pump_messages`, the window procedure | closing the window ends the loop, and no frame runs without a window; every way out releases all and says what failed |
| **Command-line tools** `tools/`, `platform/windows/burnout3_pacing_probe_*.cpp` | the files they open | parsing of options, the analyzer, the pacing probe | a command line means what it says as a whole; a failure spoils no file; success means that there is a report |
| **Options, log** `core/runtime_options.cpp`, `debug/log.cpp` | the log file | `RuntimeOptions::parse`; `initialize`, `shutdown` | as above |

### How they interact

```
analyzer: options -> read file -> ELF parser -> memory map -> reachability -> report -> write file
                                                    |              |
                                                    |     basic-block analysis
                                                    |              |
                                       block dispatcher -----------+
                                             | lowering -> validation -> x64 backend
                                             | caches, executes             |
                                             +------------------> compiled block (native page)

game:  options -> window -> main loop: pump messages, frame pacer, frame statistics
probe: options -> open file -> frame pacer, clock -> telemetry summary -> flush file
```

* The dispatcher holds a reference to guest memory, which its caller owns and may
  rewrite between two runs; `clear_cache` too may come between any two runs. During
  a run, native code has no stores yet, so memory stands still.
* The dispatcher owns compiled blocks, moves them into its cache, and destroys them by
  replacing or clearing entries. On the way from the backend to the cache a block passes
  through two locals, and the cache's container may throw.
* Executor and backend take the same IR and guest state and share only the validator;
  tests compare their results on examples.
* `analyze_ps2_elf` calls the parser, `from_elf` and the search in turn, and returns the
  error of the first that fails.
* The main loop is one thread. The pacer gives the processor away in its wait, and the
  operating system may take it away anywhere. The user posts messages to the window
  whenever there is one; the loop sees them once per frame.

### What is hard

Nothing runs concurrently within the recompiler, and the only thing persisted is a
report. What is hard to test there is: code that changes *between* runs, under a cache; any
stage failing, or throwing, after others have succeeded; sequences of moves and overwrites
of owners; a guest program counter that wraps; limits reached in the middle of a
search; sizes and offsets whose sum overflows. In the pacing code it is time passing
between a reading of the clock and its use, and a window that is closed
while a frame is being waited for. In the tools it is the order in which files are opened,
emptied, written and flushed when one of these fails. `PROJECT.json` lists each hazard at
its line with the properties that cover it.

## 2. The modules

### Dispatcher and analysis

* **`R5900Isa`** is what control flow and lowering read of a decoded word: a record of
  `instruction`, `rd`, `immediate` and `target` in place of the raw word, the classes of
  instructions (`IsControlTransfer`, `IsTrap`, `DispatcherEligible`) and `Lowerable`.
* **`R5900ControlFlow`** is `analyze_r5900_basic_block` as an operator: the loop
  becomes the first index at which it leaves. Branches of the code
  for transfers that have no target (`r5900_control_flow.cpp` 117-120, 131-134,
  141-144) and its default (159-163) cannot be reached and are absent.
* **`R5900BlockDispatcher`** has one action per stage of `run` (`BeginRun`, analysis and
  prefix selection, `Lookup` with its hit, miss and stale entry, lowering, compilation and
  installation, execution), one per failure of a stage, and the caller's own: write a word, clear
  the cache. `trace` is a history variable: the instructions that native blocks
  performed in the run. Two branches of the code do not arise and are absent: an
  empty chunk (lines 157-161) and a chunk that changes while it is read
  (168-173). `Init` is the state after construction; its result is the one that
  a run with a budget of zero leaves.
* **`StraightLineExecution`** is the abstract specification: guest code is performed as
  memory holds it, in uninterrupted chunks, with a true reason at the end. There is no
  cache in it and no compiler. `R5900BlockDispatcher!Abstract` is the refinement mapping.
* **`R5900NativeCodeCache`** is one iteration of `run` seen from its blocks: every object
  that holds a page on the way (`*compiled.block`, `replacement`, the entry), every
  point at which the backend fails or the standard library throws, and the order in which
  the locals are destroyed. It uses the operations of `R5900X64CompiledBlock` as they are,
  so what is proved of those holds here. The prefix at an address is one value.
* **`R5900Reachability`** has one action per way an iteration of the worklist loop goes
  (finish, limit reached, entry fails, target fails, block discovered) and one per edge
  of the block discovered; the check for overlapping leaders is part of the step that ends
  the search. Calls and issues are sets, because no two are equal and the report
  sorts them.
* **`R5900AnalysisReport`** is the renderer: a record of sections in their order, with
  the counts, the histogram and the unknown sites. A block's place in the sorted list is the
  number of blocks that start before it, and an ordered map is a function. Its properties
  compare it with the guest program taken one instruction at a time, where there are no
  basic blocks.

### Intermediate representation and native code

* **`R5900Ir`** has IR instructions, `Lower` and the validator, check by check in the code's
  order. A 32-bit word is the set of its bits that are one.
* **`R5900IrExecutor`** is `execute_r5900_ir`, one instruction per step, validating each
  when it comes to it: what precedes a rejected instruction stays performed.
* **`R5900X64Code`** is the code each emitter produces and a machine that steps through
  it, over the guest state as flat memory at the offsets of its fields. An x64 instruction
  is a record in place of its encoding; the two `psrldq` of a lane are one instruction.
  Validation excludes `unsupported_backend_opcode`, so no action reports it.
* **`R5900IrPipeline`** composes them: a program, lowered from guest code or given as IR,
  is executed by both on the same guest state. They share nothing, so the order of the two
  is immaterial.
* **`R5900X64CompiledBlock`** is the life of pages and of the objects that own them:
  allocation, copy, protection, flush and return of a block, each with its failure, and
  construction, moves, self-moves and destruction by the client. Rejected IR leaves no page
  behind and is a stutter here; `std::bad_alloc` from the reservation
  outside the `try` is left out.

### Memory

* **`Ps2MemoryMap`** has `from_elf` with its checks, sort and storage, `translate`, and
  scalar reads and writes, with `range_status` of the control-flow analysis, which walks the same
  regions in its own way. A write is one scalar; a segment is what the parser guarantees
  of it, so the payload mismatch that `from_elf` also checks for cannot arise.
* **`Ps2ElfLoader`** puts the parser in front of it, check by check in the code's order, as
  `analyze_ps2_elf` does. A file is its bytes, the set of the fixed header fields that
  are wrong, and the numbers the parser reads. `AddressSpace` is the bound of a 32-bit
  number as well as of guest memory.

### Frames and the process

* **`FramePacing`** has the schedule, the pacer's construction and destruction, and the wait
  step by step (`EnterLate`, `EnterSoon`, `EnterEarly`, `Arm`, `ArmFails`, `Wake`, `Spin`,
  `Return`), with `Tick` between any two. Ticks are whole numbers where the code has
  doubles, and the performance counter does not fail.
* **`Bootstrap`** is `wWinMain`: one action per step and per failure, from the command
  line through window, timers, message pump, frames and report to the destructors, with
  what each acquires and releases in `held`. The user's messages arrive between any two
  steps. A wait is that of `FramePacing`, whose actions it takes one by one.
* **`FrameStats`** is the ring, which a snapshot sums up; **`FrameWindow`** is what it
  promises, the statistics of the most recent frames. One duration stands for the
  three that are summed alike; averages and rate follow from sum and count.
* **`FramePacingTelemetry`** is the summary of a capture, with the definition of a
  percentile by nearest rank that it is compared with. The sort is given by how many
  samples are below each place.

### Tools

* **`CommandLines`** is the three option parsers as one fold over a grammar that tells
  them apart, and the meaning of a command line as a whole, without an order of reading.
* **`ConsoleTools`** runs the analyzer and the probe on a few files: each step, each
  failure, and what it does to the files. Opening for output empties a file; whether it
  was written shows at the latest when the stream is flushed.

### Who composes whom

`R5900Isa` < `R5900ControlFlow` < `R5900BlockDispatcher`, `StraightLineExecution`,
`R5900Reachability` < `R5900AnalysisReport`. `R5900Isa` < `R5900Ir` < `R5900IrExecutor`,
`R5900X64Code` < `R5900IrPipeline`. `R5900X64CompiledBlock` < `R5900NativeCodeCache`.
`Ps2MemoryMap` < `Ps2ElfLoader`. `FramePacing` < `Bootstrap`. `FrameWindow` <
`FrameStats`. `CommandLines`, `FramePacingTelemetry` < `ConsoleTools`. `MC*` modules give constants their
values for TLC; `*Proofs` and `*Theorems` hold theorems. Definitions that
directly precede one they vary, such as `FingerprintCacheHit`, are the plausible
bugs with which each property is tested; nothing else uses them.

## 3. What TLC checks

| Run | Instance | Shows |
|---|---|---|
| `dispatcher_core` | 5 words, 5 addresses of which one is a hole, 2 instructions per block, budgets 1 and 2 | `CacheSound`, `ResumePoint`, `Accounting`, and of every step `ExecutesCurrentWords`, `HonestStop`, `FailedCandidateIsAtomic` |
| `dispatcher_refinement` | 4 addresses, data among them that may be fetched, an ineligible and an unknown word, budget 3 | with the cache hidden, a run is straight-line execution (`ImplementsStraightLineExecution`), and `EveryRunReturns`, also where code can be fetched at every address and need never end |
| `dispatcher_lowering_failure` | the dispatcher with an eligible word that lowering rejects | a disagreement: see below |
| `native_code_cache` | 2 addresses, 4 prefixes of which two compile to the same code and one does not lower, 3 pages | `EntriesAreExecutable`, `ExecutesMemorysCode`, `PagesAreEntries` |
| `reachability` | every program of 7 words over 4 mapped addresses and a hole, entries aligned and not, limits 0, 3 and 5 | `ExactlyReachable`, `TruncationIsReported`, `EvidenceIsComplete`, `NearestFirst`, `OverlapsAreReported`, `AnalysisEnds`; of the report `UnknownWordsAreListed`, `CallSitesAreCounted`, `ReportIsCanonical` |
| `compiled_block` | 4 pages, 3 objects, 2 codes | `OnePageOneOwner`, `BlocksHoldTheirCode`, `WriteXorExecute` |
| `memory_map` | files of 5 bytes with up to 3 of 10 program headers, in any order, over 7 addresses; short files, wrong fields, tables at and past the end | `FilesLoadAsWritten`, `WritesAreExact`, `RangeStatusAgrees` |
| `ir_pipeline` | 3 registers of four-bit words; every eligible instruction with aliased registers, pairs of them that feed one another, malformed IR; 4 guest states | `NativeAgreesWithExecutor`, `LoweredProgramsAreAccepted`, `OnlyDestinationsChange` |
| `bootstrap` | period 3, spin threshold 1, clock up to 12, 2 messages in the queue | `OnTimeline`, `OneFramePerSlot`, `WaitReturns`, `NoFrameWithoutWindow`, `ExitsAreClean`, `CloseEndsTheLoop` |
| `frame_stats` | ring of 4, 3 samples | `ImplementsFrameWindow` |
| `console_tools` | the three programs, command lines of up to 4 arguments, files that are an ELF, something else or absent, captures of 6 frames and one too long | `CommandLineMeansWhatItSays`, `FailedAnalysisKeepsFiles`, `ProbeSuccessMeansReport`, `SummaryDescribesCapture` |
| `analyze_overwrites_input` | the same | a disagreement: see below |

### Bounds, and why they are enough

* *Addresses.* `AddressSpace` stands for 2^32. Chunks of two or three
  instructions over four or five words make a block wrap, meet a hole, end at data, be
  entered in its middle, and be overwritten in part. Nothing in the code
  depends on distances other than zero, one block or out of range; what is
  proved does not depend on the size at all.
* *Fingerprints.* `MCFingerprint` sends all blocks of one address and length to one value:
  each comparison the cache makes is a collision, the worst a hash can do.
* *Budget.* One or two blocks reach every exit of the loop before and after one block;
  three add a middle one. A budget of zero returns at once with the empty result, which
  is that of `Init`.
* *Prefixes.* Two addresses are an iteration's own entry and a bystander. Three pages are
  both entries and one replacement: an allocation beyond them can only fail, which it may
  do at any time anyway.
* *Block limits.* 0 is rejected, 3 truncates the larger programs, 5 never does.
* *Pages and objects.* Three objects are what a move, its target and a bystander need.
  `Compile` asks for a free object to return to, which bounds the objects alive. There
  is one page more than objects can own, so that an allocation fails only because the
  system refuses it.
* *Files.* Ten headers are the ways segments meet, overlap, touch, or leave the
  file or the address space, with offsets whose sum with a size wraps to a small
  number; three in any order give each pair a bystander. Five bytes hold two for the
  header and up to three for the table.
* *Memory.* A scalar of 1, 2 or 4 bytes can lie in one region, across two, or past the end.
  Two values of a byte tell the byte orders apart.
* *Words of IR.* `WordBits` 4 stands for 32. A 64-bit value is two words and a
  128-bit value four, as in the code, so all widths and offsets differ
  as they do there. Sums carry, saturate and sign-extend in some guest states and not in
  others. Three registers alias in all ways two sources and a destination can.
  `FloatAdd` is any fixed function: both sides call the host's addition under
  the same MXCSR; the order in which NaN payloads are chosen is left out.
* *Clock.* `MaxTime` is four periods: early, soon, late, and late by more than a period all
  occur. The bound is in the guard of `Tick`; `OutOfTime` names the states in which a wait
  cannot end before it, and `WaitReturns` asks nothing of those. `CloseEndsTheLoop` lets go
  only of the wait that was running when the window was told to close.
* *Messages.* With two in the queue one can follow the one that closes the window.
* *Command lines.* Four arguments are two options with their values: repeated, in either
  order, one missing or serving as the other's value. `kTargetHz` 6 gives captures
  of which 50, 95 and 99 per cent are whole ranks and not; 2 seconds is past `SizeMax`,
  1 is not; the percentiles 1 to 100 are all compared.
* *Ring.* `kWindowSize` 4 stands for 120: it fills, wraps, and is reset in any
  phase.

Deadlock is checked except where the model stops by design: a search that is done, a
program that has been executed, a file that was refused, a process or tool that has exited.

### Fairness

* `dispatcher_refinement` assumes `WF(Dispatch)`: `run` is a thread that waits for
  nothing. The caller's actions have none.
* `reachability` assumes `WF(Next)`, for the same reason.
* `bootstrap` assumes `WF(TimePasses)` and `WF(wWinMain)`: time passes, and a thread that can
  run is run in the end, by the operating system. The timer may still fail to be armed,
  or signal late by any amount, and the user need not do anything.

The other runs assume none.

### Two disagreements with the documentation

The dispatcher's design says of `next_pc`
(`docs/superpowers/specs/2026-09-04-r5900-block-dispatcher-v0-design.md`) that if
execution stops before any native instruction at a location, it is exactly
that location: where progress stopped. After a lowering failure in the middle of a
prefix the code reports the *rejected* instruction (`r5900_block_dispatcher.cpp` 203),
and the instructions of the prefix before it have not been executed. A caller
that resumes at `next_pc` would skip them. The run
`dispatcher_lowering_failure` shows it; `ResumePoint` states what
does hold: every other stop is exact, and `current_pc` of the run is so always.

The analyzer's manual says that the tool does not modify the supplied ELF
(`docs/ANALYSIS_TOOL.md` 86 and 95). It opens the file named by `--output` for
truncation (`tools/burnout3_analyze_app.cpp` 74) without comparing it with the one named by
`--elf`; given the same name twice it replaces the ELF by its report and returns 0. The run
`analyze_overwrites_input` shows it. `FailedAnalysisKeepsFiles` states what does
hold: a run that fails leaves all files alone, unless the device refuses the report itself.

## 4. What is proved

Every safety property of the passing runs is a theorem, for every value of the
constants: any guest program, memory layout, address space, word width, option, limit,
file, command line and capture. What is left to TLC is liveness, and of that only
fairness: that no run and no analysis can go on for ever, and that no frame follows a
close, is proved.

### Assumptions

The theorems rest on the named `ASSUME`s of the modules, which TLC evaluates in each run. They
say that sets are sets of what they should be, and beyond that:

* `AddressSpaceAssumption`: the address space is positive and a multiple of four, and the
  reach of a jump divides it. `MemoryAssumption` asks for at least two values of a byte.
* `WidthAssumption`: a word has an even number of bits, at least four; `FloatAssumption`:
  the host adds two words to a word.
* `GuestAssumption` and `IrAssumption`: guest programs have the fields that the decoder
  gives them, an immediate of 16 bits among them, and IR has the fields of the C++ types,
  with an immediate of 64. It need not be valid.
* `FileAssumption`: a file is a finite sequence of bytes and headers, whatever is in them.
* `ToolsAssumption`: the probe's rate and its default duration are not zero.
* `CacheAssumption`: compilation is a function of the words.

The fingerprint of a block, in particular, is any function: exactness rests on the
comparison of words.

### The arguments

* **Dispatcher** (`R5900BlockDispatcherProofs`, over `R5900ControlFlowTheorems`).
  `Inv` is inductive. `ExecutesCurrentWords` is not by itself: a step
  that executes knows what it executes only because the entry is the record of the
  candidate's words (`BlockMatchesCandidate`), which a cache hit establishes only because every
  entry is the record of *some* whole and lowerable sequence (`CacheSound`), and
  the candidate is what memory holds only because it is the analysis at `current_pc`,
  where the run has come to (`ResumePoint`). With `Inv`, `StaleCodeNeverExecutes`,
  `FailuresAreAtomic` and `StopReasonsAreTrue` follow step by step. `Implementation` is the
  refinement: under `Inv` each step is a step of `StraightLineExecution` or leaves
  its state unchanged. `RunsAreFinite` has a measure, five for each block left in the budget
  less the stages already passed, which every step of a run makes smaller.
* **Reachability** (`R5900ReachabilityProofs`). `SearchInv` strengthens the types and
  the lists: what was found is reachable, by a sequence of edges, and
  every edge already passed leads to something scheduled or reported. When the worklist
  is empty this makes the graph closed, hence exact (`GraphIsExact`); a graph that leaves
  something out has named it (`TruncationIsNeverSilent`). `AnalysisIsFinite`: what is
  reachable lies in a finite set, each address of which is scheduled once at most and gives
  two edges at most, so that the steps left are a number known at the start, and each
  step makes it smaller.
  `EvidenceInv` ties what has been recorded to the edges passed so far
  (`EvidenceIsKept`). `OverlapsAreNeverSilent` rests on arithmetic: if two blocks share
  an address, going back from it the same number of words in both, around the end of the
  address space if need be, ends at the start of one of them inside the other.
  `GraphGrowsByDistance` has an invariant of its own, `BreadthInv`: at any moment there is
  a distance *d* such that all that is within *d* has been dealt with or scheduled, and the queue holds
  first what is at *d* and then what is at *d* + 1. The property speaks of a
  recursive function, of which a prover knows nothing until it exists; `LayersExist` builds it as
  the least relation closed under the recursion.
* **Report** (the same module). A report is compared with `Visited`, where control comes to one
  instruction at a time. Both are least sets, so each inclusion is shown by giving a
  set with the other's closure: control stays on the walks of the blocks
  (`VisitedIsOnWalk`) and goes along every walk (`WalksAreVisited`). So an instruction
  that ends blocks is the last of some block of the graph (`VisitedEndsBlock`), and the unknown
  words are those of the blocks and their delay slots (`ReportListsUnknownWords`). For this a
  search that ends without an error must have found a block (`EntryInv`). That calls are
  counted once (`ReportCountsCallSites`) is a bijection between calls and JAL
  instructions, one to one because two blocks with the same end would share an address. That the
  order does not matter (`ReportHasOneOrder`) is a bijection too: no two blocks have the
  same number of blocks before them, so each place is that of one block.
* **Executor and native code** (`R5900IrPipelineProofs`). First `LoweringIsAccepted`: what is lowered
  passes validation. Then, bottom up: no two cells of the guest state share an offset, so that memory
  and registers correspond; what one x64 instruction does to the machine; what the code
  of one IR instruction does, opcode by opcode (`EmitRuns`): it leaves the memory of the state the
  executor leaves; the code of a whole program, concatenated, with the stores that keep register
  zero at zero and the return (`CodeRuns`). `PipelineInvariant` says of a run in
  progress which prefix has been performed, on either side. `BackendsAgree` follows, and with it
  `OthersAreKept`: no cell changes but the destinations of the program.
  `AccessesStayInside`: since each instruction is valid, so is every offset that the emitters
  make of it, with the width of the access, and code that runs is at one of these
  instructions or at its return. `TypeCorrectness` adds that what is moved has the width of
  its register, for which an immediate must have the two words of its type.
* **Compiled blocks** (`R5900NativeCodeCacheProofs`). `CompilationInv` says what the
  locals of a compilation in progress own; with it `OnePageOneOwner` and
  `BlocksHoldTheirCode` are inductive, and `WriteXorExecute` follows.
* **Native code of the cache** (the same module). Each
  step of an iteration is a step of `R5900X64CompiledBlock` or leaves pages and blocks
  alone (`DispatcherIsClient`), so its invariant holds here too. The one step that
  is not an operation of a block is a throwing `emplace`, which destroys the node it has
  moved the block into; its effect on pages is that of assigning a block that
  holds nothing. `CacheInv` adds `OwnersInv`, which object holds what at each phase.
  It is needed because an entry stays executable while it is being replaced only if no
  step on the way to the replacement touches the entry's object, and because
  nothing leaks only if the phase tells which locals are alive.
* **Loading and guest memory** (`Ps2ElfLoaderProofs`). `LoaderInv` says of each phase what
  is known of the file and of the regions: a parsed file is well formed, and regions are
  its non-empty segments, disjoint and ascending, whichever order equal addresses were sorted in, since
  `std::sort` is not stable. `FilesAreLoaded` and `RangesAreClassified` follow; the second compares two
  walks over the same regions. For `ScalarsAreExact` a scalar is the digits of its value: the
  bytes a write leaves are those that a read of any width at any address puts together again.
* **Frame pacing** (`FramePacingProofs`). All rests on what `advance_after_frame`
  computes: the least slot after now. The deadline is the next slot, slots do not drift,
  and none has two frames. `ProcessPaces` shows that the process takes the pacer's steps
  and no others on its state, which carries these over to the process. `BootInv` says
  what is held, and what has failed, at each step of `wWinMain`; `NoFrameWithoutWindow`
  and `ExitsAreClean` follow for queues of any length. `CloseEndsFrames`: a close is
  posted by the user, and all that is in the queue is dispatched before a frame, so
  the frame that was running then is the last.
* **Tools** (`ConsoleToolsProofs`). `ToolsInv` ties the step a tool is at to what it has
  opened, read and captured (`FailuresKeepFiles`, `SuccessMeansReport`). The parser is a
  fold; its intermediate states make a trace, along which `Reads` says that the options given
  so far are those the arguments read so far mean (`LinesMeanWhatTheySay`). A percentile is the
  sample at its rank because the sort is determined by counting, and a total is the last of
  its prefix sums (`SummaryIsExact`).
* **Frame statistics** (the same module). `RingIsWindow`: the ring is a rotation of the window, and
  a sum does not depend on where it starts; each step maps to a step of `FrameWindow`.

### Model-checked only

Liveness (`EveryRunReturns`, `AnalysisEnds`, `WaitReturns`, `CloseEndsTheLoop`) is out of the
prover's reach: it needs fairness and ENABLED. `RunsAreFinite`, `AnalysisIsFinite` and
`CloseEndsFrames` are the safety halves of the first two and of the last: what TLC adds to
them is that the next step can be taken, and under the stated fairness is. `PipelineInvariant`
and `BreadthInv` quantify over all traces and functions and cannot be evaluated; the runs
check what follows from them.

## 5. What is not modelled

* Decoding a raw word into its fields, memory widths and names: tables of constants.
* The wording and layout of reports, the lines of the log, and messages wherever they
  occur; the standard deviation of a capture.
* The crash handler: it runs once the process is lost, and writes two files.
* The loops inside of Windows while the window is dragged or its menu is open; a
  performance counter that fails; the statistics the main loop keeps, which are
  those of `FrameStats`, and their rate of output.
* Exceptions for want of memory except where a model has them: in the cache, the pacer's
  construction, the line of the report and the capture.
* Whether a successful analysis has reached its file: the outcome of the last flush is
  ignored (`tools/burnout3_analyze_app.cpp` 79), so there is nothing to promise.
* Wall-clock cost.

## 6. Plan

What executes guest code was modelled first, then what it stands on, then frames, then
the process, the loader, the report and the tools; then the safety properties were proved,
in the same order. What is left:

1. The crash handler: which of its two files can be trusted when the other is missing.
2. The decoder's tables, against the masks and fields of the words they tell apart.
