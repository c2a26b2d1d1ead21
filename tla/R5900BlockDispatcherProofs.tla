--------------------- MODULE R5900BlockDispatcherProofs ---------------------
(***************************************************************************)
(* Theorems about the dispatcher, for every guest program, memory layout,   *)
(* address space, analyser option, fingerprint function and block budget.   *)
(***************************************************************************)
EXTENDS R5900BlockDispatcher, R5900ControlFlowTheorems

\* The elements a concatenation adds, by their index in the whole.
LEMMA ConcatIndex ==
  ASSUME NEW S, NEW a \in Seq(S), NEW b \in Seq(S)
  PROVE  /\ Len(a \o b) = Len(a) + Len(b)
         /\ \A i \in Len(a) + 1 .. Len(a \o b) :
              i - Len(a) \in 1 .. Len(b) /\ (a \o b)[i] = b[i - Len(a)]
<1>1. Len(a) \in Nat /\ Len(b) \in Nat /\ Len(a \o b) = Len(a) + Len(b)
  OBVIOUS
<1>2. ASSUME NEW i \in Len(a) + 1 .. Len(a \o b)
      PROVE  i - Len(a) \in 1 .. Len(b) /\ (a \o b)[i] = b[i - Len(a)]
  BY <1>1
<1> QED BY <1>1, <1>2

(***************************************************************************)
(* The candidate of an analysed chunk                                       *)
(***************************************************************************)
\* The selected prefix ends where the selection loop breaks, or with the chunk.
LEMMA PrefixShape ==
  ASSUME NEW sites, NEW n \in Nat, Len(sites) = n
  PROVE  /\ PrefixLength(sites) \in 0 .. n
         /\ \A i \in 1 .. PrefixLength(sites) : Selectable(sites[i].decoded)
         /\ Breaks(sites) = {} => PrefixLength(sites) = n
         /\ Breaks(sites) # {} =>
              /\ PrefixLength(sites) < n
              /\ First(Breaks(sites)) = PrefixLength(sites) + 1
              /\ ~ Selectable(sites[PrefixLength(sites) + 1].decoded)
<1> DEFINE B == Breaks(sites)
<1>1. B \in SUBSET Nat /\ B \subseteq 1 .. n
  BY DEF Breaks
<1>2. \A i \in 1 .. n : i \notin B <=> Selectable(sites[i].decoded)
  BY DEF Breaks
<1>3. CASE B = {}
  BY <1>2, <1>3 DEF PrefixLength
<1>4. CASE B # {}
  <2>1. First(B) \in B /\ \A j \in B : First(B) <= j
    BY <1>1, <1>4, FirstIsLeast
  <2>2. PrefixLength(sites) = First(B) - 1
    BY <1>4 DEF PrefixLength
  <2>3. First(B) \in 1 .. n /\ ~ Selectable(sites[First(B)].decoded)
    BY <1>1, <1>2, <2>1
  <2>4. ASSUME NEW i \in 1 .. First(B) - 1
        PROVE  Selectable(sites[i].decoded)
    <3>1. i \in 1 .. n /\ i < First(B)
      BY <2>3
    <3>2. i \notin B
      BY <1>1, <2>1, <3>1
    <3> QED BY <1>2, <3>1, <3>2
  <2> QED BY <1>4, <2>2, <2>3, <2>4
<1> QED BY <1>3, <1>4

\* What the dispatcher knows of a chunk it has analysed at pc: the prefix is the
\* guest code at pc, all of it fetchable and selectable, and the boundary, if
\* there is one, is the first word after it.
LEMMA CandidateShape ==
  ASSUME NEW m, m \in [MappedPc -> Word], NEW pc \in Pc, AnalysisOk(m, pc)
  PROVE  LET c == CandidateOf(AnalyzeBasicBlock(m, pc).block.instructions)
             k == Len(c.prefix)
         IN  /\ c.prefix = [i \in 1 .. k |->
                              [pc |-> SitePc(pc, i), decoded |-> m[SitePc(pc, i)]]]
             /\ k \in 0 .. max_instructions
             /\ \A i \in 1 .. k : /\ Fetchable(SitePc(pc, i))
                                  /\ Selectable(m[SitePc(pc, i)])
             /\ c \in Candidate
             /\ \/ k > 0 /\ c.boundary = NoBoundary
                \/ /\ c.boundary = [reason |-> BoundaryReason(m[Add32(pc, 4 * k)]),
                                    pc     |-> Add32(pc, 4 * k)]
                   /\ Fetchable(Add32(pc, 4 * k))
                   /\ ~ Selectable(m[Add32(pc, 4 * k)])
<1> DEFINE n == Iterations(m, pc)
           s == Sites(m, pc)
           k == PrefixLength(s)
           c == CandidateOf(s)
<1>1. /\ n \in 1 .. max_instructions
      /\ AnalyzeBasicBlock(m, pc).block.instructions = s
      /\ \A i \in 1 .. n : Fetchable(SitePc(pc, i))
  BY AnalysisShape
<1>2. n \in Nat /\ n > 0 /\ n <= max_instructions
  BY <1>1, OptionsAssumption
<1>3. s = [i \in 1 .. n |-> [pc |-> SitePc(pc, i), decoded |-> m[SitePc(pc, i)]]]
  BY DEF Sites
<1> HIDE DEF n, s
<1>4. ASSUME NEW i \in 1 .. n
      PROVE  SitePc(pc, i) \in Pc /\ m[SitePc(pc, i)] \in Word
  <2>1. SitePc(pc, i) \in MappedPc
    BY <1>1, <1>4 DEF Fetchable
  <2> QED BY <2>1 DEF MappedPc, AlignedPc
<1>5. s \in Seq(Site) /\ Len(s) = n
  BY <1>2, <1>3, <1>4 DEF Site
<1>6. /\ k \in 0 .. n
      /\ \A i \in 1 .. k : Selectable(s[i].decoded)
      /\ Breaks(s) = {} => k = n
      /\ Breaks(s) # {} =>
           k < n /\ First(Breaks(s)) = k + 1 /\ ~ Selectable(s[k + 1].decoded)
  BY <1>2, <1>5, PrefixShape
<1> HIDE DEF k
<1>7. /\ c.prefix \in Seq(Site) /\ Len(c.prefix) = k
      /\ c.prefix = [i \in 1 .. k |-> [pc |-> SitePc(pc, i), decoded |-> m[SitePc(pc, i)]]]
  <2>1. c.prefix = SubSeq(s, 1, k)
    BY DEF CandidateOf, k
  <2>2. SubSeq(s, 1, k) = [i \in 1 .. k |-> s[i]]
    BY <1>2, <1>5, <1>6
  <2>3. [i \in 1 .. k |-> s[i]]
          = [i \in 1 .. k |-> [pc |-> SitePc(pc, i), decoded |-> m[SitePc(pc, i)]]]
    BY <1>2, <1>3, <1>6
  <2>4. \A i \in 1 .. k : s[i] \in Site
    BY <1>2, <1>5, <1>6
  <2>5. [i \in 1 .. k |-> s[i]] \in Seq(Site) /\ Len([i \in 1 .. k |-> s[i]]) = k
    BY <1>2, <1>6, <2>4
  <2> QED BY <2>1, <2>2, <2>3, <2>5
<1>8. \A i \in 1 .. k : Fetchable(SitePc(pc, i)) /\ Selectable(m[SitePc(pc, i)])
  <2> TAKE i \in 1 .. k
  <2>1. i \in 1 .. n
    BY <1>2, <1>6
  <2>2. s[i].decoded = m[SitePc(pc, i)]
    BY <1>3, <2>1
  <2> QED BY <1>1, <1>6, <2>1, <2>2
<1>9. CASE Breaks(s) = {}
  <2>1. c.boundary = NoBoundary
    BY <1>9 DEF CandidateOf, Boundary
  <2>2. c \in Candidate
    BY <1>7, <2>1 DEF CandidateOf, Candidate
  <2> QED BY <1>1, <1>2, <1>6, <1>7, <1>8, <1>9, <2>1, <2>2
<1>10. CASE Breaks(s) # {}
  <2> DEFINE stop == SitePc(pc, k + 1)
  <2>1. k + 1 \in 1 .. n
    BY <1>2, <1>6, <1>10
  <2>2. s[k + 1] = [pc |-> stop, decoded |-> m[stop]]
    BY <1>3, <2>1
  <2>3. c.boundary = [reason |-> BoundaryReason(m[stop]), pc |-> stop]
    BY <1>6, <1>10, <2>2 DEF CandidateOf, Boundary
  <2>4. Fetchable(stop) /\ ~ Selectable(m[stop]) /\ stop \in Pc
    BY <1>1, <1>4, <1>6, <1>10, <2>1, <2>2
  <2>5. BoundaryReason(m[stop]) \in BoundaryReasons
    BY DEF BoundaryReason, BoundaryReasons
  <2>6. c \in Candidate
    BY <1>7, <2>3, <2>4, <2>5 DEF CandidateOf, Candidate
  <2>7. stop = Add32(pc, 4 * k)
    BY <1>2, <1>6 DEF SitePc
  <2>8. k \in 0 .. max_instructions
    BY <1>2, <1>6, OptionsAssumption
  <2> HIDE DEF stop, c
  <2> QED BY <1>1, <1>7, <1>8, <2>3, <2>4, <2>6, <2>7, <2>8 DEF c
<1> QED BY <1>9, <1>10

(***************************************************************************)
(* The inductive invariant                                                  *)
(***************************************************************************)
LEMMA InitInv == Init => Inv
<1> SUFFICES ASSUME Init PROVE Inv
  OBVIOUS
<1>1. start_pc \in Pc /\ current_pc = Add32(start_pc, 0) /\ Add32(start_pc, 4 * 0) = start_pc
  BY InputsAssumption, Add32Zero DEF Init
<1>2. TypeOK
  BY <1>1 DEF Init, TypeOK, Result, FreshResult, StopReason
<1>3. CacheSound
  BY DEF Init, CacheSound
<1>4. BlockMatchesCandidate
  BY DEF Init, BlockMatchesCandidate
<1>5. ResumePoint
  BY <1>1 DEF Init, ResumePoint, FreshResult
<1>6. Accounting
  BY DEF Init, Accounting, FreshResult
<1> QED BY <1>2, <1>3, <1>4, <1>5, <1>6 DEF Inv

LEMMA BeginRunPreservesInv ==
  ASSUME Inv, NEW pc \in StartPc, NEW budget \in Nat,
         NEW reason \in {"InvalidBlockBudget", "AnalysisFailure"},
         NEW next \in {"idle", "analyze"},
         next = "analyze" => budget > 0,
         BeginRun(pc, budget, reason, next)
  PROVE  Inv'
<1> USE DEF BeginRun
<1>1. pc \in Pc /\ Add32(pc, 4 * 0) = pc
  BY InputsAssumption, Add32Zero
<1>2. TypeOK'
  BY <1>1 DEF Inv, TypeOK, Result, FreshResult, StopReason, FailureReasons
<1>3. CacheSound'
  BY DEF Inv, CacheSound
<1>4. BlockMatchesCandidate'
  BY DEF BlockMatchesCandidate
<1>5. ResumePoint'
  BY <1>1 DEF ResumePoint, FreshResult
<1>6. Accounting'
  <2>1. ~ (phase' \in {"lower", "compile", "execute"})
    OBVIOUS
  <2>2. result'.reason \notin {"LoweringFailure", "CompileFailure"}
    BY DEF FreshResult
  <2> QED BY <2>1, <2>2 DEF Accounting, FreshResult
<1> QED BY <1>2, <1>3, <1>4, <1>5, <1>6 DEF Inv

\* A return before native execution reports the address the run has reached,
\* or a rejected instruction, and leaves the accounting closed.
LEMMA ReturnPreservesInv ==
  ASSUME Inv, phase # "idle",
         NEW reason \in StopReason, NEW pc \in Pc, Return(reason, pc),
         pc = current_pc \/ reason = "LoweringFailure",
         phase \in {"lower", "compile", "execute"}
           <=> reason \in {"LoweringFailure", "CompileFailure"}
  PROVE  Inv'
<1> USE DEF Return, runArguments
<1>0. TypeOK /\ result \in Result
  BY DEF Inv, TypeOK
<1>1. TypeOK'
  BY <1>0 DEF TypeOK, Result
<1>2. CacheSound'
  BY DEF Inv, CacheSound
<1>3. BlockMatchesCandidate'
  BY DEF BlockMatchesCandidate
<1>4. ResumePoint'
  BY <1>0 DEF Inv, ResumePoint, Result
<1>5. Accounting'
  BY <1>0 DEF Inv, Accounting, Result
<1> QED BY <1>1, <1>2, <1>3, <1>4, <1>5 DEF Inv

LEMMA FailAnalysisPreservesInv ==
  ASSUME Inv, FailAnalysis PROVE Inv'
<1>1. current_pc \in Pc /\ phase = "analyze"
  BY DEF Inv, TypeOK, FailAnalysis
<1>2. Return("AnalysisFailure", current_pc)
  BY DEF FailAnalysis
<1> QED BY <1>1, <1>2, ReturnPreservesInv DEF StopReason, FailureReasons

\* The candidate of the analysis phase has the shape CandidateShape states.
LEMMA AnalyzedCandidateShape ==
  ASSUME Inv, AnalysisOk(mem, current_pc)
  PROVE  LET c == AnalyzedCandidate
             k == Len(c.prefix)
         IN  /\ c.prefix = [i \in 1 .. k |->
                              [pc |-> SitePc(current_pc, i),
                               decoded |-> mem[SitePc(current_pc, i)]]]
             /\ k \in 0 .. max_instructions
             /\ \A i \in 1 .. k : /\ Fetchable(SitePc(current_pc, i))
                                  /\ Selectable(mem[SitePc(current_pc, i)])
             /\ c \in Candidate
             /\ \/ k > 0 /\ c.boundary = NoBoundary
                \/ /\ c.boundary = [reason |-> BoundaryReason(mem[Add32(current_pc, 4 * k)]),
                                    pc     |-> Add32(current_pc, 4 * k)]
                   /\ Fetchable(Add32(current_pc, 4 * k))
                   /\ ~ Selectable(mem[Add32(current_pc, 4 * k)])
<1>1. mem \in [MappedPc -> Word] /\ current_pc \in Pc
  BY DEF Inv, TypeOK
<1> QED BY <1>1, CandidateShape DEF AnalyzedCandidate

\* With an empty prefix, the boundary is the first word of the chunk.
LEMMA BoundaryOfEmptyPrefix ==
  ASSUME Inv, StopAtBoundary
  PROVE  /\ AnalyzedCandidate.boundary =
              [reason |-> BoundaryReason(mem[current_pc]), pc |-> current_pc]
         /\ Fetchable(current_pc) /\ ~ Selectable(mem[current_pc])
<1>1. AnalysisOk(mem, current_pc) /\ Len(AnalyzedCandidate.prefix) = 0
  BY DEF StopAtBoundary
<1>2. Add32(current_pc, 4 * 0) = current_pc
  BY Add32Zero DEF Inv, TypeOK
<1> QED BY <1>1, <1>2, AnalyzedCandidateShape

LEMMA StopAtBoundaryPreservesInv ==
  ASSUME Inv, StopAtBoundary PROVE Inv'
<1>1. current_pc \in Pc /\ phase = "analyze"
  BY DEF Inv, TypeOK, StopAtBoundary
<1>2. Return(BoundaryReason(mem[current_pc]), current_pc)
  BY BoundaryOfEmptyPrefix DEF StopAtBoundary
<1>3. BoundaryReason(mem[current_pc]) \in BoundaryReasons
  BY DEF BoundaryReason, BoundaryReasons
<1> HIDE DEF BoundaryReason
<1> QED BY <1>1, <1>2, <1>3, ReturnPreservesInv DEF StopReason, BoundaryReasons

LEMMA SelectPrefixPreservesInv ==
  ASSUME Inv, SelectPrefix PROVE Inv'
<1> USE DEF SelectPrefix, runArguments
<1>1. AnalyzedCandidate \in Candidate
  BY AnalyzedCandidateShape
<1>2. TypeOK'
  BY <1>1 DEF Inv, TypeOK
<1>3. CacheSound'
  BY DEF Inv, CacheSound
<1>4. BlockMatchesCandidate'
  BY DEF BlockMatchesCandidate, AnalyzedCandidate
<1>5. ResumePoint'
  BY DEF Inv, ResumePoint
<1>6. Accounting'
  BY DEF Inv, Accounting
<1> QED BY <1>2, <1>3, <1>4, <1>5, <1>6 DEF Inv

\* During the stages after prefix selection the candidate has the shape
\* CandidateShape states.
LEMMA CurrentCandidateShape ==
  ASSUME Inv, phase \in {"lookup", "lower", "compile", "execute"}
  PROVE  LET k == Len(candidate.prefix)
         IN  /\ candidate.prefix = [i \in 1 .. k |->
                                      [pc |-> SitePc(current_pc, i),
                                       decoded |-> mem[SitePc(current_pc, i)]]]
             /\ k \in 1 .. max_instructions
             /\ \A i \in 1 .. k : /\ Fetchable(SitePc(current_pc, i))
                                  /\ Selectable(mem[SitePc(current_pc, i)])
                                  /\ SitePc(current_pc, i) \in Pc
                                  /\ mem[SitePc(current_pc, i)] \in Word
             /\ WordsOf(candidate.prefix) = [i \in 1 .. k |-> mem[SitePc(current_pc, i)]]
             /\ WordsOf(candidate.prefix) \in Seq(Word)
             /\ Len(WordsOf(candidate.prefix)) = k
             /\ candidate.boundary # NoBoundary =>
                  /\ candidate.boundary =
                       [reason |-> BoundaryReason(mem[Add32(current_pc, 4 * k)]),
                        pc     |-> Add32(current_pc, 4 * k)]
                  /\ Fetchable(Add32(current_pc, 4 * k))
                  /\ ~ Selectable(mem[Add32(current_pc, 4 * k)])
<1> DEFINE k == Len(candidate.prefix)
<1>1. AnalysisOk(mem, current_pc) /\ candidate = AnalyzedCandidate /\ candidate.prefix # <<>>
  BY DEF Inv, BlockMatchesCandidate
<1>2. /\ candidate.prefix = [i \in 1 .. k |-> [pc |-> SitePc(current_pc, i),
                                               decoded |-> mem[SitePc(current_pc, i)]]]
      /\ k \in 0 .. max_instructions
      /\ \A i \in 1 .. k : /\ Fetchable(SitePc(current_pc, i))
                           /\ Selectable(mem[SitePc(current_pc, i)])
      /\ candidate \in Candidate
      /\ candidate.boundary # NoBoundary =>
           /\ candidate.boundary =
                [reason |-> BoundaryReason(mem[Add32(current_pc, 4 * k)]),
                 pc     |-> Add32(current_pc, 4 * k)]
           /\ Fetchable(Add32(current_pc, 4 * k))
           /\ ~ Selectable(mem[Add32(current_pc, 4 * k)])
  BY <1>1, AnalyzedCandidateShape
<1>3. candidate.prefix \in Seq(Site)
  BY <1>2 DEF Candidate
<1>4. k \in 1 .. max_instructions /\ k \in Nat
  BY <1>1, <1>2, <1>3, OptionsAssumption
<1>5. \A i \in 1 .. k : SitePc(current_pc, i) \in Pc /\ mem[SitePc(current_pc, i)] \in Word
  BY <1>2 DEF Inv, TypeOK, Fetchable, MappedPc, AlignedPc
<1>6. WordsOf(candidate.prefix) = [i \in 1 .. k |-> mem[SitePc(current_pc, i)]]
  <2>1. \A i \in 1 .. k : candidate.prefix[i].decoded = mem[SitePc(current_pc, i)]
    BY <1>2, <1>4
  <2> QED BY <2>1 DEF WordsOf
<1> HIDE DEF k
<1>7. WordsOf(candidate.prefix) \in Seq(Word) /\ Len(WordsOf(candidate.prefix)) = k
  BY <1>4, <1>5, <1>6
<1> QED BY <1>2, <1>4, <1>5, <1>6, <1>7 DEF k

LEMMA LookupPreservesInv ==
  ASSUME Inv, NEW next \in {"lower", "execute"}, Lookup(next),
         NEW counter \in {"cache_hits", "cache_misses", "recompilations"},
         result' = [result EXCEPT ![counter] = @ + 1],
         next = "execute" =>
           ExactCacheHit(cache[current_pc], current_pc, WordsOf(candidate.prefix))
  PROVE  Inv'
<1> USE DEF Lookup, runArguments
<1>0. /\ TypeOK /\ CacheSound /\ BlockMatchesCandidate /\ ResumePoint /\ Accounting
      /\ result \in Result /\ current_pc \in Pc
  BY DEF Inv, TypeOK
<1>1. /\ result' \in Result
      /\ result'.reason = result.reason /\ result'.next_pc = result.next_pc
      /\ result'.blocks_executed = result.blocks_executed
      /\ result'.instructions_executed = result.instructions_executed
      /\ result'.cache_hits + result'.cache_misses + result'.recompilations
           = result.cache_hits + result.cache_misses + result.recompilations + 1
  BY <1>0 DEF Result
<1>2. TypeOK'
  BY <1>0, <1>1 DEF TypeOK
<1>3. CacheSound'
  BY <1>0 DEF CacheSound
<1>4. BlockMatchesCandidate'
  <2>1. AnalyzedCandidate' = AnalyzedCandidate
    BY DEF AnalyzedCandidate
  <2>2. ASSUME next = "execute"
        PROVE  /\ cache[current_pc] = CachedBlockFor(current_pc, WordsOf(candidate.prefix))
               /\ NotLowerable(candidate.prefix) = {}
    <3>1. /\ cache[current_pc] # NoEntry
          /\ cache[current_pc].guest_words = WordsOf(candidate.prefix)
      BY <2>2 DEF ExactCacheHit
    <3>2. /\ cache[current_pc] = CachedBlockFor(current_pc, WordsOf(candidate.prefix))
          /\ \A i \in 1 .. Len(WordsOf(candidate.prefix)) :
                Lowerable(WordsOf(candidate.prefix)[i])
      BY <1>0, <3>1 DEF CacheSound
    <3>3. Len(WordsOf(candidate.prefix)) = Len(candidate.prefix)
      BY CurrentCandidateShape
    <3> QED BY <3>2, <3>3 DEF NotLowerable, WordsOf
  <2> QED BY <1>0, <2>1, <2>2 DEF BlockMatchesCandidate
<1>5. ResumePoint'
  BY <1>0, <1>1 DEF ResumePoint
<1>6. Accounting'
  BY <1>0, <1>1 DEF Accounting, Result
<1> QED BY <1>2, <1>3, <1>4, <1>5, <1>6 DEF Inv

LEMMA CacheHitPreservesInv ==
  ASSUME Inv, CacheHit PROVE Inv'
BY LookupPreservesInv DEF CacheHit

LEMMA CacheMissPreservesInv ==
  ASSUME Inv, CacheMiss PROVE Inv'
BY LookupPreservesInv DEF CacheMiss

LEMMA StaleEntryPreservesInv ==
  ASSUME Inv, StaleEntry PROVE Inv'
BY LookupPreservesInv DEF StaleEntry

LEMMA FailLoweringPreservesInv ==
  ASSUME Inv, FailLowering PROVE Inv'
<1> DEFINE N == NotLowerable(candidate.prefix)
           site == candidate.prefix[First(N)]
<1>1. phase = "lower" /\ N # {} /\ Return("LoweringFailure", site.pc)
  BY DEF FailLowering
<1>2. First(N) \in 1 .. Len(candidate.prefix)
  <2>1. Len(candidate.prefix) \in Nat
    BY <1>1, CurrentCandidateShape, OptionsAssumption
  <2>2. N \in SUBSET Nat /\ N \subseteq 1 .. Len(candidate.prefix)
    BY <2>1 DEF NotLowerable
  <2> HIDE DEF N
  <2> QED BY <1>1, <2>2, FirstIsLeast
<1>3. site.pc \in Pc
  BY <1>1, <1>2, CurrentCandidateShape
<1> HIDE DEF site
<1> QED BY <1>1, <1>3, ReturnPreservesInv DEF StopReason, FailureReasons

LEMMA FailCompilePreservesInv ==
  ASSUME Inv, FailCompile PROVE Inv'
<1>1. current_pc \in Pc /\ phase = "compile"
  BY DEF Inv, TypeOK, FailCompile
<1> QED BY <1>1, ReturnPreservesInv DEF FailCompile, StopReason, FailureReasons

LEMMA LowerPrefixPreservesInv ==
  ASSUME Inv, LowerPrefix PROVE Inv'
<1> USE DEF LowerPrefix, runArguments
<1>1. TypeOK'
  BY DEF Inv, TypeOK
<1>2. CacheSound'
  BY DEF Inv, CacheSound
<1>3. BlockMatchesCandidate'
  BY DEF Inv, BlockMatchesCandidate, AnalyzedCandidate
<1>4. ResumePoint'
  BY DEF Inv, ResumePoint
<1>5. Accounting'
  BY DEF Inv, Accounting
<1> QED BY <1>1, <1>2, <1>3, <1>4, <1>5 DEF Inv

LEMMA InstallBlockPreservesInv ==
  ASSUME Inv, InstallBlock PROVE Inv'
<1> USE DEF InstallBlock, runArguments
<1> DEFINE words == WordsOf(candidate.prefix)
           block == CachedBlockFor(current_pc, words)
<1>0. /\ TypeOK /\ CacheSound /\ BlockMatchesCandidate /\ ResumePoint /\ Accounting
      /\ current_pc \in Pc /\ DOMAIN cache = Pc
  BY DEF Inv, TypeOK
<1>1. /\ words \in Seq(Word) /\ Len(words) \in 1 .. max_instructions
      /\ \A i \in 1 .. Len(words) : Lowerable(words[i])
  <2>1. NotLowerable(candidate.prefix) = {}
    BY <1>0 DEF BlockMatchesCandidate
  <2>2. \A i \in 1 .. Len(candidate.prefix) : Lowerable(words[i])
    BY <2>1, CurrentCandidateShape DEF NotLowerable, WordsOf
  <2> QED BY <2>2, CurrentCandidateShape
<1>2. DOMAIN cache' = Pc /\ cache'[current_pc] = block
      /\ \A pc \in Pc : pc # current_pc => cache'[pc] = cache[pc]
  BY <1>0
<1>3. block.guest_words = words
  BY DEF CachedBlockFor
<1> HIDE DEF words, block
<1>4. TypeOK'
  BY <1>0, <1>1, <1>2, <1>3 DEF TypeOK
<1>5. CacheSound'
  <2> SUFFICES ASSUME NEW pc \in Pc, cache'[pc] # NoEntry
               PROVE  LET w == cache'[pc].guest_words
                      IN  /\ cache'[pc] = CachedBlockFor(pc, w)
                          /\ Len(w) \in 1 .. max_instructions
                          /\ \A i \in 1 .. Len(w) : Lowerable(w[i])
    BY DEF CacheSound
  <2>1. CASE pc = current_pc
    BY <2>1, <1>1, <1>2, <1>3 DEF block
  <2>2. CASE pc # current_pc
    BY <2>2, <1>0, <1>2 DEF CacheSound
  <2> QED BY <2>1, <2>2
<1>6. BlockMatchesCandidate'
  BY <1>0, <1>2 DEF BlockMatchesCandidate, AnalyzedCandidate, words, block
<1>7. ResumePoint'
  BY <1>0 DEF ResumePoint
<1>8. Accounting'
  BY <1>0 DEF Accounting
<1> QED BY <1>4, <1>5, <1>6, <1>7, <1>8 DEF Inv

(***************************************************************************)
(* Native execution                                                         *)
(***************************************************************************)
\* A native block performs exactly the guest code of its candidate.
LEMMA PerformedIsCandidate ==
  ASSUME Inv, phase = "execute"
  PROVE  Performed = [i \in 1 .. Len(candidate.prefix) |->
                        [pc |-> SitePc(current_pc, i), decoded |-> mem[SitePc(current_pc, i)]]]
<1> DEFINE words == WordsOf(candidate.prefix)
           k == Len(candidate.prefix)
<1>1. cache[current_pc].native_block = words
  BY DEF Inv, BlockMatchesCandidate, CachedBlockFor
<1>2. /\ words = [i \in 1 .. k |-> mem[SitePc(current_pc, i)]]
      /\ Len(words) = k
  BY CurrentCandidateShape
<1> HIDE DEF words, k
<1>3. Performed = [i \in 1 .. k |-> [pc |-> SitePc(current_pc, i), decoded |-> words[i]]]
  BY <1>1, <1>2 DEF Performed
<1> QED BY <1>2, <1>3 DEF k

LEMMA ExecuteBlockPreservesInv ==
  ASSUME Inv, phase = "execute",
         NEW reason \in StopReason, NEW next \in {"idle", "analyze"},
         next = "idle" => reason \notin {"LoweringFailure", "CompileFailure"},
         next = "analyze" => ~ BudgetReached,
         ExecuteBlock(reason, PrefixEnd, next)
  PROVE  Inv'
<1> DEFINE k == Len(candidate.prefix)
           N == result.instructions_executed
<1>0. /\ TypeOK /\ CacheSound /\ BlockMatchesCandidate /\ ResumePoint /\ Accounting
      /\ result \in Result /\ current_pc \in Pc /\ start_pc \in Pc /\ trace \in Seq(Site)
      /\ N \in Nat /\ max_blocks \in Nat
  BY DEF Inv, TypeOK, Result
<1>1. /\ k \in Nat /\ k >= 1
      /\ \A i \in 1 .. k : SitePc(current_pc, i) \in Pc /\ mem[SitePc(current_pc, i)] \in Word
  BY CurrentCandidateShape, OptionsAssumption
<1>2. /\ Performed = [i \in 1 .. k |-> [pc |-> SitePc(current_pc, i),
                                        decoded |-> mem[SitePc(current_pc, i)]]]
  BY PerformedIsCandidate
<1>3. PrefixEnd = Add32(current_pc, 4 * k) /\ PrefixEnd \in Pc
  <2>1. current_pc \in Nat
    BY <1>0, AddressSpaceAssumption DEF Pc
  <2> QED BY <2>1, <1>1, Add32InRange DEF PrefixEnd
<1>4. /\ trace' = trace \o Performed
      /\ result' = [result EXCEPT !.blocks_executed = @ + 1,
                                  !.instructions_executed = @ + k,
                                  !.reason = reason, !.next_pc = PrefixEnd]
      /\ current_pc' = PrefixEnd /\ phase' = next /\ candidate' = NoCandidate
      /\ UNCHANGED <<mem, cache, start_pc, max_blocks>>
  BY DEF ExecuteBlock, runArguments
<1> HIDE DEF k
<1>5. Performed \in Seq(Site) /\ Len(Performed) = k
  <2>1. \A i \in 1 .. k : [pc |-> SitePc(current_pc, i), decoded |-> mem[SitePc(current_pc, i)]]
                            \in Site
    BY <1>1 DEF Site
  <2> QED BY <1>1, <1>2, <2>1
<1>6. /\ result' \in Result /\ result'.reason = reason /\ result'.next_pc = PrefixEnd
      /\ result'.blocks_executed = result.blocks_executed + 1
      /\ result'.instructions_executed = N + k
      /\ result'.cache_hits = result.cache_hits
      /\ result'.cache_misses = result.cache_misses
      /\ result'.recompilations = result.recompilations
  <2>1. /\ result.blocks_executed \in Nat /\ result.blocks_executed + 1 \in Nat
        /\ result.instructions_executed + k \in Nat
    BY <1>0, <1>1 DEF Result
  <2>2. result' \in Result
    BY <1>0, <1>3, <1>4, <2>1 DEF Result
  <2> QED BY <1>0, <1>4, <2>2 DEF Result
<1> HIDE DEF N
<1>7. TypeOK'
  <2>1. trace' \in Seq(Site)
    <3>1. trace \in Seq(Site) /\ Performed \in Seq(Site) /\ trace' = trace \o Performed
      BY <1>0, <1>4, <1>5
    <3> QED BY <3>1
  <2>2. result' \in Result /\ current_pc' \in Pc /\ start_pc' \in Pc /\ max_blocks' \in Nat
    BY <1>0, <1>3, <1>4, <1>6
  <2>3. /\ mem' \in [MappedPc -> Word] /\ DOMAIN cache' = Pc
        /\ \A pc \in Pc : cache'[pc] # NoEntry => cache'[pc].guest_words \in Seq(Word)
    BY <1>0, <1>4 DEF TypeOK
  <2>4. /\ candidate' \in Candidate \cup {NoCandidate}
        /\ phase' \in {"idle", "analyze", "lookup", "lower", "compile", "execute"}
    BY <1>4
  <2> QED BY <2>1, <2>2, <2>3, <2>4 DEF TypeOK
<1>8. CacheSound'
  BY <1>0, <1>4 DEF CacheSound
<1>9. BlockMatchesCandidate'
  BY <1>4 DEF BlockMatchesCandidate
<1>10. ResumePoint'
  <2>0. Len(trace) = N /\ current_pc = Add32(start_pc, 4 * N) /\ start_pc \in Nat
        /\ \A i \in 1 .. N : trace[i].pc = SitePc(start_pc, i)
    BY <1>0, AddressSpaceAssumption DEF ResumePoint, Pc, N
  <2>1. Len(trace') = N + k
    <3>1. trace \in Seq(Site) /\ Performed \in Seq(Site) /\ trace' = trace \o Performed
      BY <1>0, <1>4, <1>5
    <3>2. Len(trace \o Performed) = Len(trace) + Len(Performed)
      BY <3>1
    <3> QED BY <1>5, <2>0, <3>1, <3>2
  <2>2. PrefixEnd = Add32(start_pc, 4 * (N + k))
    <3>1. 4 * N \in Nat /\ 4 * k \in Nat /\ 4 * N + 4 * k = 4 * (N + k)
      BY <1>0, <1>1
    <3>2. Add32(Add32(start_pc, 4 * N), 4 * k) = Add32(start_pc, 4 * N + 4 * k)
      BY <2>0, <3>1, Add32Twice
    <3> QED BY <1>3, <2>0, <3>1, <3>2
  <2>3. ASSUME NEW i \in 1 .. N + k
        PROVE  trace'[i].pc = SitePc(start_pc, i)
    <3>1. CASE i \in 1 .. N
      BY <1>0, <1>4, <1>5, <2>0, <3>1
    <3>2. CASE i \in N + 1 .. N + k
      <4>1. i - N \in 1 .. k /\ i \in Nat
        BY <1>0, <1>1, <3>2
      <4>2. trace'[i] = Performed[i - N]
        <5>1. trace \in Seq(Site) /\ Performed \in Seq(Site) /\ trace' = trace \o Performed
          BY <1>0, <1>4, <1>5
        <5>2. Len(trace) = N /\ Len(Performed) = k /\ N \in Nat /\ k \in Nat
          BY <1>0, <1>1, <1>5, <2>0
        <5>3. i \in Len(trace) + 1 .. Len(trace) + Len(Performed)
          BY ONLY <3>2, <5>2
        <5>4. (trace \o Performed)[i] = Performed[i - Len(trace)]
          BY ONLY <5>1, <5>3
        <5> QED BY ONLY <5>1, <5>2, <5>4
      <4>3. trace'[i].pc = SitePc(current_pc, i - N)
        BY <1>2, <4>1, <4>2
      <4>4. /\ 4 * N \in Nat /\ 4 * (i - N - 1) \in Nat
            /\ 4 * N + 4 * (i - N - 1) = 4 * (i - 1)
        BY <1>0, <4>1
      <4>5. Add32(Add32(start_pc, 4 * N), 4 * (i - N - 1)) = Add32(start_pc, 4 * (i - 1))
        BY <2>0, <4>4, Add32Twice
      <4> QED BY <2>0, <4>3, <4>5 DEF SitePc
    <3> QED BY <1>0, <1>1, <3>1, <3>2
  <2> QED BY <1>4, <1>6, <2>1, <2>2, <2>3 DEF ResumePoint
<1>11. Accounting'
  <2>1. /\ result.cache_hits + result.cache_misses + result.recompilations
             = result.blocks_executed + 1
        /\ result.blocks_executed < max_blocks
        /\ result.blocks_executed <= N
    BY <1>0 DEF Accounting, N
  <2>2. phase' # "idle" => result.blocks_executed + 1 # max_blocks
    BY <1>4 DEF BudgetReached
  <2> DEFINE pending == \/ phase' \in {"lower", "compile", "execute"}
                        \/ /\ phase' = "idle"
                           /\ result'.reason \in {"LoweringFailure", "CompileFailure"}
  <2>3. ~ pending
    BY <1>4, <1>6
  <2>4. /\ result.blocks_executed \in Nat /\ result.cache_hits \in Nat
        /\ result.cache_misses \in Nat /\ result.recompilations \in Nat
        /\ max_blocks' = max_blocks /\ phase' \in {"idle", "analyze"}
    BY <1>0, <1>4 DEF Result
  <2>5. /\ result'.cache_hits + result'.cache_misses + result'.recompilations
             = result'.blocks_executed + 0
        /\ result'.blocks_executed <= result'.instructions_executed
        /\ result'.blocks_executed <= max_blocks'
    BY <1>0, <1>1, <1>6, <2>1, <2>4
  <2>6. phase' # "idle" => result'.blocks_executed < max_blocks'
    BY <1>0, <1>6, <2>1, <2>2, <2>4
  <2> QED BY <2>3, <2>5, <2>6 DEF Accounting
<1> QED BY <1>7, <1>8, <1>9, <1>10, <1>11 DEF Inv

LEMMA ExecuteToBoundaryPreservesInv ==
  ASSUME Inv, ExecuteToBoundary PROVE Inv'
<1>1. phase = "execute" /\ candidate.boundary # NoBoundary
      /\ ExecuteBlock(candidate.boundary.reason, candidate.boundary.pc, "idle")
  BY DEF ExecuteToBoundary
<1>2. /\ candidate.boundary.pc = PrefixEnd
      /\ \E d : candidate.boundary.reason = BoundaryReason(d)
  BY <1>1, CurrentCandidateShape DEF PrefixEnd
<1>3. candidate.boundary.reason \in BoundaryReasons
  BY <1>2 DEF BoundaryReason, BoundaryReasons
<1> QED BY <1>1, <1>2, <1>3, ExecuteBlockPreservesInv DEF StopReason, BoundaryReasons

LEMMA ExecuteToBudgetPreservesInv ==
  ASSUME Inv, ExecuteToBudget PROVE Inv'
<1>1. phase = "execute" /\ ExecuteBlock("BlockBudgetExhausted", PrefixEnd, "idle")
  BY DEF ExecuteToBudget
<1> QED BY <1>1, ExecuteBlockPreservesInv DEF StopReason

LEMMA ExecuteAndContinuePreservesInv ==
  ASSUME Inv, ExecuteAndContinue PROVE Inv'
<1>1. /\ phase = "execute" /\ ~ BudgetReached
      /\ ExecuteBlock(result.reason, PrefixEnd, "analyze")
  BY DEF ExecuteAndContinue
<1>2. result.reason \in StopReason
  BY DEF Inv, TypeOK, Result
<1> QED BY <1>1, <1>2, ExecuteBlockPreservesInv

(***************************************************************************)
(* The caller                                                               *)
(***************************************************************************)
LEMMA WriteGuestPreservesInv ==
  ASSUME Inv, NEW pc \in MappedPc, NEW word \in Word, WriteGuest(pc, word)
  PROVE  Inv'
<1> USE DEF WriteGuest, runArguments
<1>1. TypeOK'
  BY DEF Inv, TypeOK
<1>2. CacheSound'
  BY DEF Inv, CacheSound
<1>3. BlockMatchesCandidate'
  BY DEF BlockMatchesCandidate
<1>4. ResumePoint'
  BY DEF Inv, ResumePoint
<1>5. Accounting'
  BY DEF Inv, Accounting
<1> QED BY <1>1, <1>2, <1>3, <1>4, <1>5 DEF Inv

LEMMA ClearCachePreservesInv ==
  ASSUME Inv, ClearCache PROVE Inv'
<1> USE DEF ClearCache, runArguments
<1>1. TypeOK'
  BY DEF Inv, TypeOK
<1>2. CacheSound'
  BY DEF CacheSound
<1>3. BlockMatchesCandidate'
  BY DEF BlockMatchesCandidate
<1>4. ResumePoint'
  BY DEF Inv, ResumePoint
<1>5. Accounting'
  BY DEF Inv, Accounting
<1> QED BY <1>1, <1>2, <1>3, <1>4, <1>5 DEF Inv

LEMMA StutterPreservesInv ==
  ASSUME Inv, UNCHANGED vars PROVE Inv'
<1> USE DEF vars
<1>1. TypeOK'
  BY DEF Inv, TypeOK
<1>2. CacheSound'
  BY DEF Inv, CacheSound
<1>3. BlockMatchesCandidate'
  BY DEF Inv, BlockMatchesCandidate, AnalyzedCandidate
<1>4. ResumePoint'
  BY DEF Inv, ResumePoint
<1>5. Accounting'
  BY DEF Inv, Accounting
<1> QED BY <1>1, <1>2, <1>3, <1>4, <1>5 DEF Inv

LEMMA NextPreservesInv ==
  ASSUME Inv, [Next]_vars PROVE Inv'
<1>1. CASE UNCHANGED vars
  BY <1>1, StutterPreservesInv
<1>2. CASE Dispatch
  BY <1>2, FailAnalysisPreservesInv, StopAtBoundaryPreservesInv,
     SelectPrefixPreservesInv, CacheHitPreservesInv, CacheMissPreservesInv,
     StaleEntryPreservesInv, FailLoweringPreservesInv, LowerPrefixPreservesInv,
     FailCompilePreservesInv, InstallBlockPreservesInv,
     ExecuteToBoundaryPreservesInv, ExecuteToBudgetPreservesInv,
     ExecuteAndContinuePreservesInv
  DEF Dispatch
<1>3. ASSUME NEW pc \in StartPc, RunWithoutBudget(pc)
      PROVE  Inv'
  BY <1>3, BeginRunPreservesInv DEF RunWithoutBudget
<1>4. ASSUME NEW pc \in StartPc, NEW budget \in Budget, Run(pc, budget)
      PROVE  Inv'
  BY <1>4, BeginRunPreservesInv, InputsAssumption DEF Run
<1>5. ASSUME NEW pc \in MappedPc, NEW word \in Word, WriteGuest(pc, word)
      PROVE  Inv'
  BY <1>5, WriteGuestPreservesInv
<1>6. CASE ClearCache
  BY <1>6, ClearCachePreservesInv
<1> QED BY <1>1, <1>2, <1>3, <1>4, <1>5, <1>6 DEF Next, Caller

(***************************************************************************)
(* Theorems                                                                 *)
(***************************************************************************)
\* The inductive invariant holds in every reachable state.
THEOREM Invariance == Spec => []Inv
<1>1. Init => Inv
  BY InitInv
<1>2. Inv /\ [Next]_vars => Inv'
  BY NextPreservesInv
<1> QED BY <1>1, <1>2, PTL DEF Spec

\* The dispatcher's state keeps its types: no program counter leaves the address
\* space, no boundary is reported outside the three boundary reasons.
THEOREM TypeCorrectness == Spec => []TypeOK
<1>1. Inv => TypeOK
  BY DEF Inv
<1> QED BY <1>1, Invariance, PTL

\* Only whole blocks that compiled are ever in the cache, whichever compilations
\* fail and whatever the caller writes.
THEOREM CacheIsSound == Spec => []CacheSound
<1>1. Inv => CacheSound
  BY DEF Inv
<1> QED BY <1>1, Invariance, PTL

\* The reported progress and resume address are exact, wrap-around included.
THEOREM ResumePointIsExact == Spec => []ResumePoint
<1>1. Inv => ResumePoint
  BY DEF Inv
<1> QED BY <1>1, Invariance, PTL

\* Hits, misses and recompilations account for every lookup, within the budget.
THEOREM AccountingIsExact == Spec => []Accounting
<1>1. Inv => Accounting
  BY DEF Inv
<1> QED BY <1>1, Invariance, PTL

\* No step performs an instruction that guest memory does not hold: stale native
\* code never executes, for every fingerprint function.
THEOREM StaleCodeNeverExecutes == Spec => ExecutesCurrentWords
<1> DEFINE Current ==
      trace' # <<>> =>
        \A i \in Len(trace) + 1 .. Len(trace') :
          /\ Fetchable(trace'[i].pc)
          /\ mem[trace'[i].pc] = trace'[i].decoded
          /\ Lowerable(trace'[i].decoded)
<1>1. ASSUME Inv, [Next]_vars PROVE [Current]_vars
  <2>1. trace \in Seq(Site)
    BY <1>1 DEF Inv, TypeOK
  <2>2. CASE trace' = trace
    <3>1. Len(trace) \in Nat
      BY <2>1
    <3>2. Len(trace) + 1 .. Len(trace') = {}
      BY <2>2, <3>1
    <3> QED BY <3>2
  <2>3. CASE trace' = <<>>
    BY <2>3
  <2>4. CASE phase = "execute" /\ trace' = trace \o Performed
    <3> DEFINE k == Len(candidate.prefix)
               words == WordsOf(candidate.prefix)
    <3>1. /\ Performed = [i \in 1 .. k |-> [pc |-> SitePc(current_pc, i),
                                            decoded |-> mem[SitePc(current_pc, i)]]]
          /\ k \in Nat
          /\ \A i \in 1 .. k : Fetchable(SitePc(current_pc, i))
          /\ words = [i \in 1 .. k |-> mem[SitePc(current_pc, i)]]
          /\ Len(words) = k
      BY <1>1, <2>4, PerformedIsCandidate, CurrentCandidateShape, OptionsAssumption
    <3>2. \A i \in 1 .. k : Lowerable(mem[SitePc(current_pc, i)])
      <4>1. \A i \in 1 .. k : Lowerable(candidate.prefix[i].decoded)
        BY <1>1, <2>4 DEF Inv, BlockMatchesCandidate, NotLowerable
      <4>2. \A i \in 1 .. k : candidate.prefix[i].decoded = words[i]
        BY DEF WordsOf
      <4> QED BY <3>1, <4>1, <4>2
    <3> HIDE DEF k, words
    <3>3. Len(Performed) = k /\ Performed \in Seq(Site)
      <4>1. \A i \in 1 .. k : SitePc(current_pc, i) \in MappedPc
        BY <3>1 DEF Fetchable
      <4>2. \A i \in 1 .. k : [pc |-> SitePc(current_pc, i),
                               decoded |-> mem[SitePc(current_pc, i)]] \in Site
        BY <1>1, <4>1 DEF Inv, TypeOK, Site, MappedPc, AlignedPc
      <4> QED BY <3>1, <4>2
    <3>4. ASSUME NEW i \in Len(trace) + 1 .. Len(trace')
          PROVE  trace'[i] = Performed[i - Len(trace)] /\ i - Len(trace) \in 1 .. k
      <4>1. Performed \in Seq(Site) /\ Len(Performed) = k
        BY <3>3
      <4>2. /\ i \in Len(trace) + 1 .. Len(trace \o Performed)
            /\ trace'[i] = (trace \o Performed)[i]
        BY <2>4
      <4> HIDE DEF Performed
      <4> QED BY <2>1, <4>1, <4>2, ConcatIndex
    <3> HIDE DEF Performed
    <3>5. ASSUME NEW i \in Len(trace) + 1 .. Len(trace')
          PROVE  /\ Fetchable(trace'[i].pc)
                 /\ mem[trace'[i].pc] = trace'[i].decoded
                 /\ Lowerable(trace'[i].decoded)
      <4> DEFINE j == i - Len(trace)
      <4>1. trace'[i] = Performed[j] /\ j \in 1 .. k
        BY <3>4
      <4> HIDE DEF j
      <4>2. Performed[j] = [pc |-> SitePc(current_pc, j), decoded |-> mem[SitePc(current_pc, j)]]
        BY <3>1, <4>1
      <4> QED BY <3>1, <3>2, <4>1, <4>2
    <3> QED BY <3>5
  <2>5. trace' = trace \/ trace' = <<>> \/ (phase = "execute" /\ trace' = trace \o Performed)
    BY <1>1 DEF Next, Dispatch, Caller, vars, runArguments, FailAnalysis, StopAtBoundary,
       SelectPrefix, CacheHit, CacheMiss, StaleEntry, Lookup, FailLowering, LowerPrefix,
       FailCompile, InstallBlock, Return, ExecuteToBoundary, ExecuteToBudget,
       ExecuteAndContinue, ExecuteBlock, RunWithoutBudget, Run, BeginRun, WriteGuest,
       ClearCache
  <2> QED BY <2>2, <2>3, <2>4, <2>5
<1> QED BY <1>1, Invariance, PTL DEF Spec, ExecutesCurrentWords

\* The word FailLowering reports is fetchable, eligible and has no lowering.
LEMMA RejectedWord ==
  ASSUME Inv, FailLowering
  PROVE  \E i \in 1 .. max_instructions :
           /\ Return("LoweringFailure", SitePc(current_pc, i))
           /\ Fetchable(SitePc(current_pc, i))
           /\ Selectable(mem[SitePc(current_pc, i)])
           /\ ~ Lowerable(mem[SitePc(current_pc, i)])
<1> DEFINE N == NotLowerable(candidate.prefix)
           i == First(N)
           k == Len(candidate.prefix)
<1>1. phase = "lower" /\ N # {} /\ Return("LoweringFailure", candidate.prefix[i].pc)
  BY DEF FailLowering
<1>2. /\ k \in 1 .. max_instructions /\ k \in Nat /\ max_instructions \in Nat
      /\ candidate.prefix = [j \in 1 .. k |-> [pc |-> SitePc(current_pc, j),
                                               decoded |-> mem[SitePc(current_pc, j)]]]
      /\ \A j \in 1 .. k : /\ Fetchable(SitePc(current_pc, j))
                           /\ Selectable(mem[SitePc(current_pc, j)])
  BY <1>1, CurrentCandidateShape, OptionsAssumption
<1>3. i \in N /\ i \in 1 .. k
  <2>1. N \in SUBSET Nat /\ N \subseteq 1 .. k
    BY <1>2 DEF NotLowerable
  <2> HIDE DEF N
  <2> QED BY <1>1, <2>1, FirstIsLeast
<1>4. ~ Lowerable(candidate.prefix[i].decoded)
  BY <1>3 DEF NotLowerable
<1> HIDE DEF i, k
<1>5. /\ candidate.prefix[i].pc = SitePc(current_pc, i)
      /\ candidate.prefix[i].decoded = mem[SitePc(current_pc, i)]
  BY <1>2, <1>3
<1>6. i \in 1 .. max_instructions
  BY <1>2, <1>3
<1> QED BY <1>1, <1>2, <1>3, <1>4, <1>5, <1>6

\* The steps of Next that end a run.
LEMMA ReturningSteps ==
  ASSUME Inv, [Next]_vars, Returns
  PROVE  \/ FailAnalysis \/ StopAtBoundary \/ FailLowering \/ FailCompile
         \/ ExecuteToBoundary \/ ExecuteToBudget
BY DEF Returns, Next, Dispatch, Caller, vars, SelectPrefix, CacheHit, CacheMiss, StaleEntry,
   Lookup, LowerPrefix, InstallBlock, ExecuteAndContinue, ExecuteBlock, RunWithoutBudget,
   Run, BeginRun, WriteGuest, ClearCache

\* Whatever stops a run before native execution leaves guest memory, the cache
\* and the accounting as they were: a failed replacement keeps the stale entry.
THEOREM FailuresAreAtomic == Spec => FailedCandidateIsAtomic
<1> DEFINE Atomic ==
      Returns /\ result'.reason \in FailureReasons =>
        /\ UNCHANGED <<mem, cache, trace, current_pc>>
        /\ result'.blocks_executed = result.blocks_executed
        /\ result'.instructions_executed = result.instructions_executed
<1>1. ASSUME Inv, [Next]_vars PROVE [Atomic]_vars
  <2> SUFFICES ASSUME Returns, result'.reason \in FailureReasons
               PROVE  Atomic
    OBVIOUS
  <2>1. ASSUME NEW reason, NEW pc, Return(reason, pc) PROVE Atomic
    BY <1>1, <2>1 DEF Return, Inv, TypeOK, Result
  <2>2. CASE FailAnalysis
    BY <2>1, <2>2 DEF FailAnalysis
  <2>3. CASE StopAtBoundary
    BY <2>1, <2>3 DEF StopAtBoundary
  <2>4. CASE FailLowering
    BY <2>1, <2>4 DEF FailLowering
  <2>5. CASE FailCompile
    BY <2>1, <2>5 DEF FailCompile
  <2>6. CASE ExecuteToBoundary
    <3>1. candidate.boundary.reason = BoundaryReason(mem[candidate.boundary.pc])
      BY <1>1, <2>6, CurrentCandidateShape DEF ExecuteToBoundary
    <3>2. result'.reason = candidate.boundary.reason
      BY <1>1, <2>6 DEF ExecuteToBoundary, ExecuteBlock, Inv, TypeOK, Result
    <3> QED BY <3>1, <3>2 DEF BoundaryReason, FailureReasons
  <2>7. CASE ExecuteToBudget
    <3>1. result'.reason = "BlockBudgetExhausted"
      BY <1>1, <2>7 DEF ExecuteToBudget, ExecuteBlock, Inv, TypeOK, Result
    <3> QED BY <3>1 DEF FailureReasons
  <2> QED BY <1>1, <2>2, <2>3, <2>4, <2>5, <2>6, <2>7, ReturningSteps
<1> QED BY <1>1, Invariance, PTL DEF Spec, FailedCandidateIsAtomic

\* Every reason a run returns is true of guest memory at the address it returns,
\* for every layout of code, data and holes.
THEOREM StopReasonsAreTrue == Spec => HonestStop
<1> DEFINE
      AtBoundary(reason, stop) ==
        /\ Fetchable(stop) /\ ~ Selectable(mem[stop])
        /\ reason = BoundaryReason(mem[stop])
      Honest(reason, stop) ==
        /\ reason \in BoundaryReasons =>
             /\ Fetchable(stop)
             /\ ~ Selectable(mem[stop])
             /\ reason = "ControlFlow" <=> IsControlTransfer(mem[stop])
             /\ reason = "Trap" <=> IsTrap(mem[stop])
        /\ reason = "AnalysisFailure" => ~ AnalysisOk(mem, stop)
        /\ reason = "LoweringFailure" => Selectable(mem[stop]) /\ ~ Lowerable(mem[stop])
        /\ reason = "BlockBudgetExhausted" => result'.blocks_executed = max_blocks
<1>1. ASSUME Inv, [Next]_vars, Returns
      PROVE  Honest(result'.reason, result'.next_pc)
  <2>0. result \in Result /\ max_blocks \in Nat
    BY <1>1 DEF Inv, TypeOK
  <2>1. ASSUME NEW reason, NEW pc, Return(reason, pc)
        PROVE  result'.reason = reason /\ result'.next_pc = pc
    BY <2>0, <2>1 DEF Return, Result
  <2>2. ASSUME NEW reason, NEW pc, NEW next, ExecuteBlock(reason, pc, next)
        PROVE  /\ result'.reason = reason /\ result'.next_pc = pc
               /\ result'.blocks_executed = result.blocks_executed + 1
    BY <2>0, <2>2 DEF ExecuteBlock, Result
  <2>3. ASSUME NEW reason, NEW stop, AtBoundary(reason, stop)
        PROVE  Honest(reason, stop)
    BY <2>3 DEF BoundaryReason, BoundaryReasons, IsControlTransfer, IsTrap,
       BranchInstructions, LikelyBranches, JumpInstructions, SystemInstructions
  <2>4. CASE FailAnalysis
    BY <2>1, <2>4 DEF FailAnalysis, BoundaryReasons
  <2>5. CASE StopAtBoundary
    <3>1. AtBoundary(BoundaryReason(mem[current_pc]), current_pc)
      BY <1>1, <2>5, BoundaryOfEmptyPrefix
    <3>2. Return(BoundaryReason(mem[current_pc]), current_pc)
      BY <1>1, <2>5, BoundaryOfEmptyPrefix DEF StopAtBoundary
    <3> HIDE DEF AtBoundary, Honest
    <3> QED BY <2>1, <2>3, <3>1, <3>2
  <2>6. CASE FailLowering
    <3>1. PICK i \in 1 .. max_instructions :
            /\ Return("LoweringFailure", SitePc(current_pc, i))
            /\ Selectable(mem[SitePc(current_pc, i)])
            /\ ~ Lowerable(mem[SitePc(current_pc, i)])
      BY <1>1, <2>6, RejectedWord
    <3> QED BY <2>1, <3>1 DEF BoundaryReasons
  <2>7. CASE FailCompile
    BY <2>1, <2>7 DEF FailCompile, BoundaryReasons
  <2>8. CASE ExecuteToBoundary
    <3> DEFINE stop == candidate.boundary.pc
    <3>1. candidate.boundary.reason = BoundaryReason(mem[stop]) /\ AtBoundary(BoundaryReason(mem[stop]), stop)
      BY <1>1, <2>8, CurrentCandidateShape DEF ExecuteToBoundary
    <3>2. ExecuteBlock(candidate.boundary.reason, stop, "idle")
      BY <2>8 DEF ExecuteToBoundary
    <3> HIDE DEF AtBoundary, Honest, stop
    <3> QED BY <2>2, <2>3, <3>1, <3>2
  <2>9. CASE ExecuteToBudget
    BY <2>2, <2>9 DEF ExecuteToBudget, BudgetReached, BoundaryReasons
  <2> HIDE DEF Honest
  <2> QED BY <1>1, <2>4, <2>5, <2>6, <2>7, <2>8, <2>9, ReturningSteps
<1>2. Inv /\ [Next]_vars => [Returns => Honest(result'.reason, result'.next_pc)]_vars
  BY <1>1
<1> QED BY <1>2, Invariance, PTL DEF Spec, HonestStop

(***************************************************************************)
(* The block dispatcher implements StraightLineExecution, for every value   *)
(* of the constants: with the cache, the stages of a dispatch and the       *)
(* statistics hidden, a caller only sees straight-line guest code performed *)
(* as memory holds it.                                                      *)
(***************************************************************************)

(***************************************************************************)
(* The length of a run                                                      *)
(***************************************************************************)
\* How many steps a block takes at most from the stage that a run is at.
StageSteps ==
  CASE phase = "analyze" -> 5 [] phase = "lookup" -> 4 [] phase = "lower" -> 3
    [] phase = "compile" -> 2 [] phase = "execute" -> 1

\* How many steps a run has left at most.
StepsLeft ==
  IF phase = "idle" THEN 0
  ELSE 5 * (max_blocks - result.blocks_executed - 1) + StageSteps

\* A run takes five steps for each block of its budget at most, and each of its steps
\* leaves it fewer: it never comes back to a stage without a block to show for it.
RunsAreBounded ==
  /\ [](StepsLeft \in 0 .. 5 * max_blocks)
  /\ [][phase # "idle" => StepsLeft' < StepsLeft]_vars

\* The safety half of EveryRunReturns: whatever code a run meets and whatever the cache
\* holds, no loop of the dispatcher goes round for ever.
THEOREM RunsAreFinite == Spec => RunsAreBounded
<1>1. ASSUME Inv PROVE StepsLeft \in 0 .. 5 * max_blocks
  <2> DEFINE b == result.blocks_executed
  <2>1. max_blocks \in Nat /\ b \in Nat
    BY <1>1 DEF Inv, TypeOK, Result
  <2>2. CASE phase = "idle"
    BY <2>1, <2>2 DEF StepsLeft
  <2>3. CASE phase # "idle"
    <3>1. b < max_blocks
      BY <1>1, <2>3 DEF Inv, Accounting
    <3>2. StageSteps \in 1 .. 5
      BY <1>1, <2>3 DEF Inv, TypeOK, StageSteps
    <3> QED BY <2>1, <2>3, <3>1, <3>2 DEF StepsLeft
  <2> QED BY <2>2, <2>3
<1>2. ASSUME Inv, Next, phase # "idle" PROVE StepsLeft' < StepsLeft
  <2> DEFINE b == result.blocks_executed
  <2>1. max_blocks \in Nat /\ b \in Nat /\ b < max_blocks
    BY <1>2 DEF Inv, TypeOK, Result, Accounting
  <2>2. Dispatch
    BY <1>2 DEF Next, Caller, RunWithoutBudget, Run, BeginRun, WriteGuest, ClearCache
  <2>3. StepsLeft = 5 * (max_blocks - b - 1) + StageSteps /\ StageSteps \in 1 .. 5
    BY <1>2 DEF StepsLeft, Inv, TypeOK, StageSteps
  <2>4. ASSUME phase' = "idle" PROVE StepsLeft' < StepsLeft
    <3>1. StepsLeft' = 0
      BY <2>4 DEF StepsLeft
    <3> QED BY <2>1, <2>3, <3>1
  <2>5. CASE FailAnalysis \/ StopAtBoundary \/ FailLowering \/ FailCompile
              \/ ExecuteToBoundary \/ ExecuteToBudget
    <3>1. phase' = "idle"
      BY <2>5 DEF FailAnalysis, StopAtBoundary, FailLowering, FailCompile, Return,
           ExecuteToBoundary, ExecuteToBudget, ExecuteBlock
    <3> QED BY <2>4, <3>1
  <2>6. CASE SelectPrefix \/ CacheHit \/ CacheMiss \/ StaleEntry \/ LowerPrefix
              \/ InstallBlock
    <3>1. max_blocks' = max_blocks /\ result'.blocks_executed = b
      BY <1>2, <2>6 DEF SelectPrefix, CacheHit, CacheMiss, StaleEntry, Lookup, LowerPrefix,
           InstallBlock, runArguments, Inv, TypeOK, Result
    <3>2. phase' # "idle" /\ StageSteps' \in 0 .. StageSteps - 1
      BY <2>6 DEF SelectPrefix, CacheHit, CacheMiss, StaleEntry, Lookup, LowerPrefix,
           InstallBlock, StageSteps
    <3>3. StepsLeft' = 5 * (max_blocks - b - 1) + StageSteps'
      BY <3>1, <3>2 DEF StepsLeft
    <3> QED BY <2>1, <2>3, <3>2, <3>3
  <2>7. CASE ExecuteAndContinue
    <3>1. phase = "execute" /\ ExecuteBlock(result.reason, PrefixEnd, "analyze")
      BY <2>7 DEF ExecuteAndContinue
    <3>2. max_blocks' = max_blocks /\ result'.blocks_executed = b + 1 /\ phase' = "analyze"
      BY <1>2, <3>1 DEF ExecuteBlock, runArguments, Inv, TypeOK, Result
    <3>3. StepsLeft' = 5 * (max_blocks - (b + 1) - 1) + 5
      BY <3>2 DEF StepsLeft, StageSteps
    <3>4. StageSteps = 1
      BY <3>1 DEF StageSteps
    <3> QED BY <2>1, <2>3, <3>3, <3>4
  <2> QED BY <2>2, <2>5, <2>6, <2>7 DEF Dispatch
<1>3. Inv /\ [Next]_vars => [phase # "idle" => StepsLeft' < StepsLeft]_vars
  BY <1>2
<1> QED BY <1>1, <1>3, Invariance, PTL DEF Spec, RunsAreBounded

(***************************************************************************)
(* The operators of the abstract specification are those of the dispatcher  *)
(***************************************************************************)
LEMMA SameAddresses ==
  /\ Abstract!MappedPc = MappedPc
  /\ \A pc, offset : Abstract!Add32(pc, offset) = Add32(pc, offset)
  /\ \A pc, i : Abstract!SitePc(pc, i) = SitePc(pc, i)
  /\ \A pc : Abstract!Fetchable(pc) <=> Fetchable(pc)
<1>1. Abstract!MappedPc = MappedPc
  BY DEF Abstract!MappedPc, MappedPc, Abstract!AlignedPc, AlignedPc, Abstract!Pc, Pc
<1>2. \A pc, offset : Abstract!Add32(pc, offset) = Add32(pc, offset)
  BY DEF Abstract!Add32, Add32
<1>3. \A pc, i : Abstract!SitePc(pc, i) = SitePc(pc, i)
  BY <1>2 DEF Abstract!SitePc, SitePc
<1>4. \A pc : Abstract!Fetchable(pc) <=> Fetchable(pc)
  BY <1>1 DEF Abstract!Fetchable, Fetchable
<1> QED BY <1>1, <1>2, <1>3, <1>4

LEMMA SameWords ==
  ASSUME NEW d
  PROVE  /\ Abstract!IsControlTransfer(d) <=> IsControlTransfer(d)
         /\ Abstract!IsTrap(d) <=> IsTrap(d)
         /\ Abstract!EndsBlock(d) <=> EndsBlock(d)
         /\ Abstract!Lowerable(d) <=> Lowerable(d)
         /\ Abstract!DispatcherEligible = DispatcherEligible
<1>1. /\ Abstract!BranchInstructions = BranchInstructions
      /\ Abstract!JumpInstructions = JumpInstructions
      /\ Abstract!SystemInstructions = SystemInstructions
      /\ Abstract!DispatcherEligible = DispatcherEligible
  BY DEF Abstract!BranchInstructions, BranchInstructions, Abstract!LikelyBranches,
     LikelyBranches, Abstract!JumpInstructions, JumpInstructions,
     Abstract!SystemInstructions, SystemInstructions, Abstract!DispatcherEligible,
     DispatcherEligible
<1>2. Abstract!IsControlTransfer(d) <=> IsControlTransfer(d)
  BY <1>1 DEF Abstract!IsControlTransfer, IsControlTransfer
<1>3. Abstract!IsTrap(d) <=> IsTrap(d)
  BY <1>1 DEF Abstract!IsTrap, IsTrap
<1>4. Abstract!EndsBlock(d) <=> EndsBlock(d)
  BY <1>2, <1>3 DEF Abstract!EndsBlock, EndsBlock
<1>5. Abstract!Lowerable(d) <=> Lowerable(d)
  BY <1>1 DEF Abstract!Lowerable, Lowerable
<1> QED BY <1>1, <1>2, <1>3, <1>4, <1>5

LEMMA SameAnalysis ==
  ASSUME NEW m, NEW start
  PROVE  Abstract!AnalysisOk(m, start) <=> AnalysisOk(m, start)
<1> DEFINE n == Iterations(m, start)
           last == m[SitePc(start, n)]
<1>1. \A pc : Abstract!EndsBlock(m[pc]) <=> EndsBlock(m[pc])
  BY SameWords
<1>2. Abstract!LoopLeavesAt(m, start) = LoopLeavesAt(m, start)
  BY <1>1, SameAddresses DEF Abstract!LoopLeavesAt, LoopLeavesAt
<1>3. Abstract!Iterations(m, start) = n
  BY <1>2 DEF Abstract!Iterations, Iterations, Abstract!First, First
<1>4. Abstract!Sites(m, start) = Sites(m, start)
  BY <1>3, SameAddresses DEF Abstract!Sites, Sites
<1>5. \A pc, a, b : Abstract!FetchError(pc, a, b) = FetchError(pc, a, b)
  BY SameAddresses DEF Abstract!FetchError, FetchError
<1>6. \A e : Abstract!Failure(e).error = e /\ Failure(e).error = e
  BY DEF Abstract!Failure, Failure
<1>7. \A b, s, e, d, f, g : /\ Abstract!Block(b, s, e, d, f, g).error = "None"
                            /\ Block(b, s, e, d, f, g).error = "None"
  BY DEF Abstract!Block, Block
<1>8. \A s : Abstract!FinishControlTransfer(m, start, s).error
               = FinishControlTransfer(m, start, s).error
  BY <1>5, <1>6, <1>7, SameAddresses
  DEF Abstract!FinishControlTransfer, FinishControlTransfer
<1>9. /\ Abstract!IsTrap(last) <=> IsTrap(last)
      /\ Abstract!IsControlTransfer(last) <=> IsControlTransfer(last)
  BY SameWords
<1> HIDE DEF n
<1> DEFINE pc == SitePc(start, n)
           A == Abstract!AnalyzeBasicBlock(m, start).error
           C == AnalyzeBasicBlock(m, start).error
<1>10. A = C
  <2> USE <1>3, <1>4, SameAddresses DEF Abstract!AnalyzeBasicBlock, AnalyzeBasicBlock, n
  <2>1. CASE max_instructions = 0
    BY <1>6, <2>1
  <2>2. CASE max_instructions # 0 /\ start % 4 # 0
    BY <1>6, <2>2
  <2>3. CASE ~ (max_instructions = 0) /\ ~ (max_instructions # 0 /\ start % 4 # 0)
    <3>1. CASE ~ Fetchable(pc)
      BY <1>5, <1>6, <2>3, <3>1
    <3>2. CASE Fetchable(pc) /\ last.instruction = "Unknown"
      BY <1>7, <2>3, <3>2
    <3>3. CASE Fetchable(pc) /\ last.instruction # "Unknown" /\ IsTrap(last)
      BY <1>7, <1>9, <2>3, <3>3
    <3>4. CASE Fetchable(pc) /\ last.instruction # "Unknown" /\ ~ IsTrap(last)
               /\ IsControlTransfer(last)
      BY <1>8, <1>9, <2>3, <3>4
    <3>5. CASE Fetchable(pc) /\ last.instruction # "Unknown" /\ ~ IsTrap(last)
               /\ ~ IsControlTransfer(last)
      BY <1>7, <1>9, <2>3, <3>5
    <3> QED BY <3>1, <3>2, <3>3, <3>4, <3>5
  <2> QED BY <2>1, <2>2, <2>3
<1> QED BY <1>10 DEF Abstract!AnalysisOk, AnalysisOk

(***************************************************************************)
(* Initial states and steps                                                 *)
(***************************************************************************)
LEMMA InitImplements == Init => Abstract!Init
<1> SUFFICES ASSUME Init PROVE Abstract!Init
  OBVIOUS
<1>1. /\ mem \in [MappedPc -> Word] /\ phase = "idle" /\ start_pc \in StartPc
      /\ max_blocks = 0 /\ trace = <<>>
      /\ result.next_pc = start_pc /\ result.blocks_executed = 0
      /\ result.reason = "InvalidBlockBudget"
  BY DEF Init, FreshResult
<1> QED BY <1>1, SameAddresses DEF Abstract!Init

\* During a run, next_pc is the address the run has reached.
LEMMA ReachedPc ==
  ASSUME Inv, phase # "idle"
  PROVE  result.next_pc = current_pc
BY DEF Inv, ResumePoint

LEMMA BeginImplements ==
  ASSUME NEW pc \in StartPc, NEW budget \in Budget \cup {0},
         \/ budget = 0 /\ RunWithoutBudget(pc)
         \/ Run(pc, budget)
  PROVE  Abstract!Next
<1>0. budget \in Nat
  BY InputsAssumption
<1>1. /\ phase = "idle" /\ UNCHANGED mem /\ trace' = <<>> /\ max_blocks' = budget
      /\ result'.next_pc = pc /\ result'.blocks_executed = 0
      /\ \/ budget = 0 /\ phase' = "idle" /\ result'.reason = "InvalidBlockBudget"
         \/ budget > 0 /\ phase' = "analyze"
  BY DEF RunWithoutBudget, Run, BeginRun, FreshResult
<1>2. Abstract!Begin(pc, budget)
  BY <1>0, <1>1 DEF Abstract!Begin
<1> QED BY <1>2 DEF Abstract!Next

\* The steps that only move the run from one stage to the next are invisible.
LEMMA StageImplements ==
  ASSUME Inv, SelectPrefix \/ CacheHit \/ CacheMiss \/ StaleEntry \/ LowerPrefix
              \/ InstallBlock
  PROVE  UNCHANGED Abstract!vars
<1>1. result \in Result
  BY DEF Inv, TypeOK
<1>2. /\ phase # "idle" /\ phase' # "idle"
      /\ UNCHANGED <<mem, max_blocks, trace>>
      /\ result'.next_pc = result.next_pc
      /\ result'.blocks_executed = result.blocks_executed
  BY <1>1 DEF SelectPrefix, CacheHit, CacheMiss, StaleEntry, Lookup, LowerPrefix,
     InstallBlock, runArguments, Result
<1> QED BY <1>2 DEF Abstract!vars

LEMMA BoundaryImplements ==
  ASSUME NEW stop, Fetchable(stop), ~ Selectable(mem[stop])
  PROVE  Abstract!AtBoundary(stop, BoundaryReason(mem[stop]))
<1> DEFINE d == mem[stop]
<1>1. /\ Abstract!Fetchable(stop)
      /\ Abstract!IsControlTransfer(d) <=> IsControlTransfer(d)
      /\ Abstract!IsTrap(d) <=> IsTrap(d)
      /\ Abstract!DispatcherEligible = DispatcherEligible
  BY SameAddresses, SameWords
<1>2. CASE IsControlTransfer(d)
  <2>1. ~ IsTrap(d)
    BY <1>2 DEF IsControlTransfer, IsTrap, BranchInstructions, LikelyBranches,
       JumpInstructions, SystemInstructions
  <2> QED BY <1>1, <1>2, <2>1 DEF Abstract!AtBoundary, BoundaryReason
<1>3. CASE ~ IsControlTransfer(d) /\ IsTrap(d)
  BY <1>1, <1>3 DEF Abstract!AtBoundary, BoundaryReason
<1>4. CASE ~ IsControlTransfer(d) /\ ~ IsTrap(d)
  BY <1>1, <1>4 DEF Abstract!AtBoundary, BoundaryReason, Selectable
<1> QED BY <1>2, <1>3, <1>4

LEMMA ReturnImplements ==
  ASSUME Inv, FailAnalysis \/ StopAtBoundary \/ FailLowering \/ FailCompile
  PROVE  Abstract!Next
<1>0. result \in Result /\ phase # "idle"
  BY DEF Inv, TypeOK, FailAnalysis, StopAtBoundary, FailLowering, FailCompile
<1>1. ASSUME NEW reason, NEW pc, Return(reason, pc)
      PROVE  /\ phase' = "idle" /\ UNCHANGED <<mem, max_blocks, trace>>
             /\ result'.reason = reason /\ result'.next_pc = pc
             /\ result'.blocks_executed = result.blocks_executed
  BY <1>0, <1>1 DEF Return, runArguments, Result
<1>2. result.next_pc = current_pc
  BY <1>0, ReachedPc
<1>3. CASE FailAnalysis
  <2>1. Return("AnalysisFailure", current_pc) /\ ~ AnalysisOk(mem, current_pc)
    BY <1>3 DEF FailAnalysis
  <2>2. Abstract!Stop
    BY <1>0, <1>1, <1>2, <2>1, SameAnalysis DEF Abstract!Stop
  <2> QED BY <2>2 DEF Abstract!Next
<1>4. CASE StopAtBoundary
  <2>1. /\ Return(BoundaryReason(mem[current_pc]), current_pc)
        /\ Fetchable(current_pc) /\ ~ Selectable(mem[current_pc])
    BY <1>4, BoundaryOfEmptyPrefix DEF StopAtBoundary
  <2>2. Abstract!AtBoundary(current_pc, BoundaryReason(mem[current_pc]))
    BY <2>1, BoundaryImplements
  <2> HIDE DEF BoundaryReason
  <2>3. Abstract!Stop
    BY <1>0, <1>1, <1>2, <2>1, <2>2 DEF Abstract!Stop
  <2> QED BY <2>3 DEF Abstract!Next
<1>5. CASE FailLowering
  <2>1. PICK i \in 1 .. max_instructions :
          /\ Return("LoweringFailure", SitePc(current_pc, i))
          /\ Fetchable(SitePc(current_pc, i))
          /\ Selectable(mem[SitePc(current_pc, i)])
          /\ ~ Lowerable(mem[SitePc(current_pc, i)])
    BY <1>5, RejectedWord
  <2>2. /\ Abstract!SitePc(result.next_pc, i) = SitePc(current_pc, i)
        /\ Abstract!Fetchable(SitePc(current_pc, i))
        /\ mem[SitePc(current_pc, i)].instruction \in Abstract!DispatcherEligible
        /\ ~ Abstract!Lowerable(mem[SitePc(current_pc, i)])
    BY <1>2, <2>1, SameAddresses, SameWords DEF Selectable
  <2>3. Abstract!Stop
    BY <1>0, <1>1, <2>1, <2>2 DEF Abstract!Stop
  <2> QED BY <2>3 DEF Abstract!Next
<1>6. CASE FailCompile
  <2>1. Abstract!Stop
    BY <1>0, <1>1, <1>2, <1>6 DEF Abstract!Stop, FailCompile
  <2> QED BY <2>1 DEF Abstract!Next
<1> QED BY <1>3, <1>4, <1>5, <1>6

LEMMA ExecuteImplements ==
  ASSUME Inv, ExecuteToBoundary \/ ExecuteToBudget \/ ExecuteAndContinue
  PROVE  Abstract!Next
<1> DEFINE k == Len(candidate.prefix)
<1>0. /\ result \in Result /\ phase = "execute" /\ max_blocks \in Nat
      /\ result.blocks_executed \in Nat /\ result.blocks_executed < max_blocks
  BY DEF Inv, TypeOK, Result, Accounting, ExecuteToBoundary, ExecuteToBudget,
     ExecuteAndContinue
<1>1. result.next_pc = current_pc
  BY <1>0, ReachedPc
<1>2. /\ k \in 1 .. max_instructions
      /\ \A i \in 1 .. k : Fetchable(SitePc(current_pc, i))
      /\ candidate.prefix = [i \in 1 .. k |-> [pc |-> SitePc(current_pc, i),
                                               decoded |-> mem[SitePc(current_pc, i)]]]
      /\ PrefixEnd = Add32(current_pc, 4 * k)
      /\ candidate.boundary # NoBoundary =>
           /\ candidate.boundary = [reason |-> BoundaryReason(mem[PrefixEnd]),
                                    pc     |-> PrefixEnd]
           /\ Fetchable(PrefixEnd) /\ ~ Selectable(mem[PrefixEnd])
  BY <1>0, CurrentCandidateShape DEF PrefixEnd
<1>3. \A i \in 1 .. k : Lowerable(mem[SitePc(current_pc, i)])
  BY <1>0, <1>2 DEF Inv, BlockMatchesCandidate, NotLowerable
<1>4. Performed = [i \in 1 .. k |-> [pc |-> SitePc(current_pc, i),
                                     decoded |-> mem[SitePc(current_pc, i)]]]
  BY <1>0, PerformedIsCandidate
<1> HIDE DEF k
<1>5. ASSUME NEW reason, NEW pc, NEW next, ExecuteBlock(reason, pc, next)
      PROVE  /\ trace' = trace \o Performed /\ phase' = next
             /\ UNCHANGED <<mem, max_blocks>>
             /\ result'.reason = reason /\ result'.next_pc = pc
             /\ result'.blocks_executed = result.blocks_executed + 1
  BY <1>0, <1>5 DEF ExecuteBlock, runArguments, Result
<1>6. /\ Abstract!StraightLine(k)
      /\ Abstract!Chunk(k) = Performed
      /\ Abstract!Add32(result.next_pc, 4 * k) = PrefixEnd
  <2>1. \A i \in 1 .. k : Abstract!Lowerable(mem[SitePc(current_pc, i)])
    BY <1>3, SameWords
  <2> QED BY <1>1, <1>2, <1>4, <2>1, SameAddresses DEF Abstract!StraightLine, Abstract!Chunk
<1>7. CASE ExecuteToBoundary
  <2>1. /\ ExecuteBlock(BoundaryReason(mem[PrefixEnd]), PrefixEnd, "idle")
        /\ Fetchable(PrefixEnd) /\ ~ Selectable(mem[PrefixEnd])
    BY <1>2, <1>7 DEF ExecuteToBoundary
  <2>2. Abstract!AtBoundary(PrefixEnd, BoundaryReason(mem[PrefixEnd]))
    BY <2>1, BoundaryImplements
  <2>3. Abstract!Execute(k)
    <3> HIDE DEF BoundaryReason, PrefixEnd, Performed
    <3> QED BY <1>0, <1>5, <1>6, <2>1, <2>2 DEF Abstract!Execute, Abstract!AtBoundary
  <2> QED BY <1>2, <2>3 DEF Abstract!Next
<1>8. CASE ExecuteToBudget
  <2>1. /\ ExecuteBlock("BlockBudgetExhausted", PrefixEnd, "idle")
        /\ result.blocks_executed + 1 = max_blocks
    BY <1>8 DEF ExecuteToBudget, BudgetReached
  <2>2. Abstract!Execute(k)
    BY <1>0, <1>5, <1>6, <2>1 DEF Abstract!Execute
  <2> QED BY <1>2, <2>2 DEF Abstract!Next
<1>9. CASE ExecuteAndContinue
  <2>1. /\ ExecuteBlock(result.reason, PrefixEnd, "analyze")
        /\ result.blocks_executed + 1 # max_blocks
    BY <1>9 DEF ExecuteAndContinue, BudgetReached
  <2>2. Abstract!Execute(k)
    BY <1>0, <1>5, <1>6, <2>1 DEF Abstract!Execute
  <2> QED BY <1>2, <2>2 DEF Abstract!Next
<1> QED BY <1>7, <1>8, <1>9

LEMMA CallerImplements ==
  ASSUME Inv, ClearCache \/ \E pc \in MappedPc, word \in Word : WriteGuest(pc, word)
  PROVE  Abstract!Next \/ UNCHANGED Abstract!vars
<1>1. CASE ClearCache
  BY <1>1 DEF ClearCache, runArguments, Abstract!vars
<1>2. ASSUME NEW pc \in MappedPc, NEW word \in Word, WriteGuest(pc, word)
      PROVE  Abstract!Next
  <2>1. Abstract!Write(pc, word)
    BY <1>2 DEF WriteGuest, runArguments, Abstract!Write
  <2> QED BY <2>1, SameAddresses DEF Abstract!Next
<1> QED BY <1>1, <1>2

LEMMA StepImplements ==
  ASSUME Inv, [Next]_vars PROVE [Abstract!Next]_(Abstract!vars)
<1>1. CASE UNCHANGED vars
  BY <1>1 DEF vars, Abstract!vars
<1>2. CASE Dispatch
  BY <1>2, StageImplements, ReturnImplements, ExecuteImplements DEF Dispatch
<1>3. ASSUME NEW pc \in StartPc, RunWithoutBudget(pc)
      PROVE  Abstract!Next
  BY <1>3, BeginImplements
<1>4. ASSUME NEW pc \in StartPc, NEW budget \in Budget, Run(pc, budget)
      PROVE  Abstract!Next
  BY <1>4, BeginImplements
<1>5. CASE ClearCache \/ \E pc \in MappedPc, word \in Word : WriteGuest(pc, word)
  BY <1>5, CallerImplements
<1> QED BY <1>1, <1>2, <1>3, <1>4, <1>5 DEF Next, Caller

\* The dispatcher implements straight-line execution: for every guest program,
\* layout, budget and fingerprint, and whichever compilations fail, no caller can
\* tell a cached block from one compiled on demand.
THEOREM Implementation == Spec => ImplementsStraightLineExecution
<1>1. Init => Abstract!Init
  BY InitImplements
<1>2. Inv /\ [Next]_vars => [Abstract!Next]_(Abstract!vars)
  BY StepImplements
<1> QED BY <1>1, <1>2, Invariance, PTL
    DEF Spec, ImplementsStraightLineExecution, Abstract!Spec
=============================================================================
