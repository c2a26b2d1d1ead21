---------------------- MODULE R5900ControlFlowTheorems ----------------------
(***************************************************************************)
(* Lemmas about the operators of R5900ControlFlow, for every address space, *)
(* memory layout and analyser option.                                       *)
(***************************************************************************)
EXTENDS R5900ControlFlow, NaturalsInduction, WellFoundedInduction, TLAPS

(***************************************************************************)
(* The program counter                                                      *)
(***************************************************************************)
\* The remainder is the only number of 0 .. m - 1 that differs from x by a
\* multiple of m.
LEMMA RemainderIsUnique ==
  ASSUME NEW m \in Nat \ {0}, NEW x \in Nat, NEW k \in Int,
         NEW r \in 0 .. m - 1, x = m * k + r
  PROVE  x % m = r
<1> DEFINE q == x \div m
           s == x % m
<1>1. x = m * q + s /\ q \in Int /\ s \in 0 .. m - 1
  OBVIOUS
<1> HIDE DEF q, s
<1>2. ASSUME NEW j \in Int, j >= 1
      PROVE  m * j >= m
  BY <1>2
<1>3. ~ (k - q >= 1)
  <2>1. m * (k - q) = s - r
    BY <1>1
  <2> QED BY <2>1, <1>1, <1>2
<1>4. ~ (q - k >= 1)
  <2>1. m * (q - k) = r - s
    BY <1>1
  <2> QED BY <2>1, <1>1, <1>2
<1>5. k = q
  BY <1>1, <1>3, <1>4
<1> QED BY <1>1, <1>5 DEF s

\* Adding after a wrap is the same as wrapping once at the end.
LEMMA RemainderOfSum ==
  ASSUME NEW m \in Nat \ {0}, NEW a \in Nat, NEW b \in Nat
  PROVE  ((a % m) + b) % m = (a + b) % m
<1> DEFINE q == a \div m
           r == a % m
           p == (r + b) \div m
           s == (r + b) % m
<1>1. a = m * q + r /\ q \in Int /\ r \in 0 .. m - 1
  OBVIOUS
<1> HIDE DEF q, r
<1>2. r + b = m * p + s /\ p \in Int /\ s \in 0 .. m - 1
  BY <1>1
<1> HIDE DEF p, s
<1>3. a + b = m * (q + p) + s
  <2>1. m * (q + p) = m * q + m * p
    BY <1>1, <1>2
  <2> QED BY <1>1, <1>2, <2>1
<1>4. a + b \in Nat /\ q + p \in Int
  BY <1>1, <1>2
<1>5. (a + b) % m = s
  BY <1>2, <1>3, <1>4, RemainderIsUnique
<1> QED BY <1>5 DEF s, r

\* The program counter stays in the address space.
LEMMA Add32InRange ==
  ASSUME NEW pc \in Nat, NEW offset \in Nat
  PROVE  Add32(pc, offset) \in Pc
BY AddressSpaceAssumption DEF Add32, Pc

\* Two advances of the program counter are one, wrap-around included.
LEMMA Add32Twice ==
  ASSUME NEW pc \in Nat, NEW a \in Nat, NEW b \in Nat
  PROVE  Add32(Add32(pc, a), b) = Add32(pc, a + b)
<1>1. AddressSpace \in Nat \ {0} /\ pc + a \in Nat
  BY AddressSpaceAssumption
<1>2. (((pc + a) % AddressSpace) + b) % AddressSpace = (pc + a + b) % AddressSpace
  BY <1>1, RemainderOfSum
<1> QED BY <1>2 DEF Add32

LEMMA Add32Zero ==
  ASSUME NEW pc \in Pc
  PROVE  Add32(pc, 0) = pc
<1>1. pc \in Nat /\ pc \in 0 .. AddressSpace - 1 /\ pc = AddressSpace * 0 + pc
  BY AddressSpaceAssumption DEF Pc
<1>2. pc % AddressSpace = pc
  BY <1>1, AddressSpaceAssumption, RemainderIsUnique
<1> QED BY <1>1, <1>2 DEF Add32

(***************************************************************************)
(* Branch and jump targets                                                  *)
(***************************************************************************)
\* Wrapping keeps word alignment.
LEMMA RemainderAligned ==
  ASSUME NEW m \in Nat \ {0}, m % 4 = 0, NEW x \in Int, x % 4 = 0
  PROVE  x % m \in 0 .. m - 1 /\ (x % m) % 4 = 0
<1> DEFINE q == x \div m
           r == x % m
<1>1. x = m * q + r /\ q \in Int /\ r \in 0 .. m - 1
  OBVIOUS
<1> HIDE DEF q, r
<1>2. PICK a \in Int : m = 4 * a
  <2>1. m = 4 * (m \div 4) + 0 /\ m \div 4 \in Int
    OBVIOUS
  <2> QED BY <2>1
<1>3. PICK b \in Int : x = 4 * b
  <2>1. x = 4 * (x \div 4) + 0 /\ x \div 4 \in Int
    OBVIOUS
  <2> QED BY <2>1
<1>4. r = 4 * (b - a * q)
  <2>1. m * q = 4 * (a * q) /\ a * q \in Int
    BY <1>1, <1>2
  <2> QED BY <1>1, <1>3, <2>1
<1>5. b - a * q \in Int
  BY <1>1, <1>2, <1>3
<1> DEFINE c == b - a * q
<1> HIDE DEF c
<1>6. r = 4 * c /\ c \in Int
  BY <1>4, <1>5 DEF c
<1>7. r % 4 = 0
  BY <1>6
<1> QED BY <1>1, <1>7 DEF r

\* The addresses edges lead to are addresses of words.
LEMMA Add32Aligned ==
  ASSUME NEW pc \in AlignedPc, NEW offset \in Nat, offset % 4 = 0
  PROVE  Add32(pc, offset) \in AlignedPc
<1>1. pc \in Nat /\ pc % 4 = 0 /\ pc + offset \in Int /\ (pc + offset) % 4 = 0
  BY AddressSpaceAssumption DEF AlignedPc, Pc
<1>2. AddressSpace \in Nat \ {0} /\ AddressSpace % 4 = 0
  BY AddressSpaceAssumption
<1> QED BY <1>1, <1>2, RemainderAligned DEF Add32, AlignedPc, Pc

LEMMA BranchTargetAligned ==
  ASSUME NEW pc \in AlignedPc, NEW d \in DecodedInstruction
  PROVE  BranchTarget(d, pc) \in AlignedPc
<1>1. pc \in Nat /\ pc % 4 = 0 /\ d.immediate \in Int
  BY AddressSpaceAssumption DEF AlignedPc, Pc, DecodedInstruction
<1>2. pc + 4 + 4 * d.immediate \in Int /\ (pc + 4 + 4 * d.immediate) % 4 = 0
  BY <1>1
<1>3. AddressSpace \in Nat \ {0} /\ AddressSpace % 4 = 0
  BY AddressSpaceAssumption
<1> QED BY <1>2, <1>3, RemainderAligned DEF BranchTarget, AlignedPc, Pc

\* Replacing the offset in a region keeps an address below the end of the last
\* region.
LEMMA SameRegion ==
  ASSUME NEW m \in Nat \ {0}, NEW n \in Int, NEW q \in Int,
         NEW s \in 0 .. m - 1, NEW r \in 0 .. m - 1,
         m * q + s >= 0, m * q + s < m * n
  PROVE  m * q + r >= 0 /\ m * q + r < m * n
<1>1. ASSUME NEW j \in Int, j >= 1
      PROVE  m * j >= m
  BY <1>1
<1>2. ~ (- q >= 1)
  <2>1. m * (- q) = - (m * q)
    OBVIOUS
  <2>2. ASSUME - q >= 1 PROVE m * (- q) >= m
    BY <1>1, <2>2
  <2> QED BY <2>1, <2>2
<1>3. n - q >= 1
  <2>1. m * (q - n + 1) = m * q - m * n + m
    OBVIOUS
  <2>2. ASSUME q - n + 1 >= 1 PROVE m * (q - n + 1) >= m
    BY <1>1, <2>2
  <2> QED BY <2>1, <2>2
<1>4. m * q >= 0
  BY <1>1, <1>2
<1>5. m * n - m * q >= m
  <2>1. m * (n - q) = m * n - m * q
    OBVIOUS
  <2> QED BY <1>1, <1>3, <2>1
<1> DEFINE x == m * q
           y == m * n
<1>6. x \in Int /\ y \in Int
  OBVIOUS
<1> HIDE DEF x, y
<1> QED BY <1>4, <1>5, <1>6 DEF x, y

LEMMA JumpTargetAligned ==
  ASSUME NEW pc \in AlignedPc, NEW d \in DecodedInstruction
  PROVE  JumpTarget(d, pc) \in AlignedPc
<1> DEFINE base == Add32(pc, 4)
           q == base \div JumpRegion
           s == base % JumpRegion
           r == (4 * d.target) % JumpRegion
           n == AddressSpace \div JumpRegion
<1>0. /\ JumpRegion \in Nat \ {0} /\ JumpRegion % 4 = 0
      /\ AddressSpace \in Nat \ {0} /\ AddressSpace % JumpRegion = 0
  BY AddressSpaceAssumption
<1>1. base \in Nat /\ base < AddressSpace
  <2>1. base \in AlignedPc
    BY Add32Aligned
  <2> QED BY <1>0, <2>1 DEF AlignedPc, Pc
<1>2. r \in 0 .. JumpRegion - 1 /\ r % 4 = 0
  <2>1. d.target \in Nat
    BY DEF DecodedInstruction
  <2>2. 4 * d.target \in Int /\ (4 * d.target) % 4 = 0
    BY <2>1
  <2> QED BY <1>0, <2>2, RemainderAligned
<1>3. AddressSpace = JumpRegion * n /\ n \in Int
  BY <1>0
<1> HIDE DEF base, r
<1>4. base = JumpRegion * q + s /\ q \in Int /\ s \in 0 .. JumpRegion - 1
  BY <1>0, <1>1
<1> HIDE DEF n, q, s
<1>5. JumpRegion * q + r >= 0 /\ JumpRegion * q + r < JumpRegion * n
  BY <1>0, <1>1, <1>2, <1>3, <1>4, SameRegion
<1>6. q * JumpRegion + r \in 0 .. AddressSpace - 1
  BY <1>0, <1>2, <1>3, <1>4, <1>5
<1>7. (q * JumpRegion + r) % 4 = 0
  <2>1. PICK a \in Int : JumpRegion = 4 * a
    <3>1. JumpRegion = 4 * (JumpRegion \div 4) + 0 /\ JumpRegion \div 4 \in Int
      BY AddressSpaceAssumption
    <3> QED BY <3>1
  <2>2. PICK b \in Int : r = 4 * b
    <3>1. r = 4 * (r \div 4) + 0 /\ r \div 4 \in Int
      BY <1>2, AddressSpaceAssumption
    <3> QED BY <3>1
  <2> DEFINE c == q * a + b
  <2>3. q * JumpRegion + r = 4 * c /\ c \in Int
    BY <1>4, <2>1, <2>2
  <2> HIDE DEF c
  <2> QED BY <2>3
<1>8. JumpTarget(d, pc) = q * JumpRegion + r
  BY DEF JumpTarget, base, q, r
<1> QED BY <1>6, <1>7, <1>8 DEF AlignedPc, Pc

(***************************************************************************)
(* The analysis loop                                                        *)
(***************************************************************************)
\* First picks the least element of a set of naturals.
LEMMA FirstIsLeast ==
  ASSUME NEW S \in SUBSET Nat, S # {}
  PROVE  First(S) \in S /\ \A j \in S : First(S) <= j
<1>1. PICK x \in S : \A y \in S : ~ (<<y, x>> \in OpToRel(<, Nat))
  BY NatLessThanWellFounded, WFMin
<1>2. \A y \in S : ~ (y < x)
  BY <1>1 DEF OpToRel
<1>3. \E i \in S : \A j \in S : i <= j
  BY <1>2
<1> QED BY <1>3 DEF First

LEMMA IterationsInRange ==
  ASSUME NEW mem, NEW start, max_instructions # 0
  PROVE  /\ Iterations(mem, start) \in 1 .. max_instructions
         /\ \A i \in 1 .. Iterations(mem, start) - 1 : Fetchable(SitePc(start, i))
<1> DEFINE L == LoopLeavesAt(mem, start)
<1>1. L \in SUBSET Nat /\ L \subseteq 1 .. max_instructions
  BY OptionsAssumption DEF LoopLeavesAt
<1>2. \A i \in 1 .. max_instructions : i \notin L => Fetchable(SitePc(start, i))
  BY DEF LoopLeavesAt
<1>3. CASE L = {}
  BY <1>2, <1>3, OptionsAssumption DEF Iterations
<1>4. CASE L # {}
  <2>1. First(L) \in L /\ \A j \in L : First(L) <= j
    BY <1>1, <1>4, FirstIsLeast
  <2>2. Iterations(mem, start) = First(L)
    BY <1>4 DEF Iterations
  <2>3. First(L) \in 1 .. max_instructions
    BY <1>1, <2>1
  <2>4. ASSUME NEW i \in 1 .. First(L) - 1
        PROVE  Fetchable(SitePc(start, i))
    <3>1. i \in 1 .. max_instructions /\ i < First(L) /\ i \in Nat
      BY <2>3, OptionsAssumption
    <3>2. i \notin L
      BY <1>1, <2>1, <3>1
    <3> QED BY <1>2, <3>1, <3>2
  <2> QED BY <2>2, <2>3, <2>4
<1> QED BY <1>3, <1>4

\* A successful analysis returns the sites of its loop, all of them fetchable,
\* at least one and at most max_instructions of them.
LEMMA AnalysisShape ==
  ASSUME NEW mem, NEW start, AnalysisOk(mem, start)
  PROVE  /\ Iterations(mem, start) \in 1 .. max_instructions
         /\ AnalyzeBasicBlock(mem, start).block.instructions = Sites(mem, start)
         /\ \A i \in 1 .. Iterations(mem, start) : Fetchable(SitePc(start, i))
<1> DEFINE n == Iterations(mem, start)
           pc == SitePc(start, n)
           R == AnalyzeBasicBlock(mem, start)
<1>1. max_instructions # 0 /\ start % 4 = 0
  BY DEF AnalysisOk, AnalyzeBasicBlock, Failure
<1>2. Fetchable(pc)
  <2>1. ASSUME ~ Fetchable(pc)
        PROVE  R.error = FetchError(pc, "NonExecutableInstruction", "UnmappedInstruction")
    BY <1>1, <2>1 DEF AnalyzeBasicBlock, Failure
  <2> QED BY <2>1 DEF AnalysisOk, FetchError
<1>3. n \in 1 .. max_instructions /\ \A i \in 1 .. n - 1 : Fetchable(SitePc(start, i))
  BY <1>1, IterationsInRange
<1>4. R.block.instructions = Sites(mem, start)
  <2>1. CASE mem[pc].instruction = "Unknown"
    BY <1>1, <1>2, <2>1 DEF AnalyzeBasicBlock, Block
  <2>2. CASE mem[pc].instruction # "Unknown" /\ IsTrap(mem[pc])
    BY <1>1, <1>2, <2>2 DEF AnalyzeBasicBlock, Block
  <2>3. CASE mem[pc].instruction # "Unknown" /\ ~ IsTrap(mem[pc]) /\ IsControlTransfer(mem[pc])
    <3>1. R = FinishControlTransfer(mem, start, Sites(mem, start))
      BY <1>1, <1>2, <2>3 DEF AnalyzeBasicBlock
    <3> QED BY <3>1 DEF AnalysisOk, FinishControlTransfer, Block, Failure, FetchError
  <2>4. CASE mem[pc].instruction # "Unknown" /\ ~ IsTrap(mem[pc]) /\ ~ IsControlTransfer(mem[pc])
    BY <1>1, <1>2, <2>4 DEF AnalyzeBasicBlock, Block
  <2> QED BY <2>1, <2>2, <2>3, <2>4
<1>5. \A i \in 1 .. n : Fetchable(SitePc(start, i))
  BY <1>2, <1>3, OptionsAssumption
<1> QED BY <1>3, <1>4, <1>5

\* An analysed block has two edges at most, and each leads to the address of a word,
\* or nowhere.
LEMMA AnalysisEdges ==
  ASSUME NEW mem, NEW start, AnalysisOk(mem, start),
         \A pc \in MappedPc : mem[pc] \in DecodedInstruction
  PROVE  LET block == AnalyzeBasicBlock(mem, start).block
         IN  /\ block.start_pc = start
             /\ Len(block.edges) \in 0 .. 2
             /\ \A k \in 1 .. Len(block.edges) :
                  block.edges[k].target \in AlignedPc \cup {NoTarget}
<1> DEFINE n == Iterations(mem, start)
           pc == SitePc(start, n)
           last == mem[pc]
           sites == Sites(mem, start)
           R == AnalyzeBasicBlock(mem, start)
           Good(block) == /\ block.start_pc = start
                          /\ Len(block.edges) \in 0 .. 2
                          /\ \A k \in 1 .. Len(block.edges) :
                               block.edges[k].target \in AlignedPc \cup {NoTarget}
<1> SUFFICES Good(R.block)
  OBVIOUS
<1>1. max_instructions # 0 /\ start % 4 = 0
  BY DEF AnalysisOk, AnalyzeBasicBlock, Failure
<1>2. n \in 1 .. max_instructions /\ n \in Nat /\ Fetchable(pc)
  BY <1>1, AnalysisShape, OptionsAssumption
<1>3. pc \in AlignedPc /\ last \in DecodedInstruction
  BY <1>2 DEF Fetchable, MappedPc
<1>4. sites[Len(sites)] = [pc |-> pc, decoded |-> last] /\ Len(sites) = n
  <2>1. sites = [i \in 1 .. n |-> [pc |-> SitePc(start, i), decoded |-> mem[SitePc(start, i)]]]
    BY DEF Sites
  <2> HIDE DEF n, sites
  <2> QED BY <1>2, <2>1
<1> HIDE DEF n, sites, pc, last
<1>5. /\ Add32(pc, 4) \in AlignedPc /\ Add32(pc, 8) \in AlignedPc
      /\ BranchTarget(last, pc) \in AlignedPc
      /\ JumpTarget(last, pc) \in AlignedPc
  BY <1>3, Add32Aligned, BranchTargetAligned, JumpTargetAligned
<1>6. ASSUME NEW kind, NEW delay, NEW fall
      PROVE  Good(Block(start, sites, kind, delay, fall, <<>>).block)
  BY DEF Block
<1>7. ASSUME NEW kind, NEW delay, NEW fall,
             NEW k1, NEW t1 \in AlignedPc \cup {NoTarget}
      PROVE  Good(Block(start, sites, kind, delay, fall, << Edge(k1, t1) >>).block)
  BY <1>7 DEF Block, Edge
<1>8. ASSUME NEW kind, NEW delay, NEW fall,
             NEW k1, NEW t1 \in AlignedPc \cup {NoTarget},
             NEW k2, NEW t2 \in AlignedPc \cup {NoTarget}
      PROVE  Good(Block(start, sites, kind, delay, fall,
                        << Edge(k1, t1), Edge(k2, t2) >>).block)
  BY <1>8 DEF Block, Edge
<1> HIDE DEF Good
<1>9. CASE last.instruction = "Unknown"
  <2>1. R = Block(start, sites, "UnsupportedInstruction", NoTarget, TRUE, <<>>)
    BY <1>1, <1>2, <1>9 DEF AnalyzeBasicBlock, n, pc, last, sites
  <2> QED BY <1>6, <2>1
<1>10. CASE last.instruction # "Unknown" /\ IsTrap(last)
  <2>1. R = Block(start, sites, "Trap", NoTarget, TRUE, <<>>)
    BY <1>1, <1>2, <1>10 DEF AnalyzeBasicBlock, n, pc, last, sites
  <2> QED BY <1>6, <2>1
<1>11. CASE last.instruction # "Unknown" /\ ~ IsTrap(last) /\ ~ IsControlTransfer(last)
  <2>1. R = Block(start, sites, "InstructionLimit", NoTarget, TRUE,
                  << Edge("Fallthrough", Add32(pc, 4)) >>)
    BY <1>1, <1>2, <1>11 DEF AnalyzeBasicBlock, n, pc, last, sites
  <2> QED BY <1>5, <1>7, <2>1
<1>12. CASE last.instruction # "Unknown" /\ ~ IsTrap(last) /\ IsControlTransfer(last)
  <2> DEFINE delay == Add32(pc, 4)
             fall == last.instruction \notin LikelyBranches
  <2>1. R = FinishControlTransfer(mem, start, sites)
    BY <1>1, <1>2, <1>12 DEF AnalyzeBasicBlock, n, pc, last, sites
  <2>2. R.block = Block(start, sites, EndKind(last), delay, fall, TransferEdges(last, pc)).block
    BY <1>4, <2>1 DEF AnalysisOk, FinishControlTransfer, Failure, FetchError
  <2> HIDE DEF fall, delay
  <2>3. CASE last.instruction \in BranchInstructions
    <3>1. TransferEdges(last, pc) = << Edge("BranchTaken", BranchTarget(last, pc)),
                                       Edge("BranchNotTaken", Add32(pc, 8)) >>
      BY <2>3 DEF TransferEdges, BranchInstructions, LikelyBranches
    <3> QED BY <1>5, <1>8, <2>2, <3>1
  <2>4. CASE last.instruction = "J"
    <3>1. TransferEdges(last, pc) = << Edge("DirectJump", JumpTarget(last, pc)) >>
      BY <2>4 DEF TransferEdges, BranchInstructions, LikelyBranches
    <3> QED BY <1>5, <1>7, <2>2, <3>1
  <2>5. CASE last.instruction = "Jal"
    <3>1. TransferEdges(last, pc) = << Edge("DirectCall", JumpTarget(last, pc)),
                                       Edge("CallContinuation", Add32(pc, 8)) >>
      BY <2>5 DEF TransferEdges, BranchInstructions, LikelyBranches
    <3> QED BY <1>5, <1>8, <2>2, <3>1
  <2>6. CASE last.instruction = "Jr"
    <3>1. TransferEdges(last, pc) = << Edge("IndirectJump", NoTarget) >>
      BY <2>6 DEF TransferEdges, BranchInstructions, LikelyBranches
    <3> QED BY <1>7, <2>2, <3>1
  <2>7. CASE last.instruction = "Jalr"
    <3>1. TransferEdges(last, pc) = << Edge("IndirectCall", NoTarget),
                                       Edge("CallContinuation", Add32(pc, 8)) >>
      BY <2>7 DEF TransferEdges, BranchInstructions, LikelyBranches
    <3> QED BY <1>5, <1>8, <2>2, <3>1
  <2>8. last.instruction \in BranchInstructions \cup {"J", "Jal", "Jr", "Jalr"}
    BY <1>12 DEF IsControlTransfer, JumpInstructions
  <2> QED BY <2>3, <2>4, <2>5, <2>6, <2>7, <2>8
<1> QED BY <1>9, <1>10, <1>11, <1>12

\* The delay slot of a block, if it has one, follows its last instruction.
LEMMA DelaySlotFollows ==
  ASSUME NEW mem, NEW start \in Pc, AnalysisOk(mem, start)
  PROVE  AnalyzeBasicBlock(mem, start).block.delay_slot
           \in {NoTarget, Add32(start, 4 * Iterations(mem, start))}
<1> DEFINE n == Iterations(mem, start)
           pc == SitePc(start, n)
           last == mem[pc]
           sites == Sites(mem, start)
           R == AnalyzeBasicBlock(mem, start)
<1>1. max_instructions # 0 /\ start % 4 = 0
  BY DEF AnalysisOk, AnalyzeBasicBlock, Failure
<1>2. n \in Nat /\ n >= 1 /\ Fetchable(pc)
  BY <1>1, AnalysisShape, OptionsAssumption
<1>3. sites[Len(sites)] = [pc |-> pc, decoded |-> last]
  <2>1. sites = [i \in 1 .. n |-> [pc |-> SitePc(start, i), decoded |-> mem[SitePc(start, i)]]]
    BY DEF Sites
  <2> HIDE DEF n, sites
  <2> QED BY <1>2, <2>1
<1>4. Add32(pc, 4) = Add32(start, 4 * n)
  <2>1. start \in Nat /\ 4 * (n - 1) \in Nat /\ 4 * (n - 1) + 4 = 4 * n
    BY <1>2, AddressSpaceAssumption DEF Pc
  <2>2. Add32(Add32(start, 4 * (n - 1)), 4) = Add32(start, 4 * (n - 1) + 4)
    BY <2>1, Add32Twice
  <2> QED BY <2>1, <2>2 DEF SitePc
<1>5. CASE last.instruction = "Unknown" \/ IsTrap(last) \/ ~ IsControlTransfer(last)
  <2>1. \/ R = Block(start, sites, "UnsupportedInstruction", NoTarget, TRUE, <<>>)
        \/ R = Block(start, sites, "Trap", NoTarget, TRUE, <<>>)
        \/ R = Block(start, sites, "InstructionLimit", NoTarget, TRUE,
                     << Edge("Fallthrough", Add32(pc, 4)) >>)
    BY <1>1, <1>2, <1>5 DEF AnalyzeBasicBlock
  <2> QED BY <2>1 DEF Block
<1>6. CASE last.instruction # "Unknown" /\ ~ IsTrap(last) /\ IsControlTransfer(last)
  <2>1. R = FinishControlTransfer(mem, start, sites)
    BY <1>1, <1>2, <1>6 DEF AnalyzeBasicBlock
  <2> HIDE DEF n, pc, sites, R, last
  <2>2. R.block.delay_slot = Add32(pc, 4)
    <3>1. R.error = "None"
      BY DEF AnalysisOk, R
    <3> QED BY <1>3, <2>1, <3>1 DEF FinishControlTransfer, Block, Failure, FetchError
  <2> QED BY <1>4, <2>2 DEF R, n
<1> QED BY <1>5, <1>6
=============================================================================
