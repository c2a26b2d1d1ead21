--------------------- MODULE R5900NativeCodeCacheProofs ---------------------
(***************************************************************************)
(* Theorems about the native code the dispatcher owns, for any number of    *)
(* addresses, pages, words and codes.                                       *)
(***************************************************************************)
EXTENDS R5900NativeCodeCache, TLAPS

(***************************************************************************)
(* Native code pages and the blocks that own them                           *)
(***************************************************************************)

LEMMA InitInv ==
  ASSUME Init
  PROVE  Inv
<1> USE BackendAssumption DEF Init, FreePage
<1>1. TypeOK
  BY DEF TypeOK
<1>2. OnePageOneOwner
  BY DEF OnePageOneOwner, Allocated
<1>3. BlocksHoldTheirCode /\ CompilationInv
  BY DEF BlocksHoldTheirCode, CompilationInv
<1> QED BY <1>1, <1>2, <1>3 DEF Inv

(***************************************************************************)
(* Compilation steps                                                        *)
(***************************************************************************)
\* A page being prepared is no block's, so what is done to it reaches no block.
LEMMA CompilationPreserves ==
  ASSUME Inv,
         \/ \E emitted \in Code : Compile(emitted)
         \/ \E p \in Page : Allocate(p)
         \/ CopyBytes \/ Protect \/ Flush
  PROVE  Inv'
<1> USE BackendAssumption DEF Inv, Step, objects
<1>1. ASSUME NEW emitted \in Code, Compile(emitted) PROVE Inv'
  BY <1>1 DEF Compile, TypeOK, OnePageOneOwner, Allocated, BlocksHoldTheirCode, CompilationInv
<1>2. ASSUME NEW p \in Page, Allocate(p) PROVE Inv'
  <2> USE <1>2 DEF Allocate
  <2>1. TypeOK'
    BY DEF TypeOK
  <2>2. OnePageOneOwner'
    BY DEF OnePageOneOwner, Allocated, TypeOK
  <2>3. BlocksHoldTheirCode'
    BY DEF BlocksHoldTheirCode, OnePageOneOwner, Allocated, TypeOK
  <2>4. CompilationInv'
    BY DEF CompilationInv, TypeOK, FreePage
  <2> QED BY <2>1, <2>2, <2>3, <2>4
<1>3. ASSUME CopyBytes PROVE Inv'
  <2> USE <1>3 DEF CopyBytes
  <2>1. TypeOK'
    BY DEF TypeOK
  <2>2. OnePageOneOwner'
    BY DEF OnePageOneOwner, Allocated, TypeOK
  <2>3. BlocksHoldTheirCode'
    BY DEF BlocksHoldTheirCode, OnePageOneOwner, Allocated, TypeOK
  <2>4. CompilationInv'
    BY DEF CompilationInv, TypeOK
  <2> QED BY <2>1, <2>2, <2>3, <2>4
<1>4. ASSUME Protect PROVE Inv'
  <2> USE <1>4 DEF Protect
  <2>1. TypeOK'
    BY DEF TypeOK
  <2>2. OnePageOneOwner'
    BY DEF OnePageOneOwner, Allocated, TypeOK
  <2>3. BlocksHoldTheirCode'
    BY DEF BlocksHoldTheirCode, OnePageOneOwner, Allocated, TypeOK
  <2>4. CompilationInv'
    BY DEF CompilationInv, TypeOK
  <2> QED BY <2>1, <2>2, <2>3, <2>4
<1>5. ASSUME Flush PROVE Inv'
  <2> USE <1>5 DEF Flush
  <2>1. TypeOK'
    BY DEF TypeOK
  <2>2. OnePageOneOwner'
    BY DEF OnePageOneOwner, Allocated, TypeOK
  <2>3. BlocksHoldTheirCode'
    BY DEF BlocksHoldTheirCode, OnePageOneOwner, Allocated, TypeOK
  <2>4. CompilationInv'
    BY DEF CompilationInv, TypeOK, FreePage
  <2> QED BY <2>1, <2>2, <2>3, <2>4
<1> QED BY <1>1, <1>2, <1>3, <1>4, <1>5

\* A failed compilation gives back the page it had, if it had one.
LEMMA FailurePreserves ==
  ASSUME Inv, AllocationFails \/ ProtectionFails \/ CacheFlushFails
  PROVE  Inv'
<1> USE BackendAssumption DEF Inv, Step, objects, Fail
<1>1. ASSUME AllocationFails PROVE Inv'
  BY <1>1 DEF AllocationFails, TypeOK, OnePageOneOwner, Allocated, BlocksHoldTheirCode,
              CompilationInv
<1>2. ASSUME ProtectionFails \/ CacheFlushFails PROVE Inv'
  <2>1. /\ stage' = "none" /\ code' = NoPage /\ bytes' = NoCode
        /\ code \in Page /\ page' = Without(code)
        /\ UNCHANGED objects
    BY <1>2 DEF ProtectionFails, CacheFlushFails, TypeOK
  <2> USE <2>1 DEF Without, FreePage
  <2>2. TypeOK'
    BY DEF TypeOK
  <2>3. OnePageOneOwner'
    BY DEF OnePageOneOwner, Allocated, TypeOK
  <2>4. BlocksHoldTheirCode'
    BY DEF BlocksHoldTheirCode, OnePageOneOwner, Allocated, TypeOK
  <2>5. CompilationInv'
    BY DEF CompilationInv
  <2> QED BY <2>2, <2>3, <2>4, <2>5
<1> QED BY <1>1, <1>2

\* The finished page changes owner: from the compilation to the returned block.
LEMMA ReturnPreserves ==
  ASSUME Inv, NEW o \in Object, ReturnBlock(o)
  PROVE  Inv'
<1> USE BackendAssumption DEF Inv, Step, ReturnBlock
<1>1. TypeOK'
  BY DEF TypeOK
<1>2. OnePageOneOwner'
  <2>1. \A other \in Object : code_[other] # code
    BY DEF OnePageOneOwner, TypeOK
  <2> QED BY <2>1 DEF OnePageOneOwner, Allocated, TypeOK
<1>3. BlocksHoldTheirCode'
  BY DEF BlocksHoldTheirCode, CompilationInv, TypeOK
<1>4. CompilationInv'
  BY DEF CompilationInv
<1> QED BY <1>1, <1>2, <1>3, <1>4

(***************************************************************************)
(* The operations of a block                                                *)
(***************************************************************************)
LEMMA ConstructPreserves ==
  ASSUME Inv, NEW o \in Object, NEW other \in Object,
         DefaultConstruct(o) \/ MoveConstruct(o, other)
  PROVE  Inv'
<1> USE BackendAssumption DEF Inv, Client
<1>1. ASSUME DefaultConstruct(o) PROVE Inv'
  BY <1>1 DEF DefaultConstruct, TypeOK, OnePageOneOwner, Allocated, BlocksHoldTheirCode,
              CompilationInv
<1>2. ASSUME MoveConstruct(o, other) PROVE Inv'
  <2> USE <1>2 DEF MoveConstruct
  <2>1. o # other /\ code = NoPage
    BY DEF TypeOK
  <2>2. TypeOK'
    BY DEF TypeOK
  <2>3. OnePageOneOwner'
    BY <2>1 DEF OnePageOneOwner, Allocated, TypeOK
  <2>4. BlocksHoldTheirCode'
    BY <2>1 DEF BlocksHoldTheirCode, TypeOK
  <2>5. CompilationInv'
    BY <2>1 DEF CompilationInv
  <2> QED BY <2>2, <2>3, <2>4, <2>5
<1> QED BY <1>1, <1>2

LEMMA ReleasePreserves ==
  ASSUME Inv, NEW o \in Object, NEW other \in Object,
         Destroy(o) \/ MoveAssign(o, other)
  PROVE  Inv'
<1> USE BackendAssumption DEF Inv, Client, Without, FreePage
<1>1. ASSUME Destroy(o) PROVE Inv'
  <2> USE <1>1 DEF Destroy
  <2>1. code = NoPage
    BY DEF TypeOK
  <2>2. TypeOK'
    BY DEF TypeOK
  <2>3. OnePageOneOwner'
    BY <2>1 DEF OnePageOneOwner, Allocated, TypeOK
  <2>4. BlocksHoldTheirCode'
    BY <2>1 DEF BlocksHoldTheirCode, OnePageOneOwner, TypeOK
  <2>5. CompilationInv'
    BY <2>1 DEF CompilationInv
  <2> QED BY <2>2, <2>3, <2>4, <2>5
<1>2. ASSUME MoveAssign(o, other), o # other PROVE Inv'
  <2>0. /\ stage = "none" /\ UNCHANGED <<stage, bytes, code, alive>>
        /\ o \in alive /\ other \in alive
        /\ page' = Without(code_[o])
        /\ code_' = [code_ EXCEPT ![o] = code_[other], ![other] = NoPage]
        /\ holds' = [holds EXCEPT ![o] = holds[other], ![other] = NoCode]
    BY <1>2 DEF MoveAssign
  <2> USE <1>2, <2>0
  <2>1. code = NoPage
    BY DEF TypeOK
  <2>2. TypeOK'
    BY DEF TypeOK
  <2>3. OnePageOneOwner'
    BY <2>1 DEF OnePageOneOwner, Allocated, TypeOK
  <2>4. BlocksHoldTheirCode'
    BY <2>1 DEF BlocksHoldTheirCode, OnePageOneOwner, TypeOK
  <2>5. CompilationInv'
    BY <2>1 DEF CompilationInv
  <2> QED BY <2>2, <2>3, <2>4, <2>5
<1>3. ASSUME MoveAssign(o, other), o = other PROVE Inv'
  BY <1>3 DEF MoveAssign, TypeOK, OnePageOneOwner, Allocated, BlocksHoldTheirCode,
              CompilationInv
<1> QED BY <1>1, <1>2, <1>3

LEMMA NextPreserves ==
  ASSUME Inv, [Next]_vars
  PROVE  Inv'
<1>1. CASE \E emitted \in Code : Compile(emitted)
  BY <1>1, CompilationPreserves
<1>2. CASE \E p \in Page : Allocate(p)
  BY <1>2, CompilationPreserves
<1>3. CASE CopyBytes \/ Protect \/ Flush
  BY <1>3, CompilationPreserves
<1>4. CASE AllocationFails \/ ProtectionFails \/ CacheFlushFails
  BY <1>4, FailurePreserves
<1>5. CASE \E o \in Object : ReturnBlock(o)
  BY <1>5, ReturnPreserves
<1>6. CASE \E o \in Object : DefaultConstruct(o)
  BY <1>6, ConstructPreserves
<1>7. CASE \E o \in Object : Destroy(o)
  BY <1>7, ReleasePreserves
<1>8. CASE \E o, other \in Object : MoveConstruct(o, other)
  BY <1>8, ConstructPreserves
<1>9. CASE \E o, other \in Object : MoveAssign(o, other)
  BY <1>9, ReleasePreserves
<1>10. CASE UNCHANGED vars
  BY <1>10 DEF vars, objects, Inv, TypeOK, OnePageOneOwner, Allocated,
               BlocksHoldTheirCode, CompilationInv
<1> QED
  BY <1>1, <1>2, <1>3, <1>4, <1>5, <1>6, <1>7, <1>8, <1>9, <1>10 DEF Next, Compiling

(***************************************************************************)
(* The theorems                                                             *)
(***************************************************************************)
\* The inductive invariant holds in every state of the pages and the blocks.
THEOREM Invariance == Spec => []Inv
<1>1. Init => Inv
  BY InitInv
<1>2. Inv /\ [Next]_vars => Inv'
  BY NextPreserves
<1> QED BY <1>1, <1>2, PTL DEF Spec

\* A compilation has a page exactly from its allocation to its return.
THEOREM TypeCorrectness == Spec => []TypeOK
<1>1. Inv => TypeOK
  BY DEF Inv
<1> QED BY <1>1, Invariance, PTL

\* No page leaks, none is freed while a block still points to it, and none has two
\* owners, whichever Windows calls fail and however blocks are moved.
THEOREM PagesHaveOneOwner == Spec => []OnePageOneOwner
<1>1. Inv => OnePageOneOwner
  BY DEF Inv
<1> QED BY <1>1, Invariance, PTL

\* A block holds the code it was compiled to, on a page that can execute and can
\* no longer be written, for as long as it exists.
THEOREM CompiledCodeIsStable == Spec => []BlocksHoldTheirCode
<1>1. Inv => BlocksHoldTheirCode
  BY DEF Inv
<1> QED BY <1>1, Invariance, PTL

\* No step changes the bytes of a page that can execute.
THEOREM NothingExecutableIsWritten == Spec => WriteXorExecute
<1> DEFINE Unwritten ==
      \A p \in Page :
        page'[p].bytes # page[p].bytes /\ page'[p].protection # "Free" =>
          page[p].protection = "ReadWrite" /\ page'[p].protection = "ReadWrite"
<1>1. ASSUME Inv, [Next]_vars PROVE [Unwritten]_vars
  <2> SUFFICES ASSUME Next, NEW p \in Page, page'[p].bytes # page[p].bytes,
                      page'[p].protection # "Free"
               PROVE  page[p].protection = "ReadWrite" /\ page'[p].protection = "ReadWrite"
    BY <1>1
  <2> USE <1>1 DEF Inv, Step
  <2>1. CASE CopyBytes
    <3>1. stage = "copy" /\ page' = [page EXCEPT ![code].bytes = bytes]
      BY <2>1 DEF CopyBytes
    <3>2. code \in Page /\ code # NoPage
      BY <3>1, BackendAssumption DEF TypeOK
    <3>3. page[code].protection = "ReadWrite"
      BY <3>1, <3>2 DEF CompilationInv
    <3> QED BY <3>1, <3>2, <3>3 DEF TypeOK
  <2>2. CASE \E emitted \in Code : Compile(emitted)
    BY <2>2 DEF Compile
  <2>3. CASE \E q \in Page : Allocate(q)
    BY <2>3 DEF Allocate, TypeOK
  <2>4. CASE Protect \/ Flush
    BY <2>4 DEF Protect, Flush, TypeOK
  <2>5. CASE AllocationFails \/ ProtectionFails \/ CacheFlushFails
    BY <2>5 DEF AllocationFails, ProtectionFails, CacheFlushFails, Without, FreePage
  <2>6. CASE \E o \in Object : ReturnBlock(o) \/ DefaultConstruct(o)
    BY <2>6 DEF ReturnBlock, DefaultConstruct
  <2>7. CASE \E o \in Object : Destroy(o)
    BY <2>7 DEF Destroy, Without, FreePage
  <2>8. CASE \E o, other \in Object : MoveConstruct(o, other)
    BY <2>8 DEF MoveConstruct
  <2>9. CASE \E o, other \in Object : MoveAssign(o, other)
    BY <2>9 DEF MoveAssign, Without, FreePage
  <2> QED
    BY <2>1, <2>2, <2>3, <2>4, <2>5, <2>6, <2>7, <2>8, <2>9 DEF Next, Compiling
<1>2. Inv /\ [Next]_vars => [Unwritten]_vars
  BY <1>1
<1> QED BY <1>2, Invariance, PTL DEF Spec, WriteXorExecute

(***************************************************************************)
(* The cache that owns the blocks                                           *)
(***************************************************************************)
LEMMA CacheInitInv == CacheInit => CacheInv
<1> SUFFICES ASSUME CacheInit PROVE CacheInv
  OBVIOUS
<1>1. Inv
  BY InitInv DEF CacheInit
<1>2. CacheTypeOK
  BY CacheAssumption DEF CacheInit, CacheTypeOK
<1>3. OwnersInv
  BY CacheAssumption, <1>2 DEF CacheInit, Init, CacheTypeOK, OwnersInv, Entries
<1> QED BY <1>1, <1>2, <1>3 DEF CacheInv

(***************************************************************************)
(* Whatever the dispatcher does to blocks and pages, the backend allows.    *)
(***************************************************************************)
LEMMA EmplaceThrowsIsMove ==
  ASSUME CacheInv, EmplaceThrows
  PROVE  UNCHANGED vars \/ MoveAssign(Replacement, Compiled)
<1> USE CacheAssumption DEF CacheInv, Inv, OwnersInv, CacheTypeOK
<1> SUFFICES ASSUME ~ UNCHANGED vars PROVE MoveAssign(Replacement, Compiled)
  OBVIOUS
<1>1. /\ phase = "install" /\ Compiled \in alive /\ Replacement \in alive
      /\ Compiled \in Object /\ Replacement \in Object
      /\ stage = "none" /\ code_[Compiled] = NoPage /\ Compiled # Replacement
  BY DEF EmplaceThrows, Within, Go
<1>2. holds[Compiled] = NoCode
  BY <1>1 DEF BlocksHoldTheirCode
<1>3. code_ \in [Object -> Page \cup {NoPage}] /\ holds \in [Object -> Code \cup {NoCode}]
  BY DEF TypeOK
<1>4. /\ [code_ EXCEPT ![Replacement] = code_[Compiled], ![Compiled] = NoPage]
           = [code_ EXCEPT ![Replacement] = NoPage]
      /\ [holds EXCEPT ![Replacement] = holds[Compiled], ![Compiled] = NoCode]
           = [holds EXCEPT ![Replacement] = NoCode]
  BY <1>1, <1>2, <1>3
<1> QED BY <1>1, <1>4 DEF EmplaceThrows, MoveAssign, Client

LEMMA BlockStep ==
  ASSUME CacheInv, [CacheNext]_allVars
  PROVE  [Next]_vars
<1> USE CacheAssumption
<1>1. CASE \E pc \in StartPc : BeginIteration(pc) \/ ClearEntry(pc)
  BY <1>1 DEF BeginIteration, ClearEntry, Next
<1>2. CASE \E pc \in StartPc, words \in Words : WriteGuest(pc, words)
  BY <1>2 DEF WriteGuest
<1>3. CASE Hit \/ GiveUp \/ CopyWordsThrows \/ Execute \/ BeginClear \/ EndClear
  BY <1>3 DEF Hit, GiveUp, CopyWordsThrows, Execute, BeginClear, EndClear
<1>4. CASE BeginCompile
  <2>1. CodeOf[memory[start]] \in Code
    BY <1>4 DEF BeginCompile, CacheInv, CacheTypeOK
  <2> QED BY <1>4, <2>1 DEF BeginCompile, Next
<1>5. CASE CompileStep \/ CompileFails
  BY <1>5 DEF CompileStep, CompileFails, Next, Compiling
<1>6. CASE CompileReturns \/ ConstructReplacement
  BY <1>6 DEF CompileReturns, ConstructReplacement, Next, Compiling
<1>7. CASE FillReplacement \/ Emplace \/ Overwrite
  BY <1>7 DEF FillReplacement, Emplace, Overwrite, Next, CacheInv, CacheTypeOK
<1>8. CASE EmplaceThrows
  BY <1>8, EmplaceThrowsIsMove DEF Next
<1>9. CASE DestroyReplacement \/ DestroyCompiled
  BY <1>9 DEF DestroyReplacement, DestroyCompiled, Next
<1>10. CASE UNCHANGED allVars
  BY <1>10 DEF allVars
<1> QED
  BY <1>1, <1>2, <1>3, <1>4, <1>5, <1>6, <1>7, <1>8, <1>9, <1>10 DEF CacheNext, Iteration

(***************************************************************************)
(* The inductive invariant                                                  *)
(***************************************************************************)
LEMMA CacheTypes ==
  ASSUME CacheInv, [CacheNext]_allVars
  PROVE  CacheTypeOK'
<1> USE DEF CacheInv, CacheTypeOK
<1>1. CASE \E pc \in StartPc : BeginIteration(pc) \/ ClearEntry(pc)
  BY <1>1 DEF BeginIteration, ClearEntry, Go
<1>2. CASE \E pc \in StartPc, words \in Words : WriteGuest(pc, words)
  BY <1>2 DEF WriteGuest
<1>3. CASE Hit \/ GiveUp \/ BeginCompile \/ CompileStep \/ CompileFails \/ CompileReturns
  BY <1>3 DEF Hit, GiveUp, BeginCompile, CompileStep, CompileFails, CompileReturns,
              Within, Go
<1>4. CASE ConstructReplacement \/ CopyWordsThrows \/ FillReplacement \/ EmplaceThrows
  BY <1>4 DEF ConstructReplacement, CopyWordsThrows, FillReplacement, EmplaceThrows,
              Within, Go
<1>5. CASE Emplace \/ Overwrite
  BY <1>5 DEF Emplace, Overwrite, Go
<1>6. CASE Execute \/ DestroyReplacement \/ DestroyCompiled \/ BeginClear \/ EndClear
  BY <1>6 DEF Execute, DestroyReplacement, DestroyCompiled, BeginClear, EndClear,
              Within, Go
<1>7. CASE UNCHANGED allVars
  BY <1>7 DEF allVars, cacheVars
<1> QED
  BY <1>1, <1>2, <1>3, <1>4, <1>5, <1>6, <1>7 DEF CacheNext, Iteration

LEMMA OwnersStep ==
  ASSUME CacheInv, [CacheNext]_allVars, Inv', CacheTypeOK'
  PROVE  OwnersInv'
<1> USE CacheAssumption DEF CacheInv, CacheTypeOK, OwnersInv, Entries
<1>0. /\ alive \subseteq Object /\ StartPc \subseteq Object
      /\ Compiled \in Object /\ Replacement \in Object
      /\ code_ \in [Object -> Page \cup {NoPage}] /\ holds \in [Object -> Code \cup {NoCode}]
  BY DEF Inv, TypeOK
<1>1. CASE \E pc \in StartPc : BeginIteration(pc)
  BY <1>1 DEF BeginIteration, Go, vars
<1>2. CASE \E pc \in StartPc : ClearEntry(pc)
  BY <1>0, <1>2 DEF ClearEntry, Go, Destroy, Client
<1>3. CASE \E pc \in StartPc, words \in Words : WriteGuest(pc, words)
  BY <1>3 DEF WriteGuest, vars
<1>4. CASE Hit \/ GiveUp \/ BeginClear \/ EndClear \/ Execute
  BY <1>4 DEF Hit, GiveUp, BeginClear, EndClear, Execute, Within, Go, vars
<1>5. CASE BeginCompile
  BY <1>0, <1>5 DEF BeginCompile, Within, Go, Compile, Step, objects
<1>6. CASE CompileStep
  BY <1>0, <1>6 DEF CompileStep, Within, Go, Allocate, CopyBytes, Protect, Flush, Step, objects
<1>7. CASE CompileFails
  BY <1>0, <1>7 DEF CompileFails, Within, Go, AllocationFails, ProtectionFails,
                    CacheFlushFails, Fail, Step, objects
<1>8. CASE CompileReturns
  BY <1>0, <1>8 DEF CompileReturns, Within, Go, ReturnBlock, Step
<1>9. CASE ConstructReplacement
  <2>1. code_[Replacement] = NoPage
    BY <1>0, <1>9 DEF ConstructReplacement, Within, Go, Inv, OnePageOneOwner
  <2> QED BY <1>0, <1>9, <2>1 DEF ConstructReplacement, Within, Go, DefaultConstruct, Client
<1>10. CASE CopyWordsThrows
  BY <1>10 DEF CopyWordsThrows, Within, Go, vars
<1>11. CASE FillReplacement
  BY <1>0, <1>11 DEF FillReplacement, Within, Go, MoveAssign, Client
<1>12. CASE EmplaceThrows
  BY <1>0, <1>12 DEF EmplaceThrows, Within, Go, vars
<1>13. CASE Emplace
  BY <1>0, <1>13 DEF Emplace, Go, MoveConstruct, Client
<1>14. CASE Overwrite
  BY <1>0, <1>14 DEF Overwrite, Go, MoveAssign, Client
<1>15. CASE DestroyReplacement \/ DestroyCompiled
  BY <1>0, <1>15 DEF DestroyReplacement, DestroyCompiled, Within, Go, Destroy, Client
<1>16. CASE UNCHANGED allVars
  BY <1>16 DEF allVars, cacheVars, vars
<1> QED
  BY <1>1, <1>2, <1>3, <1>4, <1>5, <1>6, <1>7, <1>8, <1>9, <1>10, <1>11, <1>12,
     <1>13, <1>14, <1>15, <1>16 DEF CacheNext, Iteration

THEOREM CacheInvariance == CacheSpec => []CacheInv
<1>1. CacheInv /\ [CacheNext]_allVars => CacheInv'
  BY BlockStep, NextPreserves, CacheTypes, OwnersStep DEF CacheInv
<1> QED BY CacheInitInv, <1>1, PTL DEF CacheSpec

\* The dispatcher is a client of the backend: whatever holds of blocks and pages
\* under any client holds of those of the dispatcher.
THEOREM DispatcherIsClient == CacheSpec => Spec
<1>1. CacheInit => Init
  BY DEF CacheInit
<1>2. CacheInv /\ [CacheNext]_allVars => [Next]_vars
  BY BlockStep
<1> QED BY <1>1, <1>2, CacheInvariance, PTL DEF CacheSpec, Spec

LEMMA EntryIsExecutable ==
  ASSUME CacheInv, NEW pc \in Entries
  PROVE  /\ valid(pc)
         /\ page[code_[pc]] = [protection |-> "ExecuteRead", bytes |-> CodeOf[cache[pc]],
                               icache |-> "Coherent"]
<1>1. pc \in StartPc /\ pc \in Object /\ pc \in alive
  BY CacheAssumption DEF CacheInv, OwnersInv, Entries
<1>2. holds[pc] = CodeOf[cache[pc]] /\ holds[pc] # NoCode
  BY DEF CacheInv, OwnersInv
<1>3. code_[pc] # NoPage
  BY <1>1, <1>2 DEF CacheInv, Inv, BlocksHoldTheirCode
<1> QED BY <1>1, <1>2, <1>3 DEF CacheInv, Inv, BlocksHoldTheirCode, valid

\* Whatever fails while an entry is recompiled, the cache has only entries that can
\* be executed, each on the code of its own words.
THEOREM EntriesStayExecutable == CacheSpec => []EntriesAreExecutable
<1>1. CacheInv => EntriesAreExecutable
  BY EntryIsExecutable DEF EntriesAreExecutable
<1> QED BY <1>1, CacheInvariance, PTL

\* What a run executes is compiled from what guest memory holds, and is still there.
THEOREM MemorysCodeIsExecuted == CacheSpec => []ExecutesMemorysCode
<1>1. CacheInv => ExecutesMemorysCode
  <2> SUFFICES ASSUME CacheInv, phase = "execute"
               PROVE  /\ valid(start)
                      /\ page[code_[start]] =
                           [protection |-> "ExecuteRead", icache |-> "Coherent",
                            bytes |-> CodeOf[memory[start]]]
    BY DEF ExecutesMemorysCode
  <2>1. cache[start] = memory[start] /\ start \in Entries
    BY CacheAssumption DEF CacheInv, OwnersInv, CacheTypeOK, Entries
  <2> QED BY <2>1, EntryIsExecutable
<1> QED BY <1>1, CacheInvariance, PTL

\* Between iterations the dispatcher has one page for each entry and no other.
THEOREM NothingLeaks == CacheSpec => []PagesAreEntries
<1>1. CacheInv => PagesAreEntries
  <2> SUFFICES ASSUME CacheInv, phase = "idle"
               PROVE  /\ alive = Entries
                      /\ Allocated = {code_[pc] : pc \in Entries}
                      /\ \A pc, other \in Entries : code_[pc] = code_[other] => pc = other
    BY DEF PagesAreEntries
  <2> USE CacheAssumption DEF CacheInv, Inv
  <2>1. alive \subseteq Object /\ Compiled \notin alive /\ Replacement \notin alive
    BY DEF TypeOK, OwnersInv
  <2>2. alive = Entries
    BY <2>1 DEF OwnersInv, Entries
  <2>3. stage = "none" /\ code = NoPage
    BY DEF OwnersInv, TypeOK
  <2>4. \A pc \in Entries : pc \in Object /\ code_[pc] # NoPage
    BY EntryIsExecutable DEF valid, Entries
  <2>5. \A pc \in Entries : code_[pc] \in Allocated
    BY <2>4 DEF OnePageOneOwner
  <2>6. \A p \in Allocated : \E pc \in Entries : code_[pc] = p
    BY <2>2, <2>3, BackendAssumption DEF OnePageOneOwner, Allocated
  <2> QED BY <2>2, <2>4, <2>5, <2>6 DEF OnePageOneOwner
<1> QED BY <1>1, CacheInvariance, PTL
=============================================================================
