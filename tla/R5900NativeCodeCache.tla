------------------------ MODULE R5900NativeCodeCache ------------------------
(***************************************************************************)
(* The native code the dispatcher owns: the cache of R5900BlockDispatcher   *)
(* (src/src/recompiler/windows/r5900_block_dispatcher.cpp) over the blocks  *)
(* and pages of R5900X64CompiledBlock.                                      *)
(*                                                                          *)
(* R5900BlockDispatcher models run with the compilation as one step and an  *)
(* entry as a record; here one iteration of its loop goes through every     *)
(* object that holds a page on the way: the block in the optional of the    *)
(* compile result, the one in the local replacement, and the one in the     *)
(* entry.  An operation on these objects is the operation of the backend.   *)
(* An exception leaves run the way the destructors of the locals let it.    *)
(***************************************************************************)
EXTENDS R5900X64CompiledBlock

CONSTANTS
  StartPc,      \* the addresses code is dispatched at: the keys of cache_
  Words,        \* the guest words a selected prefix may consist of
  CodeOf,       \* the code a prefix compiles to; NoCode when it does not lower
  NoWords,      \* no entry
  Compiled,     \* the object in *compiled.block
  Replacement   \* the object in replacement.native_block

ASSUME CacheAssumption ==
  /\ Object = StartPc \cup {Compiled, Replacement}
  /\ Compiled \notin StartPc /\ Replacement \notin StartPc /\ Compiled # Replacement
  /\ NoWords \notin Words /\ CodeOf \in [Words -> Code \cup {NoCode}]

VARIABLES
  memory,  \* the prefix guest memory holds at each address
  cache,   \* guest_words of the entry at each address, or NoWords
  phase,   \* where the iteration is; "idle" between two, "clearing" in clear_cache
  start    \* current_pc

cacheVars == <<memory, cache, phase, start>>
allVars == <<cacheVars, vars>>

CacheInit ==
  /\ Init
  /\ memory \in [StartPc -> Words]
  /\ cache = [pc \in StartPc |-> NoWords]
  /\ phase = "idle" /\ start \in StartPc

Go(from, to) == phase = from /\ phase' = to

\* A step of the iteration that leaves the entries' words alone.
Within(from, to) == Go(from, to) /\ UNCHANGED <<memory, cache, start>>

(***************************************************************************)
(* One iteration of R5900BlockDispatcher::run                               *)
(***************************************************************************)
BeginIteration(pc) ==
  /\ Go("idle", "lookup")
  /\ start' = pc
  /\ UNCHANGED <<memory, cache, vars>>

\* Mutant of Hit: an entry is used whatever words it was compiled from.
HitAnyWords ==
  /\ Within("lookup", "execute")
  /\ cache[start] # NoWords
  /\ UNCHANGED vars

Hit ==
  /\ Within("lookup", "execute")
  /\ cache[start] = memory[start]
  /\ UNCHANGED vars

\* A lowering failure, a rejection before the page is allocated, or std::bad_alloc.
GiveUp ==
  /\ Within("lookup", "idle")
  /\ cache[start] # memory[start]
  /\ UNCHANGED vars

\* Mutant of BeginCompile: the old code is released to make room for the new.
BeginCompileReleasing ==
  /\ Within("lookup", "compile")
  /\ cache[start] # memory[start] /\ CodeOf[memory[start]] # NoCode
  /\ stage = "none" /\ stage' = "allocate" /\ bytes' = CodeOf[memory[start]]
  /\ page' = Without(code_[start])
  /\ code_' = [code_ EXCEPT ![start] = NoPage]
  /\ holds' = [holds EXCEPT ![start] = NoCode]
  /\ UNCHANGED <<code, alive>>

\* compile_r5900_ir_x64 is called on what the prefix lowers to.
BeginCompile ==
  /\ Within("lookup", "compile")
  /\ cache[start] # memory[start] /\ CodeOf[memory[start]] # NoCode
  /\ Compile(CodeOf[memory[start]])

CompileStep ==
  /\ Within("compile", "compile")
  /\ (\E p \in Page : Allocate(p)) \/ CopyBytes \/ Protect \/ Flush

CompileFails ==
  /\ Within("compile", "idle")
  /\ AllocationFails \/ ProtectionFails \/ CacheFlushFails

CompileReturns == Within("compile", "construct") /\ ReturnBlock(Compiled)

ConstructReplacement == Within("construct", "fill") /\ DefaultConstruct(Replacement)

\* The copy of guest_words throws before the block has been moved.
CopyWordsThrows == Within("fill", "unwind") /\ UNCHANGED vars

FillReplacement == Within("fill", "install") /\ MoveAssign(Replacement, Compiled)

\* Allocating or rehashing throws: the node, if there was one, is destroyed with
\* the block that had been moved into it.
EmplaceThrows ==
  /\ Within("install", "unwind")
  /\ cache[start] = NoWords
  /\ \/ UNCHANGED vars
     \/ /\ page' = Without(code_[Replacement])
        /\ code_' = [code_ EXCEPT ![Replacement] = NoPage]
        /\ holds' = [holds EXCEPT ![Replacement] = NoCode]
        /\ UNCHANGED <<alive, stage, bytes, code>>

\* cache_.emplace(current_pc, std::move(replacement))
Emplace ==
  /\ Go("install", "execute")
  /\ cache[start] = NoWords
  /\ MoveConstruct(start, Replacement)
  /\ cache' = [cache EXCEPT ![start] = memory[start]]
  /\ UNCHANGED <<memory, start>>

\* Mutant of Overwrite: the page of the old block is not released.
OverwriteWithoutRelease ==
  /\ Go("install", "execute")
  /\ cache[start] # NoWords
  /\ code_' = [code_ EXCEPT ![start] = code_[Replacement], ![Replacement] = NoPage]
  /\ holds' = [holds EXCEPT ![start] = holds[Replacement], ![Replacement] = NoCode]
  /\ cache' = [cache EXCEPT ![start] = memory[start]]
  /\ UNCHANGED <<memory, start, page, alive, stage, bytes, code>>

\* cached->second = std::move(replacement)
Overwrite ==
  /\ Go("install", "execute")
  /\ cache[start] # NoWords
  /\ MoveAssign(start, Replacement)
  /\ cache' = [cache EXCEPT ![start] = memory[start]]
  /\ UNCHANGED <<memory, start>>

\* native_block.execute(state); the locals of a miss are destroyed afterwards.
Execute ==
  /\ Within("execute", IF Compiled \in alive THEN "unwind" ELSE "idle")
  /\ UNCHANGED vars

\* replacement, declared last, goes first.
DestroyReplacement == Within("unwind", "unwind") /\ Destroy(Replacement)

DestroyCompiled ==
  Within("unwind", "idle") /\ Replacement \notin alive /\ Destroy(Compiled)

Iteration ==
  \/ Hit \/ GiveUp \/ BeginCompile \/ CompileStep \/ CompileFails \/ CompileReturns
  \/ ConstructReplacement \/ CopyWordsThrows \/ FillReplacement
  \/ EmplaceThrows \/ Emplace \/ Overwrite \/ Execute
  \/ DestroyReplacement \/ DestroyCompiled

(***************************************************************************)
(* Between iterations: the caller rewrites guest code or clears the cache,  *)
(* which the destructor of the dispatcher does as well.                     *)
(***************************************************************************)
WriteGuest(pc, words) ==
  /\ phase = "idle"
  /\ memory' = [memory EXCEPT ![pc] = words]
  /\ UNCHANGED <<cache, phase, start, vars>>

BeginClear == Within("idle", "clearing") /\ UNCHANGED vars

\* The entries are destroyed in the order the map happens to have.
ClearEntry(pc) ==
  /\ Go("clearing", "clearing")
  /\ cache[pc] # NoWords
  /\ Destroy(pc)
  /\ cache' = [cache EXCEPT ![pc] = NoWords]
  /\ UNCHANGED <<memory, start>>

EndClear ==
  /\ Within("clearing", "idle")
  /\ \A pc \in StartPc : cache[pc] = NoWords
  /\ UNCHANGED vars

CacheNext ==
  \/ \E pc \in StartPc : BeginIteration(pc) \/ ClearEntry(pc)
  \/ \E pc \in StartPc, words \in Words : WriteGuest(pc, words)
  \/ Iteration \/ BeginClear \/ EndClear

CacheSpec == CacheInit /\ [][CacheNext]_allVars

(***************************************************************************)
(* Properties                                                               *)
(***************************************************************************)
Entries == {pc \in StartPc : cache[pc] # NoWords}

\* The types of the cache and of the iteration.
CacheTypeOK ==
  /\ memory \in [StartPc -> Words] /\ cache \in [StartPc -> Words \cup {NoWords}]
  /\ start \in StartPc
  /\ phase \in {"idle", "lookup", "compile", "construct", "fill", "install", "execute",
                "unwind", "clearing"}

\* What the entries and the locals of an iteration hold at each phase.
OwnersInv ==
  /\ stage # "none" <=> phase = "compile"
  /\ \A pc \in StartPc : pc \in alive <=> cache[pc] # NoWords
  /\ Compiled \in alive <=>
       \/ phase \in {"construct", "fill", "install", "unwind"}
       \/ phase = "execute" /\ Replacement \in alive
  /\ Replacement \in alive => phase \in {"fill", "install", "execute", "unwind"}
  /\ phase \in {"fill", "install"} => Replacement \in alive
  /\ \A pc \in Entries : CodeOf[cache[pc]] # NoCode /\ holds[pc] = CodeOf[cache[pc]]
  /\ phase \in {"compile", "construct", "fill", "install"} =>
       CodeOf[memory[start]] # NoCode
  /\ phase = "compile" => bytes = CodeOf[memory[start]]
  /\ phase \in {"construct", "fill"} => holds[Compiled] = CodeOf[memory[start]]
  /\ phase = "fill" => code_[Replacement] = NoPage
  /\ phase = "install" =>
       code_[Compiled] = NoPage /\ holds[Replacement] = CodeOf[memory[start]]
  /\ phase = "execute" => cache[start] = memory[start]

\* The inductive invariant, over that of the pages.
CacheInv == Inv /\ CacheTypeOK /\ OwnersInv

\* Every entry can be executed at any moment, and is the code of the words it is
\* filed under: whatever fails on the way to replacing it, it is still there.
EntriesAreExecutable ==
  \A pc \in Entries :
    /\ valid(pc)
    /\ page[code_[pc]] = [protection |-> "ExecuteRead", bytes |-> CodeOf[cache[pc]],
                          icache |-> "Coherent"]

\* What is about to execute is the code of what guest memory holds there now, on a
\* page that can execute it.
ExecutesMemorysCode ==
  phase = "execute" =>
    /\ valid(start)
    /\ page[code_[start]] = [protection |-> "ExecuteRead", icache |-> "Coherent",
                             bytes |-> CodeOf[memory[start]]]

\* Between iterations the pages are those of the entries, one each: nothing that was
\* compiled, replaced, given up or thrown away is still allocated, and no local
\* holds a page.
PagesAreEntries ==
  phase = "idle" =>
    /\ alive = Entries
    /\ Allocated = {code_[pc] : pc \in Entries}
    /\ \A pc, other \in Entries : code_[pc] = code_[other] => pc = other
=============================================================================
