------------------------ MODULE R5900X64CompiledBlock ------------------------
(***************************************************************************)
(* The life of native code: src/src/recompiler/windows/r5900_x64_backend.   *)
(*                                                                          *)
(* compile_r5900_ir_x64 puts the code it emitted on a page of its own and   *)
(* returns an R5900X64CompiledBlock that owns the page; the block can be    *)
(* moved but not copied, and releases its page when it is destroyed or      *)
(* overwritten.  One action per step of the compilation, one per failure of *)
(* a Windows call, and one per operation of a block object.  Compiling is   *)
(* one call, so the client does nothing else meanwhile.                     *)
(*                                                                          *)
(* execute changes nothing here: what it performs is the code on the page.  *)
(* holds is what the client takes a block to be: the code it was compiled   *)
(* to, wherever the block has been moved since.                             *)
(***************************************************************************)
EXTENDS Naturals, FiniteSets

CONSTANTS
  Page,    \* the page ranges VirtualAlloc may return
  Object,  \* R5900X64CompiledBlock objects
  Code,    \* the byte sequences the emitters produce
  NoPage,  \* nullptr
  NoCode   \* the bytes of a page just committed, and what an empty block holds

ASSUME BackendAssumption == NoPage \notin Page /\ NoCode \notin Code

VARIABLES
  page,     \* what the operating system has at each page range
  alive,    \* objects that are constructed and not yet destroyed
  code_,    \* member code_ of each object
  holds,
  stage,    \* where compile_r5900_ir_x64 is; "none" while it does not run
  bytes,    \* its local vector of emitted bytes
  code      \* its local pointer to the new page

vars == <<page, alive, code_, holds, stage, bytes, code>>
objects == <<alive, code_, holds>>

FreePage == [protection |-> "Free", bytes |-> NoCode, icache |-> "Stale"]

\* VirtualFree(p, 0, MEM_RELEASE), or nothing for nullptr.
Without(p) == [q \in Page |-> IF q = p THEN FreePage ELSE page[q]]

Init ==
  /\ page = [p \in Page |-> FreePage]
  /\ alive = {}
  /\ code_ = [o \in Object |-> NoPage] /\ holds = [o \in Object |-> NoCode]
  /\ stage = "none" /\ bytes = NoCode /\ code = NoPage

(***************************************************************************)
(* compile_r5900_ir_x64                                                     *)
(***************************************************************************)
Step(from, to) == stage = from /\ stage' = to

\* Validation and emission succeed; when they do not, nothing has been done yet.
\* Object is a bound on the blocks there are at once: the result is one more.
Compile(emitted) ==
  /\ Step("none", "allocate")
  /\ alive # Object
  /\ bytes' = emitted
  /\ UNCHANGED <<page, code, objects>>

\* Mutant of Allocate: the page is executable while the code is copied to it.
AllocateExecutable(p) ==
  /\ Step("allocate", "copy")
  /\ page[p].protection = "Free"
  /\ page' = [page EXCEPT ![p].protection = "ExecuteRead"]
  /\ code' = p
  /\ UNCHANGED <<bytes, objects>>

Allocate(p) ==
  /\ Step("allocate", "copy")
  /\ page[p].protection = "Free"
  /\ page' = [page EXCEPT ![p].protection = "ReadWrite"]
  /\ code' = p
  /\ UNCHANGED <<bytes, objects>>

\* Every failure returns: the locals are gone.
Fail(from) ==
  /\ Step(from, "none")
  /\ code' = NoPage /\ bytes' = NoCode
  /\ UNCHANGED objects

AllocationFails == Fail("allocate") /\ UNCHANGED page

CopyBytes ==
  /\ Step("copy", "protect")
  /\ page' = [page EXCEPT ![code].bytes = bytes]
  /\ UNCHANGED <<bytes, code, objects>>

Protect ==
  /\ Step("protect", "flush")
  /\ page' = [page EXCEPT ![code].protection = "ExecuteRead"]
  /\ UNCHANGED <<bytes, code, objects>>

ProtectionFails == Fail("protect") /\ page' = Without(code)

Flush ==
  /\ Step("flush", "return")
  /\ page' = [page EXCEPT ![code].icache = "Coherent"]
  /\ UNCHANGED <<bytes, code, objects>>

\* Mutant of CacheFlushFails: the early return leaves the page allocated.
CacheFlushFailsWithoutFree == Fail("flush") /\ UNCHANGED page

CacheFlushFails == Fail("flush") /\ page' = Without(code)

\* The local block takes the page and is moved into the result's optional.
ReturnBlock(o) ==
  /\ Step("return", "none")
  /\ o \notin alive
  /\ alive' = alive \cup {o}
  /\ code_' = [code_ EXCEPT ![o] = code]
  /\ holds' = [holds EXCEPT ![o] = bytes]
  /\ code' = NoPage /\ bytes' = NoCode
  /\ UNCHANGED page

(***************************************************************************)
(* R5900X64CompiledBlock                                                    *)
(***************************************************************************)
Client == stage = "none" /\ UNCHANGED <<stage, bytes, code>>

DefaultConstruct(o) ==
  /\ Client /\ o \notin alive
  /\ alive' = alive \cup {o}
  /\ UNCHANGED <<page, code_, holds>>

MoveConstruct(o, other) ==
  /\ Client /\ o \notin alive /\ other \in alive
  /\ alive' = alive \cup {o}
  /\ code_' = [code_ EXCEPT ![o] = code_[other], ![other] = NoPage]
  /\ holds' = [holds EXCEPT ![o] = holds[other], ![other] = NoCode]
  /\ UNCHANGED page

\* Mutant of MoveAssign: the guard against self-assignment is dropped.
MoveAssignWithoutGuard(o, other) ==
  /\ Client /\ o \in alive /\ other \in alive
  /\ page' = Without(code_[o])
  /\ code_' = IF o = other THEN [code_ EXCEPT ![o] = NoPage]
              ELSE [code_ EXCEPT ![o] = code_[other], ![other] = NoPage]
  /\ holds' = IF o = other THEN holds
              ELSE [holds EXCEPT ![o] = holds[other], ![other] = NoCode]
  /\ UNCHANGED alive

MoveAssign(o, other) ==
  /\ Client /\ o \in alive /\ other \in alive
  /\ IF o = other THEN UNCHANGED <<page, code_, holds>>
     ELSE /\ page' = Without(code_[o])
          /\ code_' = [code_ EXCEPT ![o] = code_[other], ![other] = NoPage]
          /\ holds' = [holds EXCEPT ![o] = holds[other], ![other] = NoCode]
  /\ UNCHANGED alive

Destroy(o) ==
  /\ Client /\ o \in alive
  /\ page' = Without(code_[o])
  /\ alive' = alive \ {o}
  /\ code_' = [code_ EXCEPT ![o] = NoPage]
  /\ holds' = [holds EXCEPT ![o] = NoCode]

Compiling ==
  \/ \E p \in Page : Allocate(p)
  \/ AllocationFails \/ CopyBytes \/ Protect \/ ProtectionFails
  \/ Flush \/ CacheFlushFails
  \/ \E o \in Object : ReturnBlock(o)

Next ==
  \/ \E emitted \in Code : Compile(emitted)
  \/ Compiling
  \/ \E o \in Object : DefaultConstruct(o) \/ Destroy(o)
  \/ \E o, other \in Object : MoveConstruct(o, other) \/ MoveAssign(o, other)

Spec == Init /\ [][Next]_vars

(***************************************************************************)
(* Properties                                                               *)
(***************************************************************************)
valid(o) == o \in alive /\ code_[o] # NoPage
Allocated == {p \in Page : page[p].protection # "Free"}

\* The types of the pages, the blocks and the locals of a compilation, which has a
\* page exactly between the allocation and the return.
TypeOK ==
  /\ page \in [Page -> [protection : {"Free", "ReadWrite", "ExecuteRead"},
                        bytes : Code \cup {NoCode}, icache : {"Stale", "Coherent"}]]
  /\ alive \subseteq Object
  /\ code_ \in [Object -> Page \cup {NoPage}]
  /\ holds \in [Object -> Code \cup {NoCode}]
  /\ stage \in {"none", "allocate", "copy", "protect", "flush", "return"}
  /\ bytes \in IF stage = "none" THEN {NoCode} ELSE Code
  /\ code \in IF stage \in {"none", "allocate"} THEN {NoPage} ELSE Page

\* Every allocated page has exactly one owner, a block or the compilation in
\* progress: nothing leaks, nothing is freed twice, no block is left dangling.
OnePageOneOwner ==
  /\ \A p \in Allocated :
       \/ code = p /\ \A o \in Object : code_[o] # p
       \/ code # p /\ \E o \in alive : code_[o] = p
  /\ \A o, other \in Object : code_[o] = code_[other] /\ code_[o] # NoPage => o = other
  /\ \A o \in Object : code_[o] # NoPage => o \in alive /\ code_[o] \in Allocated
  /\ code # NoPage => code \in Allocated

\* A block that can execute is on an executable page that is no longer writable,
\* whose instruction cache is up to date, and that holds the code the client
\* compiled, whatever has been moved, overwritten or destroyed since; a moved-from
\* block holds nothing.
BlocksHoldTheirCode ==
  \A o \in Object :
    IF code_[o] = NoPage THEN holds[o] = NoCode
    ELSE /\ holds[o] \in Code
         /\ page[code_[o]] = [protection |-> "ExecuteRead", bytes |-> holds[o],
                              icache |-> "Coherent"]

\* How far the page of the compilation in progress is prepared; a page that is
\* free has nothing of its last use.
CompilationInv ==
  /\ \A p \in Page : page[p].protection = "Free" => page[p] = FreePage
  /\ code # NoPage =>
       page[code] = [protection |-> IF stage \in {"copy", "protect"} THEN "ReadWrite"
                                                                     ELSE "ExecuteRead",
                     bytes      |-> IF stage = "copy" THEN NoCode ELSE bytes,
                     icache     |-> IF stage = "return" THEN "Coherent" ELSE "Stale"]

\* The inductive invariant.
Inv == TypeOK /\ OnePageOneOwner /\ BlocksHoldTheirCode /\ CompilationInv

\* Code is written before it can execute and never after: no step changes the
\* bytes of a page that is, or becomes, executable, except by releasing it.
WriteXorExecute ==
  [][\A p \in Page :
       page'[p].bytes # page[p].bytes /\ page'[p].protection # "Free" =>
         page[p].protection = "ReadWrite" /\ page'[p].protection = "ReadWrite"]_vars
=============================================================================
