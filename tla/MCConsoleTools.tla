--------------------------- MODULE MCConsoleTools ---------------------------
(***************************************************************************)
(* Small command lines for TLC: three arguments are values, one of which is *)
(* no count.                                                                *)
(***************************************************************************)
EXTENDS ConsoleTools, TLC

MCNumeral == ("a" :> 0) @@ ("1" :> 1) @@ ("2" :> 2)

\* An ELF file, something else, or nothing at a; the report of an earlier run at 1.
MCInitialFiles ==
  {("a" :> a) @@ ("1" :> "other") @@ ("2" :> "absent") : a \in {"elf", "other", "absent"}}
=============================================================================
