--------------------------- MODULE MCPs2ElfLoader ---------------------------
(***************************************************************************)
(* Small instances of the loader and of guest memory for TLC.               *)
(***************************************************************************)
EXTENDS Ps2ElfLoader

MCHeader(load, virtual_address, memory_size, file_offset, file_size, execute) ==
  [load |-> load, virtual_address |-> virtual_address, memory_size |-> memory_size,
   file_offset |-> file_offset, file_size |-> file_size, execute |-> execute]

\* Segments that meet, overlap, touch, are empty, or end at or past the end of
\* the address space, with and without bytes the file does not hold; one that has
\* less memory than bytes, and bytes that end at or past the end of the file,
\* or so far past it that offset plus size is a small number again.
MCHeaders ==
  {MCHeader(TRUE, 0, 4, 3, 2, TRUE), MCHeader(TRUE, 1, 1, 0, 1, FALSE),
   MCHeader(TRUE, 2, 0, 1, 0, FALSE), MCHeader(TRUE, 3, 2, 5, 0, FALSE),
   MCHeader(TRUE, 4, 3, 1, 1, FALSE), MCHeader(TRUE, 5, 3, 2, 2, FALSE),
   MCHeader(FALSE, 0, 0, 6, 6, FALSE), MCHeader(TRUE, 4, 1, 0, 2, TRUE),
   MCHeader(TRUE, 4, 1, 5, 1, TRUE), MCHeader(TRUE, 0, 3, 5, 3, TRUE)}

MCFileOf(contents, wrong, offset, headers) ==
  [bytes |-> contents, wrong |-> wrong, program_header_offset |-> offset,
   program_headers |-> headers]

MCBytes == << 1, 0, 1, 1, 0 >>

\* Files of up to three program headers in any order; files that are too short,
\* have one or two wrong fields, or a table at or past their end.
MCFile ==
  {MCFileOf(MCBytes, {}, 2, headers) :
     headers \in UNION {[1 .. n -> MCHeaders] : n \in 0 .. 3}} \cup
  {MCFileOf(SubSeq(MCBytes, 1, size), wrong, offset, << MCHeader(TRUE, 4, 1, 0, 1, TRUE) >>) :
     size \in {1, 2, 5},
     wrong \in {{HeaderChecks[i], HeaderChecks[j]} : i, j \in DOMAIN HeaderChecks} \cup {{}},
     offset \in {0, 4, 5, 6}}
=============================================================================
