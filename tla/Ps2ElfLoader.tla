---------------------------- MODULE Ps2ElfLoader ----------------------------
(***************************************************************************)
(* From an executable file to guest memory: parse_ps2_elf                   *)
(* (src/src/recompiler/ps2_elf.cpp) and Ps2MemoryMap::from_elf, as          *)
(* analyze_ps2_elf composes them.                                           *)
(*                                                                          *)
(* A file is what the parser can tell about it: its bytes, which of the     *)
(* fixed header fields do not hold their one supported value, and the       *)
(* fields of the header and of the program headers it reads as numbers.     *)
(***************************************************************************)
EXTENDS Ps2MemoryMap

CONSTANTS
  File,               \* the files callers pass
  HeaderSize,         \* kElf32HeaderSize: 52 in the code
  ProgramHeaderSize,  \* kElf32ProgramHeaderSize: 32 in the code
  NoImage             \* the empty std::optional of a parse result

\* The header fields with one supported value, in the order they are checked.
HeaderChecks ==
  << "BadMagic", "UnsupportedClass", "UnsupportedEndian", "UnsupportedIdentVersion",
     "UnsupportedType", "UnsupportedMachine", "UnsupportedVersion",
     "InvalidHeaderSize", "InvalidProgramHeaderSize" >>

ASSUME FileAssumption ==
  /\ HeaderSize \in Nat /\ ProgramHeaderSize \in Nat \ {0}
  /\ \A file \in File :
       /\ file.bytes \in Seq(Byte) /\ file.program_header_offset \in Address
       /\ file.wrong \subseteq {HeaderChecks[i] : i \in DOMAIN HeaderChecks}
       /\ file.program_headers \in Seq({file.program_headers[i] :
                                       i \in DOMAIN file.program_headers})
       /\ \A i \in DOMAIN file.program_headers :
            LET header == file.program_headers[i]
            IN  /\ header.load \in BOOLEAN /\ header.execute \in BOOLEAN
                /\ {header.file_offset, header.file_size, header.memory_size,
                    header.virtual_address} \subseteq Address

VARIABLES
  file,         \* the bytes analyze_ps2_elf is called with
  parse_error,  \* Ps2ElfError of the parse result
  image         \* its load segments with their file bytes, or NoImage

loader == <<file, parse_error, image>>
loaderVars == <<loader, vars>>

LoadInit ==
  /\ Init
  /\ file \in File /\ parse_error = "None" /\ image = NoImage

(***************************************************************************)
(* parse_ps2_elf                                                            *)
(***************************************************************************)
\* Mutant of range_fits: the end is computed first, and wraps.
range_fitsWrapping(offset, length, total) == (offset + length) % AddressSpace <= total

range_fits(offset, length, total) == offset <= total /\ length <= total - offset

TableFits ==
  range_fits(file.program_header_offset,
             Len(file.program_headers) * ProgramHeaderSize, Len(file.bytes))

SegmentError(header) ==
  IF header.memory_size < header.file_size THEN "SegmentMemoryTooSmall"
  ELSE IF range_fits(header.file_offset, header.file_size, Len(file.bytes))
  THEN "None" ELSE "SegmentOutOfBounds"

\* The program headers of type PT_LOAD, by their numbers.
LoadHeaders == {i \in DOMAIN file.program_headers : file.program_headers[i].load}

\* The error of the first check that fails, in the order of the code.
ParseError ==
  LET wrong == {i \in DOMAIN HeaderChecks : HeaderChecks[i] \in file.wrong}
      bad   == {i \in LoadHeaders : SegmentError(file.program_headers[i]) # "None"}
  IN  IF Len(file.bytes) < HeaderSize THEN "TooSmall"
      ELSE IF wrong # {} THEN HeaderChecks[Min(wrong)]
      ELSE IF ~ TableFits THEN "ProgramHeaderTableOutOfBounds"
      ELSE IF bad # {} THEN SegmentError(file.program_headers[Min(bad)])
      ELSE "None"

\* A load segment with its segment_file_bytes.
Segment(header) ==
  [virtual_address |-> header.virtual_address, memory_size |-> header.memory_size,
   execute |-> header.execute,
   payload |-> SubSeq(file.bytes, header.file_offset + 1,
                      header.file_offset + header.file_size)]

RejectFile ==
  /\ image = NoImage /\ parse_error = "None" /\ ParseError # "None"
  /\ parse_error' = ParseError
  /\ UNCHANGED <<file, image, vars>>

ParseFile ==
  /\ image = NoImage /\ parse_error = "None" /\ ParseError = "None"
  /\ image' = [i \in LoadHeaders |-> Segment(file.program_headers[i])]
  /\ UNCHANGED <<file, parse_error, vars>>

(***************************************************************************)
(* analyze_ps2_elf maps the image it has parsed; the program then runs.     *)
(***************************************************************************)
MapImage ==
  /\ image # NoImage
  /\ \E order \in SortedSegments(image) :
       FailBuild(image, order) \/ FailAllocation(image, order) \/ Build(image, order)
  /\ UNCHANGED loader

WriteMemory ==
  /\ \E address \in Address, width \in Width :
       \E value \in Scalar(width) : Write(address, width, value)
  /\ UNCHANGED loader

LoadNext == RejectFile \/ ParseFile \/ MapImage \/ WriteMemory

LoadSpec == LoadInit /\ [][LoadNext]_loaderVars

(***************************************************************************)
(* Properties                                                               *)
(***************************************************************************)
\* The headers that ask for guest memory, and the addresses they ask for.
Wanted == {i \in LoadHeaders : file.program_headers[i].memory_size # 0}
Asked(i) ==
  LET header == file.program_headers[i]
  IN  header.virtual_address .. header.virtual_address + header.memory_size - 1

\* The file holds whatever its headers refer to, and what they ask for can be had.
Holds(offset, length) == offset + length <= Len(file.bytes)
WellFormed ==
  /\ Holds(0, HeaderSize) /\ file.wrong = {}
  /\ Holds(file.program_header_offset, Len(file.program_headers) * ProgramHeaderSize)
  /\ \A i \in LoadHeaders :
       LET header == file.program_headers[i]
       IN  /\ Holds(header.file_offset, header.file_size)
           /\ header.file_size <= header.memory_size
Loadable ==
  /\ \A i \in Wanted : Asked(i) \subseteq Address
  /\ \A i, j \in Wanted :
       i # j => Asked(i) \cap Asked(j) = {}

\* What the file puts at an address of a segment: its bytes, then zeros.
FileByte(i, address) ==
  LET header == file.program_headers[i]
      k == address - header.virtual_address
  IN  IF k < header.file_size THEN file.bytes[header.file_offset + k + 1] ELSE 0

\* Exactly the well-formed files are accepted, and exactly the loadable ones of
\* them are mapped, whatever the order of their headers.  Then every address of
\* every segment reads as the file says, and no other address reads at all.
FilesLoadAsWritten ==
  [][/\ ParseFile => WellFormed
     /\ RejectFile => ~ WellFormed
     /\ phase = "unbuilt" /\ phase' = "failed" =>
          (error' = "AllocationFailed" <=> Loadable)
     /\ phase = "unbuilt" /\ phase' = "built" =>
          /\ Loadable
          /\ \A address \in Address :
               LET asking == {i \in Wanted : address \in Asked(i)}
               IN  /\ Translates(address, 1)' <=> asking # {}
                   /\ \A i \in asking :
                        Read(address, 1)' = FileByte(i, address)]_loaderVars
=============================================================================
