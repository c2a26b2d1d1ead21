---------------------------- MODULE Ps2MemoryMap ----------------------------
(***************************************************************************)
(* Guest memory: src/src/runtime/ps2_memory_map.cpp.                        *)
(*                                                                          *)
(* from_elf turns the PT_LOAD segments of an executable into regions with   *)
(* native storage; from then on the regions are fixed and the program reads *)
(* and writes little-endian scalars in them.  range_status, by which the    *)
(* control-flow analysis (src/src/analysis/r5900_control_flow.cpp) decides  *)
(* what it may fetch, is here too: it walks the same regions on its own.    *)
(*                                                                          *)
(* A segment is what from_elf reads of it; parse_ps2_elf (Ps2ElfLoader) has *)
(* checked that its file bytes exist and are no more than its memory, so    *)
(* the payload mismatch that from_elf guards against does not arise.        *)
(***************************************************************************)
EXTENDS Integers, Sequences, FiniteSetsExt

CONSTANTS
  AddressSpace,  \* bytes in the guest address space: 2^32 in the code
  ByteValues     \* values of a byte: 256 in the code

Byte == 0 .. ByteValues - 1
Address == 0 .. AddressSpace - 1
Width == {1, 2, 4}

\* The value of a one in the i-th byte of a scalar: 1 << 8 * i in the code.
Weight(i) ==
  CASE i = 0 -> 1
    [] i = 1 -> ByteValues
    [] i = 2 -> ByteValues * ByteValues
    [] i = 3 -> ByteValues * ByteValues * ByteValues
    [] i = 4 -> ByteValues * ByteValues * ByteValues * ByteValues

Scalar(width) == 0 .. Weight(width) - 1

ASSUME MemoryAssumption ==
  AddressSpace \in Nat \ {0} /\ ByteValues \in Nat \ {0, 1}

VARIABLES
  phase,    \* "unbuilt", "built" or "failed"
  error,    \* Ps2MemoryMapBuildError
  regions,  \* regions_
  bytes     \* backing_regions_[i].bytes; their metadata repeats regions

vars == <<phase, error, regions, bytes>>

Init == phase = "unbuilt" /\ error = "None" /\ regions = <<>> /\ bytes = <<>>

(***************************************************************************)
(* from_elf                                                                 *)
(***************************************************************************)
SegmentEnd(segment) == segment.virtual_address + segment.memory_size

\* The segments that ask for memory, by their numbers.
Pending(elf) == {i \in DOMAIN elf : elf[i].memory_size # 0}

\* The results that std::sort may have: it need not keep segments of one address in order.
SortedSegments(elf) ==
  {order \in Bijection(1 .. Cardinality(Pending(elf)), Pending(elf)) :
     \A i, j \in DOMAIN order :
       i < j => elf[order[i]].virtual_address <= elf[order[j]].virtual_address}

BuildError(elf, order) ==
  IF \E i \in Pending(elf) : SegmentEnd(elf[i]) > AddressSpace THEN "AddressOverflow"
  ELSE IF \E i \in DOMAIN order \ {1} :
            elf[order[i]].virtual_address < SegmentEnd(elf[order[i - 1]])
  THEN "OverlappingRegions"
  ELSE "None"

\* resize(size, 0) and the copy of the file bytes.
Storage(segment) ==
  [k \in 1 .. segment.memory_size |->
     IF k <= Len(segment.payload) THEN segment.payload[k] ELSE 0]

FailBuild(elf, order) ==
  /\ phase = "unbuilt" /\ BuildError(elf, order) # "None"
  /\ phase' = "failed" /\ error' = BuildError(elf, order)
  /\ UNCHANGED <<regions, bytes>>

\* std::bad_alloc or std::length_error while the storage is allocated.
FailAllocation(elf, order) ==
  /\ phase = "unbuilt" /\ BuildError(elf, order) = "None" /\ Pending(elf) # {}
  /\ phase' = "failed" /\ error' = "AllocationFailed"
  /\ UNCHANGED <<regions, bytes>>

Build(elf, order) ==
  /\ phase = "unbuilt" /\ BuildError(elf, order) = "None"
  /\ phase' = "built"
  /\ regions' = [i \in DOMAIN order |->
                   [guest_base |-> elf[order[i]].virtual_address,
                    size |-> elf[order[i]].memory_size, execute |-> elf[order[i]].execute]]
  /\ bytes' = [i \in DOMAIN order |-> Storage(elf[order[i]])]
  /\ UNCHANGED error

(***************************************************************************)
(* Access                                                                   *)
(***************************************************************************)
RegionEnd(region) == region.guest_base + region.size

\* Mutant of Holding: only the start of the access is compared.
HoldingStart(address, length) ==
  {i \in 1 .. Len(regions) :
     regions[i].guest_base <= address /\ address < RegionEnd(regions[i])}

\* The regions an access lies in as a whole; translate takes the first.
Holding(address, length) ==
  {i \in 1 .. Len(regions) :
     regions[i].guest_base <= address /\ address + length <= RegionEnd(regions[i])}

Translates(address, length) ==
  address + length <= AddressSpace /\ Holding(address, length) # {}

\* The i-th byte of a scalar, least significant first.
ByteOf(value, i) == (value \div Weight(i)) % ByteValues

\* read_u8, read_u16 and read_u32, when translate finds the bytes.
Read(address, width) ==
  LET i       == Min(Holding(address, width))
      offset  == address - regions[i].guest_base
      Part(k) == IF k < width THEN Weight(k) * bytes[i][offset + 1 + k] ELSE 0
  IN  Part(0) + Part(1) + Part(2) + Part(3)

\* Mutant of Write: the bytes are stored most significant first.
WriteBigEndian(address, width, value) ==
  /\ phase = "built" /\ Translates(address, width)
  /\ LET i      == Min(Holding(address, width))
         offset == address - regions[i].guest_base
     IN  bytes' = [bytes EXCEPT ![i] =
                     [k \in DOMAIN bytes[i] |->
                        IF k - 1 - offset \in 0 .. width - 1
                        THEN ByteOf(value, width - (k - offset))
                        ELSE bytes[i][k]]]
  /\ UNCHANGED <<phase, error, regions>>

\* write_u8, write_u16 and write_u32; they return false when nothing translates.
Write(address, width, value) ==
  /\ phase = "built" /\ Translates(address, width)
  /\ LET i      == Min(Holding(address, width))
         offset == address - regions[i].guest_base
     IN  bytes' = [bytes EXCEPT ![i] =
                     [k \in DOMAIN bytes[i] |->
                        IF k - 1 - offset \in 0 .. width - 1
                        THEN ByteOf(value, k - 1 - offset)
                        ELSE bytes[i][k]]]
  /\ UNCHANGED <<phase, error, regions>>

\* Mutant of range_status: the end of the access is not compared.
range_statusOfStart(address, length) ==
  LET within == HoldingStart(address, length)
  IN  IF address + length > AddressSpace \/ within = {} THEN "Unmapped"
      ELSE IF regions[Min(within)].execute THEN "Executable" ELSE "NonExecutable"

range_status(address, length) ==
  LET within == Holding(address, length)
  IN  IF address + length > AddressSpace \/ within = {} THEN "Unmapped"
      ELSE IF regions[Min(within)].execute THEN "Executable" ELSE "NonExecutable"

(***************************************************************************)
(* Properties                                                               *)
(***************************************************************************)
RegionRange(region) == region.guest_base .. RegionEnd(region) - 1

\* The types of the map: no region is empty or leaves the address space, and each
\* has as many bytes of storage as guest addresses.
TypeOK ==
  /\ phase \in {"unbuilt", "built", "failed"}
  /\ error \in {"None", "AddressOverflow", "OverlappingRegions", "AllocationFailed"}
  /\ Len(bytes) = Len(regions)
  /\ \A i \in 1 .. Len(regions) :
       /\ RegionRange(regions[i]) # {} /\ RegionRange(regions[i]) \subseteq Address
       /\ bytes[i] \in [1 .. regions[i].size -> Byte]

\* A write is read back as it was written, and changes no byte outside of it.
WritesAreExact ==
  [][\A address \in Address, width \in Width : \A value \in Scalar(width) :
       Write(address, width, value) =>
         /\ Read(address, width)' = value
         /\ \A other \in Address :
              Translates(other, 1) /\ other \notin address .. address + width - 1 =>
                Read(other, 1)' = Read(other, 1)]_vars

\* The two walks over the regions agree: the analysis classifies a range as mapped
\* exactly when a read of it succeeds, and as executable exactly when it lies in a
\* region that is.
RangeStatusAgrees ==
  \A address \in Address, length \in Width :
    /\ range_status(address, length) # "Unmapped" <=> Translates(address, length)
    /\ range_status(address, length) = "Executable" <=>
         \E i \in 1 .. Len(regions) :
           regions[i].execute /\ address .. address + length - 1 \subseteq RegionRange(regions[i])
=============================================================================
