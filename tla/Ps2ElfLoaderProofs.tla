------------------------- MODULE Ps2ElfLoaderProofs -------------------------
(***************************************************************************)
(* Proofs about loading an executable: the parser accepts exactly the       *)
(* well-formed files, the map exactly the loadable ones, memory then holds  *)
(* what the file says, and scalars are stored exactly.                      *)
(***************************************************************************)
EXTENDS Ps2ElfLoader, FiniteSetTheorems, SequenceTheorems, TLAPS

(***************************************************************************)
(* Files                                                                    *)
(***************************************************************************)
\* A program header.
Header(i) == file.program_headers[i]

\* The least of some numbers is one of them.
LEMMA MinIsIn ==
  ASSUME NEW S \in SUBSET Nat, S # {}
  PROVE  Min(S) \in S /\ \A y \in S : Min(S) <= y
<1>1. PICK x \in S : \A y \in S : ~ (<<y, x>> \in OpToRel(<, Nat))
  BY NatLessThanWellFounded, WFMin
<1>2. \A y \in S : x <= y
  <2> TAKE y \in S
  <2>1. x \in Nat /\ y \in Nat
    OBVIOUS
  <2>2. ~ (y < x)
    BY <1>1, <2>1 DEF OpToRel
  <2> QED BY <2>1, <2>2
<1> QED BY <1>2 DEF Min

\* A range fits when it ends where the whole does, or before.
LEMMA RangeFits ==
  ASSUME NEW offset \in Nat, NEW length \in Nat, NEW total \in Nat
  PROVE  range_fits(offset, length, total) <=> offset + length <= total
BY DEF range_fits

\* What the fields of a file hold.
LEMMA FileTypes ==
  ASSUME file \in File
  PROVE  /\ Len(file.bytes) \in Nat /\ file.program_header_offset \in Nat
         /\ file.bytes \in Seq(Byte)
         /\ Len(file.program_headers) \in Nat
         /\ DOMAIN file.program_headers = 1 .. Len(file.program_headers)
         /\ Len(file.program_headers) * ProgramHeaderSize \in Nat
         /\ HeaderSize \in Nat
         /\ file.wrong \subseteq {HeaderChecks[i] : i \in DOMAIN HeaderChecks}
         /\ \A i \in LoadHeaders :
              /\ i \in Nat
              /\ Header(i).virtual_address \in Nat /\ Header(i).memory_size \in Nat
              /\ Header(i).file_offset \in Nat /\ Header(i).file_size \in Nat
<1>1. \A x \in Address : x \in Nat
  BY MemoryAssumption DEF Address
<1>2. /\ file.bytes \in Seq(Byte) /\ file.program_header_offset \in Address
      /\ file.wrong \subseteq {HeaderChecks[i] : i \in DOMAIN HeaderChecks}
      /\ HeaderSize \in Nat /\ ProgramHeaderSize \in Nat
  BY FileAssumption
<1>3. /\ Len(file.program_headers) \in Nat
      /\ DOMAIN file.program_headers = 1 .. Len(file.program_headers)
  <2> DEFINE f == file.program_headers
             U == {f[i] : i \in DOMAIN f}
  <2>1. f \in Seq(U)
    BY FileAssumption
  <2> HIDE DEF f, U
  <2>2. Len(f) \in Nat /\ DOMAIN f = 1 .. Len(f)
    BY <2>1
  <2> QED BY <2>2 DEF f
<1>4. \A i \in DOMAIN file.program_headers :
        /\ Header(i).virtual_address \in Nat /\ Header(i).memory_size \in Nat
        /\ Header(i).file_offset \in Nat /\ Header(i).file_size \in Nat
  BY <1>1, FileAssumption DEF Header
<1>5. Len(file.bytes) \in Nat
  BY <1>2
<1>6. Len(file.program_headers) * ProgramHeaderSize \in Nat
  <2> DEFINE n == Len(file.program_headers)
  <2>1. n \in Nat
    BY <1>3
  <2> HIDE DEF n
  <2>2. n * ProgramHeaderSize \in Nat
    BY <1>2, <2>1
  <2> QED BY <2>2 DEF n
<1> QED BY <1>1, <1>2, <1>3, <1>4, <1>5, <1>6 DEF LoadHeaders

\* A segment is in order when the file and the memory have its bytes.
LEMMA SegmentErrors ==
  ASSUME file \in File, NEW i \in LoadHeaders
  PROVE  SegmentError(Header(i)) = "None"
           <=> /\ Holds(Header(i).file_offset, Header(i).file_size)
               /\ Header(i).file_size <= Header(i).memory_size
<1> DEFINE o == Header(i).file_offset
           l == Header(i).file_size
           m == Header(i).memory_size
           t == Len(file.bytes)
<1>1. o \in Nat /\ l \in Nat /\ m \in Nat /\ t \in Nat
  BY FileTypes
<1>2. SegmentError(Header(i)) = IF m < l THEN "SegmentMemoryTooSmall"
                                ELSE IF range_fits(o, l, t) THEN "None"
                                ELSE "SegmentOutOfBounds"
  BY DEF SegmentError
<1>3. Holds(o, l) <=> o + l <= t
  BY DEF Holds
<1> HIDE DEF o, l, m, t
<1>4. range_fits(o, l, t) <=> o + l <= t
  BY <1>1, RangeFits
<1>5. SegmentError(Header(i)) = "None" <=> (o + l <= t /\ l <= m)
  BY <1>1, <1>2, <1>4
<1>6. SegmentError(Header(i)) = "None" <=> (Holds(o, l) /\ l <= m)
  BY <1>3, <1>5
<1> QED BY <1>6 DEF o, l, m

\* The parser accepts exactly the files that hold what their headers refer to.
LEMMA ParserDecides ==
  ASSUME file \in File
  PROVE  ParseError = "None" <=> WellFormed
<1> DEFINE wrong == {i \in DOMAIN HeaderChecks : HeaderChecks[i] \in file.wrong}
           bad == {i \in LoadHeaders : SegmentError(file.program_headers[i]) # "None"}
           n == Len(file.bytes)
<1>1. DOMAIN HeaderChecks = 1 .. 9 /\ \A i \in DOMAIN HeaderChecks : HeaderChecks[i] # "None"
  BY DEF HeaderChecks
<1>2. wrong # {} => HeaderChecks[Min(wrong)] # "None"
  <2> SUFFICES ASSUME wrong # {} PROVE HeaderChecks[Min(wrong)] # "None"
    OBVIOUS
  <2>1. wrong \in SUBSET Nat /\ wrong \subseteq DOMAIN HeaderChecks
    BY <1>1
  <2> HIDE DEF wrong
  <2>2. Min(wrong) \in wrong
    BY <2>1, MinIsIn
  <2> QED BY <1>1, <2>1, <2>2
<1>3. bad # {} => SegmentError(file.program_headers[Min(bad)]) # "None"
  <2> SUFFICES ASSUME bad # {} PROVE SegmentError(file.program_headers[Min(bad)]) # "None"
    OBVIOUS
  <2>1. bad \in SUBSET Nat
    BY FileTypes
  <2>2. \A i \in bad : SegmentError(file.program_headers[i]) # "None"
    OBVIOUS
  <2> HIDE DEF bad
  <2>3. Min(bad) \in bad
    BY <2>1, MinIsIn
  <2> QED BY <2>2, <2>3
<1>4. ParseError = IF n < HeaderSize THEN "TooSmall"
                   ELSE IF wrong # {} THEN HeaderChecks[Min(wrong)]
                   ELSE IF ~ TableFits THEN "ProgramHeaderTableOutOfBounds"
                   ELSE IF bad # {} THEN SegmentError(file.program_headers[Min(bad)])
                   ELSE "None"
  BY Zenon DEF ParseError
<1>5. wrong = {} <=> file.wrong = {}
  BY FileTypes
<1>6. bad = {} <=> \A i \in LoadHeaders :
                     /\ Holds(Header(i).file_offset, Header(i).file_size)
                     /\ Header(i).file_size <= Header(i).memory_size
  BY SegmentErrors DEF Header
<1>7. TableFits <=> Holds(file.program_header_offset,
                          Len(file.program_headers) * ProgramHeaderSize)
  <2> DEFINE o == file.program_header_offset
             l == Len(file.program_headers) * ProgramHeaderSize
  <2>1. o \in Nat /\ l \in Nat /\ n \in Nat
    BY FileTypes
  <2>2. TableFits <=> range_fits(o, l, n)
    BY DEF TableFits
  <2>3. Holds(o, l) <=> o + l <= n
    BY DEF Holds
  <2> HIDE DEF o, l, n
  <2>4. TableFits <=> Holds(o, l)
    BY <2>1, <2>2, <2>3, RangeFits
  <2> QED BY <2>4 DEF o, l
<1>8. ~ (n < HeaderSize) <=> Holds(0, HeaderSize)
  BY FileTypes DEF Holds
<1> HIDE DEF wrong, bad, n
<1>9. ParseError = "None" <=> /\ ~ (n < HeaderSize) /\ wrong = {} /\ TableFits /\ bad = {}
  BY <1>2, <1>3, <1>4
<1>10. WellFormed <=>
         /\ Holds(0, HeaderSize) /\ file.wrong = {}
         /\ Holds(file.program_header_offset, Len(file.program_headers) * ProgramHeaderSize)
         /\ \A i \in LoadHeaders :
              /\ Holds(Header(i).file_offset, Header(i).file_size)
              /\ Header(i).file_size <= Header(i).memory_size
  BY DEF WellFormed, Header
<1> QED BY <1>5, <1>6, <1>7, <1>8, <1>9, <1>10

(***************************************************************************)
(* Segments in order                                                        *)
(***************************************************************************)
\* What from_elf reads of the segments: finitely many, with numbers for addresses.
IsElf(elf) ==
  /\ IsFiniteSet(Pending(elf))
  /\ \A i \in Pending(elf) :
       elf[i].virtual_address \in Nat /\ elf[i].memory_size \in Nat \ {0}

\* A sort has every segment once, in the order of addresses.
LEMMA OrderOfSegments ==
  ASSUME NEW elf, IsElf(elf), NEW order \in SortedSegments(elf)
  PROVE  /\ Cardinality(Pending(elf)) \in Nat
         /\ DOMAIN order = 1 .. Cardinality(Pending(elf))
         /\ \A i \in DOMAIN order : order[i] \in Pending(elf)
         /\ \A s \in Pending(elf) : \E i \in DOMAIN order : order[i] = s
         /\ \A i, j \in DOMAIN order : order[i] = order[j] => i = j
         /\ \A i, j \in DOMAIN order :
              i < j => elf[order[i]].virtual_address <= elf[order[j]].virtual_address
<1> DEFINE n == Cardinality(Pending(elf))
           P == Pending(elf)
<1>1. n \in Nat
  BY FS_CardinalityType DEF IsElf
<1>2. order \in Bijection(1 .. n, P)
  BY DEF SortedSegments
<1>3. /\ order \in [1 .. n -> P]
      /\ \A s \in P : \E i \in 1 .. n : order[i] = s
      /\ \A i, j \in DOMAIN order : order[i] = order[j] => i = j
  <2> HIDE DEF n, P
  <2> QED BY <1>2 DEF Bijection, Injection, Surjection, IsInjective
<1>4. \A i, j \in DOMAIN order :
        i < j => elf[order[i]].virtual_address <= elf[order[j]].virtual_address
  BY DEF SortedSegments
<1> QED BY <1>1, <1>3, <1>4

\* Without a build error the segments fit, and one ends before the next begins.
LEMMA SegmentsApart ==
  ASSUME NEW elf, IsElf(elf), NEW order \in SortedSegments(elf),
         BuildError(elf, order) = "None"
  PROVE  /\ \A i \in DOMAIN order : SegmentEnd(elf[order[i]]) <= AddressSpace
         /\ \A i, j \in DOMAIN order :
              i < j => SegmentEnd(elf[order[i]]) <= elf[order[j]].virtual_address
<1> DEFINE n == Cardinality(Pending(elf))
           base(i) == elf[order[i]].virtual_address
           end(i) == SegmentEnd(elf[order[i]])
<1>1. n \in Nat /\ DOMAIN order = 1 .. n
  BY OrderOfSegments
<1>2. /\ ~ \E i \in Pending(elf) : SegmentEnd(elf[i]) > AddressSpace
      /\ ~ \E i \in DOMAIN order \ {1} : base(i) < SegmentEnd(elf[order[i - 1]])
  BY DEF BuildError
<1>3. \A i \in 1 .. n : base(i) \in Nat /\ end(i) \in Nat
  BY OrderOfSegments DEF IsElf, SegmentEnd
<1>4. \A i, j \in 1 .. n : i < j => base(i) <= base(j)
  BY <1>1, OrderOfSegments
<1>5. \A i \in 1 .. n : end(i) <= AddressSpace
  <2> TAKE i \in 1 .. n
  <2>1. order[i] \in Pending(elf)
    BY <1>1, OrderOfSegments
  <2>2. ~ (end(i) > AddressSpace)
    BY <1>2, <2>1
  <2> QED BY <1>3, <2>2, MemoryAssumption
<1>6. \A k \in 1 .. n : k # 1 => end(k - 1) <= base(k)
  <2> TAKE k \in 1 .. n
  <2> SUFFICES ASSUME k # 1 PROVE end(k - 1) <= base(k)
    OBVIOUS
  <2>1. ~ (base(k) < end(k - 1))
    BY <1>1, <1>2
  <2> DEFINE i == k - 1
  <2>2. i \in 1 .. n
    BY <1>1
  <2> HIDE DEF i, base, end
  <2>3. end(i) \in Nat /\ base(k) \in Nat
    BY <1>3, <2>2
  <2> QED BY <2>1, <2>3 DEF i
<1> HIDE DEF base, end
<1>7. ASSUME NEW i \in 1 .. n, NEW j \in 1 .. n, i < j
      PROVE  end(i) <= base(j)
  <2> DEFINE k == i + 1
  <2>1. k \in 1 .. n /\ k # 1 /\ k - 1 = i /\ k <= j
    BY <1>1, <1>7
  <2> HIDE DEF k, n
  <2>2. end(k - 1) <= base(k)
    BY <1>6, <2>1
  <2>3. base(k) <= base(j)
    <3>1. CASE k = j
      BY <1>3, <3>1
    <3>2. CASE k < j
      BY <1>4, <2>1, <3>2
    <3>3. k \in Int /\ j \in Int
      BY <1>1, <2>1 DEF n
    <3> QED BY <2>1, <3>1, <3>2, <3>3
  <2>4. end(i) \in Nat /\ base(k) \in Nat /\ base(j) \in Nat
    BY <1>3, <2>1
  <2>5. end(i) <= base(k)
    BY <2>1, <2>2
  <2> QED BY <2>3, <2>4, <2>5
<1> QED BY <1>1, <1>5, <1>7 DEF base, end

\* With a build error two segments share an address, or one leaves the address space.
LEMMA SegmentsClash ==
  ASSUME NEW elf, IsElf(elf), NEW order \in SortedSegments(elf),
         BuildError(elf, order) # "None"
  PROVE  \/ \E i \in Pending(elf) : SegmentEnd(elf[i]) > AddressSpace
         \/ \E i, j \in Pending(elf) :
              /\ i # j /\ elf[i].virtual_address <= elf[j].virtual_address
              /\ elf[j].virtual_address < SegmentEnd(elf[i])
<1> SUFFICES ASSUME ~ \E i \in Pending(elf) : SegmentEnd(elf[i]) > AddressSpace
             PROVE  \E i, j \in Pending(elf) :
                      /\ i # j /\ elf[i].virtual_address <= elf[j].virtual_address
                      /\ elf[j].virtual_address < SegmentEnd(elf[i])
  OBVIOUS
<1>1. PICK k \in DOMAIN order \ {1} :
        elf[order[k]].virtual_address < SegmentEnd(elf[order[k - 1]])
  BY DEF BuildError
<1> DEFINE l == k - 1
<1>2. l \in DOMAIN order /\ k \in DOMAIN order /\ l < k /\ l # k
  BY <1>1, OrderOfSegments
<1> HIDE DEF l
<1>3. /\ order[l] \in Pending(elf) /\ order[k] \in Pending(elf) /\ order[l] # order[k]
      /\ elf[order[l]].virtual_address <= elf[order[k]].virtual_address
  BY <1>2, OrderOfSegments
<1>4. elf[order[k]].virtual_address < SegmentEnd(elf[order[l]])
  BY <1>1 DEF l
<1> QED BY <1>3, <1>4

(***************************************************************************)
(* Regions                                                                  *)
(***************************************************************************)
\* The regions lie in the address space one after the other, none is empty, and each
\* has a byte of storage for each of its addresses.
RegionsInv ==
  /\ Len(regions) \in Nat /\ DOMAIN regions = 1 .. Len(regions)
  /\ DOMAIN bytes = 1 .. Len(regions)
  /\ \A i \in 1 .. Len(regions) :
       /\ regions[i].guest_base \in Nat /\ regions[i].size \in Nat \ {0}
       /\ RegionEnd(regions[i]) <= AddressSpace
       /\ DOMAIN bytes[i] = 1 .. regions[i].size
  /\ \A i, j \in 1 .. Len(regions) :
       i < j => RegionEnd(regions[i]) <= regions[j].guest_base

\* An access lies in one region at most.
LEMMA OneRegionHolds ==
  ASSUME RegionsInv, NEW address \in Nat, NEW length \in Nat \ {0}
  PROVE  /\ Holding(address, length) \subseteq 1 .. Len(regions)
         /\ \A i, j \in Holding(address, length) : i = j
         /\ \A i \in Holding(address, length) : Min(Holding(address, length)) = i
<1> DEFINE n == Len(regions)
           base(i) == regions[i].guest_base
           end(i) == RegionEnd(regions[i])
           H == Holding(address, length)
<1>1. n \in Nat /\ \A i \in 1 .. n : base(i) \in Nat /\ end(i) \in Nat
  BY DEF RegionsInv, RegionEnd
<1>2. \A i, j \in 1 .. n : i < j => end(i) <= base(j)
  BY DEF RegionsInv
<1>3. H = {i \in 1 .. n : base(i) <= address /\ address + length <= end(i)}
  BY DEF Holding
<1> HIDE DEF n, base, end, H
<1>4. ASSUME NEW i \in H, NEW j \in H, i < j PROVE FALSE
  BY <1>1, <1>2, <1>3, <1>4
<1>5. H \in SUBSET Nat
  BY <1>1, <1>3
<1>6. \A i, j \in H : i = j
  BY <1>4, <1>5
<1>7. \A i \in H : Min(H) = i
  <2> TAKE i \in H
  <2>1. Min(H) \in H
    BY <1>5, MinIsIn
  <2> QED BY <1>6, <2>1
<1> QED BY <1>3, <1>6, <1>7 DEF H, n

\* A region holds an access when it has all of its addresses.
LEMMA HoldingIsInside ==
  ASSUME RegionsInv, NEW address \in Nat, NEW length \in Nat \ {0}, NEW i \in 1 .. Len(regions)
  PROVE  i \in Holding(address, length)
           <=> address .. address + length - 1 \subseteq RegionRange(regions[i])
<1> DEFINE base == regions[i].guest_base
           end == RegionEnd(regions[i])
           last == address + length - 1
<1>1. base \in Nat /\ end \in Nat
  BY DEF RegionsInv, RegionEnd
<1>2. i \in Holding(address, length) <=> (base <= address /\ address + length <= end)
  BY DEF Holding
<1>3. RegionRange(regions[i]) = base .. end - 1
  BY DEF RegionRange
<1> HIDE DEF base, end
<1>4. address \in address .. last /\ last \in address .. last /\ last \in Nat
  OBVIOUS
<1>5. address .. last \subseteq base .. end - 1 => base <= address /\ address + length <= end
  <2> SUFFICES ASSUME address .. last \subseteq base .. end - 1
               PROVE  base <= address /\ address + length <= end
    OBVIOUS
  <2>1. address \in base .. end - 1 /\ last \in base .. end - 1
    BY <1>4
  <2> QED BY <1>1, <2>1
<1>6. base <= address /\ address + length <= end => address .. last \subseteq base .. end - 1
  BY <1>1
<1> QED BY <1>2, <1>3, <1>5, <1>6

\* What the analysis fetches is what a read finds.
LEMMA RangesAgree == RegionsInv => RangeStatusAgrees
<1> SUFFICES ASSUME RegionsInv, NEW address \in Address, NEW length \in Width
             PROVE  /\ range_status(address, length) # "Unmapped" <=> Translates(address, length)
                    /\ range_status(address, length) = "Executable" <=>
                         \E i \in 1 .. Len(regions) :
                           /\ regions[i].execute
                           /\ address .. address + length - 1 \subseteq RegionRange(regions[i])
  BY DEF RangeStatusAgrees
<1> DEFINE H == Holding(address, length)
<1>1. address \in Nat /\ length \in Nat \ {0}
  BY MemoryAssumption DEF Address, Width
<1>2. range_status(address, length)
        = IF address + length > AddressSpace \/ H = {} THEN "Unmapped"
          ELSE IF regions[Min(H)].execute THEN "Executable" ELSE "NonExecutable"
  BY DEF range_status
<1>3. Translates(address, length) <=> address + length <= AddressSpace /\ H # {}
  BY DEF Translates
<1>4. /\ H \subseteq 1 .. Len(regions)
      /\ \A i \in H : Min(H) = i
      /\ \A i \in 1 .. Len(regions) :
           i \in H <=> address .. address + length - 1 \subseteq RegionRange(regions[i])
  BY <1>1, OneRegionHolds, HoldingIsInside
<1>5. \A i \in H : address + length <= AddressSpace
  <2> TAKE i \in H
  <2>1. address + length <= RegionEnd(regions[i]) /\ RegionEnd(regions[i]) <= AddressSpace
    BY <1>4 DEF Holding, RegionsInv
  <2>2. RegionEnd(regions[i]) \in Nat
    BY <1>4 DEF RegionsInv, RegionEnd
  <2> QED BY <1>1, <2>1, <2>2, MemoryAssumption
<1>6. address + length > AddressSpace <=> ~ (address + length <= AddressSpace)
  BY <1>1, MemoryAssumption
<1> HIDE DEF H
<1>7. range_status(address, length) # "Unmapped" <=> Translates(address, length)
  BY <1>2, <1>3, <1>6
<1>8. range_status(address, length) = "Executable" <=> \E i \in H : regions[i].execute
  BY <1>2, <1>4, <1>5, <1>6
<1> QED BY <1>4, <1>7, <1>8

(***************************************************************************)
(* The image                                                                *)
(***************************************************************************)
ImageOfFile == image = [i \in LoadHeaders |-> Segment(Header(i))]

\* The image has the segments that the program headers ask for.
LEMMA ImageHasHeaders ==
  ASSUME file \in File, ImageOfFile
  PROVE  /\ IsElf(image) /\ Pending(image) = Wanted
         /\ \A i \in Wanted :
              /\ i \in LoadHeaders
              /\ image[i] = Segment(Header(i))
              /\ image[i].virtual_address = Header(i).virtual_address
              /\ image[i].memory_size = Header(i).memory_size
              /\ image[i].execute = Header(i).execute
              /\ Header(i).virtual_address \in Nat /\ Header(i).memory_size \in Nat \ {0}
<1>1. \A i \in LoadHeaders : image[i] = Segment(Header(i))
  BY DEF ImageOfFile
<1>2. \A i \in LoadHeaders :
        /\ Segment(Header(i)).virtual_address = Header(i).virtual_address
        /\ Segment(Header(i)).memory_size = Header(i).memory_size
        /\ Segment(Header(i)).execute = Header(i).execute
  BY DEF Segment
<1>3. DOMAIN image = LoadHeaders
  BY DEF ImageOfFile
<1>4. Pending(image) = Wanted
  BY <1>1, <1>2, <1>3 DEF Pending, Wanted, Header
<1>5. \A i \in Wanted : /\ i \in LoadHeaders
                        /\ Header(i).virtual_address \in Nat
                        /\ Header(i).memory_size \in Nat \ {0}
  BY FileTypes DEF Wanted, Header
<1>6. IsFiniteSet(Pending(image))
  <2>1. IsFiniteSet(1 .. Len(file.program_headers))
    BY FileTypes, FS_Interval
  <2>2. Wanted \subseteq 1 .. Len(file.program_headers)
    BY FileTypes DEF Wanted, LoadHeaders
  <2> QED BY <1>4, <2>1, <2>2, FS_Subset
<1>7. IsElf(image)
  BY <1>1, <1>2, <1>4, <1>5, <1>6 DEF IsElf
<1> QED BY <1>1, <1>2, <1>4, <1>5, <1>7

\* The addresses of a header.
LEMMA AskedOf ==
  ASSUME NEW i
  PROVE  Asked(i) = Header(i).virtual_address
                      .. Header(i).virtual_address + Header(i).memory_size - 1
BY DEF Asked, Header

\* The bytes of a segment are those of the file, and zeros after them.
LEMMA StorageOfFile ==
  ASSUME file \in File, WellFormed, NEW i \in LoadHeaders, NEW address \in Asked(i)
  PROVE  Storage(Segment(Header(i)))[address - Header(i).virtual_address + 1]
           = FileByte(i, address)
<1> DEFINE h == Header(i)
           o == h.file_offset
           l == h.file_size
           m == h.memory_size
           v == h.virtual_address
           t == Len(file.bytes)
           p == SubSeq(file.bytes, o + 1, o + l)
           k == address - v
<1>1. /\ o \in Nat /\ l \in Nat /\ m \in Nat /\ v \in Nat /\ t \in Nat
      /\ file.bytes \in Seq(Byte)
  BY FileTypes
<1>2. o + l <= t /\ l <= m
  BY DEF WellFormed, Holds, Header
<1>3. address \in v .. v + m - 1
  BY AskedOf
<1>4. FileByte(i, address) = IF k < l THEN file.bytes[o + k + 1] ELSE 0
  BY DEF FileByte, Header
<1>5. Segment(h).payload = p /\ Segment(h).memory_size = m
  BY DEF Segment
<1> HIDE DEF h, o, l, m, v, t
<1>6. k \in 0 .. m - 1 /\ k + 1 \in 1 .. m
  BY <1>1, <1>3
<1>7. Len(p) = l /\ \A j \in 1 .. l : p[j] = file.bytes[o + j]
  <2> DEFINE a == o + 1
             b == o + l
             q == SubSeq(file.bytes, a, b)
  <2>1. \A j \in a .. b : file.bytes[j] \in Byte
    <3>1. a .. b \subseteq 1 .. t
      BY <1>1, <1>2
    <3> QED BY <1>1, <3>1 DEF t
  <2>2. a \in Int /\ b \in Int /\ b - a + 1 = l /\ (a <= b <=> l # 0)
    BY <1>1
  <2>3. \A j \in 1 .. l : a + j - 1 = o + j
    BY <1>1
  <2> HIDE DEF a, b
  <2>4. /\ Len(q) = IF a <= b THEN b - a + 1 ELSE 0
        /\ \A j \in 1 .. b - a + 1 : q[j] = file.bytes[a + j - 1]
    BY <2>1, <2>2, SubSeqProperties
  <2> HIDE DEF q
  <2>5. Len(q) = l
    BY <1>1, <2>2, <2>4
  <2>6. \A j \in 1 .. l : q[j] = file.bytes[o + j]
    BY <2>2, <2>3, <2>4
  <2> QED BY <2>5, <2>6 DEF q, a, b
<1>8. Storage(Segment(h)) = [j \in 1 .. m |-> IF j <= l THEN p[j] ELSE 0]
  <2> HIDE DEF p
  <2> QED BY <1>5, <1>7 DEF Storage
<1> HIDE DEF p, k
<1>9. Storage(Segment(h))[k + 1] = IF k + 1 <= l THEN p[k + 1] ELSE 0
  BY <1>6, <1>8
<1>10. CASE k < l
  <2> DEFINE j == k + 1
  <2>1. j \in 1 .. l /\ o + j = o + k + 1 /\ j <= l
    BY <1>1, <1>6, <1>10
  <2> HIDE DEF j
  <2>2. p[j] = file.bytes[o + j]
    BY <1>7, <2>1
  <2>3. Storage(Segment(h))[k + 1] = p[j]
    BY <1>9, <2>1 DEF j
  <2> QED BY <1>4, <1>10, <2>1, <2>2, <2>3 DEF k, h, v
<1>11. CASE ~ (k < l)
  <2>1. ~ (k + 1 <= l)
    BY <1>1, <1>6, <1>11
  <2> QED BY <1>4, <1>9, <1>11, <2>1 DEF k, h, v
<1> QED BY <1>10, <1>11

\* What is known of an image: it is that of a well-formed file.
LoaderInv ==
  /\ file \in File
  /\ image # NoImage => WellFormed /\ ImageOfFile
  /\ RegionsInv

\* Before anything is parsed there are no regions.
LEMMA LoaderInvInit == LoadInit => LoaderInv
<1> SUFFICES ASSUME LoadInit PROVE LoaderInv
  OBVIOUS
<1>1. file \in File /\ image = NoImage /\ regions = <<>> /\ bytes = <<>>
  BY DEF LoadInit, Init
<1>2. Len(<<>>) = 0 /\ DOMAIN <<>> = {} /\ 1 .. 0 = {}
  OBVIOUS
<1>3. RegionsInv
  BY <1>1, <1>2 DEF RegionsInv
<1> QED BY <1>1, <1>3 DEF LoaderInv

\* Nothing but what the file says decides whether it is well formed.
LEMMA FileStays ==
  ASSUME file' = file
  PROVE  /\ WellFormed' = WellFormed /\ LoadHeaders' = LoadHeaders
         /\ \A h : Segment(h)' = Segment(h)
         /\ \A i : Header(i)' = Header(i)
         /\ \A i : Asked(i)' = Asked(i)
         /\ Wanted' = Wanted
BY DEF WellFormed, Holds, LoadHeaders, Segment, Header, Asked, Wanted

\* A build keeps what is known of the regions.
LEMMA BuildKeepsRegions ==
  ASSUME LoaderInv, image # NoImage, NEW order \in SortedSegments(image), Build(image, order)
  PROVE  /\ RegionsInv'
         /\ Len(regions') = Cardinality(Pending(image))
         /\ DOMAIN order = 1 .. Len(regions')
         /\ \A i \in 1 .. Len(regions') :
              /\ order[i] \in Wanted
              /\ regions'[i].guest_base = Header(order[i]).virtual_address
              /\ RegionEnd(regions'[i]) = Header(order[i]).virtual_address + Header(order[i]).memory_size
              /\ bytes'[i] = Storage(Segment(Header(order[i])))
<1> DEFINE n == Cardinality(Pending(image))
<1>1. file \in File /\ ImageOfFile
  BY DEF LoaderInv
<1>2. /\ IsElf(image) /\ Pending(image) = Wanted
      /\ \A i \in Wanted :
           /\ i \in LoadHeaders
           /\ image[i] = Segment(Header(i))
           /\ image[i].virtual_address = Header(i).virtual_address
           /\ image[i].memory_size = Header(i).memory_size
           /\ Header(i).virtual_address \in Nat /\ Header(i).memory_size \in Nat \ {0}
  BY <1>1, ImageHasHeaders
<1>3. /\ n \in Nat /\ DOMAIN order = 1 .. n
      /\ \A i \in 1 .. n : order[i] \in Wanted
  BY <1>2, OrderOfSegments
<1>4. /\ \A i \in 1 .. n : SegmentEnd(image[order[i]]) <= AddressSpace
      /\ \A i, j \in 1 .. n :
           i < j => SegmentEnd(image[order[i]]) <= image[order[j]].virtual_address
  BY <1>2, <1>3, SegmentsApart DEF Build
<1>5. /\ regions' = [i \in DOMAIN order |->
                       [guest_base |-> image[order[i]].virtual_address,
                        size |-> image[order[i]].memory_size, execute |-> image[order[i]].execute]]
      /\ bytes' = [i \in DOMAIN order |-> Storage(image[order[i]])]
  BY DEF Build
<1> HIDE DEF n
<1>6. DOMAIN regions' = 1 .. n /\ DOMAIN bytes' = 1 .. n /\ Len(regions') = n
  <2>1. DOMAIN regions' = 1 .. n /\ DOMAIN bytes' = 1 .. n
    BY <1>3, <1>5
  <2>2. regions' \in Seq({regions'[i] : i \in 1 .. n})
    BY <1>3, <1>5
  <2>3. Len(regions') \in Nat /\ DOMAIN regions' = 1 .. Len(regions')
    BY <2>2, LenProperties
  <2> QED BY <1>3, <2>1, <2>3
<1>7. \A i \in 1 .. n :
        /\ regions'[i].guest_base = image[order[i]].virtual_address
        /\ regions'[i].size = image[order[i]].memory_size
        /\ bytes'[i] = Storage(image[order[i]])
  BY <1>3, <1>5
<1>8. \A i \in 1 .. n :
        /\ RegionEnd(regions'[i]) = SegmentEnd(image[order[i]])
        /\ RegionEnd(regions'[i]) = Header(order[i]).virtual_address + Header(order[i]).memory_size
  BY <1>2, <1>3, <1>7 DEF RegionEnd, SegmentEnd
<1>9. \A i \in 1 .. n : DOMAIN bytes'[i] = 1 .. regions'[i].size
  BY <1>7 DEF Storage
<1>10. RegionsInv'
  <2>1. \A i \in 1 .. n :
          /\ regions'[i].guest_base \in Nat /\ regions'[i].size \in Nat \ {0}
          /\ RegionEnd(regions'[i]) <= AddressSpace
    BY <1>2, <1>3, <1>4, <1>7, <1>8
  <2>2. \A i, j \in 1 .. n : i < j => RegionEnd(regions'[i]) <= regions'[j].guest_base
    BY <1>4, <1>7, <1>8
  <2> QED BY <1>3, <1>6, <1>9, <2>1, <2>2 DEF RegionsInv, RegionEnd
<1> QED BY <1>2, <1>3, <1>6, <1>7, <1>8, <1>10 DEF n

\* A write keeps the regions and the size of their storage.
LEMMA WriteKeepsRegions ==
  ASSUME RegionsInv, NEW address, NEW width, NEW value, Write(address, width, value)
  PROVE  RegionsInv'
<1>1. regions' = regions
  BY DEF Write
<1>2. PICK k, new : bytes' = [bytes EXCEPT ![k] = new]
                    /\ DOMAIN new = DOMAIN bytes[k]
  <2> DEFINE i == Min(Holding(address, width))
             offset == address - regions[i].guest_base
             new == [k \in DOMAIN bytes[i] |->
                        IF k - 1 - offset \in 0 .. width - 1
                        THEN ByteOf(value, k - 1 - offset)
                        ELSE bytes[i][k]]
  <2>1. bytes' = [bytes EXCEPT ![i] = new]
    BY DEF Write
  <2>2. DOMAIN new = DOMAIN bytes[i]
    OBVIOUS
  <2> HIDE DEF i, new
  <2> QED BY <2>1, <2>2
<1>3. DOMAIN bytes' = DOMAIN bytes /\ \A i \in DOMAIN bytes : DOMAIN bytes'[i] = DOMAIN bytes[i]
  BY <1>2
<1> QED BY <1>1, <1>3 DEF RegionsInv, RegionEnd

\* Every step keeps the invariant.
LEMMA LoaderInvStep == LoaderInv /\ [LoadNext]_loaderVars => LoaderInv'
<1> SUFFICES ASSUME LoaderInv, [LoadNext]_loaderVars PROVE LoaderInv'
  OBVIOUS
<1>1. CASE RejectFile
  <2>1. file' = file /\ image' = image /\ regions' = regions /\ bytes' = bytes
    BY <1>1 DEF RejectFile, vars
  <2> QED BY <2>1, FileStays DEF LoaderInv, ImageOfFile, RegionsInv, RegionEnd
<1>2. CASE ParseFile
  <2>1. /\ file' = file /\ regions' = regions /\ bytes' = bytes
        /\ ParseError = "None"
        /\ image' = [i \in LoadHeaders |-> Segment(Header(i))]
    BY <1>2 DEF ParseFile, vars, Header
  <2>2. WellFormed
    BY <2>1, ParserDecides DEF LoaderInv
  <2>3. ImageOfFile'
    BY <2>1 DEF ImageOfFile, LoadHeaders, Segment, Header
  <2>4. RegionsInv'
    BY <2>1 DEF LoaderInv, RegionsInv, RegionEnd
  <2> QED BY <2>1, <2>2, <2>3, <2>4, FileStays DEF LoaderInv
<1>3. ASSUME MapImage PROVE LoaderInv'
  <2>1. file' = file /\ image' = image /\ image # NoImage
    BY <1>3 DEF MapImage, loader
  <2>2. PICK order \in SortedSegments(image) :
          FailBuild(image, order) \/ FailAllocation(image, order) \/ Build(image, order)
    BY <1>3 DEF MapImage
  <2>3. CASE FailBuild(image, order) \/ FailAllocation(image, order)
    <3>1. regions' = regions /\ bytes' = bytes
      BY <2>3 DEF FailBuild, FailAllocation
    <3> QED BY <2>1, <3>1, FileStays DEF LoaderInv, ImageOfFile, RegionsInv, RegionEnd
  <2>4. CASE Build(image, order)
    <3>1. RegionsInv'
      BY <2>1, <2>4, BuildKeepsRegions
    <3> QED BY <2>1, <3>1, FileStays DEF LoaderInv, ImageOfFile
  <2> QED BY <2>2, <2>3, <2>4
<1>4. ASSUME WriteMemory PROVE LoaderInv'
  <2>1. PICK address \in Address, width \in Width : \E value \in Scalar(width) :
          Write(address, width, value)
    BY <1>4 DEF WriteMemory
  <2>2. RegionsInv'
    BY <2>1, WriteKeepsRegions DEF LoaderInv
  <2>3. file' = file /\ image' = image
    BY <1>4 DEF WriteMemory, loader
  <2> QED BY <2>2, <2>3, FileStays DEF LoaderInv, ImageOfFile
<1>5. CASE UNCHANGED loaderVars
  <2>1. file' = file /\ image' = image /\ regions' = regions /\ bytes' = bytes
    BY <1>5 DEF loaderVars, loader, vars
  <2> QED BY <2>1, FileStays DEF LoaderInv, ImageOfFile, RegionsInv, RegionEnd
<1> QED BY <1>1, <1>2, <1>3, <1>4, <1>5 DEF LoadNext

\* The invariant of the loader.
THEOREM LoaderInvariance == LoadSpec => []LoaderInv
BY LoaderInvInit, LoaderInvStep, PTL DEF LoadSpec

\* What the analysis takes for mapped memory is what the program can read.
THEOREM RangesAreClassified == LoadSpec => []RangeStatusAgrees
<1>1. LoaderInv => RangeStatusAgrees
  BY RangesAgree DEF LoaderInv
<1> QED BY <1>1, LoaderInvariance, PTL

\* No build error means that what the headers ask for can be had, and the converse.
LEMMA ErrorsAreClashes ==
  ASSUME LoaderInv, image # NoImage, NEW order \in SortedSegments(image)
  PROVE  BuildError(image, order) = "None" <=> Loadable
<1> DEFINE base(i) == Header(i).virtual_address
           end(i) == Header(i).virtual_address + Header(i).memory_size
<1>1. file \in File /\ ImageOfFile
  BY DEF LoaderInv
<1>2. /\ IsElf(image) /\ Pending(image) = Wanted
      /\ \A i \in Wanted :
           /\ image[i].virtual_address = base(i) /\ SegmentEnd(image[i]) = end(i)
           /\ base(i) \in Nat /\ end(i) \in Nat /\ base(i) < end(i)
           /\ Asked(i) = base(i) .. end(i) - 1
  BY <1>1, ImageHasHeaders, AskedOf DEF SegmentEnd
<1> HIDE DEF base, end
<1>3. \A i \in Wanted : base(i) \in Asked(i) /\ end(i) - 1 \in Asked(i)
  BY <1>2
<1>4. ASSUME BuildError(image, order) = "None" PROVE Loadable
  <2>1. /\ \A i \in DOMAIN order : order[i] \in Wanted
        /\ \A s \in Wanted : \E i \in DOMAIN order : order[i] = s
        /\ DOMAIN order \subseteq Nat
    BY <1>2, OrderOfSegments
  <2>2. /\ \A i \in DOMAIN order : end(order[i]) <= AddressSpace
        /\ \A i, j \in DOMAIN order : i < j => end(order[i]) <= base(order[j])
    <3>1. /\ \A i \in DOMAIN order : SegmentEnd(image[order[i]]) <= AddressSpace
          /\ \A i, j \in DOMAIN order :
               i < j => SegmentEnd(image[order[i]]) <= image[order[j]].virtual_address
      BY <1>2, <1>4, SegmentsApart
    <3>2. \A i \in DOMAIN order : /\ SegmentEnd(image[order[i]]) = end(order[i])
                                 /\ image[order[i]].virtual_address = base(order[i])
      BY ONLY <1>2, <2>1
    <3> QED BY ONLY <3>1, <3>2
  <2>3. ASSUME NEW i \in Wanted PROVE Asked(i) \subseteq Address
    <3>1. end(i) <= AddressSpace
      BY <2>1, <2>2
    <3> QED BY <1>2, <3>1, MemoryAssumption DEF Address
  <2>4. ASSUME NEW i \in Wanted, NEW j \in Wanted, i # j PROVE Asked(i) \cap Asked(j) = {}
    <3>1. PICK k \in DOMAIN order : order[k] = i
      BY <2>1
    <3>2. PICK l \in DOMAIN order : order[l] = j
      BY <2>1
    <3>3. k < l \/ l < k
      BY <2>1, <2>4, <3>1, <3>2
    <3>4. end(i) <= base(j) \/ end(j) <= base(i)
      BY <2>2, <3>1, <3>2, <3>3
    <3> QED BY <1>2, <3>4
  <2> QED BY <2>3, <2>4 DEF Loadable
<1>5. ASSUME BuildError(image, order) # "None" PROVE ~ Loadable
  <2>1. \/ \E i \in Wanted : end(i) > AddressSpace
        \/ \E i, j \in Wanted : i # j /\ base(i) <= base(j) /\ base(j) < end(i)
    BY <1>2, <1>5, SegmentsClash
  <2>2. ASSUME NEW i \in Wanted, end(i) > AddressSpace PROVE ~ Loadable
    <3>1. end(i) - 1 \in Asked(i) /\ end(i) - 1 \notin Address
      BY <1>2, <1>3, <2>2, MemoryAssumption DEF Address
    <3> QED BY <3>1 DEF Loadable
  <2>3. ASSUME NEW i \in Wanted, NEW j \in Wanted, i # j, base(i) <= base(j), base(j) < end(i)
        PROVE  ~ Loadable
    <3>1. base(j) \in Asked(i) /\ base(j) \in Asked(j)
      BY <1>2, <1>3, <2>3
    <3> QED BY <2>3, <3>1 DEF Loadable
  <2> QED BY <2>1, <2>2, <2>3
<1> QED BY <1>4, <1>5

\* OneRegionHolds, after a step.
LEMMA OneRegionHoldsNext ==
  ASSUME NEW address \in Nat
  PROVE  (RegionsInv => \A i \in Holding(address, 1) : Min(Holding(address, 1)) = i)'
<1>1. RegionsInv => \A i \in Holding(address, 1) : Min(Holding(address, 1)) = i
  <2>1. 1 \in Nat \ {0}
    OBVIOUS
  <2> QED BY <2>1, OneRegionHolds
<1> QED BY <1>1, PTL

\* What the file puts at an address is a byte.
LEMMA FileByteType ==
  ASSUME file \in File, WellFormed, NEW i \in LoadHeaders, NEW address \in Asked(i)
  PROVE  FileByte(i, address) \in Int
<1> DEFINE h == Header(i)
           o == h.file_offset
           l == h.file_size
           t == Len(file.bytes)
           k == address - h.virtual_address
<1>1. /\ o \in Nat /\ l \in Nat /\ t \in Nat /\ h.virtual_address \in Nat
      /\ h.memory_size \in Nat /\ file.bytes \in Seq(Byte)
  BY FileTypes
<1>2. o + l <= t
  BY DEF WellFormed, Holds, Header
<1>3. FileByte(i, address) = IF k < l THEN file.bytes[o + k + 1] ELSE 0
  BY DEF FileByte, Header
<1>4. k \in Nat
  BY <1>1, AskedOf
<1> HIDE DEF h, o, l, t, k
<1>5. CASE k < l
  <2> DEFINE j == o + k + 1
  <2>1. j \in 1 .. t
    BY <1>1, <1>2, <1>4, <1>5
  <2> HIDE DEF j
  <2>2. file.bytes[j] \in Byte
    BY <1>1, <2>1 DEF t
  <2> QED BY <1>3, <1>5, <2>2, MemoryAssumption DEF j, Byte
<1>6. CASE ~ (k < l)
  BY <1>3, <1>6
<1> QED BY <1>5, <1>6

\* In a built map an address is that of a region exactly when a header asks for it, and
\* holds what the file says.
LEMMA BuiltReadsAsFile ==
  ASSUME LoaderInv, image # NoImage, NEW order \in SortedSegments(image),
         Build(image, order), NEW address \in Address
  PROVE  /\ Translates(address, 1)' <=> \E i \in Wanted : address \in Asked(i)
         /\ \A i \in Wanted : address \in Asked(i) => Read(address, 1)' = FileByte(i, address)
<1> DEFINE n == Len(regions')
           base(i) == Header(i).virtual_address
           end(i) == Header(i).virtual_address + Header(i).memory_size
<1>1. file \in File /\ ImageOfFile /\ WellFormed
  BY DEF LoaderInv
<1>2. /\ IsElf(image) /\ Pending(image) = Wanted
      /\ \A i \in Wanted :
           /\ i \in LoadHeaders
           /\ base(i) \in Nat /\ end(i) \in Nat /\ base(i) < end(i)
           /\ Asked(i) = base(i) .. end(i) - 1
  BY <1>1, ImageHasHeaders, AskedOf
<1>3. /\ RegionsInv' /\ DOMAIN order = 1 .. n
      /\ \A i \in 1 .. n :
           /\ order[i] \in Wanted
           /\ regions'[i].guest_base = base(order[i])
           /\ RegionEnd(regions'[i]) = end(order[i])
           /\ bytes'[i] = Storage(Segment(Header(order[i])))
  BY BuildKeepsRegions
<1>4. \A s \in Wanted : \E i \in 1 .. n : order[i] = s
  BY <1>2, <1>3, OrderOfSegments
<1>5. address \in Nat /\ address + 1 <= AddressSpace
  BY MemoryAssumption DEF Address
<1> DEFINE H == {i \in 1 .. n : regions'[i].guest_base <= address
                                 /\ address + 1 <= RegionEnd(regions'[i])}
<1>6. Holding(address, 1)' = H
  BY DEF Holding, RegionEnd
<1>7. \A i \in H : Min(H) = i
  <2>1. (\A i \in Holding(address, 1) : Min(Holding(address, 1)) = i)'
    <3>1. (RegionsInv => \A i \in Holding(address, 1) : Min(Holding(address, 1)) = i)'
      BY <1>5, OneRegionHoldsNext
    <3> QED BY <1>3, <3>1
  <2> QED BY <1>6, <2>1
<1>8. Translates(address, 1)' <=> H # {}
  BY <1>5, <1>6 DEF Translates
<1> HIDE DEF base, end, n
<1>9. \A i \in 1 .. n : i \in H <=> address \in Asked(order[i])
  <2> TAKE i \in 1 .. n
  <2>1. i \in H <=> base(order[i]) <= address /\ address + 1 <= end(order[i])
    BY <1>3
  <2>2. /\ base(order[i]) \in Nat /\ end(order[i]) \in Nat
        /\ Asked(order[i]) = base(order[i]) .. end(order[i]) - 1
    BY <1>2, <1>3
  <2> QED BY <1>5, <2>1, <2>2
<1>10. H # {} <=> \E i \in Wanted : address \in Asked(i)
  <2>1. H \subseteq 1 .. n
    OBVIOUS
  <2> HIDE DEF H
  <2> QED BY <1>3, <1>4, <1>9, <2>1
<1> HIDE DEF H
<1>11. ASSUME NEW i \in Wanted, address \in Asked(i)
       PROVE  Read(address, 1)' = FileByte(i, address)
  <2>1. PICK k \in 1 .. n : order[k] = i
    BY <1>4
  <2>2. k \in H
    BY <1>9, <1>11, <2>1
  <2>3. Min(Holding(address, 1)') = k
    BY <1>6, <1>7, <2>2
  <2> DEFINE byte == bytes'[k][address - regions'[k].guest_base + 1]
  <2>4. byte = FileByte(i, address)
    <3>1. bytes'[k] = Storage(Segment(Header(i))) /\ regions'[k].guest_base = Header(i).virtual_address
      BY <1>3, <2>1 DEF base
    <3> QED BY <1>1, <1>2, <1>11, <3>1, StorageOfFile
  <2>5. byte \in Int
    <3>1. FileByte(i, address) \in Int
      BY <1>1, <1>2, <1>11, FileByteType
    <3> QED BY <2>4, <3>1
  <2>6. Read(address, 1)' = byte
    <3> DEFINE place == address - regions'[k].guest_base
    <3>1. Read(address, 1)' = Weight(0) * bytes'[k][place + 1 + 0] + 0 + 0 + 0
      BY <2>3 DEF Read
    <3>2. place + 1 + 0 = place + 1
      BY <1>2, <1>3, <1>5
    <3>3. Weight(0) = 1
      BY DEF Weight
    <3> HIDE DEF place
    <3> QED BY <2>5, <3>1, <3>2, <3>3 DEF place
  <2> QED BY <2>4, <2>6
<1> QED BY <1>8, <1>10, <1>11

\* What FilesLoadAsWritten asks of a step, with the address of its last part fixed.
LoadsAsWritten ==
  /\ ParseFile => WellFormed
  /\ RejectFile => ~ WellFormed
  /\ phase = "unbuilt" /\ phase' = "failed" => (error' = "AllocationFailed" <=> Loadable)
  /\ phase = "unbuilt" /\ phase' = "built" =>
       /\ Loadable
       /\ \A address \in Address :
            /\ Translates(address, 1)' <=> \E i \in Wanted : address \in Asked(i)
            /\ \A i \in Wanted : address \in Asked(i) => Read(address, 1)' = FileByte(i, address)

\* The map leaves "unbuilt" by a step of MapImage alone.
LEMMA OnlyMapsLeave ==
  ASSUME [LoadNext]_loaderVars, phase = "unbuilt", phase' # "unbuilt"
  PROVE  /\ image # NoImage
         /\ \E order \in SortedSegments(image) :
              FailBuild(image, order) \/ FailAllocation(image, order) \/ Build(image, order)
<1>1. CASE RejectFile \/ ParseFile
  BY <1>1 DEF RejectFile, ParseFile, vars
<1>2. CASE WriteMemory
  BY <1>2 DEF WriteMemory, Write
<1>3. CASE UNCHANGED loaderVars
  BY <1>3 DEF loaderVars, vars
<1>4. CASE MapImage
  BY <1>4 DEF MapImage
<1> QED BY <1>1, <1>2, <1>3, <1>4 DEF LoadNext

\* What the parser and the map say of a file is what the file is.
LEMMA StepsLoadAsWritten == LoaderInv /\ [LoadNext]_loaderVars => LoadsAsWritten
<1> SUFFICES ASSUME LoaderInv, [LoadNext]_loaderVars PROVE LoadsAsWritten
  OBVIOUS
<1>1. (ParseFile => WellFormed) /\ (RejectFile => ~ WellFormed)
  BY ParserDecides DEF ParseFile, RejectFile, LoaderInv
<1>2. ASSUME phase = "unbuilt", phase' = "failed"
      PROVE  error' = "AllocationFailed" <=> Loadable
  <2>1. PICK order \in SortedSegments(image) :
          FailBuild(image, order) \/ FailAllocation(image, order) \/ Build(image, order)
    BY <1>2, OnlyMapsLeave
  <2>2. BuildError(image, order) = "None" <=> Loadable
    BY <1>2, <2>1, OnlyMapsLeave, ErrorsAreClashes
  <2>3. CASE FailBuild(image, order)
    BY <2>2, <2>3 DEF FailBuild, BuildError
  <2>4. CASE FailAllocation(image, order)
    BY <2>2, <2>4 DEF FailAllocation
  <2>5. CASE Build(image, order)
    BY <1>2, <2>5 DEF Build
  <2> QED BY <2>1, <2>3, <2>4, <2>5
<1>3. ASSUME phase = "unbuilt", phase' = "built"
      PROVE  /\ Loadable
             /\ \A address \in Address :
                  /\ Translates(address, 1)' <=> \E i \in Wanted : address \in Asked(i)
                  /\ \A i \in Wanted :
                       address \in Asked(i) => Read(address, 1)' = FileByte(i, address)
  <2>1. image # NoImage
    BY <1>3, OnlyMapsLeave
  <2>2. PICK order \in SortedSegments(image) :
          FailBuild(image, order) \/ FailAllocation(image, order) \/ Build(image, order)
    BY <1>3, OnlyMapsLeave
  <2>3. Build(image, order)
    BY <1>3, <2>2 DEF FailBuild, FailAllocation
  <2>4. Loadable
    BY <2>1, <2>3, ErrorsAreClashes DEF Build
  <2> QED BY <2>1, <2>3, <2>4, BuiltReadsAsFile
<1> QED BY <1>1, <1>2, <1>3 DEF LoadsAsWritten

\* Exactly the well-formed files are parsed and exactly the loadable ones mapped, and then
\* memory holds what the file says, at the addresses it names and nowhere else.
THEOREM FilesAreLoaded == LoadSpec => FilesLoadAsWritten
<1>1. ASSUME LoaderInv, [LoadNext]_loaderVars
      PROVE  [/\ ParseFile => WellFormed
              /\ RejectFile => ~ WellFormed
              /\ phase = "unbuilt" /\ phase' = "failed" =>
                   (error' = "AllocationFailed" <=> Loadable)
              /\ phase = "unbuilt" /\ phase' = "built" =>
                   /\ Loadable
                   /\ \A address \in Address :
                        LET asking == {i \in Wanted : address \in Asked(i)}
                        IN  /\ Translates(address, 1)' <=> asking # {}
                            /\ \A i \in asking :
                                 Read(address, 1)' = FileByte(i, address)]_loaderVars
  <2>1. LoadsAsWritten
    BY <1>1, StepsLoadAsWritten
  <2> QED BY <2>1 DEF LoadsAsWritten
<1> QED BY <1>1, LoaderInvariance, PTL DEF LoadSpec, FilesLoadAsWritten

\* The quotient and the remainder of a division.
LEMMA DivisionIs ==
  ASSUME NEW v \in Nat, NEW w \in Nat \ {0}
  PROVE  /\ v \div w \in Nat /\ v % w \in 0 .. w - 1
         /\ v = w * (v \div w) + (v % w)
<1>1. v \div w \in Nat
  OBVIOUS
<1>2. v % w \in 0 .. w - 1
  OBVIOUS
<1>3. v % w = v - w * (v \div w)
  OBVIOUS
<1>4. v = w * (v \div w) + (v % w)
  <2> DEFINE a == w * (v \div w)
             r == v % w
  <2>1. a \in Int /\ r \in Int
    BY <1>1, <1>2
  <2>2. r = v - a
    BY <1>3
  <2> HIDE DEF a, r
  <2>3. v = a + r
    BY <2>1, <2>2
  <2> QED BY <2>3 DEF a, r
<1> QED BY <1>1, <1>2, <1>4

\* Numbers that divide like a quotient and a remainder are those.
LEMMA DivisionIsUnique ==
  ASSUME NEW q \in Nat, NEW w \in Nat \ {0}, NEW r \in 0 .. w - 1
  PROVE  (w * q + r) % w = r
<1> DEFINE v == w * q + r
<1>1. w * q \in Nat
  OBVIOUS
<1>2. v \in Nat
  BY <1>1
<1> HIDE DEF v
<1> DEFINE p == v \div w
           s == v % w
<1>3. p \in Nat /\ s \in 0 .. w - 1 /\ v = w * p + s
  BY <1>2, DivisionIs
<1> HIDE DEF p, s
<1>4. w * q + r = w * p + s
  BY <1>3 DEF v
<1>5. p = q
  <2>1. CASE p >= q + 1
    <3>1. w * p >= w * (q + 1)
      BY <1>3, <2>1
    <3>2. w * (q + 1) = w * q + w
      OBVIOUS
    <3>3. w * p \in Nat /\ w * q \in Nat
      BY <1>3
    <3> DEFINE a == w * p
               b == w * q
    <3> HIDE DEF a, b
    <3> QED BY <1>3, <1>4, <3>1, <3>2, <3>3 DEF a, b
  <2>2. CASE q >= p + 1
    <3>1. w * q >= w * (p + 1)
      BY <1>3, <2>2
    <3>2. w * (p + 1) = w * p + w
      BY <1>3
    <3>3. w * p \in Nat /\ w * q \in Nat
      BY <1>3
    <3> QED BY <1>3, <1>4, <3>1, <3>2, <3>3
  <2> QED BY <1>3, <2>1, <2>2
<1>6. s = r
  <2>1. w * q \in Nat
    OBVIOUS
  <2> QED BY <1>3, <1>4, <1>5, <2>1
<1> QED BY <1>6 DEF s, v

\* A weight, the next weight in base b, and the digit of v between them.
IsDigit(v, w, b, u, d) == u = w * b /\ d = (v \div w) % b

\* A number up to its next digit.
LEMMA NextDigit ==
  ASSUME NEW v \in Nat, NEW w \in Nat \ {0}, NEW b \in Nat \ {0},
         NEW u, NEW d, IsDigit(v, w, b, u, d)
  PROVE  v % u = (v % w) + w * d
<1> DEFINE q == v \div w
           r == v % w
           p == q \div b
<1>0. u = w * b /\ d = q % b
  BY DEF IsDigit
<1>1. q \in Nat /\ r \in 0 .. w - 1 /\ v = w * q + r
  BY DivisionIs
<1>2. p \in Nat /\ d \in 0 .. b - 1 /\ q = b * p + d
  <2> HIDE DEF q
  <2> QED BY <1>0, <1>1, DivisionIs
<1> HIDE DEF q, r, p
<1>3. w * b \in Nat \ {0}
  OBVIOUS
<1>4. v = (w * b) * p + (w * d + r)
  BY <1>1, <1>2
<1>5. w * d + r \in 0 .. w * b - 1
  <2>1. w * (b - 1) = w * b - w
    OBVIOUS
  <2>2. w * d <= w * (b - 1) /\ w * d \in Nat /\ w * b \in Nat
    BY <1>2
  <2> QED BY <1>1, <2>1, <2>2
<1> DEFINE s == w * d + r
<1>6. u \in Nat \ {0} /\ s \in 0 .. u - 1 /\ v = u * p + s
  BY <1>0, <1>3, <1>4, <1>5
<1> HIDE DEF s
<1>7. v % u = s
  BY <1>2, <1>6, DivisionIsUnique
<1> QED BY <1>1, <1>2, <1>7 DEF s, r

\* A number is its own remainder when the divisor is larger.
LEMMA SmallRemainder ==
  ASSUME NEW v \in Nat, NEW w \in Nat \ {0}, v < w
  PROVE  v % w = v
OBVIOUS

\* Weights are positive.
LEMMA WeightType == \A i \in 0 .. 4 : Weight(i) \in Nat \ {0}
<1> DEFINE b == ByteValues
           w2 == b * b
           w3 == w2 * b
           w4 == w3 * b
<1>1. b \in Nat \ {0}
  BY MemoryAssumption
<1> HIDE DEF b
<1>2. w2 \in Nat \ {0}
  BY <1>1
<1> HIDE DEF w2
<1>3. w3 \in Nat \ {0}
  BY <1>1, <1>2
<1> HIDE DEF w3
<1>4. w4 \in Nat \ {0}
  BY <1>1, <1>3
<1>5. w3 = b * b * b /\ w4 = b * b * b * b
  BY DEF w2, w3
<1> HIDE DEF w4
<1>6. /\ Weight(0) = 1 /\ Weight(1) = b /\ Weight(2) = w2 /\ Weight(3) = w3 /\ Weight(4) = w4
  BY <1>5 DEF Weight, b, w2
<1> QED BY <1>1, <1>2, <1>3, <1>4, <1>6

\* The bytes of a scalar, put together, are the scalar.
LEMMA ScalarOfBytes ==
  ASSUME NEW width \in Width, NEW value \in Scalar(width)
  PROVE  (IF 0 < width THEN Weight(0) * ByteOf(value, 0) ELSE 0)
           + (IF 1 < width THEN Weight(1) * ByteOf(value, 1) ELSE 0)
           + (IF 2 < width THEN Weight(2) * ByteOf(value, 2) ELSE 0)
           + (IF 3 < width THEN Weight(3) * ByteOf(value, 3) ELSE 0) = value
<1> DEFINE b == ByteValues
           v == value
           w2 == b * b
           w3 == b * b * b
           w4 == b * b * b * b
           d(i) == ByteOf(value, i)
<1>1. /\ Weight(0) = 1 /\ Weight(1) = b /\ Weight(2) = w2 /\ Weight(3) = w3 /\ Weight(4) = w4
  BY DEF Weight
<1>2. b \in Nat \ {0}
  BY MemoryAssumption
<1>3. w2 \in Nat \ {0} /\ w3 \in Nat \ {0} /\ w4 \in Nat \ {0} /\ w3 = w2 * b /\ w4 = w3 * b
  <2> HIDE DEF b
  <2>1. b * b \in Nat \ {0}
    BY <1>2
  <2> HIDE DEF w2
  <2>2. w2 * b \in Nat \ {0}
    BY <1>2, <2>1 DEF w2
  <2>3. w3 = w2 * b
    BY DEF w2
  <2> HIDE DEF w3
  <2>4. w3 * b \in Nat \ {0}
    BY <1>2, <2>2, <2>3
  <2>5. w4 = w3 * b
    BY DEF w3
  <2> QED BY <2>1, <2>2, <2>3, <2>4, <2>5 DEF w2
<1>4. v \in Nat /\ v < Weight(width) /\ Weight(width) \in Nat \ {0}
  BY <1>1, <1>2, <1>3 DEF Scalar, Width
<1>5. /\ d(0) = v % b /\ d(1) = (v \div b) % b /\ d(2) = (v \div w2) % b /\ d(3) = (v \div w3) % b
  <2>1. v \div 1 = v
    BY <1>4
  <2> QED BY <1>1, <2>1 DEF ByteOf
<1>6. d(0) \in Nat /\ d(1) \in Nat /\ d(2) \in Nat /\ d(3) \in Nat
  BY <1>2, <1>3, <1>4, <1>5, DivisionIs
<1> HIDE DEF b, v, w2, w3, w4, d
<1>7. v % w2 = (v % b) + b * d(1)
  <2>1. IsDigit(v, b, b, w2, d(1))
    BY <1>5 DEF IsDigit, w2
  <2> QED BY <1>2, <1>4, <2>1, NextDigit
<1>8. v % w3 = (v % w2) + w2 * d(2)
  <2>1. IsDigit(v, w2, b, w3, d(2))
    BY <1>3, <1>5 DEF IsDigit
  <2> QED BY <1>2, <1>3, <1>4, <2>1, NextDigit
<1>9. v % w4 = (v % w3) + w3 * d(3)
  <2>1. IsDigit(v, w3, b, w4, d(3))
    BY <1>3, <1>5 DEF IsDigit
  <2> QED BY <1>2, <1>3, <1>4, <2>1, NextDigit
<1>10. b * d(1) \in Nat /\ w2 * d(2) \in Nat /\ w3 * d(3) \in Nat
  BY <1>2, <1>3, <1>6
<1>11. v % Weight(width) = v
  BY <1>4, SmallRemainder
<1> DEFINE x0 == Weight(0) * d(0)
           x1 == Weight(1) * d(1)
           x2 == Weight(2) * d(2)
           x3 == Weight(3) * d(3)
<1>12. x0 = d(0) /\ x1 = b * d(1) /\ x2 = w2 * d(2) /\ x3 = w3 * d(3)
  BY <1>1, <1>6
<1>13. x0 \in Nat /\ x1 \in Nat /\ x2 \in Nat /\ x3 \in Nat
  BY <1>6, <1>10, <1>12
<1> HIDE DEF x0, x1, x2, x3
<1>14. CASE width = 1
  <2>1. x0 = v
    BY <1>1, <1>5, <1>11, <1>12, <1>14
  <2>2. x0 + 0 + 0 + 0 = x0
    BY <1>13
  <2> QED BY <1>14, <2>1, <2>2 DEF x0, d, v
<1>15. CASE width = 2
  <2>1. x0 + x1 = v
    BY <1>1, <1>5, <1>7, <1>11, <1>12, <1>15
  <2>2. x0 + x1 + 0 + 0 = v
    BY <1>13, <2>1
  <2> QED BY <1>15, <2>2 DEF x0, x1, d, v
<1>16. CASE width = 4
  <2>1. v % w4 = v
    BY <1>1, <1>11, <1>16
  <2>2. x0 + x1 + x2 + x3 = v
    BY <1>5, <1>7, <1>8, <1>9, <1>12, <1>13, <2>1
  <2> QED BY <1>16, <2>2 DEF x0, x1, x2, x3, d, v
<1> QED BY <1>14, <1>15, <1>16 DEF Width

\* What a read finds, given the region and the place in it.
Parts(i, place, width, storage) ==
  (IF 0 < width THEN Weight(0) * storage[i][place + 1 + 0] ELSE 0)
    + (IF 1 < width THEN Weight(1) * storage[i][place + 1 + 1] ELSE 0)
    + (IF 2 < width THEN Weight(2) * storage[i][place + 1 + 2] ELSE 0)
    + (IF 3 < width THEN Weight(3) * storage[i][place + 1 + 3] ELSE 0)

\* A read is of the first region that holds it.
LEMMA ReadIsParts ==
  ASSUME NEW address, NEW width
  PROVE  Read(address, width)
           = Parts(Min(Holding(address, width)),
                   address - regions[Min(Holding(address, width))].guest_base, width, bytes)
BY DEF Read, Parts

\* ReadIsParts, after a step that keeps the regions.
LEMMA ReadIsPartsNext ==
  ASSUME NEW address, NEW width, regions' = regions
  PROVE  Read(address, width)'
           = Parts(Min(Holding(address, width)),
                   address - regions[Min(Holding(address, width))].guest_base, width, bytes')
<1>1. Holding(address, width)' = Holding(address, width)
  BY DEF Holding, RegionEnd
<1> QED BY <1>1 DEF Read, Parts

\* What a write stores, and where.
LEMMA WriteStores ==
  ASSUME RegionsInv, NEW address \in Address, NEW width \in Width, NEW value,
         Write(address, width, value),
         NEW i, i = Min(Holding(address, width)),
         NEW place, place = address - regions[i].guest_base
  PROVE  /\ regions' = regions
         /\ i \in 1 .. Len(regions) /\ place \in Nat
         /\ regions[i].guest_base \in Nat /\ regions[i].size \in Nat
         /\ place + width <= regions[i].size
         /\ \A k \in 1 .. regions[i].size :
              bytes'[i][k] = IF k - 1 - place \in 0 .. width - 1
                             THEN ByteOf(value, k - 1 - place) ELSE bytes[i][k]
         /\ \A j \in 1 .. Len(regions) : j # i => bytes'[j] = bytes[j]
<1> DEFINE H == Holding(address, width)
<1>1. H # {} /\ regions' = regions
  BY DEF Write, Translates
<1>2. H \in SUBSET (1 .. Len(regions)) /\ H \in SUBSET Nat
  BY DEF Holding, RegionsInv
<1>3. i \in H
  <2> HIDE DEF H
  <2> QED BY <1>1, <1>2, MinIsIn DEF H
<1>4. i \in 1 .. Len(regions)
  BY <1>2, <1>3
<1>5. regions[i].guest_base <= address /\ address + width <= RegionEnd(regions[i])
  BY <1>3 DEF Holding
<1>6. /\ DOMAIN bytes = 1 .. Len(regions) /\ DOMAIN bytes[i] = 1 .. regions[i].size
      /\ regions[i].guest_base \in Nat /\ regions[i].size \in Nat
  BY <1>4 DEF RegionsInv
<1> DEFINE new == [k \in DOMAIN bytes[i] |->
                     IF k - 1 - place \in 0 .. width - 1
                     THEN ByteOf(value, k - 1 - place) ELSE bytes[i][k]]
<1>7. bytes' = [bytes EXCEPT ![i] = new]
  BY DEF Write
<1>8. address \in Nat /\ width \in Nat
  BY MemoryAssumption DEF Address, Width
<1>9. place \in Nat /\ place + width <= regions[i].size
  BY <1>5, <1>6, <1>8 DEF RegionEnd
<1>10. /\ \A j \in 1 .. Len(regions) : j # i => bytes'[j] = bytes[j]
       /\ bytes'[i] = new
  <2> HIDE DEF new
  <2> QED BY <1>4, <1>6, <1>7
<1>11. \A k \in 1 .. regions[i].size :
         new[k] = IF k - 1 - place \in 0 .. width - 1
                  THEN ByteOf(value, k - 1 - place) ELSE bytes[i][k]
  BY <1>6
<1> HIDE DEF new
<1> QED BY <1>1, <1>4, <1>6, <1>9, <1>10, <1>11

\* A write is read back.
LEMMA WriteIsRead ==
  ASSUME RegionsInv, NEW address \in Address, NEW width \in Width, NEW value \in Scalar(width),
         Write(address, width, value)
  PROVE  Read(address, width)' = value
<1> DEFINE i == Min(Holding(address, width))
           place == address - regions[i].guest_base
<1>1. /\ regions' = regions /\ place \in Nat /\ regions[i].size \in Nat
      /\ place + width <= regions[i].size
      /\ \A k \in 1 .. regions[i].size :
           bytes'[i][k] = IF k - 1 - place \in 0 .. width - 1
                          THEN ByteOf(value, k - 1 - place) ELSE bytes[i][k]
  BY WriteStores
<1>2. Read(address, width)' = Parts(i, place, width, bytes')
  BY <1>1, ReadIsPartsNext
<1> HIDE DEF i, place
<1>3. ASSUME NEW k \in 0 .. 3, k < width
      PROVE  bytes'[i][place + 1 + k] = ByteOf(value, k)
  <2> DEFINE l == place + 1 + k
  <2>1. l \in 1 .. regions[i].size /\ l - 1 - place = k /\ k \in 0 .. width - 1
    BY <1>1, <1>3 DEF Width
  <2> HIDE DEF l
  <2>2. bytes'[i][l] = ByteOf(value, k)
    BY <1>1, <2>1
  <2> QED BY <2>2 DEF l
<1>4. Parts(i, place, width, bytes')
        = (IF 0 < width THEN Weight(0) * ByteOf(value, 0) ELSE 0)
            + (IF 1 < width THEN Weight(1) * ByteOf(value, 1) ELSE 0)
            + (IF 2 < width THEN Weight(2) * ByteOf(value, 2) ELSE 0)
            + (IF 3 < width THEN Weight(3) * ByteOf(value, 3) ELSE 0)
  <2> DEFINE same(k) == k < width => bytes'[i][place + 1 + k] = ByteOf(value, k)
  <2>1. same(0) /\ same(1) /\ same(2) /\ same(3)
    BY <1>3
  <2> QED BY <2>1 DEF Parts
<1> QED BY <1>2, <1>4, ScalarOfBytes

\* A write changes no byte outside of it.
LEMMA OthersAreUntouched ==
  ASSUME RegionsInv, NEW address \in Address, NEW width \in Width, NEW value,
         Write(address, width, value),
         NEW other \in Address, Translates(other, 1), other \notin address .. address + width - 1
  PROVE  Read(other, 1)' = Read(other, 1)
<1> DEFINE i == Min(Holding(address, width))
           place == address - regions[i].guest_base
           j == Min(Holding(other, 1))
           spot == other - regions[j].guest_base
<1>1. /\ regions' = regions /\ i \in 1 .. Len(regions) /\ place \in Nat
      /\ regions[i].guest_base \in Nat
      /\ regions[i].size \in Nat
      /\ \A k \in 1 .. regions[i].size :
           bytes'[i][k] = IF k - 1 - place \in 0 .. width - 1
                          THEN ByteOf(value, k - 1 - place) ELSE bytes[i][k]
      /\ \A l \in 1 .. Len(regions) : l # i => bytes'[l] = bytes[l]
  BY WriteStores
<1>2. Read(other, 1)' = Parts(j, spot, 1, bytes') /\ Read(other, 1) = Parts(j, spot, 1, bytes)
  BY <1>1, ReadIsParts, ReadIsPartsNext
<1>3. address \in Nat /\ other \in Nat /\ width \in Nat
  BY MemoryAssumption DEF Address, Width
<1>4. /\ j \in 1 .. Len(regions) /\ regions[j].guest_base <= other
      /\ other + 1 <= RegionEnd(regions[j])
      /\ regions[j].guest_base \in Nat /\ regions[j].size \in Nat
  <2> DEFINE H == Holding(other, 1)
  <2>1. H # {} /\ H \in SUBSET Nat /\ H \subseteq 1 .. Len(regions)
    BY DEF Translates, Holding, RegionsInv
  <2>2. j \in H
    <3> HIDE DEF H
    <3> QED BY <2>1, MinIsIn DEF H
  <2> QED BY <2>1, <2>2 DEF Holding, RegionsInv
<1> HIDE DEF i, j
<1>5. spot + 1 \in 1 .. regions[j].size /\ spot + 1 + 0 = spot + 1
  BY <1>3, <1>4 DEF RegionEnd
<1>6. bytes'[j][spot + 1] = bytes[j][spot + 1]
  <2>1. CASE j # i
    BY <1>1, <1>4, <2>1
  <2>2. CASE j = i
    <3> DEFINE k == spot + 1
    <3>1. k \in 1 .. regions[i].size /\ ~ (k - 1 - place \in 0 .. width - 1)
      <4>1. k - 1 - place = other - address
        BY <1>1, <1>3, <1>4, <2>2
      <4>2. ~ (other - address \in 0 .. width - 1)
        BY <1>3
      <4> QED BY <1>5, <2>2, <4>1, <4>2
    <3> HIDE DEF k, place
    <3>2. bytes'[i][k] = bytes[i][k]
      BY <1>1, <3>1
    <3> QED BY <2>2, <3>2 DEF k
  <2> QED BY <2>1, <2>2
<1> HIDE DEF spot
<1> QED BY <1>2, <1>5, <1>6 DEF Parts

\* A scalar is read back as it was written, and no other byte of the memory changes.
THEOREM ScalarsAreExact == LoadSpec => WritesAreExact
<1>1. ASSUME LoaderInv, [LoadNext]_loaderVars
      PROVE  [\A address \in Address, width \in Width : \A value \in Scalar(width) :
                Write(address, width, value) =>
                  /\ Read(address, width)' = value
                  /\ \A other \in Address :
                       Translates(other, 1) /\ other \notin address .. address + width - 1 =>
                         Read(other, 1)' = Read(other, 1)]_vars
  <2>1. RegionsInv
    BY <1>1 DEF LoaderInv
  <2> QED BY <2>1, WriteIsRead, OthersAreUntouched
<1> QED BY <1>1, LoaderInvariance, PTL DEF LoadSpec, WritesAreExact

\* The bytes of a segment of the image are bytes.
LEMMA StorageIsBytes ==
  ASSUME file \in File, WellFormed, NEW i \in LoadHeaders
  PROVE  Storage(Segment(Header(i))) \in [1 .. Header(i).memory_size -> Byte]
<1> DEFINE h == Header(i)
           p == SubSeq(file.bytes, h.file_offset + 1, h.file_offset + h.file_size)
<1>1. p \in Seq(Byte)
  <2>1. /\ h.file_offset \in Nat /\ h.file_size \in Nat /\ Len(file.bytes) \in Nat
        /\ file.bytes \in Seq(Byte) /\ h.file_offset + h.file_size <= Len(file.bytes)
    BY FileTypes DEF WellFormed, Holds, Header
  <2> DEFINE a == h.file_offset + 1
             b == h.file_offset + h.file_size
  <2>2. a \in 1 .. Len(file.bytes) + 1 /\ b \in a - 1 .. Len(file.bytes)
    BY <2>1
  <2> HIDE DEF a, b
  <2>3. \A k \in a .. b : file.bytes[k] \in Byte
    BY <2>1, <2>2
  <2>4. a \in Int /\ b \in Int
    BY <2>1, <2>2
  <2>5. SubSeq(file.bytes, a, b) \in Seq(Byte)
    BY <2>3, <2>4, SubSeqProperties
  <2> QED BY <2>5 DEF a, b
<1>2. 0 \in Byte
  BY MemoryAssumption DEF Byte
<1>3. Segment(h).payload = p /\ Segment(h).memory_size = h.memory_size
  BY DEF Segment
<1> HIDE DEF p, h
<1>4. Storage(Segment(h)) = [k \in 1 .. h.memory_size |-> IF k <= Len(p) THEN p[k] ELSE 0]
  BY <1>3 DEF Storage
<1>5. \A k \in 1 .. h.memory_size : k <= Len(p) => p[k] \in Byte
  <2> TAKE k \in 1 .. h.memory_size
  <2> SUFFICES ASSUME k <= Len(p) PROVE p[k] \in Byte
    OBVIOUS
  <2>1. k \in 1 .. Len(p)
    BY <1>1
  <2> QED BY <1>1, <2>1
<1> QED BY <1>2, <1>4, <1>5 DEF h

\* A byte of a scalar is a byte.
LEMMA ByteOfType ==
  ASSUME NEW width \in Width, NEW value \in Scalar(width), NEW i \in 0 .. 3
  PROVE  ByteOf(value, i) \in Byte
<1> DEFINE w == Weight(i)
           q == value \div w
<1>1. ByteValues \in Nat \ {0}
  BY MemoryAssumption
<1>2. w \in Nat \ {0} /\ Weight(width) \in Nat \ {0}
  BY <1>1, WeightType DEF Width
<1>3. q \in Nat
  <2>1. value \in Nat
    BY <1>2 DEF Scalar
  <2> HIDE DEF w
  <2> QED BY <1>2, <2>1, DivisionIs
<1> HIDE DEF q
<1>4. q % ByteValues \in Byte
  BY <1>1, <1>3, DivisionIs DEF Byte
<1> QED BY <1>4 DEF ByteOf, q, w

\* Storage holds bytes.
LEMMA TypesStep == LoaderInv /\ TypeOK /\ [LoadNext]_loaderVars => TypeOK'
<1> SUFFICES ASSUME LoaderInv, TypeOK, [LoadNext]_loaderVars PROVE TypeOK'
  OBVIOUS
<1>1. CASE UNCHANGED vars
  BY <1>1 DEF TypeOK, vars, RegionRange, RegionEnd
<1>2. ASSUME MapImage PROVE TypeOK'
  <2>1. image # NoImage
    BY <1>2 DEF MapImage
  <2>2. PICK order \in SortedSegments(image) :
          FailBuild(image, order) \/ FailAllocation(image, order) \/ Build(image, order)
    BY <1>2 DEF MapImage
  <2>3. CASE FailBuild(image, order) \/ FailAllocation(image, order)
    BY <2>3 DEF FailBuild, FailAllocation, BuildError, TypeOK, RegionRange, RegionEnd
  <2>4. CASE Build(image, order)
    <3> DEFINE n == Len(regions')
    <3>1. /\ RegionsInv'
          /\ \A i \in 1 .. n :
               /\ order[i] \in Wanted
               /\ bytes'[i] = Storage(Segment(Header(order[i])))
      BY <2>1, <2>4, BuildKeepsRegions
    <3>2. /\ phase' = "built" /\ error' = error
      BY <2>4 DEF Build
    <3>3. /\ n \in Nat
          /\ DOMAIN bytes' = 1 .. n
          /\ \A i \in 1 .. n :
               /\ regions'[i].guest_base \in Nat /\ regions'[i].size \in Nat \ {0}
               /\ regions'[i].guest_base + regions'[i].size <= AddressSpace
               /\ DOMAIN bytes'[i] = 1 .. regions'[i].size
      BY <3>1 DEF RegionsInv, RegionEnd
    <3>4. Len(bytes') = n
      <4>1. bytes' = [i \in DOMAIN order |-> Storage(image[order[i]])]
        BY <2>4 DEF Build
      <4>2. bytes' = [i \in 1 .. n |-> Storage(image[order[i]])]
        BY <3>3, <4>1
      <4>3. bytes' \in Seq({bytes'[i] : i \in 1 .. n})
        BY <3>3, <4>2
      <4> QED BY <3>3, <4>3, LenProperties
    <3> HIDE DEF n
    <3>5. ASSUME NEW i \in 1 .. n
          PROVE  /\ RegionRange(regions'[i]) # {} /\ RegionRange(regions'[i]) \subseteq Address
                 /\ bytes'[i] \in [1 .. regions'[i].size -> Byte]
      <4> DEFINE base == regions'[i].guest_base
                 size == regions'[i].size
      <4>1. base \in Nat /\ size \in Nat \ {0} /\ base + size <= AddressSpace
        BY <3>3
      <4>2. RegionRange(regions'[i]) = base .. (base + size) - 1
        BY DEF RegionRange, RegionEnd
      <4> HIDE DEF base, size
      <4>3. RegionRange(regions'[i]) # {} /\ RegionRange(regions'[i]) \subseteq Address
        <5>1. base \in base .. (base + size) - 1
          BY <4>1
        <5>2. base .. (base + size) - 1 \subseteq Address
          BY <4>1, MemoryAssumption DEF Address
        <5> QED BY <4>2, <5>1, <5>2
      <4>4. bytes'[i] \in [1 .. size -> Byte]
        <5> DEFINE s == Header(order[i])
        <5>1. file \in File /\ WellFormed /\ order[i] \in LoadHeaders
          BY <2>1, <3>1 DEF LoaderInv, Wanted
        <5>2. bytes'[i] \in [1 .. s.memory_size -> Byte]
          BY <3>1, <5>1, StorageIsBytes
        <5>3. DOMAIN bytes'[i] = 1 .. size
          BY <3>3 DEF size
        <5> QED BY <5>2, <5>3
      <4> QED BY <4>3, <4>4 DEF size
    <3> QED BY <3>2, <3>4, <3>5 DEF TypeOK, n, RegionRange, RegionEnd
  <2> QED BY <2>2, <2>3, <2>4
<1>3. ASSUME WriteMemory PROVE TypeOK'
  <2>1. PICK address \in Address, width \in Width : \E value \in Scalar(width) :
          Write(address, width, value)
    BY <1>3 DEF WriteMemory
  <2>2. PICK value \in Scalar(width) : Write(address, width, value)
    BY <2>1
  <2> DEFINE i == Min(Holding(address, width))
             place == address - regions[i].guest_base
             new == [k \in DOMAIN bytes[i] |->
                       IF k - 1 - place \in 0 .. width - 1
                       THEN ByteOf(value, k - 1 - place) ELSE bytes[i][k]]
  <2>3. bytes' = [bytes EXCEPT ![i] = new] /\ UNCHANGED <<phase, error, regions>>
    BY <2>2 DEF Write
  <2>4. RegionsInv
    BY DEF LoaderInv
  <2>5. i \in 1 .. Len(regions) /\ place \in Nat
    BY <2>2, <2>4, WriteStores
  <2>6. bytes[i] \in [1 .. regions[i].size -> Byte] /\ regions[i].size \in Nat
    BY <2>4, <2>5 DEF TypeOK, RegionsInv
  <2> HIDE DEF place, i
  <2>7. new \in [1 .. regions[i].size -> Byte]
    <3>1. ASSUME NEW k \in 1 .. regions[i].size, k - 1 - place \in 0 .. width - 1
          PROVE  ByteOf(value, k - 1 - place) \in Byte
      <4> DEFINE j == k - 1 - place
      <4>1. j \in 0 .. 3
        BY <3>1 DEF Width
      <4> HIDE DEF j
      <4>2. ByteOf(value, j) \in Byte
        BY <4>1, ByteOfType
      <4> QED BY <4>2 DEF j
    <3> QED BY <2>6, <3>1
  <2> HIDE DEF new
  <2>8. /\ DOMAIN bytes' = 1 .. Len(regions)
        /\ \A j \in 1 .. Len(regions) : bytes'[j] = IF j = i THEN new ELSE bytes[j]
        /\ DOMAIN bytes = 1 .. Len(regions) /\ Len(regions) \in Nat
    BY <2>3, <2>4, <2>5 DEF RegionsInv
  <2>9. Len(bytes') = Len(bytes)
    <3>1. Len(bytes) = Len(regions)
      BY DEF TypeOK
    <3>2. bytes' = [j \in 1 .. Len(regions) |-> bytes'[j]]
      BY <2>3, <2>8
    <3>3. bytes' \in Seq({bytes'[j] : j \in 1 .. Len(regions)})
      BY <2>8, <3>2
    <3> QED BY <2>8, <3>1, <3>3, LenProperties
  <2> QED BY <2>3, <2>5, <2>7, <2>8, <2>9 DEF TypeOK, RegionRange, RegionEnd
<1>4. CASE RejectFile \/ ParseFile
  BY <1>1, <1>4 DEF RejectFile, ParseFile
<1>5. CASE UNCHANGED loaderVars
  BY <1>1, <1>5 DEF loaderVars
<1> QED BY <1>2, <1>3, <1>4, <1>5 DEF LoadNext

\* The map stays within its types: no region is empty or leaves the address space, and
\* each address of a region has one byte of storage.
THEOREM TypeCorrectness == LoadSpec => []TypeOK
<1>1. LoadInit => TypeOK
  BY DEF LoadInit, Init, TypeOK
<1> QED BY <1>1, TypesStep, LoaderInvariance, PTL DEF LoadSpec
=============================================================================
