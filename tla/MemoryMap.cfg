SPECIFICATION LoadSpec
CONSTANTS
  AddressSpace = 7
  ByteValues = 2
  HeaderSize = 2
  ProgramHeaderSize = 1
  NoImage = NoImage
  File <- MCFile
INVARIANTS
  RangeStatusAgrees
PROPERTIES
  FilesLoadAsWritten
  WritesAreExact
CHECK_DEADLOCK FALSE
