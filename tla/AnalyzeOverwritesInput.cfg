SPECIFICATION Spec
CONSTANTS
  Numeral <- MCNumeral
  MaxArgs = 4
  Bogus = "--bogus"
  InitialFiles <- MCInitialFiles
  Interval = {25, 26, 31}
  kTargetHz = 6
  DefaultSeconds = 1
  SizeMax = 11
INVARIANT
  SuppliedElfIsNotModified
CHECK_DEADLOCK FALSE
