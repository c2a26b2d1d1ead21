SPECIFICATION Spec
CONSTANTS
  AddressSpace = 16
  JumpRegion = 16
  PageStatus <- MCFullPages
  max_instructions = 2
  require_executable = TRUE
  NoTarget = NoTarget
  NoBlock = NoBlock
  Word <- MCWords
  StartPc = {0}
  Budget = {1}
  Fingerprint <- MCFingerprint
  NoEntry = NoEntry
  NoCandidate = NoCandidate
  NoBoundary = NoBoundary
INVARIANT
  StopsWhereProgressStopped
