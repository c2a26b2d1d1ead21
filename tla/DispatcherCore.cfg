SPECIFICATION Spec
CONSTANTS
  AddressSpace = 20
  JumpRegion = 20
  PageStatus <- MCHolePages
  max_instructions = 2
  require_executable = TRUE
  NoTarget = NoTarget
  NoBlock = NoBlock
  Word <- MCWords
  StartPc = {16, 2}
  Budget = {1, 2}
  Fingerprint <- MCFingerprint
  NoEntry = NoEntry
  NoCandidate = NoCandidate
  NoBoundary = NoBoundary
INVARIANTS
  CacheSound
  ResumePoint
  Accounting
PROPERTIES
  ExecutesCurrentWords
  HonestStop
  FailedCandidateIsAtomic
