SPECIFICATION FairSpec
CONSTANTS
  AddressSpace = 16
  JumpRegion = 16
  PageStatus <- MCDataPages
  max_instructions = 2
  require_executable = FALSE
  NoTarget = NoTarget
  NoBlock = NoBlock
  Word <- MCFewWords
  StartPc = {8, 2}
  Budget = {3}
  Fingerprint <- MCFingerprint
  NoEntry = NoEntry
  NoCandidate = NoCandidate
  NoBoundary = NoBoundary
PROPERTIES
  ImplementsStraightLineExecution
  EveryRunReturns
