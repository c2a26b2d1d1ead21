SPECIFICATION FairSpec
CONSTANTS
  AddressSpace = 20
  JumpRegion = 20
  PageStatus <- MCHolePages
  max_instructions = 3
  require_executable = TRUE
  NoTarget = NoTarget
  NoBlock = NoBlock
  NoBlockPc = NoBlockPc
  Word <- MCWords
  EntryPc = {12, 2}
  BlockLimit = {0, 3, 5}
INVARIANTS
  ExactlyReachable
  TruncationIsReported
  EvidenceIsComplete
  NearestFirst
  OverlapsAreReported
  UnknownWordsAreListed
  CallSitesAreCounted
  ReportIsCanonical
PROPERTIES
  AnalysisEnds
CHECK_DEADLOCK FALSE
