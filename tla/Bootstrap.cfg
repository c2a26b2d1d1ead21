SPECIFICATION FairBootSpec
CONSTANTS
  Period = 3
  SpinThreshold = 1
  StartTime = {0}
  MaxTime = 12
  QueueSize = 2
INVARIANTS
  OnTimeline
  NoFrameWithoutWindow
  ExitsAreClean
PROPERTIES
  OneFramePerSlot
  WaitReturns
  CloseEndsTheLoop
CHECK_DEADLOCK FALSE
