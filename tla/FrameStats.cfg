SPECIFICATION StatsSpec
CONSTANTS
  kWindowSize = 4
  Sample <- MCSample
PROPERTIES
  ImplementsFrameWindow
