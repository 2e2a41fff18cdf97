SPECIFICATION Spec
CONSTANTS
  Sources <- LateSources
  Scripts <- LateScripts
  Thresholds = {4}
  kStackMax = 64
  kFramesMax = 8
  ByteSize = 256
  ClockReadings = {1}
INVARIANTS ScopingIsLexical
CHECK_DEADLOCK FALSE
