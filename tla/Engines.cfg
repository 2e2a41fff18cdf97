SPECIFICATION Spec
CONSTANTS
  Sources <- MCSources
  Scripts <- MCScripts
  Thresholds = {1, 4}
  kStackMax = 64
  kFramesMax = 8
  ByteSize = 256
  ClockReadings = {1}
INVARIANT EnginesAgree
CHECK_DEADLOCK FALSE
