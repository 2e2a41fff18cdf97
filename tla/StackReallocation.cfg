SPECIFICATION Spec
CONSTANTS
  Scripts <- MCScripts
  Thresholds = {100}
  kStackMax = 16
  kFramesMax = 8
  ByteSize = 256
  ClockReadings = {1}
INVARIANT StackNeverReallocated
CHECK_DEADLOCK FALSE
