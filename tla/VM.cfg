SPECIFICATION Spec
CONSTANTS
  Scripts <- MCScripts
  Thresholds = {1, 2, 3, 5, 100}
  kStackMax = 64
  kFramesMax = 8
  ByteSize = 256
  ClockReadings = {1}
INVARIANTS TypeOK PointersValid OpenUpvaluesExact FramesNested OperandsHaveVariant CleanExit
PROPERTIES HeapDiscipline Terminates
CHECK_DEADLOCK FALSE
