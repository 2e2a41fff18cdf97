SPECIFICATION Spec
CONSTANTS
  ByteMax = 255
  Statements <- SuperStatements
  MaxStatements = 2
  MaxWraps = 1
INVARIANT SuperIsCaptured
CHECK_DEADLOCK FALSE
