SPECIFICATION Spec
CONSTANTS
  ByteMax = 4
  Statements <- MCStatements
  MaxStatements = 2
  MaxWraps = 2
INVARIANTS OperandsInRange StackBalanced LimitsExact
CHECK_DEADLOCK FALSE
