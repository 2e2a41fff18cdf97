SPECIFICATION Spec
CONSTANTS
  MaxDouble = 999
  MinInverse = 100
  Alphabets <- MCAlphabets
INVARIANTS RejectsExactly LinesCounted LayoutIsIrrelevant
PROPERTY LongestMatch
CHECK_DEADLOCK FALSE
