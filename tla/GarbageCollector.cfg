SPECIFICATION Spec
CONSTANTS
  MaxObjects = 3
  Threshold = 1
  MaxPerInstr = 2
  MaxCollections = 2
INVARIANTS
  TypeOK
  NoDanglingPointer
  TriColor
  MarksReset
  ListThreadsLive
  CountersAgree
  AllocationsBounded
  NothingLeaks
  Inductive
PROPERTIES
  CollectionIsExact
  ImplementsHeap
  CollectionTerminates
CHECK_DEADLOCK FALSE
