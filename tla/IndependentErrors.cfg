SPECIFICATION Spec
CONSTANTS
  MaxArguments = 2
  Vocabularies <- KeywordVocabularies
  Listed = {}
INVARIANT IndependentErrorsSurface
CHECK_DEADLOCK FALSE
