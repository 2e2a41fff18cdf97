SPECIFICATION Spec
CONSTANTS
  MaxArguments = 2
  Vocabularies <- MCVocabularies
  Listed <- MCListed
INVARIANTS AcceptsGrammar TreeIsTheText SemicolonsSeparate ErrorsInOrder RoundsAdvance
CHECK_DEADLOCK FALSE
