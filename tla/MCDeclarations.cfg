CONSTANTS
  price = price
  size = size
  Vocabularies <- MCVocabularies
SPECIFICATION Spec
INVARIANTS TypeOK AttributesRight ContradictionsFound ConflictsJustified StructuresRight NamesUnique
CHECK_DEADLOCK FALSE
