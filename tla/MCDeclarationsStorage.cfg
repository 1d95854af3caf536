CONSTANTS
  price = price
  size = size
  Vocabularies <- MCVocabularies
SPECIFICATION Spec
INVARIANT StorageKept
CHECK_DEADLOCK FALSE
