CONSTANTS
  Lexicon <- MCLexicon
  Number <- MCNumber
  Sources <- Every
SPECIFICATION Spec
INVARIANTS TypeOK LabelsPerFile StatesNested
PROPERTIES SkippedHasNoEffect EventuallyStops
