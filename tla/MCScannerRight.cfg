CONSTANTS
  Lexicon <- MCLexicon
  Number <- MCNumber
  Sources <- Right
SPECIFICATION Spec
INVARIANTS OutputIsMeaning
PROPERTIES DeliversInOrder
