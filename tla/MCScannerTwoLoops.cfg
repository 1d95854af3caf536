CONSTANTS
  Lexicon <- MCLexicon
  Number <- MCNumber
  Sources <- TwoLoops
SPECIFICATION Spec
PROPERTY LoopCleansUp
