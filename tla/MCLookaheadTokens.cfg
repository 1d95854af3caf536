CONSTANTS
  Token <- AllTokens
  MaxTokens = 5
SPECIFICATION Spec
INVARIANTS TypeOK QueueInOrder HeadOpened OneStatement
PROPERTIES KeywordInContext
