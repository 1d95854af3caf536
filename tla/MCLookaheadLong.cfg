CONSTANTS
  Token <- FewTokens
  MaxTokens = 6
SPECIFICATION Spec
PROPERTIES AssignmentNotKeyword DeliversInOrder EverythingDelivered
