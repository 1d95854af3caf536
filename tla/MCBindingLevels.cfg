CONSTANTS
  Variable <- MCVariable
  Externals <- MCExternals
  ArgumentLists <- MCArgumentLists
  ParameterLists <- MCParameterLists
  Predefined <- MCPredefined
  MaxGlobals = 2
  MaxCalls = 7
SPECIFICATION Spec
INVARIANTS TypeOK TreeIsMeaning LevelsBalanced ContextsRight
CHECK_DEADLOCK FALSE
