CONSTANTS
  p = p
  q = q
  Root = Root
  Unnamed = Unnamed
  Name <- Names
  LabelLists <- MCLabelLists
  NameLists <- MCNameLists
  MaxScopes = 4
  MaxElements = 5
SPECIFICATION Spec
INVARIANTS TypeOK TreeShape OneExplicit ProceduresKnown ListedOnce
PROPERTIES DeclaredOrReported BlocksNest
CHECK_DEADLOCK FALSE
