CONSTANTS
  a1 = a1
  a2 = a2
  x = x
  y = y
  Array = {a1, a2}
  Item = {x, y}
  Null = Null
  Garbage = Garbage
  InitialCapacity = 1
  MaxItems = 3
SPECIFICATION Spec
INVARIANTS TypeOK
PROPERTIES IsVector
