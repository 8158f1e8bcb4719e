SPECIFICATION CarefulSpec
CONSTANTS
  Vars = {g, l}
  Texts = {e, a, b}
  Empty = e
  Null = Null
  e = e
  a = a
  b = b
  g = g
  l = l
  NumLits = 2
  FirstLen = 2
  MaxLen = 4
  RcLimit = 4
  RcMod = 5
  GcBound = 2
  TempBound = 2
INVARIANTS StrRefcountExact FreedIsEmpty
PROPERTY ImplementsValues
