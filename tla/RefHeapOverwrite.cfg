\* Two tables with two fields and a metatable link, a global and a local.
SPECIFICATION AnySetSpec
CONSTANTS
  NumTables = 2
  NumKeys   = 2
  Vars      = {g, l}
  Locals    = {l}
  RcLimit   = 3
  RcMod     = 4
  GcFirst   = 1
  GcBound   = 1
  Num       = Num
  Null      = Null
INVARIANT StoredValueAlive
