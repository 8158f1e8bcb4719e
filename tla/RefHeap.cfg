\* Two tables with two fields and a metatable link, a global and a local.
SPECIFICATION FairSpec
CONSTANTS
  NumTables = 2
  NumKeys   = 2
  Vars      = {g, l}
  Locals    = {l}
  RcLimit   = 2
  RcMod     = 3
  GcFirst   = 2
  GcBound   = 2
  Num       = Num
  Null      = Null
INVARIANTS
  TypeOK
  RefcountExact
  NoDangling
  UsedExact
  GcDense
  OwnedWhenQuiet
  OnlyLimitAborts
PROPERTIES
  GcLeavesNothing
  SweepTouchesOnlyGarbage
  Settles
  ZeroIsReclaimed
  ImplementsObjects
