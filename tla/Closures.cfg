\* One closure, one plain function and two variables; the arena doubles twice.
SPECIFICATION CarefulSpec
CONSTANTS
  Vars = {v, w}
  Lambdas = {f}
  Plain = {p}
  Null = Null
  NoEnv = NoEnv
  NoFun = NoFun
  NumTables = 2
  FirstLen = 1
  MaxLen = 4
  RcLimit = 3
  MaxDepth = 3
  MaxCount = 2
INVARIANTS
  FunsUnique
  EnvCountExact
PROPERTIES
  ImplementsClosures
