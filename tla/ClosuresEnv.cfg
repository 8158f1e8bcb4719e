\* As Closures.cfg, with run_gc between any two statements.
SPECIFICATION Spec
CONSTANTS
  Vars = {v, w}
  Lambdas = {f}
  Plain = {p}
  Null = Null
  NoEnv = NoEnv
  NoFun = NoFun
  NumTables = 2
  FirstLen = 1
  MaxLen = 4
  RcLimit = 3
  MaxDepth = 3
  MaxCount = 2
INVARIANT EnvAlive
