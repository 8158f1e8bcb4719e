SPECIFICATION Spec
CONSTANTS
  Corpus <- AllPrograms
  FirstTables = 1
  FirstStrs = 16
  FirstFuns = 8
  RcLimit = 250
INVARIANTS
  OutputIsExpected
  Declared
  CountsExact
  Reclaimed
PROPERTY
  Terminates
