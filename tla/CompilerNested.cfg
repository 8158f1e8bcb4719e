SPECIFICATION Spec
CONSTANTS
  Corpus <- NestedOnTheRight
  FirstTables = 1
  FirstStrs = 16
  FirstFuns = 8
  RcLimit = 250
INVARIANT
  OutputIsExpected
