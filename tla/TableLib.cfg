\* An object and a class; three keys, the first of which can be inherited.
CONSTANTS
  Objects = {o}
  Classes = {c}
  ClassKeys = {1}
  Null = Null
  MaxIndex = 3
  NumVals = 2
  MaxCells = 4
SPECIFICATION Spec

INVARIANT LoopsExact
PROPERTIES ArrayOrder WritesStayBelow
