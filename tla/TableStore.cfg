SPECIFICATION Spec
CONSTANTS
  Keys = {1, 2, b}
  Odd = {b}
  Values = {x, y}
  Null = Null
  b = b
  x = x
  y = y
  Sizes = {0, 1, 2}
  InitLen = 1
  LenMod = 4
  MaxCells = 2
INVARIANTS InBounds FreeIsEmpty KeysUnique CountExact SlotIsFound
PROPERTY ImplementsMap
