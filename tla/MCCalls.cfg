CONSTANTS
  a = a
  b = b
  d1 = d1
  d2 = d2
  Person = {a, b}
  Device = {d1, d2}
  Owners <- OwnersHere
  MaxCalls = 2
  MaxMoves = 3
  MaxLost = 1
  MaxReaped = 1
SPECIFICATION Spec
INVARIANTS NobodyLeftBehind
PROPERTIES LearnsItIsOut
CHECK_DEADLOCK FALSE
