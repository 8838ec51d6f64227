SPECIFICATION Spec
CONSTANTS
  a = a
  b = b
  p = p
  Timer = {a, b, p}
  Periodic = {p}
  TickMax = 7
  Delay = {0, 1, 2}
INVARIANT ListSound
INVARIANT Punctual
INVARIANT ListInOrder
