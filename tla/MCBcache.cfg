SPECIFICATION Spec
CONSTANTS
  Procs = {p1, p2, p3}
  Bufs = {u1, u2, u3}
  Block = {b1, b2, b3, b4}
  Vals = {v0, v1}
  zero = v0
  None = None
  MaxPins = 1
SYMMETRY Symmetry
INVARIANT RefsExact
PROPERTY ImplementsBlocks
