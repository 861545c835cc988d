SPECIFICATION Spec
CONSTANTS
  Procs = {p1, p2}
  None = None
  Names = {a, b}
  Dot = Dot
  DotDot = DotDot
  NINODES = 3
  MaxPath = 2
  MaxLinks = 2
SYMMETRY Symmetry
CHECK_DEADLOCK FALSE
INVARIANTS
  TreeExact
  NoWaitCycle
