SPECIFICATION Spec
CONSTANTS
  Procs = {p1, p2}
  CPUs = {h0, h1}
  None = None
  hart0 = h0
  TicksMod = 2
  N = 1
CONSTRAINT Few
SYMMETRY Symmetry
INVARIANTS
  TrapReturns
  LocksMasked
PROPERTY OwnCause
