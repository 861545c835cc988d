CONSTANTS
  Procs = {p1, p2}
  init = p1
  None = None
  NPAGES = 18
  PGSIZE = 2
  NPTE = 4
  UINT = 16
  MaxN = 3
  MaxSz = 5
  MaxArg = 1
  MaxPipes = 2
SPECIFICATION Spec
INVARIANTS
  PagesConserved
  CopyExact
