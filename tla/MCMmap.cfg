SPECIFICATION Spec
CONSTANTS
  Procs = {p1, p2}
  first = p1
  Files = {f1}
  Writable = {f1}
  None = None
  NVMA = 2
  TRAPFRAME = 3
  InitSz = 1
  FileSize = 0
  MAXFILE = 1
  Requests <- Mixed
  MaxSz = 2
CONSTRAINT Few
INVARIANTS
  SpaceSound
  PagesGoHome
  RefsExact
  PrivateStays
PROPERTY WriteBack
