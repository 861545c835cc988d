SPECIFICATION Spec
CONSTANTS
  Procs = {p1, p2}
  Inodes = {i1, i2}
  None = None
  NBLOCKS = 5
  BSIZE = 2
  NDIRECT = 1
  NINDIRECT = 3
  MAXOPBLOCKS = 6
  Counts = {3, 7}
  MaxCalls = 4
SYMMETRY Symmetry
INVARIANTS
  BlocksExact
  OperationFits
  OffsetHeld
CHECK_DEADLOCK FALSE
