SPECIFICATION FairSpec
CONSTANTS
  Procs = {p1, p2}
  initproc = p1
  Blocks = {b1, b2, b3}
  Values = {v1, v2}
  Torn = Torn
  None = None
  MAXOPBLOCKS = 2
  LOGSIZE = 4
  size = 4
  OpBlocks = 1
INVARIANTS
  CommitExclusive
  ReservationSuffices
  PinsMatchLog
PROPERTIES
  CrashAtomic
  Recovers
