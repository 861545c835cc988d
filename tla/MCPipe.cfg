CONSTANTS
  Procs = {p1, p2, p3}
  creator = p1
  Bytes = {b1, b2}
  None = None
  PIPESIZE = 2
  UINT = 4
  NOFILE = 2
  Counts = {0, 2}
  Killable = {p1}
SPECIFICATION Spec
SYMMETRY Symmetry
CHECK_DEADLOCK FALSE
INVARIANTS
  FreedLast
  NoLostWakeup
PROPERTIES
  ZeroRead
  PipeIsFifo
