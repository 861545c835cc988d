SPECIFICATION Spec
CONSTANTS
  Procs = {p1, p2}
  Names = {a, b}
  Inums = {i1, i2}
  None = None
  NINODE = 2
  NOFILE = 1
  MaxCrashes = 1
SYMMETRY Symmetry
CHECK_DEADLOCK FALSE
INVARIANTS
  RefsExact
  LinksExact
  NoCycle
PROPERTY OnlyDropLoses
