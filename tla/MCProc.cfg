SPECIFICATION Spec
CONSTANTS
  initproc = p1
  Slots = {p1, p2, p3, p4}
  CPUs = {c1, c2}
  None = None
  MaxPid = 4
  KillPids = {0, 2}
SYMMETRY Symmetry
INVARIANTS
  OneStack
  SchedLocks
  WaiterMustWait
PROPERTY FamilyKept
