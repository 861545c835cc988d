CONSTANTS
  Procs = {p1, p2}
  intr = intr
  None = None
  INPUT_BUF = 2
  UINT = 4
  UART_TX_BUF_SIZE = 2
  UINT64 = 4
  Bytes = {b1, b2}
  MaxN = 2
  MaxRx = 1
SPECIFICATION Spec
CONSTRAINT Few
SYMMETRY Symmetry
INVARIANT NobodyStuck
PROPERTY IsTerminal
