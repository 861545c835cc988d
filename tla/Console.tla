------------------------------ MODULE Console -------------------------------
(***************************************************************************)
(* The console: consoleread, consolewrite and consoleintr of console.c,    *)
(* uart.c's transmit ring and interrupt handler, and the claim and         *)
(* completion of the UART's interrupt at the PLIC.                         *)
(*                                                                         *)
(* The actors are processes and the interrupt handler, which runs on one   *)
(* CPU at a time because the PLIC gives out an interrupt that was claimed  *)
(* only after its completion.  The device's FIFOs are external.            *)
(***************************************************************************)
EXTENDS Naturals, Sequences

CONSTANTS
  Procs, intr,        \* processes; the interrupt handler
  None,
  INPUT_BUF, UINT,    \* cons.buf's size, modulus of its indices
  UART_TX_BUF_SIZE, UINT64,
  Bytes,              \* what is written
  MaxN,               \* most bytes of a read or a write
  MaxRx               \* typed characters the device holds

Actors == Procs \cup {intr}
Keys   == {"x", "\n", "\r", "^D", "^H", "^U", "^P", "nul"}

ASSUME ConsoleAssumption ==
  /\ intr \notin Procs /\ None \notin Actors \cup Bytes
  /\ {INPUT_BUF, UART_TX_BUF_SIZE} \subseteq Nat \ {0}
  /\ UINT % INPUT_BUF = 0 /\ UINT > INPUT_BUF
  /\ UINT64 % UART_TX_BUF_SIZE = 0 /\ UINT64 > UART_TX_BUF_SIZE
  /\ {UINT, UINT64, MaxN, MaxRx} \subseteq Nat

VARIABLES
  buf, r, w, e,       \* cons; its lock
  cons_lock,
  tx_buf, tx_w, tx_r, tx_lock,
  pc, n, some,        \* of each actor; what is left to read or write, whether
                      \* something was read (n < target)
  c,                  \* the character the handler works on
  rx, thr,            \* the device: how much is in its two FIFOs
  pending             \* the PLIC has an interrupt of the UART

cons == <<buf, r, w, e>>
uart == <<tx_buf, tx_w, tx_r>>
dev  == <<rx, thr, pending>>
vars == <<cons, cons_lock, uart, tx_lock, pc, n, some, c, dev>>

Init ==
  /\ buf = [i \in 0 .. (INPUT_BUF - 1) |-> "nul"] /\ r = 0 /\ w = 0 /\ e = 0
  /\ cons_lock = None
  /\ tx_buf = [i \in 0 .. (UART_TX_BUF_SIZE - 1) |-> None] /\ tx_w = 0 /\ tx_r = 0
  /\ tx_lock = None
  /\ pc = [a \in Actors |-> IF a = intr THEN "idle" ELSE "user"]
  /\ n = [a \in Actors |-> 0] /\ some = [p \in Procs |-> FALSE]
  /\ c = None
  /\ rx = 0 /\ thr = 0 /\ pending = FALSE

Goto(a, l) == pc' = [pc EXCEPT ![a] = l]
Woken == [rsleep |-> "rwoken", wsleep |-> "wwoken"]
\* pc after wakeup of the processes asleep at l
Wakeup(l) == [a \in Actors |-> IF pc[a] = l THEN Woken[l] ELSE pc[a]]

----------------------------------------------------------------------------
(* Reading                                                                  *)

consoleread(p) ==
  /\ pc[p] = "user" /\ cons_lock = None
  /\ cons_lock' = p
  /\ \E k \in 0 .. MaxN : n' = [n EXCEPT ![p] = k]
  /\ Goto(p, "read")
  /\ UNCHANGED <<cons, uart, tx_lock, some, c, dev>>

read_return(p) ==
  /\ cons_lock' = None
  /\ n' = [n EXCEPT ![p] = 0] /\ some' = [some EXCEPT ![p] = FALSE]
  /\ Goto(p, "user")

\* A turn of consoleread's loop; a copy that fails ends it too.
read_turn(p) ==
  LET ch == buf[r % INPUT_BUF] IN
  /\ pc[p] = "read"
  /\ \/ n[p] = 0 /\ read_return(p) /\ UNCHANGED r
     \/ /\ n[p] > 0 /\ r = w
        /\ \/ read_return(p)                                     \* killed
           \/ cons_lock' = None /\ Goto(p, "rsleep") /\ UNCHANGED <<n, some>>
        /\ UNCHANGED r
     \/ /\ n[p] > 0 /\ r # w /\ ch = "^D"
        /\ r' = IF some[p] THEN r ELSE (r + 1) % UINT
        /\ read_return(p)
     \/ /\ n[p] > 0 /\ r # w /\ ch # "^D"
        /\ r' = (r + 1) % UINT
        /\ \/ read_return(p)
           \/ /\ ch # "\n" /\ n' = [n EXCEPT ![p] = @ - 1]
              /\ some' = [some EXCEPT ![p] = TRUE]
              /\ UNCHANGED <<cons_lock, pc>>
  /\ UNCHANGED <<buf, w, e, uart, tx_lock, c, dev>>

\* The end of sleep() takes the lock again.
read_woken(p) ==
  /\ pc[p] = "rwoken" /\ cons_lock = None
  /\ cons_lock' = p
  /\ Goto(p, "read")
  /\ UNCHANGED <<cons, uart, tx_lock, n, some, c, dev>>

----------------------------------------------------------------------------
(* Writing                                                                  *)

consolewrite(p) ==
  /\ pc[p] = "user"
  /\ \E k \in 1 .. MaxN : n' = [n EXCEPT ![p] = k]
  /\ Goto(p, "write")
  /\ UNCHANGED <<cons, cons_lock, uart, tx_lock, some, c, dev>>

\* The address is bad.
write_fails(p) ==
  /\ pc[p] = "write"
  /\ n' = [n EXCEPT ![p] = 0]
  /\ Goto(p, "user")
  /\ UNCHANGED <<cons, cons_lock, uart, tx_lock, some, c, dev>>

Full == tx_w = (tx_r + UART_TX_BUF_SIZE) % UINT64

\* uartputc, from the start or from its sleep
uartputc(p) ==
  /\ pc[p] \in {"write", "wwoken"} /\ tx_lock = None
  /\ \/ Full /\ Goto(p, "wsleep") /\ UNCHANGED <<tx_buf, tx_w, tx_lock>>
     \/ /\ ~Full
        /\ \E b \in Bytes : tx_buf' = [tx_buf EXCEPT ![tx_w % UART_TX_BUF_SIZE] = b]
        /\ tx_w' = (tx_w + 1) % UINT64
        /\ tx_lock' = p
        /\ Goto(p, "start")
  /\ UNCHANGED <<cons, cons_lock, tx_r, n, some, c, dev>>

\* Where a goes on after uartstart; for the handler, plic_complete.
Started(a) == IF a = intr THEN "idle" ELSE IF n[a] = 1 THEN "user" ELSE "write"

\* Mutant: a writer that waits for room is not told.
uartstart_NoWakeup(a) ==
  /\ pc[a] = "start"
  /\ IF tx_w = tx_r \/ thr > 0
     THEN /\ tx_lock' = None /\ Goto(a, Started(a))
          /\ n' = [n EXCEPT ![a] = IF a = intr THEN 0 ELSE @ - 1]
          /\ UNCHANGED tx_r
     ELSE /\ tx_r' = (tx_r + 1) % UINT64
          /\ Goto(a, "thr")
          /\ UNCHANGED <<tx_lock, n>>
  /\ UNCHANGED <<cons, cons_lock, tx_buf, tx_w, some, c, dev>>

\* A turn of uartstart's loop: LSR_TX_IDLE is set when the FIFO is empty.
uartstart(a) ==
  /\ pc[a] = "start"
  /\ IF tx_w = tx_r \/ thr > 0
     THEN /\ tx_lock' = None /\ Goto(a, Started(a))
          /\ n' = [n EXCEPT ![a] = IF a = intr THEN 0 ELSE @ - 1]
          /\ UNCHANGED tx_r
     ELSE /\ tx_r' = (tx_r + 1) % UINT64
          /\ pc' = [Wakeup("wsleep") EXCEPT ![a] = "thr"]
          /\ UNCHANGED <<tx_lock, n>>
  /\ UNCHANGED <<cons, cons_lock, tx_buf, tx_w, some, c, dev>>

uartstart_thr(a) ==
  /\ pc[a] = "thr"
  /\ thr' = thr + 1
  /\ Goto(a, "start")
  /\ UNCHANGED <<cons, cons_lock, uart, tx_lock, n, some, c, rx, pending>>

----------------------------------------------------------------------------
(* The interrupt handler                                                    *)

plic_claim ==
  /\ pc[intr] = "idle" /\ pending
  /\ pending' = FALSE
  /\ Goto(intr, "getc")
  /\ UNCHANGED <<cons, cons_lock, uart, tx_lock, n, some, c, rx, thr>>

\* A turn of uartintr's loop, up to consoleintr's acquire; or its end.
uartintr ==
  /\ pc[intr] = "getc"
  /\ IF rx > 0
     THEN /\ cons_lock = None /\ cons_lock' = intr
          /\ c' \in Keys /\ rx' = rx - 1
          /\ Goto(intr, "consoleintr")
          /\ UNCHANGED tx_lock
     ELSE /\ tx_lock = None /\ tx_lock' = intr
          /\ Goto(intr, "start")
          /\ UNCHANGED <<cons_lock, c, rx>>
  /\ UNCHANGED <<cons, uart, n, some, thr, pending>>

\* Mutant: one too many.
Room_OffByOne == (e + UINT - r) % UINT <= INPUT_BUF

Room == (e + UINT - r) % UINT < INPUT_BUF

Done == cons_lock' = None /\ c' = None /\ Goto(intr, "getc")

\* The switch; n counts the characters consputc has to send, three for BACKSPACE.
consoleintr ==
  LET last == (e + UINT - 1) % UINT
      erase == (c = "^H" /\ e # w) \/ (c = "^U" /\ e # w /\ buf[last % INPUT_BUF] # "\n")
      keep == c \notin {"^P", "^U", "^H", "nul"} /\ Room
  IN
  /\ pc[intr] = "consoleintr" /\ n[intr] = 0
  /\ \/ /\ erase
        /\ e' = last
        /\ n' = [n EXCEPT ![intr] = 3]
        /\ Goto(intr, IF c = "^U" THEN "consoleintr" ELSE "echoed")
        /\ UNCHANGED <<cons_lock, c>>
     \/ /\ keep
        /\ n' = [n EXCEPT ![intr] = 1]
        /\ Goto(intr, "store")
        /\ UNCHANGED <<e, cons_lock, c>>
     \/ ~erase /\ ~keep /\ Done /\ UNCHANGED <<e, n>>
  /\ UNCHANGED <<buf, r, w, uart, tx_lock, some, dev>>

\* uartputc_sync spins until the FIFO is empty, without tx_lock.
uartputc_sync ==
  /\ pc[intr] \in {"consoleintr", "echoed", "store"} /\ n[intr] > 0
  /\ thr = 0
  /\ n' = [n EXCEPT ![intr] = @ - 1]
  /\ thr' = 1
  /\ UNCHANGED <<cons, cons_lock, uart, tx_lock, pc, some, c, rx, pending>>

consoleintr_echoed ==
  /\ pc[intr] = "echoed" /\ n[intr] = 0
  /\ Done
  /\ UNCHANGED <<cons, uart, tx_lock, n, some, dev>>

consoleintr_store ==
  LET ch == IF c = "\r" THEN "\n" ELSE c
      e1 == (e + 1) % UINT
      line == ch \in {"\n", "^D"} \/ e1 = (r + INPUT_BUF) % UINT
  IN
  /\ pc[intr] = "store" /\ n[intr] = 0
  /\ buf' = [buf EXCEPT ![e % INPUT_BUF] = ch] /\ e' = e1
  /\ w' = IF line THEN e1 ELSE w
  /\ pc' = [IF line THEN Wakeup("rsleep") ELSE pc EXCEPT ![intr] = "getc"]
  /\ cons_lock' = None /\ c' = None
  /\ UNCHANGED <<r, uart, tx_lock, n, some, dev>>

----------------------------------------------------------------------------
(* kill; the device                                                         *)

\* p->killed is not protected by a lock of the console: a process may find
\* itself killed whenever it looks, and is woken wherever it sleeps.
kill(p) ==
  /\ pc[p] \in DOMAIN Woken
  /\ Goto(p, Woken[pc[p]])
  /\ UNCHANGED <<cons, cons_lock, uart, tx_lock, n, some, c, dev>>

\* Somebody types; what, the handler finds out.
key ==
  /\ rx < MaxRx
  /\ rx' = rx + 1 /\ pending' = TRUE
  /\ UNCHANGED <<cons, cons_lock, uart, tx_lock, pc, n, some, c, thr>>

\* A byte leaves; the FIFO that becomes empty interrupts.
transmit ==
  /\ thr > 0
  /\ thr' = thr - 1
  /\ pending' = (pending \/ thr = 1)
  /\ UNCHANGED <<cons, cons_lock, uart, tx_lock, pc, n, some, c, rx>>

Next ==
  \/ \E p \in Procs :
       \/ consoleread(p) \/ read_turn(p) \/ read_woken(p)
       \/ consolewrite(p) \/ write_fails(p) \/ uartputc(p) \/ kill(p)
  \/ \E a \in Actors : uartstart(a) \/ uartstart_thr(a)
  \/ plic_claim \/ uartintr \/ consoleintr \/ uartputc_sync
  \/ consoleintr_echoed \/ consoleintr_store
  \/ key \/ transmit

Spec == Init /\ [][Next]_vars

----------------------------------------------------------------------------
(* Properties                                                               *)

TypeOK ==
  /\ buf \in [0 .. (INPUT_BUF - 1) -> {"nul", "x", "\n", "^D"}]
  /\ {r, w, e} \subseteq 0 .. (UINT - 1) /\ {cons_lock, tx_lock} \subseteq Actors \cup {None}
  /\ tx_buf \in [0 .. (UART_TX_BUF_SIZE - 1) -> Bytes \cup {None}]
  /\ {tx_w, tx_r} \subseteq 0 .. (UINT64 - 1)
  /\ pc \in [Actors -> {"user", "read", "rsleep", "rwoken", "write", "start", "thr", "wsleep",
                        "wwoken", "idle", "getc", "consoleintr", "echoed", "store"}]
  /\ n \in [Actors -> Nat] /\ some \in [Procs -> BOOLEAN] /\ c \in Keys \cup {None}
  /\ rx \in 0 .. MaxRx /\ thr \in Nat /\ pending \in BOOLEAN

\* Nobody waits for what is there: a reader sleeps only while no complete input
\* is in the buffer (consoleintr's wakeup), a writer only while the ring is full
\* (uartstart's "maybe uartputc() is waiting for space").  And what is in the
\* ring is on its way without a further write: the UART "will interrupt when
\* it's ready for a new byte", though the echo takes the same register without
\* uart_tx_lock.  Its FIFO never gets more than a byte from each of the two.
NobodyStuck ==
  /\ TypeOK
  /\ \A p \in Procs :
       /\ pc[p] = "rsleep" => r = w
       /\ pc[p] = "wsleep" => Full
  /\ tx_lock = None /\ tx_w # tx_r =>
       thr > 0 \/ pending \/ pc[intr] \in {"getc", "consoleintr", "echoed", "store"}
  /\ thr <= 2

\* The two rings, with indices that wrap, are a terminal: a line that can be
\* edited until it is complete, input that is read once and in order, nothing
\* overwritten; and output that is sent once and in order.
Slice(b, size, from, to, mod) ==
  [i \in 1 .. ((to + mod - from) % mod) |-> b[(from + i - 1) % size]]
T == INSTANCE Tty WITH
       Chars <- {"x", "\n", "^D"} \cup Bytes, Ends <- {"\n", "^D"},
       InSize <- INPUT_BUF, OutSize <- UART_TX_BUF_SIZE,
       line <- Slice(buf, INPUT_BUF, w, e, UINT), ready <- Slice(buf, INPUT_BUF, r, w, UINT),
       out <- Slice(tx_buf, UART_TX_BUF_SIZE, tx_r, tx_w, UINT64)
IsTerminal == T!Spec
=============================================================================
