-------------------------- MODULE ConsoleTheorems ---------------------------
(***************************************************************************)
(* What holds of console.c and uart.c for any number of processes, any     *)
(* sizes of the two rings and any moduli of their indices: nobody sleeps   *)
(* for what is there, output in the ring is on its way, and the rings are  *)
(* the terminal of Tty.                                                    *)
(***************************************************************************)
EXTENDS Console, Integers, TLAPS

Locking == {"consoleintr", "echoed", "store"}
Sending == {"start", "thr"}
Reading == {"user", "read", "rsleep", "rwoken"}
Writing == {"write", "start", "thr", "wsleep", "wwoken"}
Handler == {"idle", "getc"} \cup Locking \cup Sending

\* From index i on to index j, of indices that wrap at m
Dist(i, j, m) == IF i <= j THEN j - i ELSE j + m - i

\* Which labels belong to processes, and which to the handler; who writes has
\* something left to write.
LabelInv ==
  /\ pc[intr] \in Handler
  /\ \A p \in Procs : pc[p] \in Reading \cup Writing
  /\ \A p \in Procs : pc[p] \in Writing => n[p] > 0

\* The locks are held by who is between acquire and release.
LockInv ==
  /\ \A p \in Procs : cons_lock = p <=> pc[p] = "read"
  /\ cons_lock = intr <=> pc[intr] \in Locking
  /\ \A a \in Actors : tx_lock = a <=> pc[a] \in Sending

\* The handler has a character while it holds cons.lock, and room for the one
\* it is going to store: a reader could only make more.
KeyInv ==
  /\ pc[intr] \in Locking => c \in Keys
  /\ pc[intr] = "store" => /\ c \notin {"^P", "^U", "^H", "nul"}
                           /\ Dist(r, e, UINT) < INPUT_BUF

\* The indices are in order around their rings.
RingInv ==
  /\ Dist(r, w, UINT) + Dist(w, e, UINT) = Dist(r, e, UINT)
  /\ Dist(r, e, UINT) <= INPUT_BUF
  /\ Dist(tx_r, tx_w, UINT64) <= UART_TX_BUF_SIZE

\* Who sleeps has a reason to.
SleepInv ==
  \A p \in Procs :
    /\ pc[p] = "rsleep" => r = w
    /\ pc[p] = "wsleep" => Full

\* What is in the ring is on its way.
SendInv ==
  tx_lock = None /\ tx_w # tx_r => thr > 0 \/ pending \/ pc[intr] \in {"getc"} \cup Locking

\* Who has found the FIFO empty under uart_tx_lock shares it with an echo at most.
ThrInv ==
  /\ thr <= 2
  /\ \A a \in Actors : pc[a] = "thr" => thr <= 1

IInv ==
  /\ TypeOK /\ LabelInv /\ LockInv /\ KeyInv /\ RingInv
  /\ SleepInv /\ SendInv /\ ThrInv

----------------------------------------------------------------------------
(* Remainders                                                               *)

\* A remainder is unique.
LEMMA Unique ==
  ASSUME NEW b \in Nat \ {0}, NEW q \in Int, NEW s \in 0 .. (b - 1),
         NEW k \in Int, NEW t \in 0 .. (b - 1), b * q + s = b * k + t
  PROVE  s = t
<1>1. b * (q - k) = t - s
  OBVIOUS
<1>2. CASE q - k >= 1
  <2>1. b * (q - k) >= b
    BY <1>2
  <2> QED
    BY <1>1, <2>1
<1>3. CASE q - k <= -1
  <2>1. b * (q - k) <= -b
    BY <1>3
  <2> QED
    BY <1>1, <2>1
<1> QED
  BY <1>2, <1>3

\* Quotient and remainder
LEMMA Division ==
  ASSUME NEW a \in Nat, NEW b \in Nat \ {0}
  PROVE  a % b \in 0 .. (b - 1) /\ \E q \in Int : a = b * q + (a % b)
<1>1. a = b * (a \div b) + (a % b) /\ a \div b \in Int
  OBVIOUS
<1>2. a % b \in 0 .. (b - 1)
  OBVIOUS
<1> QED
  BY Zenon, <1>1, <1>2

\* What % returns
LEMMA Remainder ==
  ASSUME NEW a \in Nat, NEW b \in Nat \ {0}, NEW q \in Int, NEW s \in 0 .. (b - 1),
         a = b * q + s
  PROVE  a % b = s
<1>1. a % b \in 0 .. (b - 1) /\ \E k \in Int : a = b * k + (a % b)
  BY Zenon, Division
<1> QED
  BY Zenon, <1>1, Unique

\* A multiple of the divisor makes no difference.
LEMMA Period ==
  ASSUME NEW a \in Nat, NEW b \in Nat \ {0}, NEW m \in Nat, m % b = 0
  PROVE  (a + m) % b = a % b
<1>1. PICK q \in Int : a = b * q + (a % b)
  BY Zenon, Division
<1>2. PICK k \in Int : m = b * k + (m % b)
  BY Zenon, Division
<1>3. PICK sum \in Nat : sum = a + m
  OBVIOUS
<1>4. PICK l \in Int : l = q + k
  OBVIOUS
<1>5. PICK s \in 0 .. (b - 1) : s = a % b
  BY Zenon, Division
<1>6. sum = b * l + s
  <2>1. b * l = b * q + b * k
    BY <1>4
  <2> QED
    BY <1>1, <1>2, <1>3, <1>5, <2>1
<1>7. sum % b = s
  BY Zenon, <1>6, Remainder
<1> QED
  BY Zenon, <1>3, <1>5, <1>7

\* Once round at most
LEMMA Once ==
  ASSUME NEW a \in Nat, NEW b \in Nat \ {0}, a < 2 * b
  PROVE  a % b = IF a < b THEN a ELSE a - b
<1>1. CASE a < b
  <2>1. a = b * 0 + a /\ a \in 0 .. (b - 1)
    BY <1>1
  <2> QED
    BY <1>1, <2>1, Remainder
<1>2. CASE a >= b
  <2>1. a = b * 1 + (a - b) /\ a - b \in 0 .. (b - 1)
    BY <1>2
  <2> QED
    BY <1>2, <2>1, Remainder
<1> QED
  BY <1>1, <1>2

\* Less than b apart, and not the same remainder.
LEMMA Apart ==
  ASSUME NEW a \in Nat, NEW b \in Nat \ {0}, NEW d \in 1 .. (b - 1)
  PROVE  (a + d) % b # a % b
<1>1. PICK q \in Int : a = b * q + (a % b)
  BY Zenon, Division
<1>2. PICK k \in Int : a + d = b * k + ((a + d) % b)
  <2>1. a + d \in Nat
    OBVIOUS
  <2> QED
    BY Zenon, <2>1, Division
<1>3. ASSUME (a + d) % b = a % b PROVE FALSE
  <2>1. b * q + d = b * k + 0
    <3>1. a % b \in Int
      OBVIOUS
    <3> QED
      BY <1>1, <1>2, <1>3, <3>1
  <2>2. d = 0
    BY <2>1, Unique
  <2> QED
    BY <2>2
<1> QED
  BY <1>3

----------------------------------------------------------------------------
(* Indices that wrap                                                        *)

\* The index after i, and the one before.
Succ(i, m) == IF i + 1 < m THEN i + 1 ELSE 0
Pred(i, m) == IF i = 0 THEN m - 1 ELSE i - 1

\* The code's expressions for the distance of two indices, the index after one
\* and the one before, are what they are meant to be.
LEMMA Wrapped ==
  ASSUME NEW m \in Nat \ {0}, NEW i \in 0 .. (m - 1), NEW j \in 0 .. (m - 1)
  PROVE  /\ (j + m - i) % m = Dist(i, j, m) /\ (i + 1) % m = Succ(i, m)
         /\ (i + m - 1) % m = Pred(i, m)
         /\ Succ(i, m) \in 0 .. (m - 1) /\ Pred(i, m) \in 0 .. (m - 1)
<1>1. (j + m - i) % m = Dist(i, j, m)
  <2>1. PICK a \in Nat : a = j + m - i /\ a < 2 * m
    OBVIOUS
  <2>2. a % m = IF a < m THEN a ELSE a - m
    BY Zenon, <2>1, Once
  <2>3. (j + m - i) % m = a % m
    BY Zenon, <2>1
  <2> QED
    BY <2>1, <2>2, <2>3 DEF Dist
<1>2. (i + 1) % m = Succ(i, m)
  <2>1. PICK a \in Nat : a = i + 1 /\ a < 2 * m
    OBVIOUS
  <2>2. a % m = IF a < m THEN a ELSE a - m
    BY Zenon, <2>1, Once
  <2> QED
    BY <2>1, <2>2 DEF Succ
<1>3. (i + m - 1) % m = Pred(i, m)
  <2>1. PICK a \in Nat : a = i + m - 1 /\ a < 2 * m
    OBVIOUS
  <2>2. a % m = IF a < m THEN a ELSE a - m
    BY Zenon, <2>1, Once
  <2>3. (i + m - 1) % m = a % m
    BY Zenon, <2>1
  <2> QED
    BY <2>1, <2>2, <2>3 DEF Pred
<1>4. Succ(i, m) \in 0 .. (m - 1) /\ Pred(i, m) \in 0 .. (m - 1)
  BY DEF Succ, Pred
<1> QED
  BY Zenon, <1>1, <1>2, <1>3, <1>4

\* How a distance changes with its ends
LEMMA DistFacts ==
  ASSUME NEW m \in Nat \ {0}, NEW i \in 0 .. (m - 1), NEW j \in 0 .. (m - 1)
  PROVE  /\ Dist(i, j, m) \in 0 .. (m - 1) /\ (Dist(i, j, m) = 0 <=> i = j)
         /\ Dist(i, j, m) < m - 1 => Dist(i, Succ(j, m), m) = Dist(i, j, m) + 1
         /\ i # j => Dist(i, Pred(j, m), m) = Dist(i, j, m) - 1
         /\ i # j => Dist(Succ(i, m), j, m) = Dist(i, j, m) - 1
BY DEF Dist, Succ, Pred

\* An index is the s-th after i just when it is at distance s.
LEMMA At ==
  ASSUME NEW m \in Nat \ {0}, NEW i \in 0 .. (m - 1), NEW j \in 0 .. (m - 1),
         NEW s \in 0 .. (m - 1)
  PROVE  j = (i + s) % m <=> Dist(i, j, m) = s
<1>1. PICK a \in Nat : a = i + s /\ a < 2 * m
  OBVIOUS
<1>2. a % m = IF a < m THEN a ELSE a - m
  BY Zenon, <1>1, Once
<1>3. (i + s) % m = a % m
  BY Zenon, <1>1
<1> QED
  BY <1>1, <1>2, <1>3 DEF Dist

----------------------------------------------------------------------------
(* Types                                                                    *)

InType   == /\ buf \in [0 .. (INPUT_BUF - 1) -> {"nul", "x", "\n", "^D"}]
            /\ r \in 0 .. (UINT - 1) /\ w \in 0 .. (UINT - 1) /\ e \in 0 .. (UINT - 1)
OutType  == /\ tx_buf \in [0 .. (UART_TX_BUF_SIZE - 1) -> Bytes \cup {None}]
            /\ tx_w \in 0 .. (UINT64 - 1) /\ tx_r \in 0 .. (UINT64 - 1)
LockType == cons_lock \in Actors \cup {None} /\ tx_lock \in Actors \cup {None}
Labels   == {"user", "read", "rsleep", "rwoken", "write", "start", "thr", "wsleep",
             "wwoken", "idle", "getc", "consoleintr", "echoed", "store"}
PcType   == pc \in [Actors -> Labels]
CallType == n \in [Actors -> Nat] /\ some \in [Procs -> BOOLEAN] /\ c \in Keys \cup {None}
DevType  == rx \in 0 .. MaxRx /\ thr \in Nat /\ pending \in BOOLEAN

\* TypeOK in parts
LEMMA Types ==
  TypeOK <=> InType /\ OutType /\ LockType /\ PcType /\ CallType /\ DevType
BY Zenon DEF TypeOK, InType, OutType, LockType, PcType, CallType, DevType, Labels

\* The sizes and moduli
LEMMA Sizes ==
  /\ INPUT_BUF \in Nat \ {0} /\ UINT \in Nat \ {0} /\ UINT > INPUT_BUF /\ UINT % INPUT_BUF = 0
  /\ UART_TX_BUF_SIZE \in Nat \ {0} /\ UINT64 \in Nat \ {0} /\ UINT64 > UART_TX_BUF_SIZE
  /\ UINT64 % UART_TX_BUF_SIZE = 0 /\ MaxN \in Nat /\ MaxRx \in Nat
  /\ intr \notin Procs /\ None \notin Procs /\ None # intr
BY ConsoleAssumption DEF ConsoleAssumption, Actors

\* What wakeup does to the processes
LEMMA Wakes ==
  ASSUME NEW a \in Actors
  PROVE  /\ Wakeup("rsleep")[a] = IF pc[a] = "rsleep" THEN "rwoken" ELSE pc[a]
         /\ Wakeup("wsleep")[a] = IF pc[a] = "wsleep" THEN "wwoken" ELSE pc[a]
BY DEF Wakeup, Woken

\* What kill does
LEMMA Kills ==
  ASSUME NEW p \in Procs, kill(p)
  PROVE  /\ \/ pc[p] = "rsleep" /\ pc' = [pc EXCEPT ![p] = "rwoken"]
            \/ pc[p] = "wsleep" /\ pc' = [pc EXCEPT ![p] = "wwoken"]
         /\ UNCHANGED <<cons, cons_lock, uart, tx_lock, n, some, c, dev>>
<1>1. DOMAIN Woken = {"rsleep", "wsleep"}
  BY DEF Woken
<1>2. Woken["rsleep"] = "rwoken" /\ Woken["wsleep"] = "wwoken"
  BY DEF Woken
<1> QED
  BY Zenon, <1>1, <1>2 DEF kill, Goto

\* The two rings: read_turn and the handler move the indices of cons, uartputc
\* and uartstart those of the transmit ring.
LEMMA IndexStep ==
  ASSUME TypeOK, KeyInv, Next
  PROVE  InType' /\ OutType'
<1>1. InType /\ OutType /\ CallType
  BY Zenon, Types
<1>2. (r + 1) % UINT \in 0 .. (UINT - 1) /\ (e + 1) % UINT \in 0 .. (UINT - 1)
      /\ (e + UINT - 1) % UINT \in 0 .. (UINT - 1)
  BY Zenon, <1>1, Sizes, Wrapped DEF InType
<1>3. (tx_w + 1) % UINT64 \in 0 .. (UINT64 - 1) /\ (tx_r + 1) % UINT64 \in 0 .. (UINT64 - 1)
  BY Zenon, <1>1, Sizes, Wrapped DEF OutType
<1>4. UNCHANGED cons => InType'
  BY Zenon, <1>1 DEF cons, InType
<1>5. UNCHANGED uart => OutType'
  BY Zenon, <1>1 DEF uart, OutType
<1>6. ASSUME NEW p \in Procs, consoleread(p) \/ read_woken(p) \/ consolewrite(p)
                              \/ write_fails(p) \/ kill(p)
      PROVE  UNCHANGED <<cons, uart>>
  BY Zenon, <1>6 DEF consoleread, read_woken, consolewrite, write_fails, kill
<1>7. ASSUME NEW p \in Procs, read_turn(p) PROVE InType' /\ UNCHANGED uart
  <2>1. r' \in 0 .. (UINT - 1) /\ UNCHANGED <<buf, w, e>> /\ UNCHANGED uart
    BY Zenon, <1>1, <1>2, <1>7 DEF read_turn, InType
  <2> QED
    BY Zenon, <1>1, <2>1 DEF InType
<1>8. ASSUME NEW p \in Procs, uartputc(p) PROVE OutType' /\ UNCHANGED cons
  BY Zenon, <1>1, <1>3, <1>8 DEF uartputc, OutType
<1>9. ASSUME NEW a \in Actors, uartstart(a) PROVE OutType' /\ UNCHANGED cons
  BY Zenon, <1>1, <1>3, <1>9 DEF uartstart, OutType
<1>10. ASSUME NEW a \in Actors, uartstart_thr(a) PROVE UNCHANGED <<cons, uart>>
  BY Zenon, <1>10 DEF uartstart_thr
<1>11. ASSUME plic_claim \/ uartintr \/ uartputc_sync \/ consoleintr_echoed \/ key \/ transmit
       PROVE  UNCHANGED <<cons, uart>>
  BY Zenon, <1>11 DEF plic_claim, uartintr, uartputc_sync, consoleintr_echoed, key, transmit
<1>12. ASSUME consoleintr PROVE InType' /\ UNCHANGED uart
  BY Zenon, <1>1, <1>2, <1>12 DEF consoleintr, InType
<1>13. ASSUME consoleintr_store PROVE InType' /\ UNCHANGED uart
  <2>1. c \in {"x", "\n", "\r", "^D"}
    BY Zenon, <1>13 DEF consoleintr_store, KeyInv, Keys, Locking
  <2>2. (IF c = "\r" THEN "\n" ELSE c) \in {"nul", "x", "\n", "^D"}
    BY <2>1
  <2>3. UNCHANGED <<r, uart>> /\ e' = (e + 1) % UINT /\ w' \in {e', w}
    BY Zenon, <1>13 DEF consoleintr_store
  <2>4. buf' \in [0 .. (INPUT_BUF - 1) -> {"nul", "x", "\n", "^D"}]
    BY Zenon, <1>1, <1>13, <2>2 DEF consoleintr_store, InType
  <2> QED
    BY Zenon, <1>1, <1>2, <2>3, <2>4 DEF InType
<1> QED
  BY Zenon, <1>4, <1>5, <1>6, <1>7, <1>8, <1>9, <1>10, <1>11, <1>12, <1>13 DEF Next

\* The locks and the labels
LEMMA PcStep ==
  ASSUME TypeOK, Next
  PROVE  LockType' /\ PcType'
<1> USE DEF LockType, PcType
<1>1. LockType /\ PcType
  BY Zenon, Types
<1>2. Wakeup("rsleep") \in [Actors -> Labels] /\ Wakeup("wsleep") \in [Actors -> Labels]
  BY Zenon, <1>1 DEF Wakeup, Woken, Labels
<1>3. \A p \in Procs : p \in Actors
  BY Zenon DEF Actors
<1>4. intr \in Actors
  BY Zenon DEF Actors
<1>5. \A a \in Actors : Started(a) \in Labels
  BY Zenon DEF Started, Labels
<1>6. ASSUME NEW p \in Procs, consoleread(p) \/ read_woken(p) PROVE LockType' /\ PcType'
  BY Zenon, <1>1, <1>3, <1>6 DEF consoleread, read_woken, Goto, Labels
<1>7. ASSUME NEW p \in Procs, read_turn(p) PROVE LockType' /\ PcType'
  BY Zenon, <1>1, <1>3, <1>7 DEF read_turn, read_return, Goto, Labels
<1>8. ASSUME NEW p \in Procs, consolewrite(p) \/ write_fails(p) PROVE LockType' /\ PcType'
  BY Zenon, <1>1, <1>8 DEF consolewrite, write_fails, Goto, Labels
<1>9. ASSUME NEW p \in Procs, uartputc(p) PROVE LockType' /\ PcType'
  BY Zenon, <1>1, <1>3, <1>9 DEF uartputc, Goto, Labels
<1>10. ASSUME NEW p \in Procs, kill(p) PROVE LockType' /\ PcType'
  BY Zenon, <1>1, <1>10, Kills DEF Labels
<1>11. ASSUME NEW a \in Actors, uartstart(a) PROVE LockType' /\ PcType'
  <2>1. PcType'
    <3>1. CASE pc' = [pc EXCEPT ![a] = Started(a)]
      BY Zenon, <1>1, <1>5, <3>1
    <3>2. CASE pc' = [Wakeup("wsleep") EXCEPT ![a] = "thr"]
      BY Zenon, <1>2, <3>2 DEF Labels
    <3> QED
      BY Zenon, <1>11, <3>1, <3>2 DEF uartstart, Goto
  <2> QED
    BY Zenon, <1>1, <1>11, <2>1 DEF uartstart
<1>12. ASSUME NEW a \in Actors, uartstart_thr(a) PROVE LockType' /\ PcType'
  BY Zenon, <1>1, <1>12 DEF uartstart_thr, Goto, Labels
<1>13. ASSUME plic_claim \/ uartintr \/ uartputc_sync \/ consoleintr_echoed \/ key \/ transmit
       PROVE  LockType' /\ PcType'
  BY Zenon, <1>1, <1>4, <1>13
     DEF plic_claim, uartintr, uartputc_sync, consoleintr_echoed, key, transmit, Goto, Done, Labels
<1>14. ASSUME consoleintr PROVE LockType' /\ PcType'
  <2>1. (IF c = "^U" THEN "consoleintr" ELSE "echoed") \in Labels
    BY Zenon DEF Labels
  <2> QED
    BY Zenon, <1>1, <1>14, <2>1 DEF consoleintr, Goto, Done, Labels
<1>15. ASSUME consoleintr_store PROVE LockType' /\ PcType'
  <2>1. \/ pc' = [Wakeup("rsleep") EXCEPT ![intr] = "getc"]
        \/ pc' = [pc EXCEPT ![intr] = "getc"]
    BY Zenon, <1>15 DEF consoleintr_store
  <2> QED
    BY Zenon, <1>1, <1>2, <1>15, <2>1 DEF consoleintr_store, Labels
<1> QED
  BY Zenon, <1>6, <1>7, <1>8, <1>9, <1>10, <1>11, <1>12, <1>13, <1>14, <1>15 DEF Next

\* What is left to read and write, and the device
LEMMA CallStep ==
  ASSUME TypeOK, LabelInv, Next
  PROVE  CallType' /\ DevType'
<1> USE DEF CallType, DevType
<1>1. CallType /\ DevType
  BY Zenon, Types
<1>2. \A k \in 0 .. MaxN : k \in Nat
  BY Sizes
<1>3. \A k \in 1 .. MaxN : k \in Nat
  BY Sizes
<1>4. 0 \in Nat /\ 1 \in Nat /\ 3 \in Nat
  OBVIOUS
<1>5. \A a \in Actors : n[a] > 0 => n[a] - 1 \in Nat
  BY <1>1
<1>6. ASSUME NEW p \in Procs, consoleread(p) \/ read_woken(p) PROVE CallType' /\ DevType'
  BY Zenon, <1>1, <1>2, <1>6 DEF consoleread, read_woken, dev
<1>7. ASSUME NEW p \in Procs, read_turn(p) PROVE CallType' /\ DevType'
  <2>1. CASE read_return(p)
    BY Zenon, <1>1, <1>4, <1>7, <2>1 DEF read_turn, read_return, dev
  <2>2. CASE ~read_return(p)
    <3>1. \/ UNCHANGED <<n, some>>
          \/ n[p] > 0 /\ n' = [n EXCEPT ![p] = n[p] - 1] /\ some' = [some EXCEPT ![p] = TRUE]
      BY <1>7, <2>2 DEF read_turn
    <3>2. n[p] > 0 => n[p] - 1 \in Nat
      BY Zenon, <1>5 DEF Actors
    <3> QED
      BY Zenon, <1>1, <1>7, <3>1, <3>2 DEF read_turn, dev
  <2> QED
    BY Zenon, <2>1, <2>2
<1>8. ASSUME NEW p \in Procs, consolewrite(p) \/ write_fails(p) PROVE CallType' /\ DevType'
  BY Zenon, <1>1, <1>3, <1>4, <1>8 DEF consolewrite, write_fails, dev
<1>9. ASSUME NEW p \in Procs, uartputc(p) \/ kill(p) PROVE CallType' /\ DevType'
  BY Zenon, <1>1, <1>9 DEF uartputc, kill, dev
<1>10. ASSUME NEW a \in Actors, uartstart(a) PROVE CallType' /\ DevType'
  <2>1. (IF a = intr THEN 0 ELSE n[a] - 1) \in Nat
    <3>1. a # intr => n[a] > 0
      BY Zenon, <1>10 DEF uartstart, LabelInv, Actors, Writing
    <3> QED
      BY Zenon, <1>4, <1>5, <3>1
  <2>2. n' = n \/ n' = [n EXCEPT ![a] = IF a = intr THEN 0 ELSE n[a] - 1]
    BY <1>10 DEF uartstart
  <2> QED
    BY Zenon, <1>1, <1>10, <2>1, <2>2 DEF uartstart, dev
<1>11. ASSUME NEW a \in Actors, uartstart_thr(a) PROVE CallType' /\ DevType'
  BY <1>1, <1>11 DEF uartstart_thr
<1>12. ASSUME plic_claim \/ key \/ transmit PROVE CallType' /\ DevType'
  <2>1. CASE plic_claim
    BY Zenon, <1>1, <2>1 DEF plic_claim
  <2>2. CASE key
    BY <1>1, <2>2, Sizes DEF key
  <2>3. CASE transmit
    <3>1. (pending \/ thr = 1) \in BOOLEAN
      BY Zenon
    <3>2. thr - 1 \in Nat
      BY <1>1, <2>3 DEF transmit
    <3> QED
      BY Zenon, <1>1, <2>3, <3>1, <3>2 DEF transmit
  <2> QED
    BY Zenon, <1>12, <2>1, <2>2, <2>3
<1>13. ASSUME uartintr PROVE CallType' /\ DevType'
  BY <1>1, <1>13, Sizes DEF uartintr
<1>14. ASSUME uartputc_sync PROVE CallType' /\ DevType'
  BY <1>1, <1>5, <1>14 DEF uartputc_sync, Actors
<1>15. ASSUME consoleintr PROVE CallType' /\ DevType'
  BY Zenon, <1>1, <1>4, <1>15 DEF consoleintr, Done, dev
<1>16. ASSUME consoleintr_echoed \/ consoleintr_store PROVE CallType' /\ DevType'
  BY Zenon, <1>1, <1>16 DEF consoleintr_echoed, consoleintr_store, Done, dev
<1> QED
  BY Zenon, <1>6, <1>7, <1>8, <1>9, <1>10, <1>11, <1>12, <1>13, <1>14, <1>15, <1>16 DEF Next

\* TypeOK is kept.
LEMMA TypeStep ==
  ASSUME TypeOK, LabelInv, KeyInv, Next
  PROVE  TypeOK'
<1>1. (TypeOK <=> InType /\ OutType /\ LockType /\ PcType /\ CallType /\ DevType)'
  BY Types, PTL
<1> QED
  BY Zenon, <1>1, IndexStep, PcStep, CallStep

----------------------------------------------------------------------------
(* Every step keeps each part of the invariant.                             *)

\* The labels
LEMMA LabelStep ==
  ASSUME TypeOK, LabelInv, Next
  PROVE  LabelInv'
<1> USE DEF LabelInv, PcType
<1>1. PcType /\ n \in [Actors -> Nat]
  BY Zenon, Types DEF CallType
<1>2. intr \in Actors /\ intr \notin Procs /\ \A p \in Procs : p \in Actors /\ p # intr
  BY Zenon, Sizes DEF Actors
<1>3. ASSUME NEW p \in Procs, consoleread(p) \/ read_woken(p) PROVE LabelInv'
  BY Zenon, <1>1, <1>2, <1>3 DEF consoleread, read_woken, Goto, Reading, Writing
<1>4. ASSUME NEW p \in Procs, read_turn(p) PROVE LabelInv'
  <2>1. pc[p] = "read" /\ (pc' = pc \/ pc' = [pc EXCEPT ![p] = "user"]
                                    \/ pc' = [pc EXCEPT ![p] = "rsleep"])
    BY Zenon, <1>4 DEF read_turn, read_return, Goto
  <2>2. \A q \in Procs : q # p => n'[q] = n[q]
    BY Zenon, <1>1, <1>2, <1>4 DEF read_turn, read_return
  <2> QED
    BY Zenon, <1>1, <1>2, <2>1, <2>2 DEF Reading, Writing
<1>5. ASSUME NEW p \in Procs, consolewrite(p) PROVE LabelInv'
  <2>1. PICK k \in 1 .. MaxN : n' = [n EXCEPT ![p] = k]
    BY Zenon, <1>5 DEF consolewrite
  <2>2. k > 0
    BY Sizes
  <2> QED
    BY Zenon, <1>1, <1>2, <1>5, <2>1, <2>2 DEF consolewrite, Goto, Reading, Writing
<1>6. ASSUME NEW p \in Procs, write_fails(p) PROVE LabelInv'
  BY Zenon, <1>1, <1>2, <1>6 DEF write_fails, Goto, Reading, Writing
<1>7. ASSUME NEW p \in Procs, uartputc(p) PROVE LabelInv'
  BY Zenon, <1>1, <1>2, <1>7 DEF uartputc, Goto, Reading, Writing
<1>8. ASSUME NEW p \in Procs, kill(p) PROVE LabelInv'
  BY Zenon, <1>1, <1>2, <1>8, Kills DEF Reading, Writing
<1>9. ASSUME NEW a \in Actors, uartstart(a) PROVE LabelInv'
  <2>1. \A b \in Actors : b # a => n'[b] = n[b]
    BY Zenon, <1>1, <1>9 DEF uartstart
  <2>2. CASE pc' = [pc EXCEPT ![a] = Started(a)] /\ n' = [n EXCEPT ![a] = IF a = intr THEN 0 ELSE n[a] - 1]
    <3>1. CASE a = intr
      BY Zenon, <1>1, <1>2, <2>1, <2>2, <3>1 DEF Started, Handler
    <3>2. CASE a # intr
      <4>1. a \in Procs /\ n[a] > 0 /\ n[a] \in Nat
        BY Zenon, <1>1, <1>9, <3>2 DEF uartstart, Actors, Writing
      <4>2. pc'[a] \in {"user", "write"} /\ (pc'[a] = "write" => n[a] # 1) /\ n'[a] = n[a] - 1
        BY Zenon, <1>1, <2>2, <3>2 DEF Started
      <4>3. pc'[a] = "write" => n'[a] > 0
        BY <4>1, <4>2
      <4>4. \A b \in Actors : b # a => pc'[b] = pc[b]
        BY Zenon, <1>1, <2>2
      <4> QED
        BY Zenon, <1>2, <2>1, <3>2, <4>2, <4>3, <4>4 DEF Reading, Writing
    <3> QED
      BY Zenon, <3>1, <3>2
  <2>3. CASE pc' = [Wakeup("wsleep") EXCEPT ![a] = "thr"] /\ n' = n
    <3>1. \A b \in Actors : b # a => pc'[b] = pc[b] \/ (pc[b] = "wsleep" /\ pc'[b] = "wwoken")
      BY Zenon, <2>3, Wakes DEF Wakeup
    <3>2. pc'[a] = "thr" /\ pc[a] = "start"
      BY Zenon, <1>9, <2>3 DEF Wakeup, uartstart
    <3> QED
      BY Zenon, <1>2, <2>3, <3>1, <3>2 DEF Reading, Writing, Handler, Locking, Sending
  <2> QED
    BY <1>9, <2>2, <2>3 DEF uartstart, Goto
<1>10. ASSUME NEW a \in Actors, uartstart_thr(a) PROVE LabelInv'
  BY Zenon, <1>1, <1>2, <1>10 DEF uartstart_thr, Goto, Reading, Writing, Handler, Sending
<1>11. ASSUME plic_claim \/ uartintr \/ consoleintr_echoed \/ key \/ transmit PROVE LabelInv'
  BY Zenon, <1>1, <1>2, <1>11
     DEF plic_claim, uartintr, consoleintr_echoed, key, transmit, Goto, Done, Handler, Locking, Sending
<1>12. ASSUME consoleintr PROVE LabelInv'
  <2>1. \E l \in {"consoleintr", "echoed", "store", "getc"} : pc' = [pc EXCEPT ![intr] = l]
    BY Zenon, <1>12 DEF consoleintr, Goto, Done
  <2>2. \A q \in Procs : n'[q] = n[q]
    BY Zenon, <1>1, <1>2, <1>12 DEF consoleintr
  <2> QED
    BY Zenon, <1>1, <1>2, <2>1, <2>2 DEF Handler, Locking
<1>13. ASSUME uartputc_sync PROVE LabelInv'
  BY Zenon, <1>1, <1>2, <1>13 DEF uartputc_sync
<1>14. ASSUME consoleintr_store PROVE LabelInv'
  <2>1. \/ pc' = [Wakeup("rsleep") EXCEPT ![intr] = "getc"]
        \/ pc' = [pc EXCEPT ![intr] = "getc"]
    BY Zenon, <1>14 DEF consoleintr_store
  <2>2. pc'[intr] = "getc"
    BY Zenon, <1>1, <1>2, <2>1 DEF Wakeup
  <2>3. \A q \in Procs : pc'[q] = pc[q] \/ (pc[q] = "rsleep" /\ pc'[q] = "rwoken")
    BY Zenon, <1>1, <1>2, <2>1, Wakes DEF Wakeup
  <2>4. n' = n
    BY Zenon, <1>14 DEF consoleintr_store
  <2> QED
    BY Zenon, <1>2, <2>2, <2>3, <2>4 DEF Handler, Reading, Writing
<1> QED
  BY Zenon, <1>3, <1>4, <1>5, <1>6, <1>7, <1>8, <1>9, <1>10, <1>11, <1>12, <1>13, <1>14 DEF Next

\* Who sleeps or works on under a lock still does: a step that changes the
\* label of a alone, and neither takes nor releases a lock.
LEMMA SameHolder ==
  ASSUME LockInv, LabelInv, NEW a \in Actors,
         \A b \in Actors : b # a => pc'[b] = pc[b],
         UNCHANGED <<cons_lock, tx_lock>>,
         pc'[a] = "read" <=> pc[a] = "read", pc'[a] \in Sending <=> pc[a] \in Sending,
         a = intr => (pc'[a] \in Locking <=> pc[a] \in Locking)
  PROVE  LockInv'
<1>1. intr \in Actors /\ \A p \in Procs : p \in Actors
  BY Zenon DEF Actors
<1>2. pc'[intr] \in Locking <=> pc[intr] \in Locking
  BY Zenon, <1>1
<1>3. \A b \in Actors : pc'[b] \in Sending <=> pc[b] \in Sending
  BY Zenon
<1>4. \A p \in Procs : pc'[p] = "read" <=> pc[p] = "read"
  BY Zenon, <1>1
<1> QED
  BY Zenon, <1>1, <1>2, <1>3, <1>4 DEF LockInv

\* Only one holds each lock.
LEMMA Alone ==
  ASSUME LockInv, LabelInv, LockType
  PROVE  /\ \A p \in Procs : pc[p] = "read" => /\ pc[intr] \notin Locking
                                               /\ \A q \in Procs : pc[q] = "read" => q = p
         /\ \A a, b \in Actors : pc[a] \in Sending /\ pc[b] \in Sending => a = b
         /\ cons_lock = None => pc[intr] \notin Locking /\ \A p \in Procs : pc[p] # "read"
         /\ tx_lock = None => \A a \in Actors : pc[a] \notin Sending
<1>1. \A p \in Procs : pc[p] = "read" => cons_lock = p
  BY Zenon DEF LockInv
<1>2. pc[intr] \in Locking => cons_lock = intr
  BY Zenon DEF LockInv
<1>3. \A a \in Actors : pc[a] \in Sending => tx_lock = a
  BY Zenon DEF LockInv
<1>4. intr \notin Procs /\ None \notin Procs /\ None # intr /\ \A a \in Actors : a # None
  BY Zenon, Sizes DEF Actors
<1> QED
  BY Zenon, <1>1, <1>2, <1>3, <1>4

\* The locks
LEMMA LockStep ==
  ASSUME TypeOK, LabelInv, LockInv, Next
  PROVE  LockInv'
<1> USE DEF PcType
<1>1. PcType /\ LockType
  BY Zenon, Types
<1>2. intr \in Actors /\ intr \notin Procs /\ None # intr /\ \A p \in Procs : p \in Actors /\ p # intr /\ p # None
  BY Zenon, Sizes DEF Actors
<1>3. \A a \in Actors : a # None
  BY Zenon, Sizes DEF Actors
<1>4. ASSUME NEW p \in Procs, consoleread(p) \/ read_woken(p) PROVE LockInv'
  <2>1. cons_lock = None /\ cons_lock' = p /\ tx_lock' = tx_lock /\ pc[p] \in {"user", "rwoken"}
        /\ pc' = [pc EXCEPT ![p] = "read"]
    BY Zenon, <1>4 DEF consoleread, read_woken, Goto
  <2>2. \A b \in Actors : pc'[b] = IF b = p THEN "read" ELSE pc[b]
    BY Zenon, <1>1, <1>2, <2>1
  <2>3. \A q \in Procs : cons_lock' = q <=> pc'[q] = "read"
    BY Zenon, <1>1, <1>2, <2>1, <2>2, Alone
  <2>4. cons_lock' # intr /\ pc'[intr] \notin Locking
    BY Zenon, <1>1, <1>2, <2>1, <2>2, Alone
  <2>5. \A a \in Actors : tx_lock' = a <=> pc'[a] \in Sending
    <3>1. pc'[p] \notin Sending /\ pc[p] \notin Sending
      <4>1. pc'[p] = "read"
        BY Zenon, <1>2, <2>2
      <4> QED
        BY Zenon, <2>1, <4>1 DEF Sending
    <3> QED
      BY Zenon, <2>1, <2>2, <3>1 DEF LockInv
  <2> QED
    BY Zenon, <2>3, <2>4, <2>5 DEF LockInv
<1>5. ASSUME NEW p \in Procs, read_turn(p) PROVE LockInv'
  <2>1. pc[p] = "read" /\ tx_lock' = tx_lock
    BY Zenon, <1>5 DEF read_turn
  <2>2. CASE pc' = pc /\ cons_lock' = cons_lock
    BY Zenon, <2>1, <2>2 DEF LockInv
  <2>3. CASE cons_lock' = None /\ \E l \in {"user", "rsleep"} : pc' = [pc EXCEPT ![p] = l]
    <3>1. \A b \in Actors : b # p => pc'[b] = pc[b]
      BY Zenon, <1>1, <2>3
    <3>2. pc'[p] \in {"user", "rsleep"}
      BY Zenon, <1>1, <1>2, <2>3
    <3>3. \A q \in Procs : pc'[q] # "read"
      BY Zenon, <1>1, <1>2, <2>1, <3>1, <3>2, Alone
    <3>4. pc'[intr] \notin Locking
      BY Zenon, <1>1, <1>2, <2>1, <3>1, Alone
    <3>5. \A a \in Actors : tx_lock' = a <=> pc'[a] \in Sending
      BY Zenon, <1>2, <2>1, <3>1, <3>2 DEF LockInv, Sending
    <3> QED
      BY Zenon, <1>2, <2>3, <3>3, <3>4, <3>5 DEF LockInv
  <2> QED
    BY Zenon, <1>5, <2>2, <2>3 DEF read_turn, read_return, Goto
<1>6. ASSUME NEW p \in Procs, consolewrite(p) \/ write_fails(p) \/ kill(p) PROVE LockInv'
  <2>1. UNCHANGED <<cons_lock, tx_lock>>
    BY Zenon, <1>6 DEF consolewrite, write_fails, kill
  <2>2. \E l \in {"user", "write", "rwoken", "wwoken"} : pc' = [pc EXCEPT ![p] = l]
    BY Zenon, <1>6, Kills DEF consolewrite, write_fails, Goto
  <2>3. pc[p] \in {"user", "write", "rsleep", "wsleep"}
    BY Zenon, <1>6, Kills DEF consolewrite, write_fails
  <2>4. (\A b \in Actors : b # p => pc'[b] = pc[b]) /\ pc'[p] \in {"user", "write", "rwoken", "wwoken"}
    BY Zenon, <1>1, <1>2, <2>2
  <2>5. ~(pc'[p] = "read") /\ ~(pc[p] = "read") /\ ~(pc'[p] \in Sending) /\ ~(pc[p] \in Sending)
    BY Zenon, <2>3, <2>4 DEF Sending
  <2> QED
    BY Zenon, <1>2, <2>1, <2>4, <2>5, SameHolder
<1>7. ASSUME NEW p \in Procs, uartputc(p) PROVE LockInv'
  <2>1. pc[p] \in {"write", "wwoken"} /\ tx_lock = None /\ cons_lock' = cons_lock
    BY Zenon, <1>7 DEF uartputc
  <2>2. CASE pc' = [pc EXCEPT ![p] = "wsleep"] /\ tx_lock' = tx_lock
    <3>1. (\A b \in Actors : b # p => pc'[b] = pc[b]) /\ pc'[p] = "wsleep"
      BY Zenon, <1>1, <1>2, <2>2
    <3>2. ~(pc'[p] = "read") /\ ~(pc[p] = "read") /\ ~(pc'[p] \in Sending) /\ ~(pc[p] \in Sending)
      BY Zenon, <2>1, <3>1 DEF Sending
    <3> QED
      BY Zenon, <1>2, <2>1, <2>2, <3>1, <3>2, SameHolder
  <2>3. CASE pc' = [pc EXCEPT ![p] = "start"] /\ tx_lock' = p
    <3>1. (\A b \in Actors : b # p => pc'[b] = pc[b]) /\ pc'[p] = "start"
      BY Zenon, <1>1, <1>2, <2>3
    <3>2. \A a \in Actors : tx_lock' = a <=> pc'[a] \in Sending
      BY Zenon, <1>1, <2>1, <2>3, <3>1, Alone DEF Sending
    <3>3. \A q \in Procs : pc'[q] = "read" <=> pc[q] = "read"
      BY Zenon, <1>2, <2>1, <3>1
    <3> QED
      BY Zenon, <1>2, <2>1, <3>1, <3>2, <3>3 DEF LockInv
  <2> QED
    BY Zenon, <1>7, <2>2, <2>3 DEF uartputc, Goto
<1>8. ASSUME NEW a \in Actors, uartstart(a) PROVE LockInv'
  <2>1. pc[a] = "start" /\ cons_lock' = cons_lock
    BY Zenon, <1>8 DEF uartstart
  <2>2. CASE tx_lock' = None /\ pc' = [pc EXCEPT ![a] = Started(a)]
    <3>1. (\A b \in Actors : b # a => pc'[b] = pc[b]) /\ pc'[a] \in {"idle", "user", "write"}
      BY Zenon, <1>1, <2>2 DEF Started
    <3>2. \A b \in Actors : pc'[b] \notin Sending
      BY Zenon, <1>1, <2>1, <3>1, Alone DEF Sending
    <3>3. \A q \in Procs : pc'[q] = "read" <=> pc[q] = "read"
      BY Zenon, <1>2, <2>1, <3>1
    <3>4. pc'[intr] \in Locking <=> pc[intr] \in Locking
      BY Zenon, <1>2, <2>1, <3>1 DEF Locking
    <3> QED
      BY Zenon, <1>3, <2>1, <2>2, <3>2, <3>3, <3>4 DEF LockInv
  <2>3. CASE tx_lock' = tx_lock /\ pc' = [Wakeup("wsleep") EXCEPT ![a] = "thr"]
    <3>1. \A b \in Actors : b # a => pc'[b] = pc[b] \/ (pc[b] = "wsleep" /\ pc'[b] = "wwoken")
      BY Zenon, <2>3, Wakes DEF Wakeup
    <3>2. pc'[a] = "thr"
      BY Zenon, <2>3 DEF Wakeup
    <3>3. \A b \in Actors : pc'[b] \in Sending <=> pc[b] \in Sending
      BY Zenon, <2>1, <3>1, <3>2 DEF Sending
    <3>4. \A q \in Procs : pc'[q] = "read" <=> pc[q] = "read"
      BY Zenon, <1>2, <2>1, <3>1, <3>2
    <3>5. pc'[intr] \in Locking <=> pc[intr] \in Locking
      BY Zenon, <1>2, <2>1, <3>1, <3>2 DEF Locking
    <3> QED
      BY Zenon, <2>1, <2>3, <3>3, <3>4, <3>5 DEF LockInv
  <2> QED
    BY Zenon, <1>8, <2>2, <2>3 DEF uartstart, Goto
<1>9. ASSUME NEW a \in Actors, uartstart_thr(a) PROVE LockInv'
  <2>1. UNCHANGED <<cons_lock, tx_lock>> /\ pc[a] = "thr" /\ pc' = [pc EXCEPT ![a] = "start"]
    BY Zenon, <1>9 DEF uartstart_thr, Goto
  <2>2. (\A b \in Actors : b # a => pc'[b] = pc[b]) /\ pc'[a] = "start"
    BY Zenon, <1>1, <2>1
  <2>3. ~(pc'[a] = "read") /\ ~(pc[a] = "read") /\ pc'[a] \in Sending /\ pc[a] \in Sending
        /\ pc'[a] \notin Locking /\ pc[a] \notin Locking
    BY Zenon, <2>1, <2>2 DEF Sending, Locking
  <2> QED
    BY Zenon, <2>1, <2>2, <2>3, SameHolder
<1>10. ASSUME key \/ transmit \/ uartputc_sync PROVE LockInv'
  BY Zenon, <1>10 DEF key, transmit, uartputc_sync, LockInv
<1>11. ASSUME plic_claim PROVE LockInv'
  <2>1. UNCHANGED <<cons_lock, tx_lock>> /\ pc[intr] = "idle" /\ pc' = [pc EXCEPT ![intr] = "getc"]
    BY Zenon, <1>11 DEF plic_claim, Goto
  <2>2. (\A b \in Actors : b # intr => pc'[b] = pc[b]) /\ pc'[intr] = "getc"
    BY Zenon, <1>1, <1>2, <2>1
  <2>3. ~(pc'[intr] = "read") /\ ~(pc[intr] = "read") /\ pc'[intr] \notin Sending /\ pc[intr] \notin Sending
        /\ pc'[intr] \notin Locking /\ pc[intr] \notin Locking
    BY Zenon, <2>1, <2>2 DEF Sending, Locking
  <2> QED
    BY Zenon, <1>2, <2>1, <2>2, <2>3, SameHolder
<1>12. ASSUME uartintr PROVE LockInv'
  <2>1. pc[intr] = "getc"
    BY Zenon, <1>12 DEF uartintr
  <2>2. CASE cons_lock = None /\ cons_lock' = intr /\ tx_lock' = tx_lock /\ pc' = [pc EXCEPT ![intr] = "consoleintr"]
    <3>1. (\A b \in Actors : b # intr => pc'[b] = pc[b]) /\ pc'[intr] = "consoleintr"
      BY Zenon, <1>1, <1>2, <2>2
    <3>2. \A q \in Procs : pc'[q] # "read"
      BY Zenon, <1>1, <1>2, <2>2, <3>1, Alone
    <3>3. \A a \in Actors : tx_lock' = a <=> pc'[a] \in Sending
      BY Zenon, <1>2, <2>1, <2>2, <3>1 DEF LockInv, Sending
    <3> QED
      BY Zenon, <1>2, <2>2, <3>1, <3>2, <3>3 DEF LockInv, Locking
  <2>3. CASE tx_lock = None /\ tx_lock' = intr /\ cons_lock' = cons_lock /\ pc' = [pc EXCEPT ![intr] = "start"]
    <3>1. (\A b \in Actors : b # intr => pc'[b] = pc[b]) /\ pc'[intr] = "start"
      BY Zenon, <1>1, <1>2, <2>3
    <3>2. \A q \in Procs : pc'[q] = pc[q]
      BY Zenon, <1>2, <3>1
    <3>3. \A a \in Actors : tx_lock' = a <=> pc'[a] \in Sending
      BY Zenon, <1>1, <2>3, <3>1, Alone DEF Sending
    <3>4. pc'[intr] \notin Locking /\ pc[intr] \notin Locking
      BY Zenon, <2>1, <3>1 DEF Locking
    <3> QED
      BY Zenon, <2>3, <3>2, <3>3, <3>4 DEF LockInv
  <2> QED
    BY Zenon, <1>12, <2>2, <2>3 DEF uartintr, Goto
<1>13. ASSUME consoleintr \/ consoleintr_echoed \/ consoleintr_store PROVE LockInv'
  <2>1. pc[intr] \in Locking /\ tx_lock' = tx_lock
    BY Zenon, <1>13 DEF consoleintr, consoleintr_echoed, consoleintr_store, Locking
  <2>2. CASE cons_lock' = cons_lock /\ \E l \in Locking : pc' = [pc EXCEPT ![intr] = l]
    <3>1. (\A b \in Actors : b # intr => pc'[b] = pc[b]) /\ pc'[intr] \in Locking
      BY Zenon, <1>1, <1>2, <2>2
    <3>2. ~(pc'[intr] = "read") /\ ~(pc[intr] = "read") /\ pc'[intr] \notin Sending /\ pc[intr] \notin Sending
      BY Zenon, <2>1, <3>1 DEF Sending, Locking
    <3> QED
      BY Zenon, <1>2, <2>1, <2>2, <3>1, <3>2, SameHolder
  <2>3. CASE cons_lock' = None /\ \/ pc' = [pc EXCEPT ![intr] = "getc"]
                                  \/ pc' = [Wakeup("rsleep") EXCEPT ![intr] = "getc"]
    <3>1. pc'[intr] = "getc"
      BY Zenon, <1>1, <1>2, <2>3 DEF Wakeup
    <3>2. \A q \in Procs : pc'[q] = pc[q] \/ (pc[q] = "rsleep" /\ pc'[q] = "rwoken")
      BY Zenon, <1>1, <1>2, <2>3, Wakes DEF Wakeup
    <3>3. \A q \in Procs : pc'[q] # "read"
      BY Zenon, <1>1, <2>1, <3>2, Alone
    <3>4. \A q \in Procs : pc'[q] \in Sending <=> pc[q] \in Sending
      BY Zenon, <3>2 DEF Sending
    <3>5. pc'[intr] \notin Sending /\ pc[intr] \notin Sending /\ pc'[intr] \notin Locking
      BY Zenon, <2>1, <3>1 DEF Sending, Locking
    <3>6. \A a \in Actors : tx_lock' = a <=> pc'[a] \in Sending
      BY Zenon, <2>1, <3>4, <3>5 DEF LockInv, Actors
    <3> QED
      BY Zenon, <1>3, <1>2, <2>3, <3>3, <3>5, <3>6 DEF LockInv
  <2> QED
    BY Zenon, <1>13, <2>2, <2>3 DEF consoleintr, consoleintr_echoed, consoleintr_store, Goto, Done, Locking
<1> QED
  BY Zenon, <1>4, <1>5, <1>6, <1>7, <1>8, <1>9, <1>10, <1>11, <1>12, <1>13 DEF Next

\* The handler's character and its room: r moves only under cons.lock.
LEMMA KeyStep ==
  ASSUME TypeOK, LabelInv, LockInv, KeyInv, Next
  PROVE  KeyInv'
<1>1. PcType /\ LockType /\ InType
  BY Zenon, Types
<1>2. intr \in Actors /\ intr \notin Procs /\ \A p \in Procs : p \in Actors /\ p # intr
  BY Zenon, Sizes DEF Actors
<1>3. pc'[intr] = pc[intr] /\ UNCHANGED <<c, r, e>> => KeyInv'
  BY Zenon DEF KeyInv
<1>4. pc'[intr] \notin Locking => KeyInv'
  BY Zenon DEF KeyInv, Locking
<1>5. ASSUME NEW p \in Procs, consoleread(p) \/ read_woken(p) \/ consolewrite(p) \/ write_fails(p)
                              \/ uartputc(p) \/ kill(p)
      PROVE  KeyInv'
  <2>1. \E l : pc' = [pc EXCEPT ![p] = l]
    BY Zenon, <1>5 DEF consoleread, read_woken, consolewrite, write_fails, uartputc, kill, Goto
  <2>2. pc'[intr] = pc[intr]
    BY Zenon, <1>1, <1>2, <2>1 DEF PcType
  <2>3. UNCHANGED <<c, r, e>>
    BY Zenon, <1>5 DEF consoleread, read_woken, consolewrite, write_fails, uartputc, kill, cons
  <2> QED
    BY Zenon, <1>3, <2>2, <2>3
<1>6. ASSUME NEW p \in Procs, read_turn(p) PROVE KeyInv'
  <2>1. pc[p] = "read" /\ (pc' = pc \/ \E l : pc' = [pc EXCEPT ![p] = l])
    BY Zenon, <1>6 DEF read_turn, read_return, Goto
  <2>2. pc'[intr] = pc[intr] /\ pc[intr] \notin Locking
    BY Zenon, <1>1, <1>2, <2>1, Alone DEF PcType
  <2> QED
    BY Zenon, <1>4, <2>2
<1>7. ASSUME NEW a \in Actors, uartstart(a) \/ uartstart_thr(a) PROVE KeyInv'
  <2>1. CASE a = intr
    <3>1. pc'[intr] \in {"idle", "start", "thr"}
      BY Zenon, <1>1, <1>2, <1>7, <2>1 DEF uartstart, uartstart_thr, Goto, Started, Wakeup, PcType
    <3> QED
      BY Zenon, <1>4, <3>1 DEF Locking
  <2>2. CASE a # intr
    <3>1. UNCHANGED <<c, r, e>>
      BY Zenon, <1>7 DEF uartstart, uartstart_thr, cons
    <3>2. pc[intr] # "wsleep"
      BY Zenon DEF LabelInv, Handler, Locking, Sending
    <3>3. pc'[intr] = pc[intr]
      <4>1. CASE \E l : pc' = [pc EXCEPT ![a] = l]
        BY Zenon, <1>1, <1>2, <2>2, <4>1 DEF PcType
      <4>2. CASE pc' = [Wakeup("wsleep") EXCEPT ![a] = "thr"]
        BY Zenon, <1>2, <2>2, <3>2, <4>2, Wakes DEF Wakeup
      <4> QED
        BY Zenon, <1>7, <4>1, <4>2 DEF uartstart, uartstart_thr, Goto
    <3> QED
      BY Zenon, <1>3, <3>1, <3>3
  <2> QED
    BY Zenon, <2>1, <2>2
<1>8. ASSUME key \/ transmit \/ uartputc_sync PROVE KeyInv'
  BY Zenon, <1>3, <1>8 DEF key, transmit, uartputc_sync, cons
<1>9. ASSUME plic_claim \/ consoleintr_echoed \/ consoleintr_store PROVE KeyInv'
  <2>1. pc'[intr] = "getc"
    BY Zenon, <1>1, <1>2, <1>9 DEF plic_claim, consoleintr_echoed, consoleintr_store, Done, Goto, Wakeup, PcType
  <2> QED
    BY Zenon, <1>4, <2>1 DEF Locking
<1>10. ASSUME uartintr PROVE KeyInv'
  <2>1. pc'[intr] = "start" \/ (pc'[intr] = "consoleintr" /\ c' \in Keys)
    BY Zenon, <1>1, <1>2, <1>10 DEF uartintr, Goto, PcType
  <2> QED
    BY Zenon, <2>1 DEF KeyInv, Locking
<1>11. ASSUME consoleintr PROVE KeyInv'
  <2>1. c \in Keys
    BY Zenon, <1>11 DEF consoleintr, KeyInv, Locking
  <2>2. CASE c' = c /\ pc'[intr] \in {"consoleintr", "echoed"}
    BY Zenon, <2>1, <2>2 DEF KeyInv
  <2>3. CASE c' = c /\ pc'[intr] = "store" /\ UNCHANGED <<r, e>> /\ c \notin {"^P", "^U", "^H", "nul"} /\ Room
    <3>1. (e + UINT - r) % UINT = Dist(r, e, UINT)
      BY Zenon, <1>1, Sizes, Wrapped DEF InType
    <3> QED
      BY Zenon, <2>1, <2>3, <3>1 DEF KeyInv, Room
  <2>4. CASE pc'[intr] = "getc"
    BY Zenon, <1>4, <2>4 DEF Locking
  <2> QED
    BY Zenon, <1>1, <1>2, <1>11, <2>2, <2>3, <2>4 DEF consoleintr, Goto, Done, PcType
<1> QED
  BY Zenon, <1>5, <1>6, <1>7, <1>8, <1>9, <1>10, <1>11 DEF Next

\* The rings: read_turn takes from between r and w, the handler adds and takes
\* away behind w, or moves w to e.
LEMMA RingStep ==
  ASSUME TypeOK, KeyInv, RingInv, Next
  PROVE  RingInv'
<1> DEFINE D(i, j) == Dist(i, j, UINT)
           X(i, j) == Dist(i, j, UINT64)
<1>1. InType /\ OutType
  BY Zenon, Types
<1>2. /\ r \in 0 .. (UINT - 1) /\ w \in 0 .. (UINT - 1) /\ e \in 0 .. (UINT - 1)
      /\ tx_r \in 0 .. (UINT64 - 1) /\ tx_w \in 0 .. (UINT64 - 1)
      /\ UINT \in Nat \ {0} /\ UINT64 \in Nat \ {0}
  BY Zenon, <1>1, Sizes DEF InType, OutType
<1>3. /\ (r + 1) % UINT = Succ(r, UINT) /\ (e + 1) % UINT = Succ(e, UINT)
      /\ (e + UINT - 1) % UINT = Pred(e, UINT)
      /\ (tx_r + 1) % UINT64 = Succ(tx_r, UINT64) /\ (tx_w + 1) % UINT64 = Succ(tx_w, UINT64)
  BY Zenon, <1>2, Wrapped
<1>4. UNCHANGED <<r, w, e, tx_r, tx_w>> => RingInv'
  BY Zenon DEF RingInv
<1>5. ASSUME NEW p \in Procs, consoleread(p) \/ read_woken(p) \/ consolewrite(p) \/ write_fails(p)
                              \/ kill(p)
      PROVE  RingInv'
  BY Zenon, <1>4, <1>5 DEF consoleread, read_woken, consolewrite, write_fails, kill, cons, uart
<1>6. ASSUME NEW p \in Procs, read_turn(p) PROVE RingInv'
  <2>1. UNCHANGED <<w, e, tx_r, tx_w>>
    BY Zenon, <1>6 DEF read_turn, uart
  <2>2. CASE r' = r
    BY Zenon, <1>4, <2>1, <2>2
  <2>3. CASE r # w /\ r' = Succ(r, UINT)
    <3>1. D(r', w) = D(r, w) - 1
      BY Zenon, <1>2, <2>3, DistFacts
    <3>2. r # e
      BY <1>2, <2>3 DEF RingInv, Dist
    <3>3. D(r', e) = D(r, e) - 1
      BY Zenon, <1>2, <2>3, <3>2, DistFacts
    <3>4. D(r, w) \in Nat /\ D(w, e) \in Nat /\ D(r, e) \in Nat /\ INPUT_BUF \in Nat
      BY <1>2, Sizes DEF Dist
    <3> HIDE DEF D
    <3>5. D(r', w) + D(w, e) = D(r', e) /\ D(r', e) <= INPUT_BUF
      <4>1. D(r, w) + D(w, e) = D(r, e) /\ D(r, e) <= INPUT_BUF
        BY Zenon DEF RingInv, D
      <4> QED
        BY <3>1, <3>3, <3>4, <4>1
    <3> QED
      BY Zenon, <2>1, <3>5 DEF RingInv, D
  <2> QED
    BY Zenon, <1>3, <1>6, <2>2, <2>3 DEF read_turn
<1>7. ASSUME NEW p \in Procs, uartputc(p) PROVE RingInv'
  <2>1. UNCHANGED <<r, w, e, tx_r>>
    BY Zenon, <1>7 DEF uartputc, cons
  <2>2. CASE tx_w' = tx_w
    BY Zenon, <1>4, <2>1, <2>2
  <2>3. CASE ~Full /\ tx_w' = Succ(tx_w, UINT64)
    <3>1. X(tx_r, tx_w) # UART_TX_BUF_SIZE
      <4>1. UART_TX_BUF_SIZE \in 0 .. (UINT64 - 1)
        BY Sizes
      <4> QED
        BY Zenon, <1>2, <2>3, <4>1, At DEF Full
    <3>2. X(tx_r, tx_w) < UART_TX_BUF_SIZE /\ X(tx_r, tx_w) < UINT64 - 1 /\ X(tx_r, tx_w) \in Nat
      <4>1. X(tx_r, tx_w) \in 0 .. (UINT64 - 1)
        BY Zenon, <1>2, DistFacts
      <4>2. X(tx_r, tx_w) <= UART_TX_BUF_SIZE
        BY Zenon DEF RingInv
      <4> HIDE DEF X
      <4> QED
        BY <3>1, <4>1, <4>2, Sizes
    <3>3. X(tx_r, tx_w') = X(tx_r, tx_w) + 1
      BY Zenon, <1>2, <2>3, <3>2, DistFacts
    <3>4. X(tx_r, tx_w') <= UART_TX_BUF_SIZE
      BY <3>2, <3>3, Sizes
    <3> QED
      BY Zenon, <2>1, <3>4 DEF RingInv
  <2> QED
    BY Zenon, <1>3, <1>7, <2>2, <2>3 DEF uartputc
<1>8. ASSUME NEW a \in Actors, uartstart(a) PROVE RingInv'
  <2>1. UNCHANGED <<r, w, e, tx_w>>
    BY Zenon, <1>8 DEF uartstart, cons
  <2>2. CASE tx_r' = tx_r
    BY Zenon, <1>4, <2>1, <2>2
  <2>3. CASE tx_w # tx_r /\ tx_r' = Succ(tx_r, UINT64)
    <3>1. X(tx_r', tx_w) = X(tx_r, tx_w) - 1
      BY Zenon, <1>2, <2>3, DistFacts
    <3>2. X(tx_r', tx_w) <= UART_TX_BUF_SIZE
      BY <1>2, <3>1, DistFacts, Sizes DEF RingInv
    <3> QED
      BY Zenon, <2>1, <3>2 DEF RingInv
  <2> QED
    BY Zenon, <1>3, <1>8, <2>2, <2>3 DEF uartstart
<1>9. ASSUME NEW a \in Actors, uartstart_thr(a) PROVE RingInv'
  BY Zenon, <1>4, <1>9 DEF uartstart_thr, cons, uart
<1>10. ASSUME plic_claim \/ uartintr \/ uartputc_sync \/ consoleintr_echoed \/ key \/ transmit
       PROVE  RingInv'
  BY Zenon, <1>4, <1>10
     DEF plic_claim, uartintr, uartputc_sync, consoleintr_echoed, key, transmit, cons, uart
<1>11. ASSUME consoleintr PROVE RingInv'
  <2>1. UNCHANGED <<r, w, tx_r, tx_w>>
    BY Zenon, <1>11 DEF consoleintr, uart
  <2>2. CASE e' = e
    BY Zenon, <1>4, <2>1, <2>2
  <2>3. CASE e # w /\ e' = Pred(e, UINT)
    <3>1. D(w, e') = D(w, e) - 1
      BY Zenon, <1>2, <2>3, DistFacts
    <3>2. r # e
      BY <1>2, <2>3 DEF RingInv, Dist
    <3>3. D(r, e') = D(r, e) - 1
      BY Zenon, <1>2, <2>3, <3>2, DistFacts
    <3>4. D(r, w) \in Nat /\ D(w, e) \in Nat /\ D(r, e) \in Nat /\ INPUT_BUF \in Nat
      BY <1>2, Sizes DEF Dist
    <3>5. D(r, w) + D(w, e') = D(r, e') /\ D(r, e') <= INPUT_BUF
      <4>1. D(r, w) + D(w, e) = D(r, e) /\ D(r, e) <= INPUT_BUF
        BY Zenon DEF RingInv
      <4> HIDE DEF D
      <4> QED
        BY <3>1, <3>3, <3>4, <4>1
    <3> QED
      BY Zenon, <2>1, <3>5 DEF RingInv
  <2> QED
    BY Zenon, <1>3, <1>11, <2>2, <2>3 DEF consoleintr
<1>12. ASSUME consoleintr_store PROVE RingInv'
  <2>1. UNCHANGED <<r, tx_r, tx_w>> /\ e' = Succ(e, UINT) /\ w' \in {w, e'}
    BY Zenon, <1>3, <1>12 DEF consoleintr_store, uart
  <2>2. D(r, e) < INPUT_BUF
    BY Zenon, <1>12 DEF consoleintr_store, KeyInv
  <2>3. D(r, w) \in Nat /\ D(w, e) \in Nat /\ D(r, e) \in Nat /\ INPUT_BUF \in Nat /\ INPUT_BUF < UINT
    BY <1>2, Sizes DEF Dist
  <2>4. D(r, w) + D(w, e) = D(r, e)
    BY Zenon DEF RingInv
  <2>5. D(r, e) < UINT - 1 /\ D(w, e) < UINT - 1
    <3> HIDE DEF D
    <3> QED
      BY <1>2, <2>2, <2>3, <2>4
  <2>6. D(r, e') = D(r, e) + 1 /\ D(w, e') = D(w, e) + 1
    <3>1. D(r, Succ(e, UINT)) = D(r, e) + 1
      BY Zenon, <1>2, <2>5, DistFacts
    <3>2. D(w, Succ(e, UINT)) = D(w, e) + 1
      BY Zenon, <1>2, <2>5, DistFacts
    <3> QED
      BY Zenon, <2>1, <3>1, <3>2
  <2>7. e' \in 0 .. (UINT - 1)
    BY Zenon, <1>2, <2>1, Wrapped
  <2>8. D(e', e') = 0
    BY Zenon, <1>2, <2>7, DistFacts
  <2>9. D(r, e') \in Nat
    BY <2>3, <2>6
  <2>10. D(r, e') <= INPUT_BUF /\ D(r, w) + D(w, e') = D(r, e') /\ D(r, e') + D(e', e') = D(r, e')
    <3> HIDE DEF D
    <3> QED
      BY <2>2, <2>3, <2>4, <2>6, <2>8, <2>9
  <2> QED
    BY Zenon, <2>1, <2>10 DEF RingInv
<1> QED
  BY Zenon, <1>5, <1>6, <1>7, <1>8, <1>9, <1>10, <1>11, <1>12 DEF Next

\* Who goes to sleep has looked under the lock; who takes the reason away wakes.
LEMMA SleepStep ==
  ASSUME TypeOK, LabelInv, LockInv, SleepInv, Next
  PROVE  SleepInv'
<1> DEFINE Asleep == {"rsleep", "wsleep"}
<1>1. PcType /\ \A p \in Procs : p \in Actors /\ p # intr
  BY Zenon, Types, Sizes DEF Actors
<1>2. ASSUME UNCHANGED <<r, w, tx_r, tx_w>>, \A q \in Procs : pc'[q] \in Asleep => pc'[q] = pc[q]
      PROVE  SleepInv'
  BY Zenon, <1>2 DEF SleepInv, Full
<1>3. ASSUME NEW p \in Procs, consoleread(p) \/ read_woken(p) \/ consolewrite(p) \/ write_fails(p)
                              \/ kill(p)
      PROVE  SleepInv'
  <2>1. UNCHANGED <<r, w, tx_r, tx_w>>
    BY Zenon, <1>3 DEF consoleread, read_woken, consolewrite, write_fails, kill, cons, uart
  <2>2. \E l \in {"read", "write", "user", "rwoken", "wwoken"} : pc' = [pc EXCEPT ![p] = l]
    BY Zenon, <1>3, Kills DEF consoleread, read_woken, consolewrite, write_fails, Goto
  <2>3. \A q \in Procs : pc'[q] \in Asleep => pc'[q] = pc[q]
    <3>1. \A q \in Procs : q # p => pc'[q] = pc[q]
      BY Zenon, <1>1, <2>2 DEF PcType
    <3>2. pc'[p] \in {"read", "write", "user", "rwoken", "wwoken"}
      BY Zenon, <1>1, <2>2 DEF PcType
    <3> QED
      BY Zenon, <3>1, <3>2
  <2> QED
    BY Zenon, <1>2, <2>1, <2>3
<1>4. ASSUME NEW p \in Procs, read_turn(p) PROVE SleepInv'
  <2>1. UNCHANGED <<w, tx_r, tx_w>> /\ pc[p] = "read"
    BY Zenon, <1>4 DEF read_turn, uart
  <2>2. \A q \in Procs : q # p => pc'[q] = pc[q]
    BY Zenon, <1>1, <1>4 DEF read_turn, read_return, Goto, PcType
  <2>3. CASE r = w /\ r' = r
    <3>1. pc'[p] \in {"user", "rsleep"} \/ pc'[p] = pc[p]
      BY Zenon, <1>1, <1>4 DEF read_turn, read_return, Goto, PcType
    <3>2. pc'[p] # "wsleep"
      BY Zenon, <2>1, <3>1
    <3> QED
      BY Zenon, <2>1, <2>2, <2>3, <3>2 DEF SleepInv, Full
  <2>4. CASE n[p] = 0 \/ r # w
    <3>1. n[p] \in Nat
      BY Zenon, <1>1, Types DEF CallType
    <3>2. ~(n[p] > 0 /\ r = w)
      BY <2>4, <3>1
    <3>3. pc'[p] = "user" \/ pc'[p] = pc[p]
      BY Zenon, <1>1, <1>4, <3>2 DEF read_turn, read_return, Goto, PcType
    <3>4. pc'[p] \notin Asleep
      BY Zenon, <2>1, <3>3
    <3>5. r' = r \/ r # w
      BY Zenon, <1>4 DEF read_turn
    <3> QED
      BY Zenon, <2>1, <2>2, <3>4, <3>5 DEF SleepInv, Full
  <2> QED
    BY Zenon, <1>4, <2>3, <2>4 DEF read_turn
<1>5. ASSUME NEW p \in Procs, uartputc(p) PROVE SleepInv'
  <2>1. UNCHANGED <<r, w, tx_r>>
    BY Zenon, <1>5 DEF uartputc, cons
  <2>2. \A q \in Procs : q # p => pc'[q] = pc[q]
    BY Zenon, <1>1, <1>5 DEF uartputc, Goto, PcType
  <2>3. CASE Full /\ pc'[p] = "wsleep" /\ tx_w' = tx_w
    BY Zenon, <2>1, <2>2, <2>3 DEF SleepInv, Full
  <2>4. CASE ~Full /\ pc'[p] = "start"
    BY Zenon, <2>1, <2>2, <2>4 DEF SleepInv
  <2> QED
    BY Zenon, <1>1, <1>5, <2>3, <2>4 DEF uartputc, Goto, PcType
<1>6. ASSUME NEW a \in Actors, uartstart(a) PROVE SleepInv'
  <2>1. UNCHANGED <<r, w, tx_w>>
    BY Zenon, <1>6 DEF uartstart, cons
  <2>2. CASE tx_r' = tx_r /\ pc' = [pc EXCEPT ![a] = Started(a)]
    <3>1. \A q \in Procs : q # a => pc'[q] = pc[q]
      BY Zenon, <1>1, <2>2 DEF PcType
    <3>2. pc'[a] \in {"idle", "user", "write"}
      BY Zenon, <1>1, <2>2 DEF PcType, Started
    <3>3. \A q \in Procs : pc'[q] \in Asleep => pc'[q] = pc[q]
      BY Zenon, <3>1, <3>2
    <3> QED
      BY Zenon, <1>2, <2>1, <2>2, <3>3
  <2>3. CASE pc' = [Wakeup("wsleep") EXCEPT ![a] = "thr"]
    <3>1. \A q \in Procs : q # a => pc'[q] = IF pc[q] = "wsleep" THEN "wwoken" ELSE pc[q]
      BY Zenon, <1>1, <2>3, Wakes DEF Wakeup
    <3>2. pc'[a] = "thr"
      BY Zenon, <2>3 DEF Wakeup
    <3>3. \A q \in Procs : pc'[q] # "wsleep" /\ (pc'[q] = "rsleep" => pc[q] = "rsleep")
      BY Zenon, <3>1, <3>2
    <3> QED
      BY Zenon, <2>1, <3>3 DEF SleepInv
  <2> QED
    BY Zenon, <1>6, <2>2, <2>3 DEF uartstart, Goto
<1>7. ASSUME NEW a \in Actors, uartstart_thr(a) PROVE SleepInv'
  <2>1. UNCHANGED <<r, w, tx_r, tx_w>> /\ pc' = [pc EXCEPT ![a] = "start"]
    BY Zenon, <1>7 DEF uartstart_thr, cons, uart, Goto
  <2>2. \A q \in Procs : pc'[q] \in Asleep => pc'[q] = pc[q]
    BY Zenon, <1>1, <2>1 DEF PcType
  <2> QED
    BY Zenon, <1>2, <2>1, <2>2
<1>8. ASSUME plic_claim \/ uartintr \/ consoleintr \/ uartputc_sync \/ consoleintr_echoed
             \/ key \/ transmit
      PROVE  SleepInv'
  <2>1. UNCHANGED <<r, w, tx_r, tx_w>>
    BY Zenon, <1>8 DEF plic_claim, uartintr, consoleintr, uartputc_sync, consoleintr_echoed, key,
       transmit, cons, uart
  <2>2. pc' = pc \/ \E l : pc' = [pc EXCEPT ![intr] = l]
    BY Zenon, <1>8 DEF plic_claim, uartintr, consoleintr, uartputc_sync, consoleintr_echoed, key,
       transmit, Goto, Done
  <2>3. \A q \in Procs : pc'[q] = pc[q]
    BY Zenon, <1>1, <2>2 DEF PcType
  <2> QED
    BY Zenon, <1>2, <2>1, <2>3
<1>9. ASSUME consoleintr_store PROVE SleepInv'
  <2>1. UNCHANGED <<r, tx_r, tx_w>>
    BY Zenon, <1>9 DEF consoleintr_store, uart
  <2>2. CASE w' = w /\ pc' = [pc EXCEPT ![intr] = "getc"]
    <3>1. \A q \in Procs : pc'[q] = pc[q]
      BY Zenon, <1>1, <2>2 DEF PcType
    <3> QED
      BY Zenon, <1>2, <2>1, <2>2, <3>1
  <2>3. CASE pc' = [Wakeup("rsleep") EXCEPT ![intr] = "getc"]
    <3>1. \A q \in Procs : pc'[q] = IF pc[q] = "rsleep" THEN "rwoken" ELSE pc[q]
      BY Zenon, <1>1, <2>3, Wakes DEF Wakeup
    <3>2. \A q \in Procs : pc'[q] # "rsleep" /\ (pc'[q] = "wsleep" => pc[q] = "wsleep")
      BY Zenon, <3>1
    <3> QED
      BY Zenon, <2>1, <3>2 DEF SleepInv, Full
  <2> QED
    BY Zenon, <1>9, <2>2, <2>3 DEF consoleintr_store
<1> QED
  BY Zenon, <1>3, <1>4, <1>5, <1>6, <1>7, <1>8, <1>9 DEF Next

\* The label of the handler changes in its own steps only.
LEMMA HandlerAlone ==
  ASSUME TypeOK, LabelInv, NEW p \in Procs,
         \/ consoleread(p) \/ read_turn(p) \/ read_woken(p) \/ consolewrite(p) \/ write_fails(p)
         \/ uartputc(p) \/ kill(p)
  PROVE  pc'[intr] = pc[intr] /\ UNCHANGED <<tx_r, thr, pending>>
<1>1. PcType /\ intr \in Actors /\ p # intr
  BY Zenon, Types, Sizes DEF Actors
<1>2. pc' = pc \/ \E l : pc' = [pc EXCEPT ![p] = l]
  BY Zenon DEF consoleread, read_turn, read_return, read_woken, consolewrite, write_fails, uartputc,
     kill, Goto
<1>3. UNCHANGED <<tx_r, thr, pending>>
  BY Zenon DEF consoleread, read_turn, read_woken, consolewrite, write_fails, uartputc, kill, uart, dev
<1> QED
  BY Zenon, <1>1, <1>2, <1>3 DEF PcType

\* What is in the ring is on its way: uartstart returns when the ring is empty,
\* or the FIFO is not and will interrupt.
LEMMA SendStep ==
  ASSUME TypeOK, LabelInv, LockInv, SendInv, Next
  PROVE  SendInv'
<1>1. PcType /\ thr \in Nat /\ intr \in Actors /\ \A a \in Actors : a # None
  BY Zenon, Types, Sizes DEF DevType, Actors
<1>2. ASSUME UNCHANGED <<tx_lock, tx_w, tx_r, thr, pending>>, pc'[intr] = pc[intr] PROVE SendInv'
  BY Zenon, <1>2 DEF SendInv
<1>3. ASSUME tx_lock' # None \/ pc'[intr] \in {"getc"} \cup Locking \/ pending' = TRUE PROVE SendInv'
  BY Zenon, <1>3 DEF SendInv
<1>4. ASSUME NEW p \in Procs,
             \/ consoleread(p) \/ read_turn(p) \/ read_woken(p) \/ consolewrite(p) \/ write_fails(p)
             \/ kill(p)
      PROVE  SendInv'
  <2>1. pc'[intr] = pc[intr] /\ UNCHANGED <<tx_r, thr, pending>>
    BY Zenon, <1>4, HandlerAlone
  <2>2. UNCHANGED <<tx_lock, tx_w>>
    BY Zenon, <1>4 DEF consoleread, read_turn, read_woken, consolewrite, write_fails, kill, uart
  <2> QED
    BY Zenon, <1>2, <2>1, <2>2
<1>5. ASSUME NEW p \in Procs, uartputc(p) PROVE SendInv'
  <2>1. pc'[intr] = pc[intr] /\ UNCHANGED <<tx_r, thr, pending>>
    BY Zenon, <1>5, HandlerAlone
  <2>2. UNCHANGED <<tx_w, tx_lock>> \/ tx_lock' = p
    BY Zenon, <1>5 DEF uartputc
  <2> QED
    BY Zenon, <1>1, <1>2, <1>3, <2>1, <2>2 DEF Actors
<1>6. ASSUME NEW a \in Actors, uartstart(a) PROVE SendInv'
  <2>1. tx_lock = a
    BY Zenon, <1>6 DEF uartstart, LockInv, Sending
  <2>2. UNCHANGED <<tx_w, thr>>
    BY Zenon, <1>6 DEF uartstart, dev
  <2>3. CASE (tx_w = tx_r \/ thr > 0) /\ tx_r' = tx_r
    BY Zenon, <2>2, <2>3 DEF SendInv
  <2>4. CASE tx_lock' = tx_lock
    BY Zenon, <1>1, <1>3, <2>1, <2>4
  <2> QED
    BY Zenon, <1>6, <2>3, <2>4 DEF uartstart
<1>7. ASSUME NEW a \in Actors, uartstart_thr(a) PROVE SendInv'
  <2>1. tx_lock = a /\ tx_lock' = tx_lock
    BY Zenon, <1>7 DEF uartstart_thr, LockInv, Sending
  <2> QED
    BY Zenon, <1>1, <1>3, <2>1
<1>8. ASSUME plic_claim \/ consoleintr_echoed \/ consoleintr_store PROVE SendInv'
  <2>1. pc'[intr] = "getc"
    BY Zenon, <1>1, <1>8 DEF plic_claim, consoleintr_echoed, consoleintr_store, Done, Goto, Wakeup, PcType
  <2> QED
    BY Zenon, <1>3, <2>1
<1>9. ASSUME uartintr PROVE SendInv'
  <2>1. pc'[intr] = "consoleintr" \/ tx_lock' = intr
    BY Zenon, <1>1, <1>9 DEF uartintr, Goto, PcType
  <2> QED
    BY Zenon, <1>1, <1>3, <2>1 DEF Locking
<1>10. ASSUME consoleintr \/ uartputc_sync PROVE SendInv'
  <2>1. pc'[intr] \in {"getc"} \cup Locking
    BY Zenon, <1>1, <1>10 DEF consoleintr, uartputc_sync, Goto, Done, PcType, Locking
  <2> QED
    BY Zenon, <1>3, <2>1
<1>11. ASSUME key PROVE SendInv'
  BY Zenon, <1>3, <1>11 DEF key
<1>12. ASSUME transmit PROVE SendInv'
  <2>1. UNCHANGED <<tx_lock, tx_w, tx_r, pc>> /\ thr > 0 /\ thr' = thr - 1
        /\ pending' = (pending \/ thr = 1)
    BY Zenon, <1>12 DEF transmit, uart
  <2>2. thr = 1 \/ thr' > 0
    BY <1>1, <2>1
  <2> QED
    BY Zenon, <2>1, <2>2 DEF SendInv
<1> QED
  BY Zenon, <1>4, <1>5, <1>6, <1>7, <1>8, <1>9, <1>10, <1>11, <1>12 DEF Next

\* The transmit FIFO gets a byte of uartstart and one of the echo at most.
LEMMA ThrStep ==
  ASSUME TypeOK, LabelInv, LockInv, ThrInv, Next
  PROVE  ThrInv'
<1>1. PcType /\ LockType /\ thr \in Nat /\ intr \in Actors /\ \A p \in Procs : p \in Actors
  BY Zenon, Types DEF DevType, Actors
<1>2. ASSUME thr' = thr, \A a \in Actors : pc'[a] = "thr" => pc[a] = "thr" PROVE ThrInv'
  BY Zenon, <1>2 DEF ThrInv
<1>3. ASSUME NEW p \in Procs,
             \/ consoleread(p) \/ read_turn(p) \/ read_woken(p) \/ consolewrite(p) \/ write_fails(p)
             \/ uartputc(p) \/ kill(p)
      PROVE  ThrInv'
  <2>1. thr' = thr
    BY Zenon, <1>3, HandlerAlone
  <2>2. \/ pc' = pc
        \/ \E l \in {"read", "user", "rsleep", "write", "wsleep", "start", "rwoken", "wwoken"} :
             pc' = [pc EXCEPT ![p] = l]
    BY Zenon, <1>3, Kills DEF consoleread, read_turn, read_return, read_woken, consolewrite, write_fails,
       uartputc, Goto
  <2>3. \A a \in Actors : pc'[a] = "thr" => pc[a] = "thr"
    <3>1. \A a \in Actors : a # p => pc'[a] = pc[a]
      BY Zenon, <1>1, <2>2 DEF PcType
    <3>2. pc'[p] = pc[p]
          \/ pc'[p] \in {"read", "user", "rsleep", "write", "wsleep", "start", "rwoken", "wwoken"}
      BY Zenon, <1>1, <2>2 DEF PcType
    <3>3. pc'[p] = "thr" => pc[p] = "thr"
      BY Zenon, <3>2
    <3> QED
      BY Zenon, <3>1, <3>3
  <2> QED
    BY Zenon, <1>2, <2>1, <2>3
<1>4. ASSUME NEW a \in Actors, uartstart(a) PROVE ThrInv'
  <2>1. thr' = thr /\ pc[a] = "start"
    BY Zenon, <1>4 DEF uartstart, dev
  <2>2. CASE pc' = [pc EXCEPT ![a] = Started(a)]
    <3>1. \A b \in Actors : b # a => pc'[b] = pc[b]
      BY Zenon, <1>1, <2>2 DEF PcType
    <3>2. pc'[a] \in {"idle", "user", "write"}
      BY Zenon, <1>1, <2>2 DEF PcType, Started
    <3> QED
      BY Zenon, <1>2, <2>1, <3>1, <3>2
  <2>3. CASE ~(thr > 0)
    <3>1. thr' <= 1 /\ thr' <= 2
      BY <1>1, <2>1, <2>3
    <3> QED
      BY Zenon, <3>1 DEF ThrInv
  <2> QED
    BY Zenon, <1>4, <2>2, <2>3 DEF uartstart, Goto
<1>5. ASSUME NEW a \in Actors, uartstart_thr(a) PROVE ThrInv'
  <2>1. pc[a] = "thr" /\ thr' = thr + 1 /\ pc' = [pc EXCEPT ![a] = "start"]
    BY Zenon, <1>5 DEF uartstart_thr, Goto
  <2>2. \A b \in Actors : pc'[b] # "thr"
    <3>1. \A b \in Actors : pc[b] = "thr" => b = a
      BY Zenon, <1>1, <2>1, Alone DEF Sending
    <3> QED
      BY Zenon, <1>1, <2>1, <3>1 DEF PcType
  <2>3. thr' <= 2
    BY <1>1, <2>1 DEF ThrInv
  <2> QED
    BY Zenon, <2>2, <2>3 DEF ThrInv
<1>6. ASSUME plic_claim \/ uartintr \/ consoleintr \/ consoleintr_echoed \/ key PROVE ThrInv'
  <2>1. thr' = thr
    BY Zenon, <1>6 DEF plic_claim, uartintr, consoleintr, consoleintr_echoed, key, dev
  <2>2. \/ pc' = pc
        \/ \E l \in {"getc", "consoleintr", "start", "echoed", "store"} : pc' = [pc EXCEPT ![intr] = l]
    BY Zenon, <1>6 DEF plic_claim, uartintr, consoleintr, consoleintr_echoed, key, Goto, Done
  <2>3. \A a \in Actors : a # intr => pc'[a] = pc[a]
    BY Zenon, <1>1, <2>2 DEF PcType
  <2>4. pc'[intr] = pc[intr] \/ pc'[intr] \in {"getc", "consoleintr", "start", "echoed", "store"}
    BY Zenon, <1>1, <2>2 DEF PcType
  <2>5. pc'[intr] = "thr" => pc[intr] = "thr"
    BY Zenon, <2>4
  <2> QED
    BY Zenon, <1>2, <2>1, <2>3, <2>5
<1>7. ASSUME consoleintr_store PROVE ThrInv'
  <2>1. thr' = thr
    BY Zenon, <1>7 DEF consoleintr_store, dev
  <2>2. \/ pc' = [Wakeup("rsleep") EXCEPT ![intr] = "getc"]
        \/ pc' = [pc EXCEPT ![intr] = "getc"]
    BY Zenon, <1>7 DEF consoleintr_store
  <2>3. \A a \in Actors : pc'[a] = pc[a] \/ pc'[a] \in {"getc", "rwoken"}
    BY Zenon, <1>1, <2>2, Wakes DEF PcType, Wakeup
  <2>4. \A a \in Actors : pc'[a] = "thr" => pc[a] = "thr"
    BY Zenon, <2>3
  <2> QED
    BY Zenon, <1>2, <2>1, <2>4
<1>8. ASSUME uartputc_sync PROVE ThrInv'
  <2>1. thr' <= 1 /\ thr' <= 2
    BY <1>8 DEF uartputc_sync
  <2> QED
    BY Zenon, <2>1 DEF ThrInv
<1>9. ASSUME transmit PROVE ThrInv'
  <2>1. pc' = pc /\ thr' = thr - 1
    BY Zenon, <1>9 DEF transmit
  <2>2. thr' <= 2 /\ (thr <= 1 => thr' <= 1)
    BY <1>1, <2>1 DEF ThrInv
  <2> QED
    BY Zenon, <2>1, <2>2 DEF ThrInv
<1> QED
  BY Zenon, <1>3, <1>4, <1>5, <1>6, <1>7, <1>8, <1>9 DEF Next

----------------------------------------------------------------------------
(* The invariant                                                            *)

\* It holds after consoleinit and uartinit.
LEMMA InvInit == Init => IInv
<1> SUFFICES ASSUME Init PROVE IInv
  OBVIOUS
<1>1. \A a \in Actors : pc[a] = IF a = intr THEN "idle" ELSE "user"
  BY Zenon DEF Init
<1>2. intr \in Actors /\ intr \notin Procs /\ \A p \in Procs : p \in Actors /\ p # intr
  BY Zenon, Sizes DEF Actors
<1>3. pc[intr] = "idle" /\ \A p \in Procs : pc[p] = "user"
  BY Zenon, <1>1, <1>2
<1>4. TypeOK
  <2>1. 0 \in 0 .. (UINT - 1) /\ 0 \in 0 .. (UINT64 - 1) /\ 0 \in 0 .. MaxRx /\ 0 \in Nat
    BY Sizes
  <2>2. InType /\ OutType /\ LockType /\ CallType /\ DevType
    BY Zenon, <2>1 DEF Init, InType, OutType, LockType, CallType, DevType
  <2>3. PcType
    <3>1. \A a \in Actors : (IF a = intr THEN "idle" ELSE "user") \in Labels
      BY Zenon DEF Labels
    <3> QED
      BY Zenon, <3>1 DEF Init, PcType
  <2> QED
    BY Zenon, <2>2, <2>3, Types
<1>5. LabelInv /\ KeyInv /\ SleepInv
  BY Zenon, <1>3 DEF LabelInv, KeyInv, SleepInv, Handler, Locking, Reading, Writing
<1>6. LockInv
  <2>1. cons_lock = None /\ tx_lock = None
    BY Zenon DEF Init
  <2>2. \A a \in Actors : a # None /\ pc[a] \notin Sending
    BY Zenon, <1>1, Sizes DEF Actors, Sending
  <2> QED
    BY Zenon, <1>2, <1>3, <2>1, <2>2 DEF LockInv, Locking
<1>7. RingInv
  BY Sizes DEF Init, RingInv, Dist
<1>8. SendInv
  BY Zenon DEF Init, SendInv
<1>9. ThrInv
  BY DEF Init, ThrInv
<1> QED
  BY Zenon, <1>4, <1>5, <1>6, <1>7, <1>8, <1>9 DEF IInv

\* Every step keeps it.
LEMMA InvStep == IInv /\ [Next]_vars => IInv'
<1> SUFFICES ASSUME IInv, [Next]_vars PROVE IInv'
  OBVIOUS
<1>1. CASE Next
  <2>1. TypeOK /\ LabelInv /\ LockInv /\ KeyInv /\ RingInv /\ SleepInv /\ SendInv /\ ThrInv
    BY Zenon DEF IInv
  <2>2. TypeOK' /\ LabelInv' /\ LockInv'
    BY Zenon, <1>1, <2>1, TypeStep, LabelStep, LockStep
  <2>3. KeyInv' /\ RingInv' /\ SleepInv'
    BY Zenon, <1>1, <2>1, KeyStep, RingStep, SleepStep
  <2>4. SendInv' /\ ThrInv'
    BY Zenon, <1>1, <2>1, SendStep, ThrStep
  <2> QED
    BY Zenon, <2>2, <2>3, <2>4 DEF IInv
<1>2. CASE UNCHANGED vars
  <2>1. UNCHANGED <<buf, r, w, e, cons_lock, tx_buf, tx_w, tx_r, tx_lock, pc, n, some, c, rx, thr, pending>>
    BY Zenon, <1>2 DEF vars, cons, uart, dev
  <2>2. TypeOK' /\ LabelInv' /\ LockInv' /\ KeyInv'
    BY Zenon, <2>1 DEF IInv, TypeOK, LabelInv, LockInv, KeyInv
  <2>3. RingInv' /\ SleepInv' /\ SendInv' /\ ThrInv'
    BY Zenon, <2>1 DEF IInv, RingInv, SleepInv, SendInv, ThrInv, Full
  <2> QED
    BY Zenon, <2>2, <2>3 DEF IInv
<1> QED
  BY Zenon, <1>1, <1>2

\* The console keeps its invariant whatever is typed, read, written and killed.
THEOREM ConsoleInvariant == Spec => []IInv
<1> QED
  BY InvInit, InvStep, PTL DEF Spec

\* consoleread, uartputc, uartstart: for any number of readers and writers and
\* any sizes of the rings, nobody sleeps while what it waits for is there, and
\* what is in the transmit ring is on its way.
THEOREM ConsoleNobodyStuck == Spec => []NobodyStuck
<1>1. IInv => NobodyStuck
  BY Zenon DEF IInv, NobodyStuck, SleepInv, SendInv, ThrInv, Locking
<1> QED
  BY <1>1, ConsoleInvariant, PTL

----------------------------------------------------------------------------
(* Slices of a ring                                                         *)

INSTANCE SequenceTheorems

\* From i on, the distance to j leads to the place of j, also around the end.
LEMMA Around ==
  ASSUME NEW z \in Nat \ {0}, NEW m \in Nat \ {0}, m % z = 0,
         NEW i \in 0 .. (m - 1), NEW j \in 0 .. (m - 1), NEW k \in Nat
  PROVE  /\ (i + Dist(i, j, m) + k) % z = (j + k) % z
         /\ (Succ(i, m) + k) % z = (i + 1 + k) % z
<1>1. PICK a \in Nat : a = j + k
  OBVIOUS
<1>2. i + Dist(i, j, m) + k = a \/ i + Dist(i, j, m) + k = a + m
  BY <1>1 DEF Dist
<1>3. (a + m) % z = a % z
  BY Zenon, Period
<1>4. (i + Dist(i, j, m) + k) % z = a % z
  BY Zenon, <1>2, <1>3
<1>5. Succ(i, m) + k = i + 1 + k \/ (Succ(i, m) + k = k /\ i + 1 + k = k + m)
  BY DEF Succ
<1>6. (k + m) % z = k % z
  BY Zenon, Period
<1>7. (Succ(i, m) + k) % z = (i + 1 + k) % z
  BY Zenon, <1>5, <1>6
<1> QED
  BY Zenon, <1>1, <1>4, <1>7

\* t is the d elements of b from place i on, around the ring.
IsSlice(t, S, b, z, i, d) ==
  /\ t \in Seq(S) /\ Len(t) = d /\ d \in Nat
  /\ \A k \in 1 .. d : t[k] = b[(i + (k - 1)) % z] /\ (i + (k - 1)) % z \in 0 .. (z - 1)

\* What Slice is
LEMMA SliceIs ==
  ASSUME NEW S, NEW z \in Nat \ {0}, NEW m \in Nat \ {0}, NEW b \in [0 .. (z - 1) -> S],
         NEW i \in 0 .. (m - 1), NEW j \in 0 .. (m - 1)
  PROVE  IsSlice(Slice(b, z, i, j, m), S, b, z, i, Dist(i, j, m))
<1> DEFINE d == Dist(i, j, m)
<1>1. d \in Nat
  BY DEF Dist
<1>2. (j + m - i) % m = d
  BY Zenon, Wrapped
<1>3. ASSUME NEW k \in 1 .. d
      PROVE  (i + k - 1) % z = (i + (k - 1)) % z /\ (i + (k - 1)) % z \in 0 .. (z - 1)
  <2>1. i + (k - 1) \in Nat /\ i + k - 1 = i + (k - 1)
    BY <1>1
  <2> QED
    BY Zenon, <2>1, Division
<1> HIDE DEF d
<1>4. Slice(b, z, i, j, m) = [k \in 1 .. d |-> b[(i + k - 1) % z]]
  BY Zenon, <1>2 DEF Slice
<1>5. Slice(b, z, i, j, m) \in [1 .. d -> S]
  BY Zenon, <1>3, <1>4
<1>6. \A k \in 1 .. d : Slice(b, z, i, j, m)[k] = b[(i + (k - 1)) % z]
  BY Zenon, <1>3, <1>4
<1>7. Slice(b, z, i, j, m) \in Seq(S) /\ Len(Slice(b, z, i, j, m)) = d
  BY <1>1, <1>5, SeqDef
<1> QED
  BY Zenon, <1>1, <1>3, <1>6, <1>7 DEF d, IsSlice

\* How a slice changes with its ends and with what is stored: x stored at j, the
\* first element taken away, the last, two slices, the same slice of g.
Appended(b, g, x, z, i, j, m) == Slice(g, z, i, Succ(j, m), m) = Append(Slice(b, z, i, j, m), x)
WithoutFirst(b, z, i, j, m) ==
  LET s == Slice(b, z, i, j, m) IN
  s # << >> /\ Slice(b, z, Succ(i, m), j, m) = Tail(s)
WithoutLast(b, z, i, j, m) ==
  LET s == Slice(b, z, i, j, m) IN
  s # << >> /\ Slice(b, z, i, Pred(j, m), m) = SubSeq(s, 1, Len(s) - 1)
Joined(b, z, h, i, j, m) == Slice(b, z, h, j, m) = Slice(b, z, h, i, m) \o Slice(b, z, i, j, m)
Untouched(b, g, z, i, j, m) == Slice(g, z, i, j, m) = Slice(b, z, i, j, m)

\* An element stored behind the last is appended.
LEMMA SliceAppend ==
  ASSUME NEW S, NEW z \in Nat \ {0}, NEW m \in Nat \ {0}, m % z = 0, m > z,
         NEW b \in [0 .. (z - 1) -> S], NEW i \in 0 .. (m - 1), NEW j \in 0 .. (m - 1),
         Dist(i, j, m) < z, NEW x \in S, NEW g, g = [b EXCEPT ![j % z] = x]
  PROVE  Appended(b, g, x, z, i, j, m)
<1> DEFINE d == Dist(i, j, m)
           s == Slice(b, z, i, j, m)
           t == Slice(g, z, i, Succ(j, m), m)
<1>1. j % z \in 0 .. (z - 1)
  <2>1. j \in Nat
    OBVIOUS
  <2> QED
    BY Zenon, <2>1, Division
<1>2. g \in [0 .. (z - 1) -> S] /\ g[j % z] = x /\ \A l \in 0 .. (z - 1) : l # j % z => g[l] = b[l]
  BY Zenon, <1>1
<1>3. Succ(j, m) \in 0 .. (m - 1)
  BY Zenon, Wrapped
<1>4. Dist(i, Succ(j, m), m) = d + 1
  <2>1. Dist(i, j, m) < m - 1
    BY DEF Dist
  <2> QED
    BY <2>1, DistFacts
<1>5. /\ s \in Seq(S) /\ Len(s) = d /\ d \in Nat
      /\ \A k \in 1 .. d : s[k] = b[(i + (k - 1)) % z] /\ (i + (k - 1)) % z \in 0 .. (z - 1)
  <2>1. IsSlice(s, S, b, z, i, d)
    BY Zenon, SliceIs
  <2> QED
    BY Zenon, <2>1 DEF IsSlice
<1>6. /\ t \in Seq(S) /\ Len(t) = d + 1
      /\ \A k \in 1 .. (d + 1) : t[k] = g[(i + (k - 1)) % z]
  <2>1. IsSlice(t, S, g, z, i, Dist(i, Succ(j, m), m))
    BY Zenon, <1>2, <1>3, SliceIs
  <2> QED
    BY Zenon, <1>4, <2>1 DEF IsSlice
<1>7. d < z
  OBVIOUS
<1>8. (i + d) % z = j % z
  <2>1. (i + d + 0) % z = (j + 0) % z
    BY Around
  <2>2. i + d + 0 = i + d /\ j + 0 = j
    BY <1>5
  <2> QED
    BY Zenon, <2>1, <2>2
<1> HIDE DEF d, s, t
<1>9. ASSUME NEW k \in 1 .. d PROVE t[k] = s[k]
  <2>1. k \in 1 .. (d + 1)
    BY <1>5
  <2>2. PICK a \in Nat, f \in 1 .. (z - 1) : a = i + (k - 1) /\ a + f = i + d
    <3>1. i + (k - 1) \in Nat /\ d - (k - 1) \in 1 .. (z - 1) /\ (i + (k - 1)) + (d - (k - 1)) = i + d
      BY <1>5, <1>7
    <3> QED
      BY Zenon, <3>1
  <2>3. (i + (k - 1)) % z # j % z
    BY Zenon, <1>8, <2>2, Apart
  <2> QED
    BY Zenon, <1>2, <1>5, <1>6, <2>1, <2>3
<1>10. t[d + 1] = x
  <2>1. d + 1 \in 1 .. (d + 1) /\ i + ((d + 1) - 1) = i + d
    BY <1>5
  <2> QED
    BY Zenon, <1>2, <1>6, <1>8, <2>1
<1>11. Append(s, x) \in Seq(S) /\ Len(Append(s, x)) = d + 1 /\ Append(s, x)[d + 1] = x
       /\ \A k \in 1 .. d : Append(s, x)[k] = s[k]
  BY <1>5, AppendProperties
<1>12. \A k \in 1 .. (d + 1) : k \in 1 .. d \/ k = d + 1
  BY <1>5
<1>13. \A k \in 1 .. (d + 1) : t[k] = Append(s, x)[k]
  BY Zenon, <1>9, <1>10, <1>11, <1>12
<1>14. t = Append(s, x)
  BY Zenon, <1>6, <1>11, <1>13, SeqEqual
<1> QED
  BY Zenon, <1>14 DEF s, t, Appended

\* A slice without its first element
LEMMA SliceTail ==
  ASSUME NEW S, NEW z \in Nat \ {0}, NEW m \in Nat \ {0}, m % z = 0,
         NEW b \in [0 .. (z - 1) -> S], NEW i \in 0 .. (m - 1), NEW j \in 0 .. (m - 1), i # j
  PROVE  WithoutFirst(b, z, i, j, m)
<1> DEFINE d == Dist(i, j, m)
           s == Slice(b, z, i, j, m)
           t == Slice(b, z, Succ(i, m), j, m)
<1>1. Succ(i, m) \in 0 .. (m - 1)
  BY Zenon, Wrapped
<1>2. Dist(Succ(i, m), j, m) = d - 1
  BY DistFacts
<1>3. d \in Nat /\ d > 0
  BY DEF Dist
<1>4. s \in Seq(S) /\ Len(s) = d /\ \A k \in 1 .. d : s[k] = b[(i + (k - 1)) % z]
  <2>1. IsSlice(s, S, b, z, i, d)
    BY Zenon, SliceIs
  <2> QED
    BY Zenon, <2>1 DEF IsSlice
<1>5. t \in Seq(S) /\ Len(t) = d - 1 /\ \A k \in 1 .. (d - 1) : t[k] = b[(Succ(i, m) + (k - 1)) % z]
  <2>1. IsSlice(t, S, b, z, Succ(i, m), Dist(Succ(i, m), j, m))
    BY Zenon, <1>1, SliceIs
  <2> QED
    BY Zenon, <1>2, <2>1 DEF IsSlice
<1> HIDE DEF d, s, t
<1>6. ASSUME NEW k \in 1 .. (d - 1) PROVE t[k] = s[k + 1]
  <2>1. k + 1 \in 1 .. d /\ k - 1 \in Nat /\ i + 1 + (k - 1) = i + ((k + 1) - 1)
    BY <1>3
  <2>2. (Succ(i, m) + (k - 1)) % z = (i + 1 + (k - 1)) % z
    BY <2>1, Around
  <2>3. t[k] = b[(Succ(i, m) + (k - 1)) % z]
    BY Zenon, <1>5
  <2>4. s[k + 1] = b[(i + ((k + 1) - 1)) % z]
    BY Zenon, <1>4, <2>1
  <2> QED
    BY Zenon, <2>1, <2>2, <2>3, <2>4
<1>7. s # << >>
  BY <1>3, <1>4
<1>8. Tail(s) \in Seq(S) /\ Len(Tail(s)) = d - 1 /\ \A k \in 1 .. (d - 1) : Tail(s)[k] = s[k + 1]
  BY <1>4, <1>7, HeadTailProperties
<1>9. t = Tail(s)
  BY <1>5, <1>6, <1>8, SeqEqual
<1> QED
  BY Zenon, <1>7, <1>9 DEF s, t, WithoutFirst

\* A slice without its last element
LEMMA SliceFront ==
  ASSUME NEW S, NEW z \in Nat \ {0}, NEW m \in Nat \ {0},
         NEW b \in [0 .. (z - 1) -> S], NEW i \in 0 .. (m - 1), NEW j \in 0 .. (m - 1), i # j
  PROVE  WithoutLast(b, z, i, j, m)
<1> DEFINE d == Dist(i, j, m)
           s == Slice(b, z, i, j, m)
           t == Slice(b, z, i, Pred(j, m), m)
<1>1. Pred(j, m) \in 0 .. (m - 1)
  BY Zenon, Wrapped
<1>2. Dist(i, Pred(j, m), m) = d - 1
  BY DistFacts
<1>3. d \in Nat /\ d > 0
  BY DEF Dist
<1>4. s \in Seq(S) /\ Len(s) = d /\ \A k \in 1 .. d : s[k] = b[(i + (k - 1)) % z]
  <2>1. IsSlice(s, S, b, z, i, d)
    BY Zenon, SliceIs
  <2> QED
    BY Zenon, <2>1 DEF IsSlice
<1>5. t \in Seq(S) /\ Len(t) = d - 1 /\ \A k \in 1 .. (d - 1) : t[k] = b[(i + (k - 1)) % z]
  <2>1. IsSlice(t, S, b, z, i, Dist(i, Pred(j, m), m))
    BY Zenon, <1>1, SliceIs
  <2> QED
    BY Zenon, <1>2, <2>1 DEF IsSlice
<1> HIDE DEF d, s, t
<1>6. \A k \in 1 .. (d - 1) : k \in 1 .. d /\ 1 + k - 1 = k
  BY <1>3
<1>7. \A k \in 1 .. (d - 1) : s[k] \in S
  BY Zenon, <1>4, <1>6, ElementOfSeq
<1>8. /\ SubSeq(s, 1, d - 1) \in Seq(S) /\ Len(SubSeq(s, 1, d - 1)) = d - 1
      /\ \A k \in 1 .. (d - 1) : SubSeq(s, 1, d - 1)[k] = s[k]
  <2>1. /\ SubSeq(s, 1, d - 1) \in Seq(S)
        /\ Len(SubSeq(s, 1, d - 1)) = IF 1 <= d - 1 THEN d - 1 - 1 + 1 ELSE 0
        /\ \A k \in 1 .. (d - 1 - 1 + 1) : SubSeq(s, 1, d - 1)[k] = s[1 + k - 1]
    <3>1. 1 \in Int /\ d - 1 \in Int
      BY <1>3
    <3> QED
      BY <1>7, <3>1, SubSeqProperties
  <2>2. d - 1 - 1 + 1 = d - 1 /\ (IF 1 <= d - 1 THEN d - 1 - 1 + 1 ELSE 0) = d - 1
    BY <1>3
  <2> QED
    BY Zenon, <1>6, <2>1, <2>2
<1>9. \A k \in 1 .. (d - 1) : t[k] = SubSeq(s, 1, d - 1)[k]
  BY Zenon, <1>4, <1>5, <1>6, <1>8
<1>10. t = SubSeq(s, 1, d - 1)
  BY Zenon, <1>5, <1>8, <1>9, SeqEqual
<1>11. s # << >>
  BY <1>3, <1>4
<1>12. t = SubSeq(s, 1, Len(s) - 1) /\ s # << >>
  BY Zenon, <1>4, <1>10, <1>11
<1> QED
  BY Zenon, <1>12 DEF s, t, WithoutLast

\* Two slices that follow each other
LEMMA SliceJoin ==
  ASSUME NEW S, NEW z \in Nat \ {0}, NEW m \in Nat \ {0}, m % z = 0,
         NEW b \in [0 .. (z - 1) -> S],
         NEW h \in 0 .. (m - 1), NEW i \in 0 .. (m - 1), NEW j \in 0 .. (m - 1),
         Dist(h, i, m) + Dist(i, j, m) = Dist(h, j, m)
  PROVE  Joined(b, z, h, i, j, m)
<1> DEFINE d1 == Dist(h, i, m)
           d2 == Dist(i, j, m)
           s1 == Slice(b, z, h, i, m)
           s2 == Slice(b, z, i, j, m)
           t == Slice(b, z, h, j, m)
<1>1. /\ s1 \in Seq(S) /\ Len(s1) = d1 /\ d1 \in Nat
      /\ \A k \in 1 .. d1 : s1[k] = b[(h + (k - 1)) % z]
  <2>1. IsSlice(s1, S, b, z, h, d1)
    BY Zenon, SliceIs
  <2> QED
    BY Zenon, <2>1 DEF IsSlice
<1>2. /\ s2 \in Seq(S) /\ Len(s2) = d2 /\ d2 \in Nat
      /\ \A k \in 1 .. d2 : s2[k] = b[(i + (k - 1)) % z]
  <2>1. IsSlice(s2, S, b, z, i, d2)
    BY Zenon, SliceIs
  <2> QED
    BY Zenon, <2>1 DEF IsSlice
<1>3. /\ t \in Seq(S) /\ Len(t) = d1 + d2
      /\ \A k \in 1 .. (d1 + d2) : t[k] = b[(h + (k - 1)) % z]
  <2>1. IsSlice(t, S, b, z, h, Dist(h, j, m))
    BY Zenon, SliceIs
  <2> QED
    BY Zenon, <2>1 DEF IsSlice
<1>4. \A k \in Nat : (h + d1 + k) % z = (i + k) % z
  BY Around
<1> HIDE DEF d1, d2, s1, s2, t
<1>5. /\ s1 \o s2 \in Seq(S) /\ Len(s1 \o s2) = d1 + d2
      /\ \A k \in 1 .. (d1 + d2) : (s1 \o s2)[k] = IF k <= d1 THEN s1[k] ELSE s2[k - d1]
  <2>1. s1 \in Seq(S) /\ s2 \in Seq(S) /\ d1 = Len(s1) /\ d2 = Len(s2)
    BY Zenon, <1>1, <1>2
  <2> QED
    BY <2>1, ConcatProperties
<1>6. ASSUME NEW k \in 1 .. (d1 + d2), k <= d1 PROVE t[k] = (s1 \o s2)[k]
  <2>1. k \in 1 .. d1
    BY <1>1, <1>2, <1>6
  <2> QED
    BY Zenon, <1>1, <1>3, <1>5, <1>6, <2>1
<1>7. ASSUME NEW k \in 1 .. (d1 + d2), ~(k <= d1) PROVE t[k] = (s1 \o s2)[k]
  <2>1. k - d1 \in 1 .. d2 /\ k - d1 - 1 \in Nat /\ h + d1 + (k - d1 - 1) = h + (k - 1)
    BY <1>1, <1>2, <1>7
  <2>2. (h + (k - 1)) % z = (i + (k - d1 - 1)) % z
    BY Zenon, <1>4, <2>1
  <2>3. (s1 \o s2)[k] = s2[k - d1]
    BY Zenon, <1>5, <1>7
  <2>4. s2[k - d1] = b[(i + (k - d1 - 1)) % z]
    BY Zenon, <1>2, <2>1
  <2>5. t[k] = b[(h + (k - 1)) % z]
    BY Zenon, <1>3
  <2> QED
    BY Zenon, <2>2, <2>3, <2>4, <2>5
<1>8. t = s1 \o s2
  BY Zenon, <1>3, <1>5, <1>6, <1>7, SeqEqual
<1> QED
  BY Zenon, <1>8 DEF t, s1, s2, Joined

\* What is stored behind a slice, within a round, does not change it.
LEMMA SliceSame ==
  ASSUME NEW S, NEW z \in Nat \ {0}, NEW m \in Nat \ {0}, m % z = 0,
         NEW b \in [0 .. (z - 1) -> S],
         NEW h \in 0 .. (m - 1), NEW i \in 0 .. (m - 1), NEW j \in 0 .. (m - 1),
         Dist(h, i, m) + Dist(i, j, m) = Dist(h, j, m), Dist(h, j, m) < z,
         NEW x \in S, NEW g, g = [b EXCEPT ![j % z] = x]
  PROVE  Untouched(b, g, z, h, i, m)
<1> DEFINE d1 == Dist(h, i, m)
           d2 == Dist(i, j, m)
           s == Slice(b, z, h, i, m)
           t == Slice(g, z, h, i, m)
<1>1. g \in [0 .. (z - 1) -> S] /\ \A l \in 0 .. (z - 1) : l # j % z => g[l] = b[l]
  BY Zenon
<1>2. /\ s \in Seq(S) /\ Len(s) = d1 /\ d1 \in Nat
      /\ \A k \in 1 .. d1 : s[k] = b[(h + (k - 1)) % z] /\ (h + (k - 1)) % z \in 0 .. (z - 1)
  <2>1. IsSlice(s, S, b, z, h, d1)
    BY Zenon, SliceIs
  <2> QED
    BY Zenon, <2>1 DEF IsSlice
<1>3. t \in Seq(S) /\ Len(t) = d1 /\ \A k \in 1 .. d1 : t[k] = g[(h + (k - 1)) % z]
  <2>1. IsSlice(t, S, g, z, h, d1)
    BY Zenon, <1>1, SliceIs
  <2> QED
    BY Zenon, <2>1 DEF IsSlice
<1>4. d2 \in Nat /\ d1 + d2 < z
  BY DEF Dist
<1>5. (h + (d1 + d2)) % z = j % z
  <2>1. (h + Dist(h, j, m) + 0) % z = (j + 0) % z
    BY Around
  <2>2. h + Dist(h, j, m) + 0 = h + (d1 + d2) /\ j + 0 = j
    BY <1>2, <1>4
  <2> QED
    BY Zenon, <2>1, <2>2
<1> HIDE DEF d1, d2, s, t
<1>6. ASSUME NEW k \in 1 .. d1 PROVE t[k] = s[k]
  <2>1. PICK a \in Nat, f \in 1 .. (z - 1) : a = h + (k - 1) /\ a + f = h + (d1 + d2)
    <3>1. /\ h + (k - 1) \in Nat /\ d1 + d2 - (k - 1) \in 1 .. (z - 1)
          /\ (h + (k - 1)) + (d1 + d2 - (k - 1)) = h + (d1 + d2)
      BY <1>2, <1>4
    <3> QED
      BY Zenon, <3>1
  <2>2. (h + (k - 1)) % z # j % z
    BY Zenon, <1>5, <2>1, Apart
  <2> QED
    BY Zenon, <1>1, <1>2, <1>3, <2>2
<1>7. t = s
  BY Zenon, <1>2, <1>3, <1>6, SeqEqual
<1> QED
  BY Zenon, <1>7 DEF s, t, Untouched

----------------------------------------------------------------------------
(* The console is a terminal.                                               *)

Line  == Slice(buf, INPUT_BUF, w, e, UINT)
Ready == Slice(buf, INPUT_BUF, r, w, UINT)
Out   == Slice(tx_buf, UART_TX_BUF_SIZE, tx_r, tx_w, UINT64)
Codes == {"nul", "x", "\n", "^D"}

\* What a step that leaves the rings alone is to the terminal
LEMMA StutterStep ==
  ASSUME UNCHANGED <<cons, uart>>
  PROVE  UNCHANGED <<Line, Ready, Out>>
BY Zenon DEF cons, uart, Line, Ready, Out

\* The handler stores a character behind the others; one that ends a line, or
\* for which the last room was used, makes the line ready to be read.
LEMMA StoreStep ==
  ASSUME IInv, consoleintr_store
  PROVE  \E ch \in {"x", "\n", "^D"} : T!Type(ch)
<1> DEFINE D(i, j) == Dist(i, j, UINT)
           ch == IF c = "\r" THEN "\n" ELSE c
           e1 == Succ(e, UINT)
<1>1. InType /\ KeyInv /\ RingInv
  BY Zenon, Types DEF IInv
<1>2. r \in 0 .. (UINT - 1) /\ w \in 0 .. (UINT - 1) /\ e \in 0 .. (UINT - 1) /\ UINT \in Nat \ {0}
  BY Zenon, <1>1, Sizes DEF InType
<1>3. INPUT_BUF \in Nat \ {0} /\ UINT % INPUT_BUF = 0 /\ UINT > INPUT_BUF /\ INPUT_BUF \in 0 .. (UINT - 1)
  BY Sizes
<1>4. c \in {"x", "\n", "\r", "^D"} /\ D(r, e) < INPUT_BUF
  BY Zenon, <1>1 DEF consoleintr_store, KeyInv, Keys, Locking
<1>5. ch \in {"x", "\n", "^D"} /\ ch \in Codes
  BY <1>4 DEF Codes
<1>6. (e + 1) % UINT = e1 /\ e1 \in 0 .. (UINT - 1)
  BY Zenon, <1>2, Wrapped
<1>7. /\ buf' = [buf EXCEPT ![e % INPUT_BUF] = ch] /\ e' = e1 /\ UNCHANGED <<r, uart>>
      /\ \/ w' = e1 /\ (ch \in {"\n", "^D"} \/ e1 = (r + INPUT_BUF) % UINT)
         \/ w' = w /\ ~(ch \in {"\n", "^D"} \/ e1 = (r + INPUT_BUF) % UINT)
  BY Zenon, <1>6 DEF consoleintr_store
<1>8. buf \in [0 .. (INPUT_BUF - 1) -> Codes]
  BY Zenon, <1>1 DEF InType, Codes
<1>9. /\ D(r, w) \in Nat /\ D(w, e) \in Nat /\ D(r, w) + D(w, e) = D(r, e) /\ D(r, e) \in Nat
      /\ D(w, e) < INPUT_BUF
  <2>1. D(r, w) \in Nat /\ D(w, e) \in Nat /\ D(r, e) \in Nat
    BY <1>2 DEF Dist
  <2>2. D(r, w) + D(w, e) = D(r, e)
    BY Zenon, <1>1 DEF RingInv
  <2> HIDE DEF D
  <2> QED
    BY <1>3, <1>4, <2>1, <2>2
<1>10. D(r, e1) = D(r, e) + 1
  <2>1. D(r, e) < UINT - 1
    <3> HIDE DEF D
    <3> QED
      BY <1>2, <1>3, <1>4, <1>9
  <2> QED
    BY Zenon, <1>2, <2>1, DistFacts
<1>11. IsSlice(Line, Codes, buf, INPUT_BUF, w, D(w, e)) /\ IsSlice(Ready, Codes, buf, INPUT_BUF, r, D(r, w))
  BY Zenon, <1>2, <1>3, <1>8, SliceIs DEF Line, Ready
<1>12. Line \in Seq(Codes) /\ Ready \in Seq(Codes) /\ Len(Line) = D(w, e) /\ Len(Ready) = D(r, w)
  BY Zenon, <1>11 DEF IsSlice
<1>13. Len(Line) + Len(Ready) < INPUT_BUF
       /\ (Len(Line) + Len(Ready) + 1 = INPUT_BUF <=> e1 = (r + INPUT_BUF) % UINT)
  <2>1. e1 = (r + INPUT_BUF) % UINT <=> D(r, e1) = INPUT_BUF
    BY <1>2, <1>3, <1>6, At
  <2>2. Len(Line) + Len(Ready) = D(r, e)
    <3> HIDE DEF D
    <3> QED
      BY <1>9, <1>12
  <2> QED
    BY Zenon, <1>4, <1>10, <2>1, <2>2
<1>14. Slice(buf', INPUT_BUF, w, e1, UINT) = Append(Line, ch)
  <2>1. Appended(buf, buf', ch, INPUT_BUF, w, e, UINT)
    BY Zenon, <1>2, <1>3, <1>5, <1>7, <1>8, <1>9, SliceAppend
  <2> QED
    BY Zenon, <2>1 DEF Line, Appended
<1>15. Slice(buf', INPUT_BUF, r, w, UINT) = Ready
  <2>1. Untouched(buf, buf', INPUT_BUF, r, w, UINT)
    BY Zenon, <1>2, <1>3, <1>4, <1>5, <1>7, <1>8, <1>9, SliceSame
  <2> QED
    BY Zenon, <2>1 DEF Ready, Untouched
<1>16. Slice(buf', INPUT_BUF, r, e1, UINT) = Ready \o Append(Line, ch)
  <2>1. Slice(buf', INPUT_BUF, r, e1, UINT) = Append(Slice(buf, INPUT_BUF, r, e, UINT), ch)
    <3>1. Appended(buf, buf', ch, INPUT_BUF, r, e, UINT)
      BY Zenon, <1>2, <1>3, <1>4, <1>5, <1>7, <1>8, SliceAppend
    <3> QED
      BY Zenon, <3>1 DEF Appended
  <2>2. Slice(buf, INPUT_BUF, r, e, UINT) = Ready \o Line
    <3>1. Joined(buf, INPUT_BUF, r, w, e, UINT)
      BY Zenon, <1>2, <1>3, <1>8, <1>9, SliceJoin
    <3> QED
      BY Zenon, <3>1 DEF Joined, Ready, Line
  <2>3. Append(Ready \o Line, ch) = Ready \o Append(Line, ch)
    <3>1. Ready \o Line \in Seq(Codes)
      BY Zenon, <1>12, ConcatProperties
    <3>2. Append(Ready \o Line, ch) = (Ready \o Line) \o <<ch>> /\ Append(Line, ch) = Line \o <<ch>>
      BY Zenon, <1>5, <1>12, <3>1, AppendIsConcat
    <3>3. <<ch>> \in Seq(Codes)
      BY <1>5
    <3>4. (Ready \o Line) \o <<ch>> = Ready \o (Line \o <<ch>>)
      BY <1>12, <3>3, ConcatAssociative
    <3> QED
      BY Zenon, <3>2, <3>4
  <2> QED
    BY Zenon, <2>1, <2>2, <2>3
<1>17. Out' = Out
  BY Zenon, <1>7 DEF Out, uart
<1>18. T!Type(ch)
  <2>1. CASE w' = e1 /\ (ch \in {"\n", "^D"} \/ e1 = (r + INPUT_BUF) % UINT)
    <3>1. Ready' = Ready \o Append(Line, ch)
      BY Zenon, <1>7, <1>16, <2>1 DEF Ready
    <3>2. Line' = << >>
      <4>1. buf' \in [0 .. (INPUT_BUF - 1) -> Codes]
        BY Zenon, <1>5, <1>7, <1>8
      <4>2. D(e1, e1) = 0
        BY Zenon, <1>2, <1>6, DistFacts
      <4>3. IsSlice(Line', Codes, buf', INPUT_BUF, e1, D(e1, e1))
        BY Zenon, <1>2, <1>3, <1>6, <1>7, <2>1, <4>1, SliceIs DEF Line
      <4>4. Line' \in Seq(Codes) /\ Len(Line') = 0
        BY Zenon, <4>2, <4>3 DEF IsSlice
      <4> QED
        BY <4>4
    <3> QED
      BY Zenon, <1>13, <1>17, <2>1, <3>1, <3>2 DEF T!Type, Line, Ready, Out
  <2>2. CASE w' = w /\ ~(ch \in {"\n", "^D"} \/ e1 = (r + INPUT_BUF) % UINT)
    <3>1. Line' = Append(Line, ch) /\ Ready' = Ready
      BY Zenon, <1>7, <1>14, <1>15, <2>2 DEF Line, Ready
    <3> QED
      BY Zenon, <1>13, <1>17, <2>2, <3>1 DEF T!Type, Line, Ready, Out
  <2> QED
    BY Zenon, <1>7, <2>1, <2>2
<1> QED
  BY Zenon, <1>5, <1>18

\* Erasing takes the last character of the line away.
LEMMA EraseStep ==
  ASSUME IInv, consoleintr
  PROVE  T!Erase \/ UNCHANGED <<Line, Ready, Out>>
<1>1. InType /\ UINT \in Nat \ {0} /\ INPUT_BUF \in Nat \ {0}
  BY Zenon, Types, Sizes DEF IInv
<1>2. UNCHANGED <<buf, r, w, uart>>
  BY Zenon DEF consoleintr
<1>3. CASE e' = e
  BY Zenon, <1>2, <1>3 DEF Line, Ready, Out, uart
<1>4. CASE e # w /\ e' = (e + UINT - 1) % UINT
  <2>1. w \in 0 .. (UINT - 1) /\ e \in 0 .. (UINT - 1) /\ e' = Pred(e, UINT)
    BY Zenon, <1>1, <1>4, Wrapped DEF InType
  <2>2. buf \in [0 .. (INPUT_BUF - 1) -> Codes]
    BY Zenon, <1>1 DEF InType, Codes
  <2>3. Slice(buf, INPUT_BUF, w, Pred(e, UINT), UINT) = SubSeq(Line, 1, Len(Line) - 1) /\ Line # << >>
    <3>1. WithoutLast(buf, INPUT_BUF, w, e, UINT)
      BY Zenon, <1>1, <1>4, <2>1, <2>2, SliceFront
    <3> QED
      BY Zenon, <3>1 DEF WithoutLast, Line
  <2>4. Line' = SubSeq(Line, 1, Len(Line) - 1) /\ Ready' = Ready /\ Out' = Out
    BY Zenon, <1>2, <2>1, <2>3 DEF Line, Ready, Out, uart
  <2> QED
    BY Zenon, <2>3, <2>4 DEF T!Erase, Line, Ready, Out
<1> QED
  BY Zenon, <1>3, <1>4 DEF consoleintr

\* consoleread takes the first character that is ready, or none.
LEMMA ReadStep ==
  ASSUME IInv, NEW p \in Procs, read_turn(p)
  PROVE  T!Read \/ UNCHANGED <<Line, Ready, Out>>
<1>1. InType /\ UINT \in Nat \ {0} /\ INPUT_BUF \in Nat \ {0} /\ UINT % INPUT_BUF = 0
  BY Zenon, Types, Sizes DEF IInv
<1>2. UNCHANGED <<buf, w, e, uart>>
  BY Zenon DEF read_turn
<1>3. CASE r' = r
  BY Zenon, <1>2, <1>3 DEF Line, Ready, Out, uart
<1>4. CASE r # w /\ r' = (r + 1) % UINT
  <2>1. r \in 0 .. (UINT - 1) /\ w \in 0 .. (UINT - 1) /\ r' = Succ(r, UINT)
    BY Zenon, <1>1, <1>4, Wrapped DEF InType
  <2>2. buf \in [0 .. (INPUT_BUF - 1) -> Codes]
    BY Zenon, <1>1 DEF InType, Codes
  <2>3. Slice(buf, INPUT_BUF, Succ(r, UINT), w, UINT) = Tail(Ready) /\ Ready # << >>
    <3>1. WithoutFirst(buf, INPUT_BUF, r, w, UINT)
      BY Zenon, <1>1, <1>4, <2>1, <2>2, SliceTail
    <3> QED
      BY Zenon, <3>1 DEF WithoutFirst, Ready
  <2>4. Ready' = Tail(Ready) /\ Line' = Line /\ Out' = Out
    BY Zenon, <1>2, <2>1, <2>3 DEF Line, Ready, Out, uart
  <2> QED
    BY Zenon, <2>3, <2>4 DEF T!Read, Line, Ready, Out
<1> QED
  BY Zenon, <1>3, <1>4 DEF read_turn

\* uartputc puts a byte behind the others, or sleeps.
LEMMA WriteStep ==
  ASSUME IInv, NEW p \in Procs, uartputc(p)
  PROVE  (\E b \in Bytes : T!Write(b)) \/ UNCHANGED <<Line, Ready, Out>>
<1>1. OutType /\ UINT64 \in Nat \ {0} /\ UART_TX_BUF_SIZE \in Nat \ {0} /\ UINT64 % UART_TX_BUF_SIZE = 0
      /\ UINT64 > UART_TX_BUF_SIZE
  BY Zenon, Types, Sizes DEF IInv
<1>2. UNCHANGED <<cons, tx_r>>
  BY Zenon DEF uartputc
<1>3. CASE UNCHANGED <<tx_buf, tx_w>>
  BY Zenon, <1>2, <1>3 DEF Line, Ready, Out, cons
<1>4. ASSUME NEW b \in Bytes, ~Full, tx_buf' = [tx_buf EXCEPT ![tx_w % UART_TX_BUF_SIZE] = b],
             tx_w' = (tx_w + 1) % UINT64
      PROVE  T!Write(b)
  <2> DEFINE d == Dist(tx_r, tx_w, UINT64)
             S == Bytes \cup {None}
  <2>1. tx_r \in 0 .. (UINT64 - 1) /\ tx_w \in 0 .. (UINT64 - 1) /\ tx_w' = Succ(tx_w, UINT64)
    BY Zenon, <1>1, <1>4, Wrapped DEF OutType
  <2>2. UART_TX_BUF_SIZE \in 0 .. (UINT64 - 1)
    BY <1>1
  <2>3. d # UART_TX_BUF_SIZE
    BY <1>1, <1>4, <2>1, <2>2, At DEF Full
  <2>4. d \in Nat /\ d <= UART_TX_BUF_SIZE
    <3>1. d \in Nat
      BY <1>1, <2>1 DEF Dist
    <3> QED
      BY Zenon, <3>1 DEF IInv, RingInv
  <2>5. d < UART_TX_BUF_SIZE
    <3> HIDE DEF d
    <3> QED
      BY <1>1, <2>3, <2>4
  <2>6. tx_buf \in [0 .. (UART_TX_BUF_SIZE - 1) -> S] /\ b \in S
    BY Zenon, <1>1 DEF OutType
  <2>7. IsSlice(Out, S, tx_buf, UART_TX_BUF_SIZE, tx_r, d)
    BY Zenon, <1>1, <2>1, <2>6, SliceIs DEF Out
  <2>8. Len(Out) < UART_TX_BUF_SIZE
    BY Zenon, <2>5, <2>7 DEF IsSlice
  <2>9. Slice(tx_buf', UART_TX_BUF_SIZE, tx_r, Succ(tx_w, UINT64), UINT64) = Append(Out, b)
    <3>1. Appended(tx_buf, tx_buf', b, UART_TX_BUF_SIZE, tx_r, tx_w, UINT64)
      BY Zenon, <1>1, <1>4, <2>1, <2>5, <2>6, SliceAppend
    <3> QED
      BY Zenon, <3>1 DEF Appended, Out
  <2>10. Out' = Append(Out, b) /\ Line' = Line /\ Ready' = Ready
    BY Zenon, <1>2, <2>1, <2>9 DEF Line, Ready, Out, cons
  <2> QED
    BY Zenon, <2>8, <2>10 DEF T!Write, Line, Ready, Out
<1> QED
  BY Zenon, <1>3, <1>4 DEF uartputc

\* uartstart takes the first byte, or none.
LEMMA SendByteStep ==
  ASSUME IInv, NEW a \in Actors, uartstart(a)
  PROVE  T!Send \/ UNCHANGED <<Line, Ready, Out>>
<1>1. OutType /\ UINT64 \in Nat \ {0} /\ UART_TX_BUF_SIZE \in Nat \ {0} /\ UINT64 % UART_TX_BUF_SIZE = 0
  BY Zenon, Types, Sizes DEF IInv
<1>2. UNCHANGED <<cons, tx_buf, tx_w>>
  BY Zenon DEF uartstart
<1>3. CASE tx_r' = tx_r
  BY Zenon, <1>2, <1>3 DEF Line, Ready, Out, cons
<1>4. CASE tx_r # tx_w /\ tx_r' = (tx_r + 1) % UINT64
  <2>1. tx_r \in 0 .. (UINT64 - 1) /\ tx_w \in 0 .. (UINT64 - 1) /\ tx_r' = Succ(tx_r, UINT64)
    BY Zenon, <1>1, <1>4, Wrapped DEF OutType
  <2>2. tx_buf \in [0 .. (UART_TX_BUF_SIZE - 1) -> Bytes \cup {None}]
    BY Zenon, <1>1 DEF OutType
  <2>3. Slice(tx_buf, UART_TX_BUF_SIZE, Succ(tx_r, UINT64), tx_w, UINT64) = Tail(Out) /\ Out # << >>
    <3>1. WithoutFirst(tx_buf, UART_TX_BUF_SIZE, tx_r, tx_w, UINT64)
      BY Zenon, <1>1, <1>4, <2>1, <2>2, SliceTail
    <3> QED
      BY Zenon, <3>1 DEF WithoutFirst, Out
  <2>4. Out' = Tail(Out) /\ Line' = Line /\ Ready' = Ready
    BY Zenon, <1>2, <2>1, <2>3 DEF Line, Ready, Out, cons
  <2> QED
    BY Zenon, <2>3, <2>4 DEF T!Send, Line, Ready, Out
<1> QED
  BY Zenon, <1>3, <1>4 DEF uartstart

\* console.c and uart.c implement the terminal of Tty: what is typed can be
\* edited until the line is complete, is read once and in order, and nothing is
\* overwritten; what is written is sent once and in order.
THEOREM ConsoleRefinesTty == Spec => IsTerminal
<1>1. Init => T!Init
  <2> SUFFICES ASSUME Init PROVE T!Init
    OBVIOUS
  <2>1. Dist(0, 0, UINT) = 0 /\ Dist(0, 0, UINT64) = 0
    BY Sizes DEF Dist
  <2>2. InType /\ OutType
    BY Zenon, InvInit, Types DEF IInv
  <2>3. IsSlice(Line, {"nul", "x", "\n", "^D"}, buf, INPUT_BUF, w, Dist(w, e, UINT))
    BY Zenon, <2>2, Sizes, SliceIs DEF Line, InType
  <2>4. IsSlice(Ready, {"nul", "x", "\n", "^D"}, buf, INPUT_BUF, r, Dist(r, w, UINT))
    BY Zenon, <2>2, Sizes, SliceIs DEF Ready, InType
  <2>5. IsSlice(Out, Bytes \cup {None}, tx_buf, UART_TX_BUF_SIZE, tx_r, Dist(tx_r, tx_w, UINT64))
    BY Zenon, <2>2, Sizes, SliceIs DEF Out, OutType
  <2>6. Line = << >> /\ Ready = << >> /\ Out = << >>
    BY <2>1, <2>3, <2>4, <2>5 DEF IsSlice, Init
  <2> QED
    BY Zenon, <2>6 DEF T!Init, Line, Ready, Out
<1>2. IInv /\ [Next]_vars => [T!Next]_<<Line, Ready, Out>>
  <2> SUFFICES ASSUME IInv, [Next]_vars
               PROVE  T!Next \/ UNCHANGED <<Line, Ready, Out>>
    OBVIOUS
  <2>1. CASE UNCHANGED vars
    BY Zenon, <2>1, StutterStep DEF vars
  <2>2. ASSUME NEW p \in Procs,
               consoleread(p) \/ read_woken(p) \/ consolewrite(p) \/ write_fails(p) \/ kill(p)
        PROVE  UNCHANGED <<Line, Ready, Out>>
    BY Zenon, <2>2, StutterStep DEF consoleread, read_woken, consolewrite, write_fails, kill
  <2>3. ASSUME plic_claim \/ uartintr \/ uartputc_sync \/ consoleintr_echoed \/ key \/ transmit
        PROVE  UNCHANGED <<Line, Ready, Out>>
    BY Zenon, <2>3, StutterStep
       DEF plic_claim, uartintr, uartputc_sync, consoleintr_echoed, key, transmit
  <2>4. ASSUME NEW a \in Actors, uartstart_thr(a) PROVE UNCHANGED <<Line, Ready, Out>>
    BY Zenon, <2>4, StutterStep DEF uartstart_thr
  <2>5. ASSUME NEW p \in Procs, read_turn(p) PROVE T!Next \/ UNCHANGED <<Line, Ready, Out>>
    BY Zenon, <2>5, ReadStep DEF T!Next
  <2>6. ASSUME NEW p \in Procs, uartputc(p) PROVE T!Next \/ UNCHANGED <<Line, Ready, Out>>
    BY Zenon, <2>6, WriteStep DEF T!Next
  <2>7. ASSUME NEW a \in Actors, uartstart(a) PROVE T!Next \/ UNCHANGED <<Line, Ready, Out>>
    BY Zenon, <2>7, SendByteStep DEF T!Next
  <2>8. ASSUME consoleintr PROVE T!Next \/ UNCHANGED <<Line, Ready, Out>>
    BY Zenon, <2>8, EraseStep DEF T!Next
  <2>9. ASSUME consoleintr_store PROVE T!Next \/ UNCHANGED <<Line, Ready, Out>>
    BY Zenon, <2>9, StoreStep DEF T!Next
  <2> QED
    BY Zenon, <2>1, <2>2, <2>3, <2>4, <2>5, <2>6, <2>7, <2>8, <2>9 DEF Next
<1> QED
  BY <1>1, <1>2, ConsoleInvariant, PTL DEF Spec, IsTerminal, T!Spec, Line, Ready, Out
=============================================================================
