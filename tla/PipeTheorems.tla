---------------------------- MODULE PipeTheorems ----------------------------
(***************************************************************************)
(* What is proved of Pipe, for every PIPESIZE, every modulus of the        *)
(* counters that PIPESIZE divides, and any number of processes.            *)
(*                                                                         *)
(* The ring is a FIFO: pipe.c indexes its buffer with nread % PIPESIZE and *)
(* nwrite % PIPESIZE, and lets the counters run over.  And the inductive   *)
(* invariant: f->ref counts the references, an end is open as long as it   *)
(* has one, and who takes away a sleeper's reason to sleep holds the lock  *)
(* until it has woken it.  The libraries of theorems on sequences and on   *)
(* finite sets are taken in where they are first needed.                   *)
(***************************************************************************)
EXTENDS Pipe, Integers, FiniteSets, TLAPS

\* The part of Next that is p's
Step(p) ==
  \/ sys_pipe(p) \/ sys_pipe_bad(p) \/ (\E q \in Procs : fork(p, q))
  \/ (\E e \in Ends : sys_dup(p, e) \/ fileclose(p, e)) \/ Close(p) \/ kfree(p) \/ kill(p)
  \/ write_begin(p) \/ Writer(p) \/ write_resume(p)
  \/ read_begin(p) \/ Reader(p) \/ read_resume(p)

IsOpen(e) == IF e = "w" THEN writeopen ELSE readopen
Undo      == {"undo", "undo_r", "undo_w"}
InWrite   == {"write", "write_go", "wsleep", "wwoken"}
InRead    == {"read", "read_go", "rsleep", "rwoken", "copy"}

\* The lock is held by who is between acquire and release.
HolderInv == \A p \in Procs : lock = p <=> pc[p] \in Holds

\* Who is in piperead or pipewrite has a descriptor of that end; nobody is in
\* the pipe before pipealloc or after kfree.
UserInv ==
  /\ \A p \in Procs : /\ pc[p] \in InWrite => fd[p]["w"] > 0
                      /\ pc[p] \in InRead => fd[p]["r"] > 0
                      /\ pc[p] = "unborn" => \A e \in Ends : fd[p][e] = 0
  /\ life # "live" => \A p \in Procs : /\ pc[p] \in {"user", "unborn"}
                                       /\ \A e \in Ends : fd[p][e] = 0

\* f->ref counts the references.
RefInv == \A e \in Ends : ref[e] = Cardinality(Descriptors(e)) + Cardinality(Undoing(e))

\* A sys_pipe that fails is alone with its pipe.
UndoInv ==
  \A p \in Procs : pc[p] \in Undo =>
    /\ \A q \in Procs, e \in Ends : fd[q][e] = 0
    /\ \A q \in Procs : pc[q] \in Undo => q = p

\* An end is open while it has references, or its last one is on the way to
\* pipeclose; who closed the second end is on the way to kfree.
EndsInv ==
  life = "live" =>
    /\ \A e \in Ends :
         /\ IsOpen(e) <=> ref[e] > 0 \/ \E p \in Procs : pc[p] \in Closing(e)
         /\ \A p, q \in Procs : pc[p] \in Closing(e) /\ pc[q] \in Closing(e) => p = q
         /\ \A p \in Procs : pc[p] \in Closing(e) => ref[e] = 0
    /\ ~readopen /\ ~writeopen <=> \E p \in Procs : pc[p] = "kfree"
    /\ \A p, q \in Procs : pc[p] = "kfree" /\ pc[q] = "kfree" => p = q

\* A sleeper's reason lasts until the holder of the lock wakes it.
SleepInv ==
  \A p \in Procs :
    /\ pc[p] = "write_go" => readopen /\ i[p] < n[p]
    /\ pc[p] = "read_go" => Empty /\ writeopen
    /\ pc[p] = "copy" /\ i[p] = 0 => ~(Empty /\ writeopen)
    /\ pc[p] = "wsleep" => readopen /\ (Full \/ \E h \in Procs : pc[h] = "copy")
    /\ pc[p] = "rsleep" /\ (\A q \in Procs : ~killed[q]) =>
         writeopen /\ (Empty \/ \E h \in Procs : pc[h] \in {"write", "write_go"})

\* What the three properties of the pipe rest on
PipeInv ==
  TypeOK /\ HolderInv /\ UserInv /\ RefInv /\ UndoInv /\ EndsInv /\ SleepInv

\* What f->ref says of the descriptors and of a sys_pipe that fails
RefFacts ==
  /\ \A e \in Ends : /\ (\E p \in Procs : fd[p][e] > 0) => ref[e] > 0
                     /\ ref[e] > 0 => \/ \E p \in Procs : fd[p][e] > 0
                                      \/ \E p \in Procs : pc[p] \in Undo
  /\ \A p \in Procs :
       /\ pc[p] = "undo" => ref["r"] = 1 /\ ref["w"] = 1
       /\ pc[p] \in {"undo_r", "undo_w"} => ref["r"] = 0 /\ ref["w"] = 1

----------------------------------------------------------------------------
(* Remainders                                                               *)

\* A remainder is unique.
LEMMA Unique ==
  ASSUME NEW b \in Nat \ {0}, NEW q \in Int, NEW r \in 0 .. (b - 1),
         NEW k \in Int, NEW s \in 0 .. (b - 1), b * q + r = b * k + s
  PROVE  r = s
<1>1. b * (q - k) = s - r
  OBVIOUS
<1>2. CASE q - k >= 1
  <2>1. b * (q - k) >= b
    BY <1>2
  <2> QED
    BY <1>1, <2>1
<1>3. CASE q - k <= -1
  <2>1. b * (q - k) <= -b
    BY <1>3
  <2> QED
    BY <1>1, <2>1
<1> QED
  BY <1>2, <1>3
\* What % returns
LEMMA Remainder ==
  ASSUME NEW a \in Nat, NEW b \in Nat \ {0}, NEW q \in Int, NEW r \in 0 .. (b - 1),
         a = b * q + r
  PROVE  a % b = r
<1>1. a = b * (a \div b) + (a % b) /\ a \div b \in Int /\ a % b \in 0 .. (b - 1)
  OBVIOUS
<1> QED
  BY Zenon, <1>1, Unique
\* Quotient and remainder
LEMMA Division ==
  ASSUME NEW a \in Nat, NEW b \in Nat \ {0}
  PROVE  a % b \in 0 .. (b - 1) /\ \E q \in Int : a = b * q + (a % b)
<1>1. a = b * (a \div b) + (a % b) /\ a \div b \in Int
  OBVIOUS
<1>2. a % b \in 0 .. (b - 1)
  OBVIOUS
<1> QED
  BY Zenon, <1>1, <1>2
\* A multiple of the divisor makes no difference.
LEMMA Period ==
  ASSUME NEW a \in Nat, NEW b \in Nat \ {0}, NEW m \in Nat, m % b = 0
  PROVE  (a + m) % b = a % b
<1>1. PICK q \in Int : a = b * q + (a % b)
  BY Zenon, Division
<1>2. PICK k \in Int : m = b * k + (m % b)
  BY Zenon, Division
<1>3. PICK sum \in Nat : sum = a + m
  OBVIOUS
<1>4. PICK l \in Int : l = q + k
  OBVIOUS
<1>5. PICK r \in 0 .. (b - 1) : r = a % b
  BY Division
<1>6. sum = b * l + r
  <2>1. b * l = b * q + b * k
    BY <1>4
  <2> QED
    BY <1>1, <1>2, <1>3, <1>5, <2>1
<1>7. sum % b = r
  BY <1>6, Remainder
<1> QED
  BY Zenon, <1>3, <1>5, <1>7
\* Once round at most
LEMMA Once ==
  ASSUME NEW a \in Nat, NEW b \in Nat \ {0}, a < 2 * b
  PROVE  a % b = IF a < b THEN a ELSE a - b
<1>1. CASE a < b
  <2>1. a = b * 0 + a
    OBVIOUS
  <2> QED
    BY <1>1, <2>1, Remainder
<1>2. CASE a >= b
  <2>1. a = b * 1 + (a - b)
    OBVIOUS
  <2> QED
    BY <1>2, <2>1, Remainder
<1> QED
  BY <1>1, <1>2
\* Less than b apart, and not the same remainder.
LEMMA Apart ==
  ASSUME NEW a \in Nat, NEW b \in Nat \ {0}, NEW d \in 1 .. (b - 1)
  PROVE  (a + d) % b # a % b
<1>1. PICK q \in Int : a = b * q + (a % b)
  BY Zenon, Division
<1>2. PICK k \in Int : a + d = b * k + ((a + d) % b)
  <2>1. a + d \in Nat
    OBVIOUS
  <2> QED
    BY Zenon, <2>1, Division
<1>3. ASSUME (a + d) % b = a % b PROVE FALSE
  <2>1. b * q + d = b * k + 0
    <3>1. a % b \in Int
      OBVIOUS
    <3> QED
      BY <1>1, <1>2, <1>3, <3>1
  <2>2. d = 0
    BY <2>1, Unique
  <2> QED
    BY <2>2
<1> QED
  BY <1>3
----------------------------------------------------------------------------
(* The counters                                                             *)

\* Before pipealloc nobody has a descriptor of the pipe, or is in it.
BornInv ==
  /\ pc \in [Procs -> Labels] /\ fd \in [Procs -> [Ends -> Int]]
  /\ life = "none" => \A p \in Procs :
       pc[p] \in {"user", "unborn"} /\ \A e \in Ends : fd[p][e] = 0

\* The counters are no more than PIPESIZE apart, and 0 before pipealloc.
RingInv ==
  /\ nread \in 0 .. (UINT - 1) /\ nwrite \in 0 .. (UINT - 1)
  /\ data \in [0 .. (PIPESIZE - 1) -> Bytes \cup {None}]
  /\ Count <= PIPESIZE
  /\ life = "none" => nread = 0 /\ nwrite = 0

\* Count without the remainder
LEMMA CountIs ==
  ASSUME NEW r \in 0 .. (UINT - 1), NEW w \in 0 .. (UINT - 1)
  PROVE  (w + UINT - r) % UINT = IF w >= r THEN w - r ELSE w + UINT - r
<1>1. PICK a \in Nat : a = w + UINT - r /\ a < 2 * UINT
  BY PipeAssumption DEF PipeAssumption
<1>2. a % UINT = IF a < UINT THEN a ELSE a - UINT
  <2>1. UINT \in Nat \ {0} /\ a < 2 * UINT
    BY <1>1, PipeAssumption DEF PipeAssumption
  <2> QED
    BY Zenon, <2>1, Once
<1>3. (w + UINT - r) % UINT = a % UINT
  BY <1>1
<1>4. a < UINT <=> w < r
  BY <1>1, PipeAssumption DEF PipeAssumption
<1>5. a - UINT = w - r
  BY <1>1, PipeAssumption DEF PipeAssumption
<1> QED
  BY <1>1, <1>2, <1>3, <1>4, <1>5
\* Full and Empty are about Count.
LEMMA Filled ==
  ASSUME RingInv
  PROVE  Count \in Nat /\ (Full <=> Count = PIPESIZE) /\ (Empty <=> Count = 0)
<1>1. PICK a \in Nat : a = nread + PIPESIZE /\ a < 2 * UINT
  BY PipeAssumption DEF PipeAssumption, RingInv
<1>2. a % UINT = IF a < UINT THEN a ELSE a - UINT
  BY <1>1, Once, PipeAssumption DEF PipeAssumption
<1>3. Count = IF nwrite >= nread THEN nwrite - nread ELSE nwrite + UINT - nread
  BY CountIs DEF RingInv, Count
<1>4. Full <=> nwrite = a % UINT
  BY <1>1 DEF Full
<1> HIDE DEF Count
<1> QED
  BY <1>1, <1>2, <1>3, <1>4, PipeAssumption DEF PipeAssumption, RingInv, Empty
\* The index of the k-th byte inside, and of the place behind the last
Slot(k) == (nread + k) % PIPESIZE

\* nwrite % PIPESIZE is the place behind the last byte, also after nwrite has
\* wrapped and nread has not.
LEMMA NextSlot ==
  ASSUME RingInv
  PROVE  nwrite % PIPESIZE = Slot(Count)
<1>1. nread \in Nat /\ nwrite \in Nat /\ UINT \in Nat /\ PIPESIZE \in Nat \ {0} /\ UINT % PIPESIZE = 0
  BY PipeAssumption DEF PipeAssumption, RingInv
<1>2. nread + Count = nwrite \/ nread + Count = nwrite + UINT
  BY <1>1, CountIs DEF RingInv, Count
<1>3. (nwrite + UINT) % PIPESIZE = nwrite % PIPESIZE
  BY Zenon, <1>1, Period
<1>4. (nread + Count) % PIPESIZE = nwrite % PIPESIZE
  BY Zenon, <1>2, <1>3
<1> QED
  BY <1>4 DEF Slot
\* The place behind the last byte is none of theirs while the pipe is not full.
LEMMA SlotFree ==
  ASSUME RingInv, Count < PIPESIZE, NEW k \in 0 .. (Count - 1)
  PROVE  Slot(k) # Slot(Count)
<1>1. nread \in Nat /\ PIPESIZE \in Nat \ {0} /\ Count \in Nat
  BY Filled, PipeAssumption DEF PipeAssumption, RingInv
<1>2. PICK a \in Nat, d \in 1 .. (PIPESIZE - 1) : a = nread + k /\ a + d = nread + Count
  BY <1>1
<1>3. (a + d) % PIPESIZE # a % PIPESIZE
  BY Zenon, <1>1, Apart
<1> QED
  BY Zenon, <1>2, <1>3 DEF Slot
----------------------------------------------------------------------------
(* Every step keeps the parts of the invariant that count nothing.          *)

\* The parts of TypeOK
RingType == /\ data \in [0 .. (PIPESIZE - 1) -> Bytes \cup {None}]
            /\ nread \in 0 .. (UINT - 1) /\ nwrite \in 0 .. (UINT - 1)
            /\ ch \in Bytes \cup {None}
FlagType == /\ life \in {"none", "live", "freed"} /\ lock \in Procs \cup {None}
            /\ readopen \in BOOLEAN /\ writeopen \in BOOLEAN
FdType   == ref \in [Ends -> Nat] /\ fd \in [Procs -> [Ends -> 0 .. NOFILE]]
PcType   == pc \in [Procs -> Labels] /\ killed \in [Procs -> BOOLEAN]
CallType == /\ n \in [Procs -> Counts \cup {0}] /\ i \in [Procs -> Nat]
            /\ \A p \in Procs : i[p] <= n[p]

\* The ring: counters run over at UINT.
LEMMA RingTypeStep ==
  ASSUME RingType, NEW p \in Procs, Step(p)
  PROVE  RingType'
<1> USE DEF RingType
<1>1. ASSUME sys_pipe(p) PROVE RingType'
  BY <1>1, PipeAssumption DEF sys_pipe, pipealloc, PipeAssumption
<1>2. ASSUME sys_pipe_bad(p) \/ (\E q \in Procs : fork(p, q))
            \/ (\E e \in Ends : sys_dup(p, e)) \/ (\E e \in Ends : fileclose(p, e))
            \/ (\E e \in Ends : pipeclose(p, e))
      PROVE  RingType'
  BY <1>2 DEF sys_pipe_bad, pipe, fork, sys_dup, fileclose, pipeclose
<1>3. ASSUME kfree(p) \/ kill(p) \/ write_begin(p) \/ write_check(p) \/ write_sleep(p)
            \/ write_fault(p) \/ write_resume(p)
      PROVE  RingType'
  BY Zenon, <1>3 DEF kfree, pipe, kill, write_begin, write_check, write_sleep, write_fault,
     write_resume
<1>4. ASSUME NEW b \in Bytes, write_byte(p, b) PROVE RingType'
  <2>1. (nwrite + 1) % UINT \in 0 .. (UINT - 1)
    BY PipeAssumption DEF PipeAssumption
  <2> QED
    BY Zenon, <1>4, <2>1 DEF write_byte
<1>5. ASSUME read_begin(p) \/ read_check(p) \/ read_sleep(p) \/ read_done(p)
            \/ read_resume(p)
      PROVE  RingType'
  BY Zenon, <1>5 DEF read_begin, pipe, read_check, read_sleep, read_done, read_resume
<1>6. ASSUME read_byte(p) PROVE RingType'
  <2>1. (nread + 1) % UINT \in 0 .. (UINT - 1)
    BY PipeAssumption DEF PipeAssumption
  <2>2. nread % PIPESIZE \in 0 .. (PIPESIZE - 1)
    BY PipeAssumption DEF PipeAssumption
  <2> QED
    BY Zenon, <1>6, <2>1, <2>2 DEF read_byte
<1> HIDE DEF RingType
<1> QED
  BY Zenon, <1>1, <1>2, <1>3, <1>4, <1>5, <1>6
     DEF Step, Close, Writer, Reader, Ends
\* The page, the lock and the two ends
LEMMA FlagTypeStep ==
  ASSUME FlagType, NEW p \in Procs, Step(p)
  PROVE  FlagType'
<1> USE DEF FlagType
<1>1. ASSUME sys_pipe(p) PROVE FlagType'
  BY <1>1 DEF sys_pipe, pipealloc
<1>2. ASSUME sys_pipe_bad(p) \/ (\E q \in Procs : fork(p, q))
            \/ (\E e \in Ends : sys_dup(p, e)) \/ (\E e \in Ends : fileclose(p, e))
            \/ kfree(p) \/ kill(p)
      PROVE  FlagType'
  BY Zenon, <1>2 DEF sys_pipe_bad, pipe, fork, sys_dup, fileclose, kfree, kill
<1>3. ASSUME NEW e \in Ends, pipeclose(p, e) PROVE FlagType'
  BY Zenon, <1>3 DEF pipeclose
<1>4. ASSUME write_begin(p) \/ write_resume(p) \/ read_begin(p) \/ read_resume(p)
      PROVE  FlagType'
  BY Zenon, <1>4 DEF write_begin, pipe, write_resume, read_begin, read_resume
<1>5. ASSUME write_check(p) \/ write_sleep(p) \/ (\E b \in Bytes : write_byte(p, b))
            \/ write_fault(p)
      PROVE  FlagType'
  BY Zenon, <1>5 DEF write_check, pipe, Release, write_sleep, write_byte, write_fault
<1>6. ASSUME read_check(p) \/ read_sleep(p) \/ read_byte(p) \/ read_done(p)
      PROVE  FlagType'
  BY Zenon, <1>6 DEF read_check, pipe, Release, read_sleep, read_byte, read_done
<1> HIDE DEF FlagType
<1> QED
  BY Zenon, <1>1, <1>2, <1>3, <1>4, <1>5, <1>6
     DEF Step, Close, Writer, Reader, Ends
\* Types: f->ref is not 0 where fileclose takes one away.
LEMMA FdTypeStep ==
  ASSUME FdType, RefFacts, NEW p \in Procs, Step(p)
  PROVE  FdType'
<1> USE DEF FdType, Ends
<1>1. ASSUME sys_pipe(p) PROVE FdType'
  BY <1>1, PipeAssumption DEF sys_pipe, pipealloc, fdalloc, Open, PipeAssumption
<1>2. ASSUME sys_pipe_bad(p) PROVE FdType'
  BY <1>2 DEF sys_pipe_bad, RefFacts
<1>3. ASSUME NEW q \in Procs, fork(p, q) PROVE FdType'
  BY <1>3, PipeAssumption DEF fork, filedup, PipeAssumption
<1>4. ASSUME NEW e \in Ends, sys_dup(p, e) PROVE FdType'
  <2>1. ref[e] + 1 \in Nat /\ fd[p][e] + 1 \in 0 .. NOFILE
    BY <1>4, PipeAssumption DEF sys_dup, fdalloc, Open, PipeAssumption
  <2> QED
    BY Zenon, <1>4, <2>1 DEF sys_dup, filedup
<1>5. ASSUME NEW e \in Ends, fileclose(p, e) PROVE FdType'
  <2>1. ref[e] - 1 \in Nat /\ fd[p][e] - 1 \in 0 .. NOFILE
    BY <1>5, PipeAssumption DEF fileclose, argfd, RefFacts, PipeAssumption
  <2> QED
    BY Zenon, <1>5, <2>1 DEF fileclose
<1>6. ASSUME (\E e \in Ends : pipeclose(p, e)) \/ kfree(p) \/ kill(p) \/ write_begin(p)
            \/ write_check(p) \/ write_sleep(p) \/ (\E b \in Bytes : write_byte(p, b))
            \/ write_fault(p) \/ write_resume(p)
      PROVE  FdType'
  BY Zenon, <1>6 DEF pipeclose, kfree, kill, write_begin, write_check, write_sleep, write_byte,
     write_fault, write_resume
<1>7. ASSUME read_begin(p) \/ read_check(p) \/ read_sleep(p) \/ read_byte(p)
            \/ read_done(p) \/ read_resume(p)
      PROVE  FdType'
  BY Zenon, <1>7 DEF read_begin, read_check, read_sleep, read_byte, read_done, read_resume
<1> HIDE DEF FdType, Ends
<1> QED
  BY Zenon, <1>1, <1>2, <1>3, <1>4, <1>5, <1>6, <1>7
     DEF Step, Close, Writer, Reader, Ends
\* Where the processes are
LEMMA PcTypeStep ==
  ASSUME PcType, NEW p \in Procs, Step(p)
  PROVE  PcType'
<1> USE DEF PcType, Labels, InPipe, Ending
<1>1. ASSUME sys_pipe(p) \/ sys_pipe_bad(p) \/ kfree(p)
      PROVE  PcType'
  BY <1>1 DEF sys_pipe, pipealloc, Goto, sys_pipe_bad, kfree
<1>2. ASSUME NEW q \in Procs, fork(p, q) PROVE PcType'
  BY <1>2 DEF fork, Goto
<1>3. ASSUME (\E e \in Ends : sys_dup(p, e)) \/ (\E e \in Ends : fileclose(p, e))
      PROVE  PcType'
  BY Zenon, <1>3 DEF sys_dup, fileclose, Goto
<1>4. ASSUME NEW e \in Ends, pipeclose(p, e) PROVE PcType'
  BY <1>4 DEF pipeclose, Closing, Wake, WakeReaders, WakeWriters
<1>5. ASSUME kill(p) PROVE PcType'
  BY <1>5 DEF kill
<1>6. ASSUME write_begin(p) \/ write_resume(p) \/ read_begin(p) \/ read_resume(p)
      PROVE  PcType'
  BY Zenon, <1>6 DEF write_begin, Goto, write_resume, read_begin, read_resume
<1>7. ASSUME write_check(p) \/ write_sleep(p) \/ (\E b \in Bytes : write_byte(p, b))
            \/ write_fault(p)
      PROVE  PcType'
  BY Zenon, <1>7 DEF write_check, Goto, Release, Wake, WakeReaders, write_sleep, write_byte,
     write_fault
<1>8. ASSUME read_check(p) \/ read_sleep(p) \/ read_byte(p) \/ read_done(p)
      PROVE  PcType'
  BY Zenon, <1>8 DEF read_check, Goto, Release, read_sleep, read_byte, Wake, WakeWriters,
     read_done
<1> HIDE DEF PcType, Labels, InPipe, Ending
<1> QED
  BY Zenon, <1>1, <1>2, <1>3, <1>4, <1>5, <1>6, <1>7, <1>8
     DEF Step, Close, Writer, Reader, Ends
\* The locals of read and write
LEMMA CallTypeStep ==
  ASSUME CallType, SleepInv, NEW p \in Procs, Step(p)
  PROVE  CallType'
<1>0. \A m \in Counts \cup {0} : m \in Nat /\ 0 <= m
  BY PipeAssumption DEF PipeAssumption
<1> USE DEF CallType
<1>1. ASSUME sys_pipe(p) \/ sys_pipe_bad(p) \/ (\E q \in Procs : fork(p, q))
            \/ (\E e \in Ends : sys_dup(p, e)) \/ (\E e \in Ends : fileclose(p, e))
            \/ (\E e \in Ends : pipeclose(p, e)) \/ kfree(p) \/ kill(p)
      PROVE  CallType'
  BY Zenon, <1>1 DEF sys_pipe, pipealloc, sys_pipe_bad, fork, sys_dup, fileclose, pipeclose,
     kfree, kill
<1>2. ASSUME write_begin(p) PROVE CallType'
  <2>1. PICK k \in Counts : n' = [n EXCEPT ![p] = k]
    BY Zenon, <1>2 DEF write_begin
  <2> QED
    BY <1>2, <2>1, PipeAssumption DEF write_begin, PipeAssumption
<1>3. ASSUME write_check(p) PROVE CallType'
  BY <1>3, PipeAssumption DEF write_check, Return, PipeAssumption
<1>4. ASSUME write_sleep(p) \/ write_resume(p) \/ read_sleep(p) \/ read_resume(p)
      PROVE  CallType'
  BY Zenon, <1>4 DEF write_sleep, write_resume, read_sleep, read_resume
<1>5. ASSUME NEW b \in Bytes, write_byte(p, b) PROVE CallType'
  <2>1. i[p] \in Nat /\ n[p] \in Nat /\ \A q \in Procs : 0 <= n[q]
    BY <1>0
  <2>2. i[p] < n[p]
    BY Zenon, <1>5 DEF SleepInv, write_byte
  <2>3. i[p] + 1 \in Nat /\ i[p] + 1 <= n[p]
    BY <2>1, <2>2
  <2> QED
    BY Zenon, <1>5, <2>1, <2>3 DEF write_byte
<1>6. ASSUME write_fault(p) PROVE CallType'
  BY <1>6, PipeAssumption DEF write_fault, Return, PipeAssumption
<1>7. ASSUME read_begin(p) PROVE CallType'
  <2>1. PICK k \in Counts : n' = [n EXCEPT ![p] = k]
    BY Zenon, <1>7 DEF read_begin
  <2> QED
    BY <1>7, <2>1, PipeAssumption DEF read_begin, PipeAssumption
<1>8. ASSUME read_check(p) PROVE CallType'
  BY <1>8, PipeAssumption DEF read_check, Return, PipeAssumption
<1>9. ASSUME read_byte(p) PROVE CallType'
  <2>1. i[p] \in Nat /\ n[p] \in Nat /\ \A q \in Procs : 0 <= n[q]
    BY <1>0
  <2>2. i[p] < n[p]
    BY Zenon, <1>9 DEF read_byte
  <2>3. i[p] + 1 \in Nat /\ i[p] + 1 <= n[p]
    BY <2>1, <2>2
  <2> QED
    BY <1>9, <2>1, <2>3 DEF read_byte, Return
<1>10. ASSUME read_done(p) PROVE CallType'
  BY <1>10, PipeAssumption DEF read_done, Return, PipeAssumption
<1> HIDE DEF CallType
<1> QED
  BY Zenon, <1>1, <1>2, <1>3, <1>4, <1>5, <1>6, <1>7, <1>8, <1>9, <1>10
     DEF Step, Close, Writer, Reader, Ends
\* All of them
LEMMA TypeStep ==
  ASSUME TypeOK, RefFacts, SleepInv, NEW p \in Procs, Step(p)
  PROVE  TypeOK'
<1>1. RingType /\ FlagType /\ FdType /\ PcType /\ CallType
  BY Zenon DEF TypeOK, RingType, FlagType, FdType, PcType, CallType
<1>2. RingType' /\ FlagType' /\ FdType' /\ PcType' /\ CallType'
  BY Zenon, <1>1, RingTypeStep, FlagTypeStep, FdTypeStep, PcTypeStep, CallTypeStep
<1> QED
  BY Zenon, <1>2 DEF TypeOK, RingType, FlagType, FdType, PcType, CallType
\* acquire and release pair up.
LEMMA HolderStep ==
  ASSUME PcType, FlagType, HolderInv, NEW p \in Procs, Step(p)
  PROVE  HolderInv'
<1> USE DEF HolderInv, PcType, FlagType, Holds
<1>1. ASSUME sys_pipe(p) \/ sys_pipe_bad(p) \/ kfree(p) \/ kill(p)
      PROVE  HolderInv'
  BY <1>1, PipeAssumption DEF sys_pipe, pipealloc, Goto, sys_pipe_bad, kfree, kill,
     PipeAssumption
<1>2. ASSUME (\E q \in Procs : fork(p, q)) \/ (\E e \in Ends : sys_dup(p, e))
            \/ (\E e \in Ends : fileclose(p, e))
      PROVE  HolderInv'
  BY <1>2, PipeAssumption DEF fork, Goto, sys_dup, fileclose, PipeAssumption
<1>3. ASSUME NEW e \in Ends, pipeclose(p, e) PROVE HolderInv'
  BY Zenon, <1>3, PipeAssumption DEF pipeclose, Closing, Wake, WakeReaders, WakeWriters,
     PipeAssumption
<1>4. ASSUME write_begin(p) \/ write_resume(p) \/ read_begin(p) \/ read_resume(p)
      PROVE  HolderInv'
  BY <1>4, PipeAssumption DEF write_begin, Goto, write_resume, read_begin, read_resume,
     PipeAssumption
<1>5. ASSUME write_check(p) PROVE HolderInv'
  BY <1>5, PipeAssumption DEF write_check, Goto, Release, Wake, WakeReaders,
     PipeAssumption
<1>6. ASSUME write_sleep(p) PROVE HolderInv'
  BY Zenon, <1>6, PipeAssumption DEF write_sleep, Wake, WakeReaders, PipeAssumption
<1>7. ASSUME NEW b \in Bytes, write_byte(p, b) PROVE HolderInv'
  BY Zenon, <1>7, PipeAssumption DEF write_byte, Goto, PipeAssumption
<1>8. ASSUME write_fault(p) PROVE HolderInv'
  BY Zenon, <1>8, PipeAssumption DEF write_fault, Wake, WakeReaders, PipeAssumption
<1>9. ASSUME read_check(p) PROVE HolderInv'
  BY Zenon, <1>9, PipeAssumption DEF read_check, Goto, Release, PipeAssumption
<1>10. ASSUME read_sleep(p) PROVE HolderInv'
  BY Zenon, <1>10, PipeAssumption DEF read_sleep, Goto, Release, PipeAssumption
<1>11. ASSUME read_byte(p) PROVE HolderInv'
  BY Zenon, <1>11, PipeAssumption DEF read_byte, Wake, WakeWriters, PipeAssumption
<1>12. ASSUME read_done(p) PROVE HolderInv'
  BY Zenon, <1>12, PipeAssumption DEF read_done, Wake, WakeWriters, PipeAssumption
<1> HIDE DEF HolderInv, PcType, FlagType, Holds
<1> QED
  BY Zenon, <1>1, <1>2, <1>3, <1>4, <1>5, <1>6, <1>7, <1>8, <1>9, <1>10, <1>11, <1>12
     DEF Step, Close, Writer, Reader, Ends
\* Nobody joins a sys_pipe that is going to fail.
LEMMA UndoStep ==
  ASSUME PcType, FdType, UserInv, UndoInv, NEW p \in Procs, Step(p)
  PROVE  UndoInv'
<1> USE DEF UndoInv, PcType, FdType, Undo, Ends
<1>1. ASSUME sys_pipe(p) PROVE UndoInv'
  BY <1>1 DEF sys_pipe, pipealloc, Goto, UserInv
<1>2. ASSUME sys_pipe_bad(p) PROVE UndoInv'
  BY Zenon, <1>2 DEF sys_pipe_bad, Goto
<1>3. ASSUME NEW q \in Procs, fork(p, q) PROVE UndoInv'
  BY Zenon, <1>3 DEF fork, Goto
<1>4. ASSUME NEW e \in Ends, sys_dup(p, e) PROVE UndoInv'
  BY <1>4 DEF sys_dup, argfd
<1>5. ASSUME NEW e \in Ends, fileclose(p, e) PROVE UndoInv'
  BY <1>5 DEF fileclose, argfd, Goto
<1>6. ASSUME NEW e \in Ends, pipeclose(p, e) PROVE UndoInv'
  BY <1>6 DEF pipeclose, Closing, Wake, WakeReaders, WakeWriters
<1>7. ASSUME kfree(p) \/ kill(p)
      PROVE  UndoInv'
  BY <1>7 DEF kfree, Goto, kill
<1>8. ASSUME write_begin(p) \/ read_begin(p)
      PROVE  UndoInv'
  BY Zenon, <1>8 DEF write_begin, argfd, Goto, read_begin
<1>9. ASSUME write_check(p) \/ write_sleep(p) \/ (\E b \in Bytes : write_byte(p, b))
            \/ write_fault(p)
      PROVE  UndoInv'
  BY <1>9 DEF write_check, Goto, Release, Wake, WakeReaders, write_sleep, write_byte,
     write_fault
<1>10. ASSUME write_resume(p) \/ read_resume(p)
      PROVE  UndoInv'
  BY Zenon, <1>10 DEF write_resume, Goto, read_resume
<1>11. ASSUME read_check(p) \/ read_sleep(p) \/ read_byte(p) \/ read_done(p)
      PROVE  UndoInv'
  BY <1>11 DEF read_check, Goto, Release, read_sleep, read_byte, Wake, WakeWriters,
     read_done
<1> HIDE DEF UndoInv, PcType, FdType, Undo, Ends
<1> QED
  BY Zenon, <1>1, <1>2, <1>3, <1>4, <1>5, <1>6, <1>7, <1>8, <1>9, <1>10, <1>11
     DEF Step, Close, Writer, Reader, Ends
\* pipeclose of the second end has nobody left to disturb.
LEMMA UserStep ==
  ASSUME PcType, FdType, RefFacts, UserInv, EndsInv, NEW p \in Procs, Step(p)
  PROVE  UserInv'
<1> USE DEF UserInv, PcType, FdType, Ends, InWrite, InRead
<1>1. ASSUME sys_pipe(p) PROVE UserInv'
  BY Zenon, <1>1 DEF sys_pipe, pipealloc, Goto
<1>2. ASSUME sys_pipe_bad(p) PROVE UserInv'
  BY Zenon, <1>2 DEF sys_pipe_bad, Goto
<1>3. ASSUME NEW q \in Procs, fork(p, q) PROVE UserInv'
  BY Zenon, <1>3 DEF fork, Goto
<1>4. ASSUME NEW e \in Ends, sys_dup(p, e) PROVE UserInv'
  BY <1>4 DEF sys_dup, argfd
<1>5. ASSUME NEW e \in Ends, fileclose(p, e) PROVE UserInv'
  BY <1>5 DEF fileclose, argfd, Goto
<1>6. ASSUME NEW e \in Ends, pipeclose(p, e) PROVE UserInv'
  BY Zenon, <1>6 DEF pipeclose, Closing, Wake, WakeReaders, WakeWriters
<1>7. ASSUME kfree(p) PROVE UserInv'
  <2>1. life = "live" /\ ~readopen /\ ~writeopen
    BY Zenon, <1>7 DEF kfree, EndsInv
  <2>2. \A e \in Ends, q \in Procs : fd[q][e] = 0 /\ pc[q] \notin Closing(e)
    BY <2>1 DEF EndsInv, IsOpen, RefFacts
  <2>3. \A q \in Procs : pc[q] \notin Undo
    BY <2>1 DEF EndsInv, IsOpen, RefFacts, Undo
  <2>4. \A q \in Procs : pc[q] = "kfree" => q = p
    BY Zenon, <1>7, <2>1 DEF kfree, EndsInv
  <2> QED
    BY <1>7, <2>2, <2>3, <2>4 DEF kfree, Goto, Labels, InPipe, Ending, Closing, Undo
<1>8. ASSUME kill(p) PROVE UserInv'
  BY Zenon, <1>8 DEF kill
<1>9. ASSUME write_begin(p) \/ read_begin(p)
      PROVE  UserInv'
  BY <1>9 DEF write_begin, argfd, Goto, read_begin
<1>10. ASSUME write_check(p) PROVE UserInv'
  BY Zenon, <1>10 DEF write_check, Goto, Release, Wake, WakeReaders
<1>11. ASSUME write_sleep(p) PROVE UserInv'
  BY Zenon, <1>11 DEF write_sleep, Wake, WakeReaders
<1>12. ASSUME NEW b \in Bytes, write_byte(p, b) PROVE UserInv'
  BY Zenon, <1>12 DEF write_byte, Goto
<1>13. ASSUME write_fault(p) PROVE UserInv'
  BY Zenon, <1>13 DEF write_fault, Wake, WakeReaders
<1>14. ASSUME write_resume(p) \/ read_resume(p)
      PROVE  UserInv'
  BY Zenon, <1>14 DEF write_resume, Goto, read_resume
<1>15. ASSUME read_check(p) PROVE UserInv'
  BY Zenon, <1>15 DEF read_check, Goto, Release
<1>16. ASSUME read_sleep(p) PROVE UserInv'
  BY Zenon, <1>16 DEF read_sleep, Goto, Release
<1>17. ASSUME read_byte(p) PROVE UserInv'
  BY Zenon, <1>17 DEF read_byte, Wake, WakeWriters
<1>18. ASSUME read_done(p) PROVE UserInv'
  BY Zenon, <1>18 DEF read_done, Wake, WakeWriters
<1> HIDE DEF UserInv, PcType, FdType, Ends, InWrite, InRead
<1> QED
  BY Zenon, <1>1, <1>2, <1>3, <1>4, <1>5, <1>6, <1>7, <1>8, <1>9, <1>10, <1>11, <1>12, <1>13,
     <1>14, <1>15, <1>16, <1>17, <1>18
     DEF Step, Close, Writer, Reader, Ends
\* Reading, writing and kill close no end.
LEMMA EndsKept ==
  ASSUME PcType, EndsInv, NEW p \in Procs,
         \/ kill(p) \/ write_begin(p) \/ Writer(p) \/ write_resume(p)
         \/ read_begin(p) \/ Reader(p) \/ read_resume(p)
  PROVE  EndsInv'
<1> DEFINE Same == /\ UNCHANGED <<life, ref, readopen, writeopen>>
                   /\ \A q \in Procs : \/ pc'[q] = pc[q]
                                       \/ /\ pc[q] \notin {"close_r", "close_w", "undo_r", "kfree"}
                                          /\ pc'[q] \notin {"close_r", "close_w", "undo_r", "kfree"}
<1>1. Same => EndsInv'
  <2> SUFFICES ASSUME Same PROVE EndsInv'
    OBVIOUS
  <2>1. \A q \in Procs : /\ pc'[q] = "kfree" <=> pc[q] = "kfree"
                         /\ \A e \in Ends : pc'[q] \in Closing(e) <=> pc[q] \in Closing(e)
    BY Zenon DEF Closing
  <2>2. \A e \in Ends : IsOpen(e)' = IsOpen(e)
    BY Zenon DEF IsOpen
  <2> HIDE DEF Same
  <2> QED
    BY <2>1, <2>2 DEF EndsInv, Same, Closing
<1> USE DEF PcType
<1>2. ASSUME kill(p) PROVE Same
  BY Zenon, <1>2 DEF kill, pipe
<1>3. ASSUME write_begin(p) \/ write_resume(p) \/ read_begin(p) \/ read_resume(p) PROVE Same
  BY Zenon, <1>3 DEF write_begin, write_resume, read_begin, read_resume, pipe, Goto
<1>4. ASSUME write_check(p) PROVE Same
  BY Zenon, <1>4 DEF write_check, pipe, Goto, Release, Wake, WakeReaders
<1>5. ASSUME write_sleep(p) \/ write_fault(p) PROVE Same
  BY Zenon, <1>5 DEF write_sleep, write_fault, pipe, Wake, WakeReaders
<1>6. ASSUME NEW b \in Bytes, write_byte(p, b) PROVE Same
  BY Zenon, <1>6 DEF write_byte, Goto
<1>7. ASSUME read_check(p) \/ read_sleep(p) PROVE Same
  BY Zenon, <1>7 DEF read_check, read_sleep, pipe, Goto, Release
<1>8. ASSUME read_byte(p) \/ read_done(p) PROVE Same
  BY Zenon, <1>8 DEF read_byte, read_done, pipe, Wake, WakeWriters
<1> HIDE DEF PcType, Same
<1> QED
  BY Zenon, <1>1, <1>2, <1>3, <1>4, <1>5, <1>6, <1>7, <1>8 DEF Writer, Reader
\* An end is closed by who gave up its last reference, and by nobody else.
LEMMA EndsStep ==
  ASSUME TypeOK, RefFacts, UserInv, UndoInv, EndsInv, NEW p \in Procs, Step(p)
  PROVE  EndsInv'
<1>1. PcType /\ FlagType /\ FdType
  BY Zenon DEF TypeOK, PcType, FlagType, FdType
<1>2. \A q \in Procs : pc[q] \notin {"user", "unborn"} => life = "live"
  BY Zenon DEF UserInv
<1>3. \A q \in Procs, e \in Ends : /\ fd[q][e] \in Nat /\ ref[e] \in Nat
                                   /\ fd[q][e] > 0 => life = "live" /\ ref[e] > 0
  BY <1>1, PipeAssumption DEF UserInv, RefFacts, FdType, PipeAssumption
<1>4. ASSUME sys_pipe(p) PROVE EndsInv'
  <2>1. \A q \in Procs : pc[q] \in {"user", "unborn"}
    BY Zenon, <1>4 DEF sys_pipe, pipealloc, UserInv
  <2>2. \A q \in Procs : pc'[q] \in {"user", "unborn", "undo"}
    BY Zenon, <1>1, <1>4, <2>1 DEF sys_pipe, Goto, PcType
  <2>3. readopen' /\ writeopen' /\ \A e \in Ends : ref'[e] > 0
    BY <1>4 DEF sys_pipe, pipealloc, Ends
  <2> QED
    BY Zenon, <2>2, <2>3 DEF EndsInv, IsOpen, Closing, Ends
<1>5. ASSUME sys_pipe_bad(p) PROVE EndsInv'
  <2>1. life = "live" /\ UNCHANGED <<life, readopen, writeopen>>
    BY Zenon, <1>2, <1>5 DEF sys_pipe_bad, pipe
  <2>2. CASE pc[p] = "undo"
    <3>1. ref["r"] = 1 /\ ref["w"] = 1
      BY Zenon, <2>2 DEF RefFacts
    <3>2. ref'["r"] = 0 /\ ref'["w"] = 1 /\ pc' = [pc EXCEPT ![p] = "undo_r"]
      BY <1>1, <1>5, <2>2, <3>1 DEF sys_pipe_bad, Goto, FdType, Ends
    <3> QED
      BY <1>1, <2>1, <2>2, <3>1, <3>2 DEF PcType, EndsInv, IsOpen, Closing, Ends
  <2>3. CASE pc[p] = "undo_w"
    <3>1. ref["r"] = 0 /\ ref["w"] = 1
      BY Zenon, <2>3 DEF RefFacts
    <3>2. ref'["r"] = 0 /\ ref'["w"] = 0 /\ pc' = [pc EXCEPT ![p] = "close_w"]
      BY <1>1, <1>5, <2>3, <3>1 DEF sys_pipe_bad, Goto, FdType, Ends
    <3> QED
      BY <1>1, <2>1, <2>3, <3>1, <3>2 DEF PcType, EndsInv, IsOpen, Closing, Ends
  <2> QED
    BY Zenon, <1>5, <2>2, <2>3 DEF sys_pipe_bad
<1>6. ASSUME NEW q \in Procs, fork(p, q) PROVE EndsInv'
  <2>1. \A e \in Ends : ref'[e] \in Nat /\ (ref'[e] > 0 <=> ref[e] > 0)
    BY <1>1, <1>3, <1>6 DEF fork, filedup
  <2> QED
    BY <1>1, <1>6, <2>1 DEF fork, pipe, Goto, PcType, EndsInv, IsOpen, Closing, Ends
<1>7. ASSUME NEW e \in Ends, sys_dup(p, e) PROVE EndsInv'
  <2>1. \A d \in Ends : ref'[d] \in Nat /\ (ref'[d] > 0 <=> ref[d] > 0)
    BY <1>1, <1>3, <1>7 DEF sys_dup, filedup, argfd, FdType
  <2> QED
    BY <1>7, <2>1 DEF sys_dup, pipe, EndsInv, IsOpen, Closing, Ends
<1>8. ASSUME NEW e \in Ends, fileclose(p, e) PROVE EndsInv'
  <2>0. \A d \in Ends : ref[d] \in Nat
    BY <1>1 DEF FdType
  <2>1. life = "live" /\ ref[e] > 0 /\ pc[p] = "user" /\ UNCHANGED <<life, readopen, writeopen>>
    BY Zenon, <1>3, <1>8 DEF fileclose, argfd, pipe
  <2>2. ref'[e] = ref[e] - 1 /\ \A d \in Ends \ {e} : ref'[d] = ref[d]
    BY Zenon, <1>1, <1>8 DEF fileclose, FdType
  <2>3. CASE ref[e] > 1
    <3>1. UNCHANGED pc
      BY Zenon, <1>1, <1>8, <2>1, <2>3 DEF fileclose, Goto, PcType
    <3>2. \A d \in Ends : (ref[d] > 0 <=> ref'[d] > 0) /\ (ref[d] = 0 => ref'[d] = 0)
      BY <2>0, <2>2, <2>3
    <3> QED
      BY Zenon, <2>1, <3>1, <3>2, <2>3 DEF EndsInv, IsOpen, Closing, Ends
  <2>4. CASE ~(ref[e] > 1)
    <3>1. ref'[e] = 0 /\ ref[e] = 1
      BY <2>0, <2>1, <2>2, <2>4
    <3>2. pc' = [pc EXCEPT ![p] = IF e = "w" THEN "close_w" ELSE "close_r"]
      BY Zenon, <1>8, <2>4 DEF fileclose, Goto
    <3> QED
      BY <1>1, <2>1, <2>2, <3>1, <3>2 DEF PcType, EndsInv, IsOpen, Closing, Ends
  <2> QED
    BY Zenon, <2>3, <2>4
<1>9. ASSUME NEW e \in Ends, pipeclose(p, e) PROVE EndsInv'
  <2>1. life = "live" /\ UNCHANGED <<life, ref>> /\ pc[p] \in Closing(e) /\ ref[e] = 0
    BY Zenon, <1>2, <1>9 DEF pipeclose, EndsInv, Closing, Ends
  <2>2. /\ e = "w" => writeopen' = FALSE /\ readopen' = readopen
        /\ e = "r" => readopen' = FALSE /\ writeopen' = writeopen
    BY <1>9 DEF pipeclose
  <2>3. \A q \in Procs : pc[q] # "kfree"
    BY Zenon, <2>1 DEF EndsInv, IsOpen, Closing, Ends
  <2>4. \A q \in Procs \ {p} : \/ pc'[q] = pc[q]
                               \/ pc[q] = "rsleep" /\ pc'[q] = "rwoken"
                               \/ pc[q] = "wsleep" /\ pc'[q] = "wwoken"
    BY <1>9 DEF pipeclose, Wake, WakeReaders, WakeWriters
  <2>5. pc'[p] = IF pc[p] = "undo_r" THEN "undo_w"
                 ELSE IF readopen' \/ writeopen' THEN "user" ELSE "kfree"
    BY <1>9 DEF pipeclose, Wake, WakeReaders, WakeWriters
  <2>6. pc[p] = "undo_r" => e = "r" /\ writeopen
    BY <2>1 DEF RefFacts, EndsInv, IsOpen, Closing, Ends
  <2> QED
    BY <2>1, <2>2, <2>3, <2>4, <2>5, <2>6 DEF EndsInv, IsOpen, Closing, Ends
<1>10. ASSUME kfree(p) PROVE EndsInv'
  BY Zenon, <1>10 DEF kfree, EndsInv
<1> QED
  BY Zenon, <1>1, <1>4, <1>5, <1>6, <1>7, <1>8, <1>9, <1>10, EndsKept DEF Step, Close, Ends
\* Who takes away a sleeper's reason to sleep wakes it before it releases the lock.
LEMMA SleepStep ==
  ASSUME TypeOK, RefFacts, HolderInv, UserInv, EndsInv, SleepInv, NEW p \in Procs, Step(p)
  PROVE  SleepInv'
<1>a. /\ PcType /\ FlagType /\ CallType /\ killed \in [Procs -> BOOLEAN]
      /\ None \notin Procs
  BY Zenon, PipeAssumption DEF TypeOK, PcType, FlagType, CallType, PipeAssumption
<1>b. \A q \in Procs : /\ pc[q] \in InRead => readopen
                       /\ pc[q] \in InWrite => writeopen
  BY Zenon DEF UserInv, RefFacts, EndsInv, IsOpen, Ends, InRead, InWrite
<1>c. \A q, h \in Procs : pc[q] \in Holds /\ pc[h] \in Holds => q = h
  BY DEF HolderInv
<1>d. lock = None => \A q \in Procs : pc[q] \notin Holds
  BY Zenon, <1>a DEF HolderInv
<1> USE DEF SleepInv, PcType, CallType, Empty, Full, Holds, InRead, InWrite
<1>1. ASSUME sys_pipe(p) PROVE SleepInv'
  BY Zenon, <1>1, <1>a DEF sys_pipe, pipealloc, Goto, UserInv
<1>2. ASSUME sys_pipe_bad(p) \/ (\E e \in Ends : sys_dup(p, e)) \/ kfree(p)
      PROVE  SleepInv'
  BY <1>2, <1>a, <1>b, <1>c, <1>d DEF sys_pipe_bad, pipe, Goto, sys_dup, kfree
<1>3. ASSUME NEW q \in Procs, fork(p, q) PROVE SleepInv'
  BY Zenon, <1>3, <1>a, <1>b, <1>c, <1>d DEF fork, pipe, Goto
<1>4. ASSUME NEW e \in Ends, fileclose(p, e) PROVE SleepInv'
  BY Zenon, <1>4, <1>a, <1>b, <1>c, <1>d DEF fileclose, pipe, Goto
<1>5. ASSUME NEW e \in Ends, pipeclose(p, e) PROVE SleepInv'
  BY Zenon, <1>5, <1>a, <1>b, <1>c, <1>d DEF pipeclose, Closing, Wake, WakeReaders, WakeWriters
<1>6. ASSUME kill(p) PROVE SleepInv'
  BY Zenon, <1>6, <1>a, <1>b, <1>c, <1>d DEF kill, pipe
<1>7. ASSUME write_begin(p) PROVE SleepInv'
  BY Zenon, <1>7, <1>a, <1>b, <1>c, <1>d DEF write_begin, pipe, Goto
<1>8. ASSUME write_check(p) PROVE SleepInv'
  BY <1>8, <1>a, <1>b, <1>c, <1>d DEF write_check, pipe, Goto, Release, Return, Wake,
     WakeReaders
<1>9. ASSUME write_sleep(p) PROVE SleepInv'
  BY Zenon, <1>9, <1>a, <1>b, <1>c, <1>d DEF write_sleep, pipe, Wake, WakeReaders
<1>10. ASSUME NEW b \in Bytes, write_byte(p, b) PROVE SleepInv'
  BY Zenon, <1>10, <1>a, <1>b, <1>c, <1>d DEF write_byte, Goto
<1>11. ASSUME write_fault(p) PROVE SleepInv'
  BY Zenon, <1>11, <1>a, <1>b, <1>c, <1>d DEF write_fault, pipe, Return, Wake, WakeReaders
<1>12. ASSUME write_resume(p) \/ read_resume(p)
      PROVE  SleepInv'
  BY <1>12, <1>a, <1>b, <1>c, <1>d DEF write_resume, pipe, Goto, read_resume
<1>13. ASSUME read_begin(p) PROVE SleepInv'
  BY Zenon, <1>13, <1>a, <1>b, <1>c, <1>d DEF read_begin, pipe, Goto
<1>14. ASSUME read_check(p) PROVE SleepInv'
  BY Zenon, <1>14, <1>a, <1>b, <1>c, <1>d DEF read_check, pipe, Goto, Release, Return
<1>15. ASSUME read_sleep(p) PROVE SleepInv'
  BY Zenon, <1>15, <1>a, <1>b, <1>c, <1>d DEF read_sleep, pipe, Goto, Release
<1>16. ASSUME read_byte(p) PROVE SleepInv'
  BY <1>16, <1>a, <1>b, <1>c, <1>d DEF read_byte, Return, Wake, WakeWriters
<1>17. ASSUME read_done(p) PROVE SleepInv'
  BY Zenon, <1>17, <1>a, <1>b, <1>c, <1>d DEF read_done, pipe, Return, Wake, WakeWriters
<1> HIDE DEF SleepInv, PcType, CallType, Empty, Full, Holds, InRead, InWrite
<1> QED
  BY Zenon, <1>1, <1>2, <1>3, <1>4, <1>5, <1>6, <1>7, <1>8, <1>9, <1>10, <1>11, <1>12, <1>13,
     <1>14, <1>15, <1>16, <1>17
     DEF Step, Close, Writer, Reader, Ends
----------------------------------------------------------------------------
(* What touches no byte                                                     *)

\* What the other steps do to the pipe's counters, bytes and life.
Quiet ==
  /\ UNCHANGED <<data, nread, nwrite, ch>>
  /\ life' = "none" => life = "none"

\* pipealloc sets counters that are 0 to 0; nobody else writes them.
LEMMA QuietStep ==
  ASSUME RingInv, NEW p \in Procs
  PROVE  \/ sys_pipe(p) \/ sys_pipe_bad(p) \/ (\E q \in Procs : fork(p, q))
         \/ (\E e \in Ends : sys_dup(p, e) \/ fileclose(p, e))
         \/ Close(p) \/ kfree(p) \/ kill(p)
         \/ write_begin(p) \/ write_check(p) \/ write_sleep(p) \/ write_fault(p)
         \/ write_resume(p) \/ read_begin(p) \/ read_check(p) \/ read_sleep(p)
         \/ read_done(p) \/ read_resume(p)
         => Quiet
<1>1. ASSUME sys_pipe(p) PROVE Quiet
  BY Zenon, <1>1 DEF Quiet, RingInv, sys_pipe, pipealloc
<1>2. ASSUME sys_pipe_bad(p) PROVE Quiet
  BY Zenon, <1>2 DEF Quiet, pipe, sys_pipe_bad
<1>3. ASSUME NEW q \in Procs, fork(p, q) PROVE Quiet
  BY Zenon, <1>3 DEF Quiet, pipe, fork
<1>4. ASSUME NEW e \in Ends, sys_dup(p, e) PROVE Quiet
  BY Zenon, <1>4 DEF Quiet, pipe, sys_dup
<1>5. ASSUME NEW e \in Ends, fileclose(p, e) PROVE Quiet
  BY Zenon, <1>5 DEF Quiet, pipe, fileclose
<1>6. ASSUME NEW e \in Ends, pipeclose(p, e) PROVE Quiet
  BY <1>6 DEF Quiet, pipeclose
<1>7. ASSUME kfree(p) \/ kill(p) PROVE Quiet
  BY Zenon, <1>7 DEF Quiet, pipe, kfree, kill
<1>8. ASSUME write_begin(p) \/ read_begin(p) PROVE Quiet
  BY Zenon, <1>8 DEF Quiet, pipe, write_begin, read_begin
<1>9. ASSUME write_check(p) PROVE Quiet
  BY Zenon, <1>9 DEF Quiet, pipe, write_check
<1>10. ASSUME write_sleep(p) \/ write_fault(p) PROVE Quiet
  BY Zenon, <1>10 DEF Quiet, pipe, write_sleep, write_fault
<1>11. ASSUME write_resume(p) \/ read_resume(p) PROVE Quiet
  BY Zenon, <1>11 DEF Quiet, pipe, write_resume, read_resume
<1>12. ASSUME read_check(p) PROVE Quiet
  BY Zenon, <1>12 DEF Quiet, pipe, read_check
<1>13. ASSUME read_sleep(p) \/ read_done(p) PROVE Quiet
  BY Zenon, <1>13 DEF Quiet, pipe, read_sleep, read_done
<1> QED
  BY Zenon, <1>1, <1>2, <1>3, <1>4, <1>5, <1>6, <1>7, <1>8, <1>9, <1>10, <1>11, <1>12, <1>13
     DEF Close, Ends
\* As long as there is no pipe, only pipe(), fork and kill happen.
LEMMA BornStep ==
  ASSUME BornInv, NEW p \in Procs
  PROVE  \/ sys_pipe(p) \/ sys_pipe_bad(p) \/ (\E q \in Procs : fork(p, q))
         \/ (\E e \in Ends : sys_dup(p, e) \/ fileclose(p, e))
         \/ Close(p) \/ kfree(p) \/ kill(p)
         \/ write_begin(p) \/ Writer(p) \/ write_resume(p)
         \/ read_begin(p) \/ Reader(p) \/ read_resume(p)
         => BornInv'
<1> USE DEF BornInv, Labels, InPipe, Ending
<1>1. ASSUME sys_pipe(p) PROVE BornInv'
  BY <1>1 DEF sys_pipe, pipealloc, Goto, Ends
<1>2. ASSUME sys_pipe_bad(p) \/ kfree(p) \/ kill(p) PROVE BornInv'
  BY <1>2 DEF sys_pipe_bad, kfree, kill, Goto
<1>3. ASSUME NEW q \in Procs, fork(p, q) PROVE BornInv'
  BY Zenon, <1>3 DEF fork, Goto
<1>4. ASSUME NEW e \in Ends, sys_dup(p, e) PROVE BornInv'
  BY <1>4 DEF sys_dup, argfd
<1>5. ASSUME NEW e \in Ends, fileclose(p, e) PROVE BornInv'
  BY <1>5 DEF fileclose, argfd, Goto
<1>6. ASSUME NEW e \in Ends, pipeclose(p, e) PROVE BornInv'
  BY <1>6 DEF pipeclose, Closing, Wake, WakeReaders, WakeWriters
<1>7. ASSUME write_begin(p) \/ read_begin(p) PROVE BornInv'
  BY <1>7 DEF write_begin, read_begin, argfd, Goto, Ends
<1>8. ASSUME write_resume(p) \/ read_resume(p) PROVE BornInv'
  BY Zenon, <1>8 DEF write_resume, read_resume, Goto
<1>9. ASSUME write_check(p) PROVE BornInv'
  BY Zenon, <1>9 DEF write_check, Goto, Release, Wake, WakeReaders
<1>10. ASSUME write_sleep(p) \/ write_fault(p) PROVE BornInv'
  BY Zenon, <1>10 DEF write_sleep, write_fault, Wake, WakeReaders
<1>11. ASSUME NEW b \in Bytes, write_byte(p, b) PROVE BornInv'
  BY Zenon, <1>11 DEF write_byte, Goto
<1>12. ASSUME read_check(p) PROVE BornInv'
  BY Zenon, <1>12 DEF read_check, Goto, Release
<1>13. ASSUME read_sleep(p) PROVE BornInv'
  BY Zenon, <1>13 DEF read_sleep, Goto, Release
<1>14. ASSUME read_byte(p) \/ read_done(p) PROVE BornInv'
  BY Zenon, <1>14 DEF read_byte, read_done, Wake, WakeWriters
<1> HIDE DEF BornInv, Labels, InPipe, Ending
<1> QED
  BY Zenon, <1>1, <1>2, <1>3, <1>4, <1>5, <1>6, <1>7, <1>8, <1>9, <1>10, <1>11, <1>12, <1>13, <1>14
     DEF Close, Writer, Reader, Ends
----------------------------------------------------------------------------
(* The bytes are a queue.                                                   *)

INSTANCE SequenceTheorems

\* The contents are a sequence of Count bytes.
InsideFact ==
  /\ Contents \in Seq(Bytes \cup {None}) /\ Len(Contents) = Count /\ Count \in Nat
  /\ \A k \in 1 .. Count : Contents[k] = data[Slot(k - 1)]

\* pi->data holds the bytes from nread to nwrite.
LEMMA Inside == RingInv => InsideFact
<1> SUFFICES ASSUME RingInv PROVE InsideFact
  OBVIOUS
<1>1. Count \in Nat
  BY Filled
<1>2. ASSUME NEW k \in 1 .. Count
      PROVE  (nread + k - 1) % PIPESIZE = Slot(k - 1) /\ Slot(k - 1) \in 0 .. (PIPESIZE - 1)
  BY <1>1, <1>2, PipeAssumption DEF PipeAssumption, RingInv, Slot
<1>3. Contents \in [1 .. Count -> Bytes \cup {None}]
  BY Zenon, <1>2 DEF RingInv, Contents
<1>4. \A k \in 1 .. Count : Contents[k] = data[Slot(k - 1)]
  BY <1>2 DEF Contents
<1> QED
  BY <1>1, <1>3, <1>4, SeqDef DEF InsideFact
\* The same after a step.
LEMMA InsideNext == RingInv' => InsideFact'
BY Inside, PTL

\* pipewrite stores a byte behind the others.
LEMMA PutStep ==
  ASSUME BornInv, RingInv, NEW p \in Procs, NEW b \in Bytes, write_byte(p, b)
  PROVE  RingInv' /\ Queue!Put(b)
<1>1. nwrite' = IF nwrite + 1 < UINT THEN nwrite + 1 ELSE 0
  <2>1. PICK a \in Nat : a = nwrite + 1 /\ a <= UINT
    BY PipeAssumption DEF PipeAssumption, RingInv
  <2>2. a % UINT = IF a < UINT THEN a ELSE a - UINT
    BY <2>1, Once, PipeAssumption DEF PipeAssumption
  <2> QED
    BY <2>1, <2>2, PipeAssumption DEF PipeAssumption, write_byte
<1>2. Count < PIPESIZE
  BY Filled, PipeAssumption DEF PipeAssumption, RingInv, write_byte
<1>3. nread' = nread /\ nwrite' \in 0 .. (UINT - 1)
  BY <1>1, PipeAssumption DEF PipeAssumption, RingInv, write_byte
<1>4. Count' = Count + 1
  <2>1. Count = IF nwrite >= nread THEN nwrite - nread ELSE nwrite + UINT - nread
    BY Zenon, CountIs DEF RingInv, Count
  <2>2. Count' = IF nwrite' >= nread THEN nwrite' - nread ELSE nwrite' + UINT - nread
    BY Zenon, <1>3, CountIs DEF RingInv, Count
  <2> QED
    BY <1>1, <1>2, <1>3, <2>1, <2>2, PipeAssumption DEF PipeAssumption, RingInv
<1>5. data' = [data EXCEPT ![Slot(Count)] = b]
  BY Zenon, NextSlot DEF write_byte
<1>6. \A k : Slot(k)' = Slot(k)
  BY <1>3 DEF Slot
<1>7. RingInv'
  <2>1. data' \in [0 .. (PIPESIZE - 1) -> Bytes \cup {None}]
    BY Zenon, <1>5 DEF RingInv
  <2>2. Count' <= PIPESIZE
    BY <1>2, <1>4, Filled, PipeAssumption DEF PipeAssumption
  <2>3. life' # "none"
    BY DEF BornInv, write_byte
  <2> QED
    BY Zenon, <1>3, <2>1, <2>2, <2>3 DEF RingInv
<1>8. InsideFact /\ InsideFact'
  BY Zenon, <1>7, Inside, InsideNext
<1>9. Contents' = Append(Contents, b)
  <2>1. ASSUME NEW k \in 1 .. Count PROVE Contents'[k] = Contents[k]
    <3>1. k \in 1 .. (Count + 1) /\ k - 1 \in 0 .. (Count - 1)
      BY <1>8 DEF InsideFact
    <3>2. Contents'[k] = data'[Slot(k - 1)] /\ Contents[k] = data[Slot(k - 1)]
      BY Zenon, <1>4, <1>6, <1>8, <3>1 DEF InsideFact
    <3>3. Slot(k - 1) # Slot(Count)
      BY Zenon, <1>2, <3>1, SlotFree
    <3> QED
      BY <1>5, <3>2, <3>3 DEF RingInv
  <2>2. Contents'[Count + 1] = b
    <3>1. Count + 1 \in 1 .. (Count + 1) /\ Count + 1 - 1 = Count
      BY <1>8 DEF InsideFact
    <3>2. Contents'[Count + 1] = data'[Slot(Count)]
      BY <1>4, <1>6, <1>8, <3>1 DEF InsideFact
    <3>3. Slot(Count) \in 0 .. (PIPESIZE - 1)
      BY <1>8, PipeAssumption DEF PipeAssumption, InsideFact, RingInv, Slot
    <3> QED
      BY Zenon, <1>5, <3>2, <3>3 DEF RingInv
  <2> HIDE DEF Contents, Count
  <2> QED
    BY <1>4, <1>8, <2>1, <2>2, SeqEqual, AppendProperties DEF InsideFact
<1>10. Len(Contents) < PIPESIZE /\ ch' = ch
  BY Zenon, <1>2, <1>8 DEF InsideFact, write_byte
<1> QED
  BY Zenon, <1>7, <1>9, <1>10 DEF Queue!Put
\* piperead takes the first byte away.
LEMMA GetStep ==
  ASSUME BornInv, RingInv, NEW p \in Procs, read_byte(p)
  PROVE  RingInv' /\ Queue!Get
<1>1. nread' = IF nread + 1 < UINT THEN nread + 1 ELSE 0
  <2>1. PICK a \in Nat : a = nread + 1 /\ a <= UINT
    BY PipeAssumption DEF PipeAssumption, RingInv
  <2>2. a % UINT = IF a < UINT THEN a ELSE a - UINT
    BY <2>1, Once, PipeAssumption DEF PipeAssumption
  <2> QED
    BY <2>1, <2>2, PipeAssumption DEF PipeAssumption, read_byte
<1>2. Count > 0
  BY Filled DEF read_byte
<1>3. nwrite' = nwrite /\ data' = data /\ nread' \in 0 .. (UINT - 1)
  BY <1>1, PipeAssumption DEF PipeAssumption, RingInv, read_byte
<1>4. Count' = Count - 1
  <2>1. Count = IF nwrite >= nread THEN nwrite - nread ELSE nwrite + UINT - nread
    BY CountIs DEF RingInv, Count
  <2>2. Count' = IF nwrite >= nread' THEN nwrite - nread' ELSE nwrite + UINT - nread'
    BY Zenon, <1>3, CountIs DEF RingInv, Count
  <2> QED
    BY <1>1, <1>2, <1>3, <2>1, <2>2, PipeAssumption DEF PipeAssumption, RingInv
<1>5. ASSUME NEW k \in Nat PROVE Slot(k)' = Slot(k + 1)
  <2>1. CASE nread + 1 < UINT
    <3>1. nread' + k = nread + (k + 1)
      BY <1>1, <2>1 DEF RingInv
    <3> QED
      BY <3>1 DEF Slot
  <2>2. CASE nread + 1 = UINT
    <3>1. nread' + k = k /\ nread + (k + 1) = k + UINT
      BY <1>1, <2>2, PipeAssumption DEF PipeAssumption, RingInv
    <3>2. (k + UINT) % PIPESIZE = k % PIPESIZE
      BY Zenon, Period, PipeAssumption DEF PipeAssumption
    <3> QED
      BY Zenon, <3>1, <3>2 DEF Slot
  <2> QED
    BY <2>1, <2>2, PipeAssumption DEF PipeAssumption, RingInv
<1>6. RingInv'
  <2>1. Count' <= PIPESIZE
    BY <1>2, <1>4, Filled, PipeAssumption DEF PipeAssumption, RingInv
  <2>2. life' # "none"
    BY DEF BornInv, read_byte
  <2> QED
    BY Zenon, <1>3, <2>1, <2>2 DEF RingInv
<1>7. InsideFact /\ InsideFact'
  BY Zenon, <1>6, Inside, InsideNext
<1>8. Contents # << >>
  BY <1>2, <1>7 DEF InsideFact
<1>9. Contents' = Tail(Contents)
  <2>1. ASSUME NEW k \in 1 .. (Count - 1) PROVE Contents'[k] = Contents[k + 1]
    <3>1. k - 1 \in Nat /\ k + 1 \in 1 .. Count /\ k + 1 - 1 = k - 1 + 1
      BY <1>7 DEF InsideFact
    <3>2. Contents'[k] = data[Slot(k - 1)'] /\ Contents[k + 1] = data[Slot(k - 1 + 1)]
      BY <1>3, <1>4, <1>7, <3>1 DEF InsideFact
    <3> QED
      BY Zenon, <1>5, <3>1, <3>2
  <2> HIDE DEF Contents, Count
  <2> QED
    BY <1>4, <1>7, <1>8, <2>1, SeqEqual, HeadTailProperties DEF InsideFact
<1>10. ch' = Head(Contents)
  <2>1. 1 \in 1 .. Count /\ 1 - 1 = 0
    BY <1>2, <1>7 DEF InsideFact
  <2>2. Contents[1] = data[Slot(0)]
    BY Zenon, <1>7, <2>1 DEF InsideFact
  <2>3. Slot(0) = nread % PIPESIZE
    BY DEF Slot, RingInv
  <2> QED
    BY <1>7, <1>8, <2>2, <2>3 DEF read_byte, InsideFact
<1> QED
  BY Zenon, <1>6, <1>8, <1>9, <1>10 DEF Queue!Get
\* The pipe implements the bounded queue of Fifo.
THEOREM PipeRefinesFifo == Spec => PipeIsFifo
<1>1. Init => BornInv /\ RingInv /\ Queue!Init
  <2> SUFFICES ASSUME Init PROVE BornInv /\ RingInv /\ Queue!Init
    OBVIOUS
  <2>1. BornInv
    BY DEF Init, BornInv, Labels, Ends
  <2>2. Count = 0
    <3>1. (0 + UINT - 0) % UINT = 0
      BY CountIs, PipeAssumption DEF PipeAssumption
    <3> QED
      BY Zenon, <3>1 DEF Init, Count
  <2>3. RingInv
    BY <2>2, PipeAssumption DEF PipeAssumption, Init, RingInv
  <2>4. Contents = << >>
    BY <2>2, <2>3, Inside DEF InsideFact
  <2> QED
    BY Zenon, <2>1, <2>3, <2>4 DEF Init, Queue!Init
<1>2. BornInv /\ RingInv /\ [Next]_vars => BornInv' /\ RingInv' /\ [Queue!Next]_(Queue!vars)
  <2> SUFFICES ASSUME BornInv, RingInv, [Next]_vars
               PROVE  BornInv' /\ RingInv' /\ (Queue!Next \/ UNCHANGED Queue!vars)
    OBVIOUS
  <2>1. Quiet => RingInv' /\ UNCHANGED Queue!vars
    BY Zenon DEF Quiet, RingInv, Count, Contents, Queue!vars
  <2>2. CASE UNCHANGED vars
    <3>1. BornInv' /\ Quiet
      BY Zenon, <2>2 DEF vars, BornInv, Quiet
    <3> QED
      BY Zenon, <2>1, <3>1
  <2>3. CASE Next
    <3>1. PICK p \in Procs :
            \/ sys_pipe(p) \/ sys_pipe_bad(p) \/ (\E q \in Procs : fork(p, q))
            \/ (\E e \in Ends : sys_dup(p, e) \/ fileclose(p, e))
            \/ Close(p) \/ kfree(p) \/ kill(p)
            \/ write_begin(p) \/ Writer(p) \/ write_resume(p)
            \/ read_begin(p) \/ Reader(p) \/ read_resume(p)
      BY Zenon, <2>3 DEF Next
    <3>2. BornInv'
      BY Zenon, <3>1, BornStep
    <3>3. CASE \E b \in Bytes : write_byte(p, b)
      BY Zenon, <3>2, <3>3, PutStep DEF Queue!Next
    <3>4. CASE read_byte(p)
      BY Zenon, <3>2, <3>4, GetStep DEF Queue!Next
    <3>5. CASE ~(\E b \in Bytes : write_byte(p, b)) /\ ~read_byte(p)
      BY Zenon, <2>1, <3>1, <3>2, <3>5, QuietStep DEF Writer, Reader
    <3> QED
      BY Zenon, <3>3, <3>4, <3>5
  <2> QED
    BY Zenon, <2>2, <2>3
<1> QED
  BY <1>1, <1>2, PTL DEF Spec, PipeIsFifo, Queue!Spec
----------------------------------------------------------------------------
(* Counting references                                                      *)

INSTANCE FiniteSetTheorems

Tables == [Procs -> [Ends -> 0 .. NOFILE]]
DescriptorsOf(f, e) == {x \in Procs \X (1 .. NOFILE) : x[2] <= f[x[1]][e]}

\* The descriptors are finitely many.
LEMMA CountFinite ==
  ASSUME NEW f \in Tables, NEW e \in Ends
  PROVE  IsFiniteSet(DescriptorsOf(f, e)) /\ Cardinality(DescriptorsOf(f, e)) \in Nat
<1>1. IsFiniteSet(1 .. NOFILE)
  BY FS_Interval, PipeAssumption DEF PipeAssumption
<1>2. IsFiniteSet(Procs \X (1 .. NOFILE))
  BY Zenon, <1>1, FS_Product, PipeAssumption DEF PipeAssumption
<1>3. DescriptorsOf(f, e) \in SUBSET (Procs \X (1 .. NOFILE))
  BY DEF DescriptorsOf
<1>4. IsFiniteSet(DescriptorsOf(f, e))
  BY Zenon, <1>2, <1>3, FS_Subset
<1> QED
  BY Zenon, <1>4, FS_CardinalityType
\* No descriptors, no reference
LEMMA CountZero ==
  ASSUME NEW f \in Tables, NEW e \in Ends
  PROVE  Cardinality(DescriptorsOf(f, e)) = 0 <=> \A p \in Procs : f[p][e] = 0
<1>1. DescriptorsOf(f, e) = {} <=> \A p \in Procs : f[p][e] = 0
  <2>1. ASSUME NEW p \in Procs, f[p][e] # 0 PROVE DescriptorsOf(f, e) # {}
    <3>1. f[p][e] \in 1 .. NOFILE /\ f[p][e] <= f[p][e]
      BY <2>1, PipeAssumption DEF PipeAssumption, Tables
    <3>2. <<p, f[p][e]>> \in DescriptorsOf(f, e)
      BY <3>1 DEF DescriptorsOf
    <3> QED
      BY Zenon, <3>2
  <2>2. ASSUME \A p \in Procs : f[p][e] = 0, NEW x \in DescriptorsOf(f, e) PROVE FALSE
    <3>1. PICK p \in Procs, k \in 1 .. NOFILE : x = <<p, k>>
      BY <2>2 DEF DescriptorsOf
    <3>2. k <= f[p][e]
      BY <2>2, <3>1 DEF DescriptorsOf
    <3> QED
      BY <2>2, <3>1, <3>2
  <2> QED
    BY Zenon, <2>1, <2>2
<1> QED
  BY Zenon, <1>1, CountFinite, FS_EmptySet
\* What happens at one end leaves the other's count alone.
LEMMA CountSame ==
  ASSUME NEW f \in Tables, NEW g \in Tables, NEW e \in Ends, \A q \in Procs : g[q][e] = f[q][e]
  PROVE  DescriptorsOf(g, e) = DescriptorsOf(f, e)
BY DEF DescriptorsOf
\* dup, and read backwards close
LEMMA CountMore ==
  ASSUME NEW f \in Tables, NEW g \in Tables, NEW e \in Ends, NEW p \in Procs,
         g[p][e] = f[p][e] + 1, \A q \in Procs \ {p} : g[q][e] = f[q][e]
  PROVE  Cardinality(DescriptorsOf(g, e)) = Cardinality(DescriptorsOf(f, e)) + 1
<1>1. PICK k \in Nat : k = f[p][e]
  BY DEF Tables
<1>2. k + 1 \in 1 .. NOFILE
  BY <1>1, PipeAssumption DEF Tables, PipeAssumption
<1> DEFINE x == <<p, k + 1>>
<1>3. x \notin DescriptorsOf(f, e)
  BY <1>1 DEF DescriptorsOf
<1>4. ASSUME NEW q \in Procs, NEW j \in 1 .. NOFILE
      PROVE  j <= g[q][e] <=> j <= f[q][e] \/ (q = p /\ j = k + 1)
  BY <1>1
<1>5. DescriptorsOf(g, e) = DescriptorsOf(f, e) \cup {x}
  <2>1. ASSUME NEW y \in Procs \X (1 .. NOFILE)
        PROVE  y \in DescriptorsOf(g, e) <=> y \in DescriptorsOf(f, e) \/ y = x
    BY <1>4 DEF DescriptorsOf
  <2>2. x \in Procs \X (1 .. NOFILE)
    BY <1>2
  <2> QED
    BY <2>1, <2>2 DEF DescriptorsOf
<1> HIDE DEF x
<1>6. IsFiniteSet(DescriptorsOf(f, e))
  BY Zenon, CountFinite
<1>7. Cardinality(DescriptorsOf(f, e) \cup {x}) = Cardinality(DescriptorsOf(f, e)) + 1
  BY Zenon, <1>3, <1>6, FS_AddElement
<1> QED
  BY Zenon, <1>5, <1>7
\* fork: the child has as many as its parent.
LEMMA CountCopy ==
  ASSUME NEW f \in Tables, NEW g \in Tables, NEW e \in Ends, NEW p \in Procs, NEW q \in Procs,
         f[q][e] = 0, g[q][e] = f[p][e], \A r \in Procs \ {q} : g[r][e] = f[r][e]
  PROVE  Cardinality(DescriptorsOf(g, e)) = Cardinality(DescriptorsOf(f, e)) + f[p][e]
<1>1. PICK k \in Nat : k = f[p][e] /\ k <= NOFILE
  BY DEF Tables
<1> DEFINE C == {q} \X (1 .. k)
<1>2. IsFiniteSet(C) /\ Cardinality(C) = k
  <2>1. IsFiniteSet(1 .. k) /\ Cardinality(1 .. k) = k
    BY FS_Interval
  <2>2. IsFiniteSet({q}) /\ Cardinality({q}) = 1
    BY Zenon, FS_Singleton
  <2>3. IsFiniteSet(C) /\ Cardinality(C) = Cardinality({q}) * Cardinality(1 .. k)
    BY Zenon, <2>1, <2>2, FS_Product
  <2> QED
    BY <2>1, <2>2, <2>3
<1>3. ASSUME NEW r \in Procs, NEW j \in 1 .. NOFILE
      PROVE  /\ j <= g[r][e] <=> j <= f[r][e] \/ (r = q /\ j <= k)
             /\ ~(j <= f[r][e] /\ r = q)
  BY <1>1
<1>4. DescriptorsOf(g, e) = DescriptorsOf(f, e) \cup C
  <2>1. C \subseteq Procs \X (1 .. NOFILE)
    BY <1>1, PipeAssumption DEF PipeAssumption
  <2>2. ASSUME NEW y \in Procs \X (1 .. NOFILE)
        PROVE  y \in DescriptorsOf(g, e) <=> y \in DescriptorsOf(f, e) \/ y \in C
    BY <1>1, <1>3 DEF DescriptorsOf
  <2> HIDE DEF C
  <2> QED
    BY <2>1, <2>2 DEF DescriptorsOf
<1>5. DescriptorsOf(f, e) \cap C = {}
  BY <1>3 DEF DescriptorsOf
<1> HIDE DEF C
<1>6. Cardinality(DescriptorsOf(f, e) \cup C)
      = Cardinality(DescriptorsOf(f, e)) + Cardinality(C) - Cardinality(DescriptorsOf(f, e) \cap C)
  BY Zenon, <1>2, CountFinite, FS_Union
<1>7. Cardinality(DescriptorsOf(f, e) \cap C) = 0
  BY Zenon, <1>5, FS_EmptySet
<1> QED
  BY <1>1, <1>2, <1>4, <1>6, <1>7, CountFinite
\* No sys_pipe on its way out, no reference of it; one, one
LEMMA CountUndo ==
  ASSUME UndoInv, NEW e \in Ends
  PROVE  /\ (\A p \in Procs : pc[p] \notin Undo) => Undoing(e) = {}
         /\ \A p \in Procs :
              /\ pc[p] = "undo" => Undoing(e) = {p}
              /\ pc[p] \in {"undo_r", "undo_w"} => Undoing(e) = IF e = "w" THEN {p} ELSE {}
         /\ IsFiniteSet(Undoing(e)) /\ Cardinality(Undoing(e)) \in Nat
<1>1. (\A p \in Procs : pc[p] \notin Undo) => Undoing(e) = {}
  BY DEF Undoing, Undo
<1>2. ASSUME NEW p \in Procs, pc[p] = "undo" PROVE Undoing(e) = {p}
  BY <1>2 DEF Undoing, Undo, UndoInv
<1>3. ASSUME NEW p \in Procs, pc[p] \in {"undo_r", "undo_w"}
      PROVE  Undoing(e) = IF e = "w" THEN {p} ELSE {}
  BY <1>3 DEF Undoing, Undo, UndoInv
<1>4. Undoing(e) = {} \/ \E p \in Procs : Undoing(e) = {p}
  BY <1>1, <1>2, <1>3 DEF Undo
<1>5. IsFiniteSet(Undoing(e)) /\ Cardinality(Undoing(e)) \in Nat
  BY Zenon, <1>4, FS_EmptySet, FS_Singleton, FS_CardinalityType
<1> QED
  BY <1>1, <1>2, <1>3, <1>5
\* The same, as numbers
LEMMA UndoNumbers ==
  ASSUME UndoInv, NEW e \in Ends
  PROVE  /\ (\A p \in Procs : pc[p] \notin Undo) => Cardinality(Undoing(e)) = 0
         /\ \A p \in Procs :
              /\ pc[p] = "undo" => Cardinality(Undoing(e)) = 1
              /\ pc[p] \in {"undo_r", "undo_w"} => Cardinality(Undoing(e)) = IF e = "w" THEN 1 ELSE 0
         /\ Cardinality(Undoing(e)) \in Nat
<1>1. Cardinality({}) = 0 /\ \A p : Cardinality({p}) = 1
  BY Zenon, FS_EmptySet, FS_Singleton
<1> QED
  BY Zenon, <1>1, CountUndo
\* The counts say who refers to an end.
LEMMA RefsSay ==
  ASSUME TypeOK, UndoInv, RefInv
  PROVE  RefFacts
<1>1. fd \in Tables
  BY DEF TypeOK, Tables
<1>2. ASSUME NEW e \in Ends
      PROVE  /\ ref[e] = Cardinality(DescriptorsOf(fd, e)) + Cardinality(Undoing(e))
             /\ Cardinality(DescriptorsOf(fd, e)) \in Nat
             /\ Cardinality(DescriptorsOf(fd, e)) = 0 <=> \A p \in Procs : fd[p][e] = 0
  <2>1. Descriptors(e) = DescriptorsOf(fd, e)
    BY DEF Descriptors, DescriptorsOf
  <2> QED
    BY Zenon, <1>1, <2>1, CountFinite, CountZero DEF RefInv
<1>3. ASSUME NEW p \in Procs, NEW e \in Ends PROVE fd[p][e] \in Nat
  BY PipeAssumption DEF PipeAssumption, TypeOK
<1>4. ASSUME NEW e \in Ends
      PROVE  /\ (\E p \in Procs : fd[p][e] > 0) => ref[e] > 0
             /\ ref[e] > 0 => \/ \E p \in Procs : fd[p][e] > 0
                              \/ \E p \in Procs : pc[p] \in Undo
  BY <1>2, <1>3, UndoNumbers
<1>5. ASSUME NEW p \in Procs, pc[p] \in Undo, NEW e \in Ends
      PROVE  ref[e] = Cardinality(Undoing(e))
  BY <1>2, <1>5, UndoNumbers DEF UndoInv
<1>6. ASSUME NEW p \in Procs, pc[p] = "undo" PROVE ref["r"] = 1 /\ ref["w"] = 1
  BY <1>5, <1>6, UndoNumbers DEF Undo, Ends
<1>7. ASSUME NEW p \in Procs, pc[p] \in {"undo_r", "undo_w"} PROVE ref["r"] = 0 /\ ref["w"] = 1
  BY <1>5, <1>7, UndoNumbers DEF Undo, Ends
<1> QED
  BY Zenon, <1>4, <1>6, <1>7 DEF RefFacts
\* What a step does to the references: it leaves them alone, or it is one of
\* the five that move them.
LEMMA RefKept ==
  ASSUME PcType, NEW p \in Procs, Step(p)
  PROVE  \/ UNCHANGED <<ref, fd>> /\ \A e \in Ends : UNCHANGED Undoing(e)
         \/ sys_pipe(p) \/ sys_pipe_bad(p) \/ \E q \in Procs : fork(p, q)
         \/ \E e \in Ends : sys_dup(p, e) \/ fileclose(p, e)
<1> DEFINE Kept == UNCHANGED <<ref, fd>> /\ \A e \in Ends : UNCHANGED Undoing(e)
<1> USE DEF PcType, Undoing
<1>1. ASSUME NEW e \in Ends, pipeclose(p, e) PROVE Kept
  BY <1>1 DEF pipeclose, Closing, Wake, WakeReaders, WakeWriters
<1>2. ASSUME kfree(p) \/ kill(p) PROVE Kept
  BY Zenon, <1>2 DEF kfree, kill, Goto
<1>3. ASSUME write_begin(p) \/ write_resume(p) \/ read_begin(p) \/ read_resume(p) PROVE Kept
  BY Zenon, <1>3 DEF write_begin, write_resume, read_begin, read_resume, Goto
<1>4. ASSUME write_check(p) PROVE Kept
  BY Zenon, <1>4 DEF write_check, Goto, Release, Wake, WakeReaders
<1>5. ASSUME write_sleep(p) \/ write_fault(p) \/ (\E b \in Bytes : write_byte(p, b)) PROVE Kept
  BY Zenon, <1>5 DEF write_sleep, write_fault, write_byte, Goto, Wake, WakeReaders
<1>6. ASSUME read_check(p) \/ read_sleep(p) PROVE Kept
  BY Zenon, <1>6 DEF read_check, read_sleep, Goto, Release
<1>7. ASSUME read_byte(p) \/ read_done(p) PROVE Kept
  BY Zenon, <1>7 DEF read_byte, read_done, Wake, WakeWriters
<1> HIDE DEF PcType, Undoing, Kept
<1>8. \/ Kept \/ sys_pipe(p) \/ sys_pipe_bad(p) \/ (\E q \in Procs : fork(p, q))
      \/ \E e \in Ends : sys_dup(p, e) \/ fileclose(p, e)
  BY Zenon, <1>1, <1>2, <1>3, <1>4, <1>5, <1>6, <1>7 DEF Step, Close, Writer, Reader, Ends
<1> QED
  BY Zenon, <1>8 DEF Kept
\* filedup, fileclose and sys_pipe's undoing keep f->ref equal to the number of
\* references.
LEMMA RefStep ==
  ASSUME TypeOK, UserInv, UndoInv, RefInv, FdType', UndoInv', NEW p \in Procs, Step(p)
  PROVE  RefInv'
<1> DEFINE D(f, e) == Cardinality(DescriptorsOf(f, e))
           U(e) == Cardinality(Undoing(e))
<1>1. fd \in Tables /\ fd' \in Tables /\ PcType /\ FdType
  BY Zenon DEF TypeOK, FdType, PcType, Tables
<1>2. ASSUME NEW e \in Ends
      PROVE  /\ ref[e] = D(fd, e) + U(e)
             /\ ref'[e] = D(fd', e) + U(e)' =>
                ref'[e] = Cardinality(Descriptors(e)') + Cardinality(Undoing(e)')
             /\ D(fd, e) \in Nat /\ D(fd', e) \in Nat /\ U(e) \in Nat
  <2>1. Descriptors(e) = DescriptorsOf(fd, e) /\ Descriptors(e)' = DescriptorsOf(fd', e)
    BY Zenon DEF Descriptors, DescriptorsOf
  <2>2. D(fd, e) \in Nat /\ D(fd', e) \in Nat /\ U(e) \in Nat
    BY Zenon, <1>1, CountFinite, UndoNumbers
  <2> QED
    BY Zenon, <2>1, <2>2 DEF RefInv
<1>3. RefFacts
  BY Zenon, RefsSay
<1>4. (\A q \in Procs : pc[q] \notin Undo) => \A e \in Ends : U(e) = 0
  BY Zenon, UndoNumbers
<1>5. ASSUME UNCHANGED pc PROVE \A e \in Ends : U(e)' = U(e)
  BY <1>5 DEF Undoing
<1>6. SUFFICES ASSUME NEW e \in Ends PROVE ref'[e] = D(fd', e) + U(e)'
  BY Zenon, <1>2, <1>6 DEF RefInv
<1>7. CASE UNCHANGED <<ref, fd>> /\ \A d \in Ends : UNCHANGED Undoing(d)
  BY Zenon, <1>2, <1>7
<1>8. CASE sys_pipe(p)
  <2>1. /\ ref'[e] = 1 /\ pc[p] = "user"
        /\ \A q \in Procs : pc[q] \in {"user", "unborn"} /\ fd[q][e] = 0
    BY Zenon, <1>8 DEF sys_pipe, pipealloc, UserInv
  <2>2. D(fd, e) = 0
    BY Zenon, <1>1, <2>1, CountZero
  <2>3. CASE fd' = [fd EXCEPT ![p] = [d \in Ends |-> 1]] /\ UNCHANGED pc
    <3>1. fd'[p][e] = fd[p][e] + 1 /\ \A q \in Procs \ {p} : fd'[q][e] = fd[q][e]
      BY <1>1, <2>1, <2>3 DEF Tables
    <3>2. D(fd', e) = D(fd, e) + 1
      BY Zenon, <1>1, <3>1, CountMore
    <3>3. U(e) = 0
      BY Zenon, <1>4, <2>1 DEF Undo
    <3> HIDE DEF D, U
    <3> QED
      BY <1>5, <2>1, <2>2, <2>3, <3>2, <3>3
  <2>4. CASE Goto(p, "undo") /\ UNCHANGED fd
    <3>1. Undoing(e)' = {p}
      BY Zenon, <1>1, <2>1, <2>4 DEF Undoing, Goto, PcType
    <3>2. U(e)' = 1
      BY Zenon, <3>1, FS_Singleton
    <3> HIDE DEF D, U
    <3> QED
      BY <2>1, <2>2, <2>4, <3>2
  <2> QED
    BY Zenon, <1>8, <2>3, <2>4 DEF sys_pipe
<1>9. CASE sys_pipe_bad(p)
  <2>1. pc[p] \in {"undo", "undo_w"} /\ UNCHANGED fd
    BY <1>9 DEF sys_pipe_bad
  <2>2. D(fd, e) = 0
    <3>1. \A q \in Procs : fd[q][e] = 0
      BY Zenon, <2>1 DEF UndoInv, Undo
    <3> QED
      BY Zenon, <1>1, <3>1, CountZero
  <2>3. CASE pc[p] = "undo"
    <3>1. ref'[e] = IF e = "r" THEN 0 ELSE 1
      BY <1>1, <1>3, <1>9, <2>3 DEF sys_pipe_bad, RefFacts, FdType, Ends
    <3>2. pc'[p] = "undo_r"
      BY Zenon, <1>1, <1>9, <2>3 DEF sys_pipe_bad, Goto, PcType
    <3>3. Undoing(e)' = IF e = "r" THEN {} ELSE {p}
      BY Zenon, <1>1, <1>9, <2>3, <3>2 DEF Undoing, sys_pipe_bad, Goto, PcType, UndoInv, Undo, Ends
    <3>4. U(e)' = IF e = "r" THEN 0 ELSE 1
      BY Zenon, <3>3, FS_Singleton, FS_EmptySet
    <3> HIDE DEF D, U
    <3> QED
      BY <2>1, <2>2, <3>1, <3>4
  <2>4. CASE pc[p] = "undo_w"
    <3>1. ref'[e] = 0
      BY <1>1, <1>3, <1>9, <2>4 DEF sys_pipe_bad, RefFacts, FdType, Ends
    <3>2. Undoing(e)' = {}
      BY Zenon, <1>1, <1>9, <2>4 DEF Undoing, sys_pipe_bad, Goto, PcType, UndoInv, Undo, Ends
    <3>3. U(e)' = 0
      BY Zenon, <3>2, FS_EmptySet
    <3> HIDE DEF D, U
    <3> QED
      BY <2>1, <2>2, <3>1, <3>3
  <2> QED
    BY Zenon, <2>1, <2>3, <2>4
<1>10. CASE \E q \in Procs : fork(p, q)
  <2>1. PICK q \in Procs : fork(p, q)
    BY Zenon, <1>10
  <2>2. fd[q][e] = 0 /\ fd'[q][e] = fd[p][e] /\ \A r \in Procs \ {q} : fd'[r][e] = fd[r][e]
    BY Zenon, <1>1, <2>1 DEF fork, UserInv, FdType
  <2>3. ref'[e] = ref[e] + fd[p][e] /\ fd[p][e] \in Nat
    BY <1>1, <2>1, PipeAssumption DEF fork, filedup, FdType, PipeAssumption
  <2>4. D(fd', e) = D(fd, e) + fd[p][e]
    BY Zenon, <1>1, <2>2, CountCopy
  <2>5. Undoing(e)' = Undoing(e)
    BY Zenon, <1>1, <2>1 DEF fork, Goto, Undoing, PcType
  <2>6. U(e)' = U(e)
    BY Zenon, <2>5
  <2> HIDE DEF D, U
  <2> QED
    BY <1>2, <2>3, <2>4, <2>6
<1>11. CASE \E d \in Ends : sys_dup(p, d)
  <2>1. PICK d \in Ends : sys_dup(p, d)
    BY Zenon, <1>11
  <2>2. U(e)' = U(e)
    BY Zenon, <1>5, <2>1 DEF sys_dup
  <2>3. CASE d = e
    <3>1. /\ fd'[p][e] = fd[p][e] + 1 /\ \A q \in Procs \ {p} : fd'[q][e] = fd[q][e]
          /\ ref'[e] = ref[e] + 1
      BY Zenon, <1>1, <2>1, <2>3 DEF sys_dup, filedup, FdType
    <3>2. D(fd', e) = D(fd, e) + 1
      BY Zenon, <1>1, <3>1, CountMore
    <3> HIDE DEF D, U
    <3> QED
      BY <1>2, <2>2, <3>1, <3>2
  <2>4. CASE d # e
    <3>1. (\A q \in Procs : fd'[q][e] = fd[q][e]) /\ ref'[e] = ref[e]
      BY Zenon, <1>1, <2>1, <2>4 DEF sys_dup, FdType
    <3>2. D(fd', e) = D(fd, e)
      BY Zenon, <1>1, <3>1, CountSame
    <3> QED
      BY Zenon, <1>2, <2>2, <3>1, <3>2
  <2> QED
    BY Zenon, <2>3, <2>4
<1>12. CASE \E d \in Ends : fileclose(p, d)
  <2>1. PICK d \in Ends : fileclose(p, d)
    BY Zenon, <1>12
  <2>2. Undoing(e)' = Undoing(e)
    BY Zenon, <1>1, <2>1 DEF fileclose, Goto, Undoing, PcType
  <2>3. U(e)' = U(e)
    BY Zenon, <2>2
  <2>4. CASE d = e
    <3>1. /\ fd[p][e] = fd'[p][e] + 1 /\ \A q \in Procs \ {p} : fd[q][e] = fd'[q][e]
          /\ ref'[e] = ref[e] - 1
      BY <1>1, <2>1, <2>4 DEF fileclose, FdType
    <3>2. D(fd, e) = D(fd', e) + 1
      BY Zenon, <1>1, <3>1, CountMore
    <3> HIDE DEF D, U
    <3> QED
      BY <1>2, <2>3, <3>1, <3>2
  <2>5. CASE d # e
    <3>1. (\A q \in Procs : fd'[q][e] = fd[q][e]) /\ ref'[e] = ref[e]
      BY Zenon, <1>1, <2>1, <2>5 DEF fileclose, FdType
    <3>2. D(fd', e) = D(fd, e)
      BY Zenon, <1>1, <3>1, CountSame
    <3> QED
      BY Zenon, <1>2, <2>3, <3>1, <3>2
  <2> QED
    BY Zenon, <2>4, <2>5
<1> QED
  BY Zenon, <1>1, <1>7, <1>8, <1>9, <1>10, <1>11, <1>12, RefKept
----------------------------------------------------------------------------
(* The invariant                                                            *)

\* The invariant holds before pipe() is called.
LEMMA PipeInvInit == Init => PipeInv
<1> SUFFICES ASSUME Init PROVE PipeInv
  OBVIOUS
<1>1. TypeOK
  <2>1. RingType /\ FlagType
    <3>1. data \in [0 .. (PIPESIZE - 1) -> Bytes \cup {None}]
      BY Zenon DEF Init
    <3>2. 0 \in 0 .. (UINT - 1)
      BY PipeAssumption DEF PipeAssumption
    <3> QED
      BY Zenon, <3>1, <3>2 DEF Init, RingType, FlagType
  <2>2. FdType /\ PcType
    BY PipeAssumption DEF Init, FdType, PcType, Labels, PipeAssumption
  <2>3. CallType
    BY DEF Init, CallType
  <2> QED
    BY Zenon, <2>1, <2>2, <2>3 DEF TypeOK, RingType, FlagType, FdType, PcType, CallType
<1>2. HolderInv
  BY Zenon, PipeAssumption DEF Init, HolderInv, Holds, PipeAssumption
<1>3. UserInv /\ UndoInv /\ EndsInv /\ SleepInv
  BY Zenon DEF Init, UserInv, UndoInv, EndsInv, SleepInv, InWrite, InRead, Undo
<1>4. ASSUME NEW e \in Ends
      PROVE  ref[e] = Cardinality(Descriptors(e)) + Cardinality(Undoing(e))
  <2>1. fd \in Tables /\ (\A q \in Procs : fd[q][e] = 0) /\ ref[e] = 0
    BY Zenon, <1>1 DEF Init, Tables, TypeOK
  <2>2. Descriptors(e) = DescriptorsOf(fd, e)
    BY Zenon DEF Descriptors, DescriptorsOf
  <2>3. Cardinality(Descriptors(e)) = 0
    BY Zenon, <2>1, <2>2, CountZero
  <2>4. \A q \in Procs : pc[q] \notin Undo
    BY Zenon DEF Init, Undo
  <2>5. Cardinality(Undoing(e)) = 0
    BY Zenon, <1>3, <2>4, UndoNumbers
  <2>6. 0 = 0 + 0
    OBVIOUS
  <2> QED
    BY Zenon, <2>1, <2>3, <2>5, <2>6
<1> QED
  BY Zenon, <1>1, <1>2, <1>3, <1>4 DEF PipeInv, RefInv
\* Every step keeps it.
LEMMA PipeInvStep == PipeInv /\ [Next]_vars => PipeInv'
<1> SUFFICES ASSUME PipeInv, [Next]_vars PROVE PipeInv'
  OBVIOUS
<1>1. CASE UNCHANGED vars
  <2>1. TypeOK' /\ HolderInv' /\ UserInv' /\ UndoInv'
    BY Zenon, <1>1 DEF vars, PipeInv, TypeOK, HolderInv, UserInv, UndoInv
  <2>2. RefInv'
    BY Zenon, <1>1 DEF vars, PipeInv, RefInv, Descriptors, Undoing
  <2>3. EndsInv'
    BY Zenon, <1>1 DEF vars, PipeInv, EndsInv, IsOpen
  <2>4. SleepInv'
    BY Zenon, <1>1 DEF vars, PipeInv, SleepInv, Full, Empty
  <2> QED
    BY Zenon, <2>1, <2>2, <2>3, <2>4 DEF PipeInv
<1>2. CASE Next
  <2>1. PICK p \in Procs : Step(p)
    BY Zenon, <1>2 DEF Next, Step
  <2>2. RefFacts
    BY Zenon, RefsSay DEF PipeInv
  <2>3. PcType /\ FlagType /\ FdType
    BY Zenon DEF PipeInv, TypeOK, PcType, FlagType, FdType
  <2>4. TypeOK'
    BY Zenon, <2>1, <2>2, TypeStep DEF PipeInv
  <2>5. HolderInv' /\ UndoInv' /\ UserInv'
    BY Zenon, <2>1, <2>2, <2>3, HolderStep, UndoStep, UserStep DEF PipeInv
  <2>6. FdType'
    BY Zenon, <2>4 DEF TypeOK, FdType
  <2>7. RefInv'
    BY Zenon, <2>1, <2>5, <2>6, RefStep DEF PipeInv
  <2>8. EndsInv' /\ SleepInv'
    BY Zenon, <2>1, <2>2, EndsStep, SleepStep DEF PipeInv
  <2> QED
    BY Zenon, <2>4, <2>5, <2>7, <2>8 DEF PipeInv
<1> QED
  BY Zenon, <1>1, <1>2
\* The invariant holds throughout.
LEMMA PipeInvAlways == Spec => []PipeInv
BY PipeInvInit, PipeInvStep, PTL DEF Spec
----------------------------------------------------------------------------
(* References and wakeups                                                   *)

\* filedup, fileclose, pipeclose, sys_pipe: whatever number of processes dup,
\* fork, close and fail to make the pipe, f->ref is the number of references,
\* the page is freed with the last of them, and nobody is in the pipe after it.
THEOREM PipeFreedLast == Spec => []FreedLast
<1>1. PipeInv => FreedLast
  <2> SUFFICES ASSUME PipeInv PROVE FreedLast
    OBVIOUS
  <2>1. RefFacts
    BY Zenon, RefsSay DEF PipeInv
  <2>2. \A p \in Procs, e \in Ends : fd[p][e] \in Nat
    BY PipeAssumption DEF PipeInv, TypeOK, PipeAssumption
  <2>3. ASSUME life # "live", NEW p \in Procs PROVE pc[p] \notin InPipe /\ Open(p) = 0
    BY <2>3 DEF PipeInv, UserInv, InPipe, Ending, Open, Ends
  <2>4. ASSUME life = "live", \A p \in Procs : pc[p] \notin Ending
        PROVE  \E p \in Procs : Open(p) > 0
    <3>1. readopen \/ writeopen
      BY Zenon, <2>4 DEF PipeInv, EndsInv, Ending
    <3>2. PICK e \in Ends : ref[e] > 0
      BY Zenon, <2>4, <3>1 DEF PipeInv, EndsInv, IsOpen, Closing, Ending, Ends
    <3>3. PICK p \in Procs : fd[p][e] > 0
      BY Zenon, <2>1, <2>4, <3>2 DEF RefFacts, Undo, Ending
    <3> QED
      BY <2>2, <3>3 DEF Open, Ends
  <2> QED
    BY Zenon, <2>3, <2>4 DEF PipeInv, FreedLast, HolderInv, RefInv
<1> QED
  BY <1>1, PipeInvAlways, PTL
\* pipewrite, piperead, pipeclose: for every number of readers and writers and
\* every size of the ring, nobody sleeps on while there is something to do.
THEOREM PipeNoLostWakeup == Spec => []NoLostWakeup
<1>1. PipeInv => NoLostWakeup
  <2> SUFFICES ASSUME PipeInv, lock = None, NEW p \in Procs
               PROVE  /\ pc[p] = "wsleep" => Full /\ readopen
                      /\ pc[p] = "rsleep" /\ (\A q \in Procs : ~killed[q]) => Empty /\ writeopen
    BY Zenon DEF NoLostWakeup
  <2>1. \A q \in Procs : pc[q] \notin Holds
    BY PipeAssumption DEF PipeInv, HolderInv, PipeAssumption
  <2> QED
    BY Zenon, <2>1 DEF PipeInv, SleepInv, Holds
<1> QED
  BY <1>1, PipeInvAlways, PTL

\* piperead: it returns 0 only when the last write end is closed and the pipe
\* is empty, for every number of writers, or when copyout of the first byte
\* fails, which takes just that byte out.
THEOREM PipeZeroRead == Spec => ZeroRead
<1>1. ASSUME PipeInv, [Next]_vars, NEW p \in Procs,
             pc[p] = "copy", pc'[p] = "user", i[p] = 0, n[p] > 0
      PROVE  \/ ref["w"] = 0 /\ Empty /\ nread' = nread
             \/ ~Empty /\ nread' = (nread + 1) % UINT
  <2>1. life = "live" /\ ~(Empty /\ writeopen)
    BY Zenon, <1>1 DEF PipeInv, UserInv, SleepInv
  <2>2. ~writeopen => ref["w"] = 0
    <3>1. ref["w"] \in Nat
      BY Zenon, <1>1 DEF PipeInv, TypeOK, Ends
    <3>2. EndsInv
      BY Zenon, <1>1 DEF PipeInv
    <3> QED
      BY <2>1, <3>1, <3>2 DEF EndsInv, IsOpen, Ends
  <2>3. PICK q \in Procs : Step(q)
    <3>1. pc' # pc
      BY Zenon, <1>1
    <3> QED
      BY Zenon, <1>1, <3>1 DEF vars, Next, Step
  <2>4. PcType
    BY Zenon, <1>1 DEF PipeInv, TypeOK, PcType
  <2>0. CASE read_byte(q)
    BY Zenon, <2>0 DEF read_byte
  <2>5. SUFFICES ASSUME ~read_byte(q)
                 PROVE  ref["w"] = 0 /\ Empty /\ nread' = nread
    BY Zenon, <2>0
  <2>6. read_done(p)
    <3> USE DEF PcType
    <3>1. ~sys_pipe(q) /\ ~sys_pipe_bad(q) /\ ~kfree(q) /\ ~kill(q)
      BY Zenon, <1>1, <2>4 DEF sys_pipe, sys_pipe_bad, kfree, kill, Goto
    <3>2. ~(\E r \in Procs : fork(q, r)) /\ ~(\E e \in Ends : sys_dup(q, e) \/ fileclose(q, e))
      BY Zenon, <1>1, <2>4 DEF fork, sys_dup, fileclose, Goto
    <3>3. ~Close(q)
      BY Zenon, <1>1, <2>4 DEF Close, pipeclose, Closing, Wake, WakeReaders, WakeWriters
    <3>4. /\ ~write_begin(q) /\ ~write_resume(q)
          /\ ~read_begin(q) /\ ~read_resume(q)
      BY Zenon, <1>1, <2>4 DEF write_begin, write_resume, read_begin, read_resume, Goto
    <3>5. ~Writer(q)
      BY Zenon, <1>1, <2>4 DEF Writer, write_check, write_sleep, write_byte, write_fault, Goto, Release,
         Wake, WakeReaders
    <3>6. ~read_check(q) /\ ~read_sleep(q)
      BY Zenon, <1>1, <2>4 DEF read_check, read_sleep, Goto, Release
    <3>7. read_done(q)
      BY Zenon, <2>3, <2>5, <3>1, <3>2, <3>3, <3>4, <3>5, <3>6 DEF Step, Reader
    <3> QED
      BY Zenon, <1>1, <2>4, <3>7 DEF read_done, Wake, WakeWriters
  <2>7. Empty
    <3>1. n[p] \in Nat
      BY Zenon, <1>1, PipeAssumption DEF PipeInv, TypeOK, PipeAssumption
    <3> QED
      BY <1>1, <2>6, <3>1 DEF read_done
  <2>8. nread' = nread
    BY Zenon, <2>6 DEF read_done, pipe
  <2> QED
    BY Zenon, <2>1, <2>2, <2>7, <2>8
<1>2. PipeInv /\ [Next]_vars =>
      [\A p \in Procs :
         pc[p] = "copy" /\ pc'[p] = "user" /\ i[p] = 0 /\ n[p] > 0 =>
           \/ ref["w"] = 0 /\ Empty /\ nread' = nread
           \/ ~Empty /\ nread' = (nread + 1) % UINT]_vars
  BY Zenon, <1>1
<1> QED
  BY <1>2, PipeInvAlways, PTL DEF Spec, ZeroRead

=============================================================================
