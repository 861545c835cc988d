-------------------------------- MODULE Pipe --------------------------------
(***************************************************************************)
(* One pipe of kernel/pipe.c, from pipealloc to kfree: the processes that  *)
(* hold its two ends, dup, fork, close, read and write through             *)
(* kernel/file.c's reference counts, and kill.                             *)
(*                                                                         *)
(* A step is what a process does between two points where another process  *)
(* can see or change something it uses: pi->lock protects the pipe, but    *)
(* pr->killed is read without a common lock, so kill falls between the     *)
(* test of killed and the sleep that follows it.                           *)
(***************************************************************************)
EXTENDS Naturals, Sequences, FiniteSets

CONSTANTS
  Procs,     \* process slots
  creator,   \* the process that calls pipe()
  Bytes,     \* what a byte can be
  None,      \* "nobody", "nothing"
  PIPESIZE,  \* capacity of data
  UINT,      \* modulus of nread and nwrite (2^32)
  NOFILE,    \* descriptors of a process for this pipe
  Counts,    \* how many bytes a read or write may be asked for
  Killable   \* processes that kill may hit

ASSUME PipeAssumption ==
  /\ IsFiniteSet(Procs) /\ creator \in Procs /\ None \notin Procs \cup Bytes
  /\ PIPESIZE \in Nat \ {0} /\ Counts \subseteq Nat /\ NOFILE \in Nat
  /\ UINT \in Nat /\ UINT > PIPESIZE /\ UINT % PIPESIZE = 0
  /\ Killable \subseteq Procs

VARIABLES
  life,      \* of the page holding struct pipe: none, live, freed
  lock,      \* holder of pi->lock
  data, nread, nwrite, readopen, writeopen,   \* struct pipe
  ref,       \* f->ref of the file at each end
  fd,        \* how many descriptors of each process lead to each end
  killed,
  pc, n, i,  \* where each process is, the count it was asked for, its loop index
  ch         \* the last byte taken from the pipe

pipe == <<data, nread, nwrite, readopen, writeopen>>
vars == <<life, lock, data, nread, nwrite, readopen, writeopen, ref, fd, killed,
          pc, n, i, ch>>

Ends   == {"r", "w"}
Asleep == {"rsleep", "wsleep"}
Ending == {"close_r", "close_w", "kfree", "undo", "undo_r", "undo_w"}
InPipe == {"write", "write_go", "wsleep", "wwoken", "read", "read_go", "rsleep",
           "rwoken", "copy"} \cup Ending
Holds  == {"write", "write_go", "read", "read_go", "copy"}
Labels == {"unborn", "user"} \cup InPipe

Init ==
  /\ life = "none" /\ lock = None
  /\ data \in [0 .. (PIPESIZE - 1) -> {None}]
  /\ nread = 0 /\ nwrite = 0 /\ readopen = FALSE /\ writeopen = FALSE
  /\ ref = [e \in Ends |-> 0]
  /\ fd = [p \in Procs |-> [e \in Ends |-> 0]]
  /\ killed = [p \in Procs |-> FALSE]
  /\ pc = [p \in Procs |-> IF p = creator THEN "user" ELSE "unborn"]
  /\ n = [p \in Procs |-> 0] /\ i = [p \in Procs |-> 0]
  /\ ch = None

Goto(p, l) == pc' = [pc EXCEPT ![p] = l]

\* wakeup(chan), with p itself going to label l
Wake(p, l, from, to) ==
  pc' = [q \in Procs |-> IF q = p THEN l ELSE IF pc[q] = from THEN to ELSE pc[q]]
WakeReaders(p, l) == Wake(p, l, "rsleep", "rwoken")
WakeWriters(p, l) == Wake(p, l, "wsleep", "wwoken")

\* Mutant: the capacity is one too large.
Full_OffByOne == nwrite = (nread + PIPESIZE + 1) % UINT
Full == nwrite = (nread + PIPESIZE) % UINT
Empty == nread = nwrite

----------------------------------------------------------------------------
(* File descriptors: sys_pipe, sys_dup, fork, close, and kill.              *)

\* Descriptors of p in use; which numbers they have makes no difference.
Open(p) == fd[p]["r"] + fd[p]["w"]

\* argfd finds the file at end e in p's table.
argfd(p, e) == fd[p][e] > 0

\* fdalloc of k descriptors finds room in p's table.
fdalloc(p, k) == Open(p) + k <= NOFILE

\* filealloc twice, and the page
pipealloc ==
  /\ life = "none" /\ life' = "live"
  /\ readopen' = TRUE /\ writeopen' = TRUE /\ nwrite' = 0 /\ nread' = 0
  /\ ref' = [e \in Ends |-> 1]

\* The failures of pipealloc leave nothing behind.  When the table of p has no
\* room for both ends beside its other files, or the descriptors cannot be
\* copied out, sys_pipe closes the two files again.
sys_pipe(p) ==
  /\ pc[p] = "user" /\ ~killed[p]
  /\ pipealloc
  /\ \/ fdalloc(p, 2) /\ fd' = [fd EXCEPT ![p] = [e \in Ends |-> 1]] /\ UNCHANGED pc
     \/ Goto(p, "undo") /\ UNCHANGED fd
  /\ UNCHANGED <<lock, data, killed, n, i, ch>>

filedup(e, k) == ref[e] + k

sys_dup(p, e) ==
  /\ pc[p] = "user" /\ ~killed[p] /\ argfd(p, e) /\ fdalloc(p, 1)
  /\ fd' = [fd EXCEPT ![p][e] = @ + 1]
  /\ ref' = [ref EXCEPT ![e] = filedup(e, 1)]
  /\ UNCHANGED <<life, lock, pipe, killed, pc, n, i, ch>>

\* fork: filedup for every descriptor
fork(p, q) ==
  /\ pc[p] = "user" /\ ~killed[p] /\ pc[q] = "unborn"
  /\ ref' = [e \in Ends |-> filedup(e, fd[p][e])]
  /\ fd' = [fd EXCEPT ![q] = fd[p]]
  /\ Goto(q, "user")
  /\ UNCHANGED <<life, lock, pipe, killed, n, i, ch>>

\* sys_close, and exit: fileclose decrements the count under ftable.lock and
\* calls pipeclose after releasing it.
fileclose(p, e) ==
  /\ pc[p] = "user" /\ argfd(p, e)
  /\ fd' = [fd EXCEPT ![p][e] = @ - 1]
  /\ ref' = [ref EXCEPT ![e] = @ - 1]
  /\ Goto(p, IF ref[e] > 1 THEN "user" ELSE IF e = "w" THEN "close_w" ELSE "close_r")
  /\ UNCHANGED <<life, lock, pipe, killed, n, i, ch>>

\* The end of a sys_pipe that failed: fileclose(rf), fileclose(wf)
sys_pipe_bad(p) ==
  LET e == IF pc[p] = "undo" THEN "r" ELSE "w" IN
  /\ pc[p] \in {"undo", "undo_w"}
  /\ ref' = [ref EXCEPT ![e] = @ - 1]
  /\ Goto(p, IF e = "r" THEN "undo_r" ELSE "close_w")
  /\ UNCHANGED <<life, lock, pipe, fd, killed, n, i, ch>>

\* Where fileclose calls pipeclose for end e
Closing(e) == IF e = "w" THEN {"close_w"} ELSE {"close_r", "undo_r"}

\* Mutant: the page is freed when either end is closed.
pipeclose_FreesEarly(p, e) ==
  /\ pc[p] \in Closing(e)
  /\ lock = None
  /\ IF e = "w" THEN writeopen' = FALSE /\ UNCHANGED readopen
                ELSE readopen' = FALSE /\ UNCHANGED writeopen
  /\ IF e = "w" THEN WakeReaders(p, "kfree") ELSE WakeWriters(p, "kfree")
  /\ UNCHANGED <<life, lock, data, nread, nwrite, ref, fd, killed, n, i, ch>>

pipeclose(p, e) ==
  /\ pc[p] \in Closing(e)
  /\ lock = None
  /\ IF e = "w" THEN writeopen' = FALSE /\ UNCHANGED readopen
                ELSE readopen' = FALSE /\ UNCHANGED writeopen
  /\ LET l == CASE pc[p] = "undo_r" -> "undo_w"
               [] pc[p] # "undo_r" /\ (readopen' \/ writeopen') -> "user"
               [] OTHER -> "kfree"
     IN IF e = "w" THEN WakeReaders(p, l) ELSE WakeWriters(p, l)
  /\ UNCHANGED <<life, lock, data, nread, nwrite, ref, fd, killed, n, i, ch>>

kfree(p) ==
  /\ pc[p] = "kfree"
  /\ life' = "freed"
  /\ Goto(p, "user")
  /\ UNCHANGED <<lock, pipe, ref, fd, killed, n, i, ch>>

\* kill() sets p->killed and makes a sleeper runnable.
kill(p) ==
  /\ p \in Killable /\ ~killed[p] /\ pc[p] # "unborn"
  /\ killed' = [killed EXCEPT ![p] = TRUE]
  /\ pc' = [pc EXCEPT ![p] = IF @ = "rsleep" THEN "rwoken"
                             ELSE IF @ = "wsleep" THEN "wwoken" ELSE @]
  /\ UNCHANGED <<life, lock, pipe, ref, fd, n, i, ch>>

----------------------------------------------------------------------------
(* pipewrite                                                                *)

write_begin(p) ==
  /\ pc[p] = "user" /\ argfd(p, "w") /\ ~killed[p]
  /\ lock = None /\ lock' = p
  /\ \E k \in Counts : n' = [n EXCEPT ![p] = k]
  /\ i' = [i EXCEPT ![p] = 0]
  /\ Goto(p, "write")
  /\ UNCHANGED <<life, pipe, ref, fd, killed, ch>>

Release(p, l) == lock' = None /\ Goto(p, l)

\* The locals of a call end with it.
Return(p) == n' = [n EXCEPT ![p] = 0] /\ i' = [i EXCEPT ![p] = 0]

\* Mutant: a finished write wakes nobody.
write_check_NoWakeup(p) ==
  /\ pc[p] = "write"
  /\ \/ /\ i[p] >= n[p] \/ ~readopen \/ killed[p]
        /\ Release(p, "user") /\ Return(p)
     \/ /\ i[p] < n[p] /\ readopen /\ ~killed[p]
        /\ Goto(p, "write_go") /\ UNCHANGED <<lock, n, i>>
  /\ UNCHANGED <<life, pipe, ref, fd, killed, ch>>

\* The loop's exits: all written, or the read end closed or the caller killed.
write_check(p) ==
  /\ pc[p] = "write"
  /\ \/ /\ i[p] >= n[p]
        /\ lock' = None /\ WakeReaders(p, "user") /\ Return(p)
     \/ /\ i[p] < n[p] /\ (~readopen \/ killed[p])
        /\ Release(p, "user") /\ Return(p)
     \/ /\ i[p] < n[p] /\ readopen /\ ~killed[p]
        /\ Goto(p, "write_go") /\ UNCHANGED <<lock, n, i>>
  /\ UNCHANGED <<life, pipe, ref, fd, killed, ch>>

write_sleep(p) ==
  /\ pc[p] = "write_go" /\ Full
  /\ lock' = None /\ WakeReaders(p, "wsleep")
  /\ UNCHANGED <<life, pipe, ref, fd, killed, n, i, ch>>

write_byte(p, b) ==
  /\ pc[p] = "write_go" /\ ~Full
  /\ data' = [data EXCEPT ![nwrite % PIPESIZE] = b]
  /\ nwrite' = (nwrite + 1) % UINT
  /\ i' = [i EXCEPT ![p] = @ + 1]
  /\ Goto(p, "write")
  /\ UNCHANGED <<life, lock, nread, readopen, writeopen, ref, fd, killed, n, ch>>

\* copyin fails: the user address is bad
write_fault(p) ==
  /\ pc[p] = "write_go" /\ ~Full
  /\ lock' = None /\ WakeReaders(p, "user") /\ Return(p)
  /\ UNCHANGED <<life, pipe, ref, fd, killed, ch>>

write_resume(p) ==
  /\ pc[p] = "wwoken"
  /\ lock = None /\ lock' = p
  /\ Goto(p, "write")
  /\ UNCHANGED <<life, pipe, ref, fd, killed, n, i, ch>>

----------------------------------------------------------------------------
(* piperead                                                                 *)

read_begin(p) ==
  /\ pc[p] = "user" /\ argfd(p, "r") /\ ~killed[p]
  /\ lock = None /\ lock' = p
  /\ \E k \in Counts : n' = [n EXCEPT ![p] = k]
  /\ i' = [i EXCEPT ![p] = 0]
  /\ Goto(p, "read")
  /\ UNCHANGED <<life, pipe, ref, fd, killed, ch>>

read_check(p) ==
  /\ pc[p] = "read"
  /\ \/ /\ ~(Empty /\ writeopen)
        /\ Goto(p, "copy") /\ UNCHANGED <<lock, n, i>>
     \/ /\ Empty /\ writeopen /\ killed[p]
        /\ Release(p, "user") /\ Return(p)
     \/ /\ Empty /\ writeopen /\ ~killed[p]
        /\ Goto(p, "read_go") /\ UNCHANGED <<lock, n, i>>
  /\ UNCHANGED <<life, pipe, ref, fd, killed, ch>>

read_sleep(p) ==
  /\ pc[p] = "read_go"
  /\ Release(p, "rsleep")
  /\ UNCHANGED <<life, pipe, ref, fd, killed, n, i, ch>>

\* Mutant: "if" for "while": a woken reader does not look again.
read_resume_NoRecheck(p) ==
  /\ pc[p] = "rwoken"
  /\ lock = None /\ lock' = p
  /\ Goto(p, "copy")
  /\ UNCHANGED <<life, pipe, ref, fd, killed, n, i, ch>>

read_resume(p) ==
  /\ pc[p] = "rwoken"
  /\ lock = None /\ lock' = p
  /\ Goto(p, "read")
  /\ UNCHANGED <<life, pipe, ref, fd, killed, n, i, ch>>

\* One byte, which copyout delivers or, the address being bad, loses.
read_byte(p) ==
  /\ pc[p] = "copy" /\ i[p] < n[p] /\ ~Empty
  /\ ch' = data[nread % PIPESIZE]
  /\ nread' = (nread + 1) % UINT
  /\ \/ /\ i' = [i EXCEPT ![p] = @ + 1]
        /\ UNCHANGED <<lock, pc, n>>
     \/ lock' = None /\ WakeWriters(p, "user") /\ Return(p)
  /\ UNCHANGED <<life, data, nwrite, readopen, writeopen, ref, fd, killed>>

read_done(p) ==
  /\ pc[p] = "copy" /\ (i[p] >= n[p] \/ Empty)
  /\ lock' = None /\ WakeWriters(p, "user") /\ Return(p)
  /\ UNCHANGED <<life, pipe, ref, fd, killed, ch>>

----------------------------------------------------------------------------
Writer(p) ==
  \/ write_check(p) \/ write_sleep(p) \/ write_fault(p)
  \/ \E b \in Bytes : write_byte(p, b)

Reader(p) == read_check(p) \/ read_sleep(p) \/ read_byte(p) \/ read_done(p)

Close(p) == pipeclose(p, "r") \/ pipeclose(p, "w")

Next ==
  \E p \in Procs :
    \/ sys_pipe(p) \/ sys_pipe_bad(p) \/ (\E q \in Procs : fork(p, q))
    \/ (\E e \in Ends : sys_dup(p, e) \/ fileclose(p, e)) \/ Close(p) \/ kfree(p) \/ kill(p)
    \/ write_begin(p) \/ Writer(p) \/ write_resume(p)
    \/ read_begin(p) \/ Reader(p) \/ read_resume(p)

Spec == Init /\ [][Next]_vars

----------------------------------------------------------------------------
(* Properties.                                                              *)

TypeOK ==
  /\ life \in {"none", "live", "freed"}
  /\ lock \in Procs \cup {None}
  /\ data \in [0 .. (PIPESIZE - 1) -> Bytes \cup {None}]
  /\ nread \in 0 .. (UINT - 1) /\ nwrite \in 0 .. (UINT - 1)
  /\ readopen \in BOOLEAN /\ writeopen \in BOOLEAN
  /\ ref \in [Ends -> Nat]
  /\ fd \in [Procs -> [Ends -> 0 .. NOFILE]]
  /\ killed \in [Procs -> BOOLEAN]
  /\ pc \in [Procs -> Labels]
  /\ n \in [Procs -> Counts \cup {0}] /\ i \in [Procs -> Nat]
  /\ \A p \in Procs : i[p] <= n[p]
  /\ ch \in Bytes \cup {None}

\* The bytes between the two counters, which wrap around as C's uint does.
Count    == (nwrite + UINT - nread) % UINT
Contents == [k \in 1 .. Count |-> data[(nread + k - 1) % PIPESIZE]]

Queue == INSTANCE Fifo WITH q <- Contents, Cap <- PIPESIZE

\* pipewrite, piperead: the pipe is a bounded FIFO; no byte is overwritten
\* before it is read, read twice, or out of order, also when the counters wrap.
PipeIsFifo == Queue!Spec

\* The descriptors that lead to end e, and the calls of sys_pipe that failed and
\* still have their file at e
Descriptors(e) == {x \in Procs \X (1 .. NOFILE) : x[2] <= fd[x[1]][e]}
Undoing(e)     == {p \in Procs : \/ pc[p] = "undo"
                                 \/ pc[p] \in {"undo_r", "undo_w"} /\ e = "w"}

\* filedup, fileclose, pipeclose: f->ref counts the descriptors, whatever dup,
\* fork, close and a pipe() that fails late did; the page is freed exactly when
\* the last reference to either end is gone, and no process is in the pipe,
\* asleep in it or about to close an end of it after that.
FreedLast ==
  /\ TypeOK
  /\ \A e \in Ends : ref[e] = Cardinality(Descriptors(e)) + Cardinality(Undoing(e))
  /\ life # "live" => \A p \in Procs : pc[p] \notin InPipe /\ Open(p) = 0
  /\ life = "live" => \/ \E p \in Procs : Open(p) > 0
                      \/ \E p \in Procs : pc[p] \in Ending
  /\ \A p \in Procs : lock = p <=> pc[p] \in Holds

\* pipewrite, piperead, pipeclose: a writer sleeps only while the pipe is full
\* and a reader may still come, a reader only while it is empty and a writer may
\* still come (with pi->lock held the holder may be about to wake them).  For
\* readers this needs that nobody was killed: a killed writer returns at
\* pipe.c:84 without waking the readers of what it wrote.
NoLostWakeup ==
  lock = None => \A p \in Procs :
    /\ pc[p] = "wsleep" => Full /\ readopen
    /\ pc[p] = "rsleep" /\ (\A q \in Procs : ~killed[q]) => Empty /\ writeopen

\* piperead: a read that asked for bytes returns 0, which its caller takes for end
\* of file, when every write end has been closed and every byte has been read.
\* There is one other way to a 0 (pipe.c:127): copyout fails at the first byte,
\* and then that byte, and no other, is gone from the pipe.
ZeroRead ==
  [][\A p \in Procs :
       pc[p] = "copy" /\ pc'[p] = "user" /\ i[p] = 0 /\ n[p] > 0 =>
         \/ ref["w"] = 0 /\ Empty /\ nread' = nread
         \/ ~Empty /\ nread' = (nread + 1) % UINT]_vars

============================================================================
