-------------------------------- MODULE Log --------------------------------
(***************************************************************************)
(* The logging layer of the file system, kernel/log.c, over the buffer     *)
(* cache it pins blocks in and the disk it writes: group commit of         *)
(* concurrent operations, crashes at any instant, recovery at boot.        *)
(*                                                                         *)
(* A step is a critical section of log.lock or one disk write.  A caller's *)
(* bread / modify / log_write / brelse is one step, since the buffer's     *)
(* sleep lock is held throughout.  The cache is a map from home blocks to  *)
(* contents; how buffers are found and recycled is kernel/bio.c's matter.  *)
(***************************************************************************)
EXTENDS Naturals, Sequences, FiniteSets

CONSTANTS
  Procs,        \* processes making file-system calls
  initproc,     \* the first process: forkret runs fsinit, hence recovery
  Blocks,       \* home block numbers
  Values,       \* block contents
  Torn,         \* contents of a block whose write a crash cut short
  None,         \* "not in the buffer cache"
  MAXOPBLOCKS,  \* space begin_op reserves per operation (param.h)
  LOGSIZE,      \* capacity of the header's block array (param.h)
  size,         \* log.size, which mkfs stores as sb.nlog
  OpBlocks      \* most distinct blocks one operation really writes

ASSUME ProcsAssumption == IsFiniteSet(Procs) /\ initproc \in Procs
ASSUME SpaceAssumption ==
  /\ MAXOPBLOCKS \in Nat \ {0}
  /\ LOGSIZE \in Nat
  /\ size \in Nat \ {0, 1}
  /\ OpBlocks \in Nat
  /\ MAXOPBLOCKS <= LOGSIZE
ASSUME ValuesAssumption ==
  /\ Values # {}
  /\ Torn \notin Values
  /\ None \notin Values \cup {Torn}

VARIABLES
  \* on disk
  home,         \* the home location of every block
  dhead,        \* the log header: the block numbers of a committed transaction
  dlog,         \* the log's data blocks
  \* in memory
  cache,        \* contents of the cached home blocks
  refcnt,       \* references to a buffer that outlive a step (bpin)
  lh,           \* log.lh.block[0 .. n-1]
  outstanding,  \* log.outstanding
  committing,   \* log.committing
  panicked,     \* a process panicked, and holds log.lock for ever
  pc,           \* where each process is in log.c
  tail,         \* the local of write_log and install_trans
  wrote         \* the blocks each process's current operation has written

disk == <<home, dhead, dlog>>
logv == <<lh, outstanding, committing, panicked>>
vars == <<home, dhead, dlog, cache, refcnt, lh, outstanding, committing,
          panicked, pc, tail, wrote>>

Contents  == Values \cup {Torn}
LogSlots  == 1 .. (size - 1)
Elems(s)  == {s[i] : i \in 1 .. Len(s)}
Booting   == {"read_head", "recover_install", "recover_clear"}
Commit    == {"commit", "write_log", "write_head", "install_trans",
              "clear_head", "end_commit"}
Labels    == {"idle", "sleeping", "woken", "op"} \cup Commit \cup Booting
up        == pc[initproc] \notin Booting

Init ==
  /\ home \in [Blocks -> Values]
  /\ dhead = << >>
  /\ dlog \in [LogSlots -> {CHOOSE v \in Values : TRUE}]
  /\ cache = [b \in Blocks |-> None]
  /\ refcnt = [b \in Blocks |-> 0]
  /\ lh = << >>
  /\ outstanding = 0
  /\ committing = FALSE
  /\ panicked = FALSE
  /\ pc = [p \in Procs |-> IF p = initproc THEN "read_head" ELSE "idle"]
  /\ tail = [p \in Procs |-> 1]
  /\ wrote = [p \in Procs |-> {}]

----------------------------------------------------------------------------
(* The buffer cache as log.c sees it.                                       *)

\* bread: the cached contents, or what is on disk.
Read(b) == IF cache[b] # None THEN cache[b] ELSE home[b]

\* A process reads a block, in an operation or out of one.
bread(b) ==
  /\ up
  /\ cache[b] = None
  /\ cache' = [cache EXCEPT ![b] = home[b]]
  /\ UNCHANGED <<disk, refcnt, logv, pc, tail, wrote>>

\* bget recycles a buffer nobody refers to.
bget_recycle(b) ==
  /\ cache[b] # None
  /\ refcnt[b] = 0
  /\ cache' = [cache EXCEPT ![b] = None]
  /\ UNCHANGED <<disk, refcnt, logv, pc, tail, wrote>>

\* wakeup(&log): every sleeper will look at the log again.
Woken(f) == [p \in Procs |-> IF f[p] = "sleeping" THEN "woken" ELSE f[p]]

\* kill() wakes a sleeper too; begin_op does not look at p->killed.
kill(p) ==
  /\ pc[p] = "sleeping"
  /\ pc' = [pc EXCEPT ![p] = "woken"]
  /\ UNCHANGED <<disk, cache, refcnt, logv, tail, wrote>>

----------------------------------------------------------------------------
(* begin_op, log_write, end_op.                                             *)

\* Mutant: the reservation of the operation that is beginning is forgotten.
LogFull_NotItself == Len(lh) + outstanding * MAXOPBLOCKS > LOGSIZE

LogFull == Len(lh) + (outstanding + 1) * MAXOPBLOCKS > LOGSIZE

\* Mutant: begin_op does not look at log.committing.
begin_op_DuringCommit(p) ==
  /\ up /\ ~panicked
  /\ pc[p] \in {"idle", "woken"}
  /\ ~LogFull
  /\ pc' = [pc EXCEPT ![p] = "op"]
  /\ outstanding' = outstanding + 1
  /\ UNCHANGED <<disk, cache, refcnt, lh, committing, panicked, tail, wrote>>

begin_op(p) ==
  /\ up /\ ~panicked
  /\ pc[p] \in {"idle", "woken"}
  /\ \/ /\ committing \/ LogFull
        /\ pc' = [pc EXCEPT ![p] = "sleeping"]
        /\ UNCHANGED outstanding
     \/ /\ ~committing /\ ~LogFull
        /\ pc' = [pc EXCEPT ![p] = "op"]
        /\ outstanding' = outstanding + 1
  /\ UNCHANGED <<disk, cache, refcnt, lh, committing, panicked, tail, wrote>>

TooBig == Len(lh) >= LOGSIZE \/ Len(lh) >= size - 1

\* Mutant: an absorbed block is pinned again.
log_write_PinsAbsorbed(p, b, v) ==
  /\ ~panicked
  /\ pc[p] = "op"
  /\ b \in wrote[p] \/ Cardinality(wrote[p]) < OpBlocks
  /\ ~TooBig
  /\ wrote' = [wrote EXCEPT ![p] = @ \cup {b}]
  /\ cache' = [cache EXCEPT ![b] = v]
  /\ refcnt' = [refcnt EXCEPT ![b] = @ + 1]
  /\ lh' = IF b \in Elems(lh) THEN lh ELSE Append(lh, b)
  /\ UNCHANGED <<disk, outstanding, committing, panicked, pc, tail>>

\* A panicking process keeps log.lock and its reference to the buffer.
log_write(p, b, v) ==
  /\ ~panicked
  /\ pc[p] = "op"
  /\ b \in wrote[p] \/ Cardinality(wrote[p]) < OpBlocks
  /\ wrote' = [wrote EXCEPT ![p] = @ \cup {b}]
  /\ cache' = [cache EXCEPT ![b] = v]
  /\ \/ /\ TooBig \/ outstanding < 1
        /\ panicked' = TRUE
        /\ refcnt' = [refcnt EXCEPT ![b] = @ + 1]
        /\ UNCHANGED lh
     \/ /\ ~TooBig /\ outstanding >= 1
        /\ b \in Elems(lh)                                     \* absorption
        /\ UNCHANGED <<panicked, refcnt, lh>>
     \/ /\ ~TooBig /\ outstanding >= 1
        /\ b \notin Elems(lh)
        /\ refcnt' = [refcnt EXCEPT ![b] = @ + 1]
        /\ lh' = Append(lh, b)
        /\ UNCHANGED panicked
  /\ UNCHANGED <<disk, outstanding, committing, pc, tail>>

end_op(p) ==
  /\ ~panicked
  /\ pc[p] = "op"
  /\ outstanding' = outstanding - 1
  /\ wrote' = [wrote EXCEPT ![p] = {}]
  /\ \/ /\ committing
        /\ panicked' = TRUE
        /\ UNCHANGED <<committing, pc>>
     \/ /\ ~committing /\ outstanding' = 0
        /\ committing' = TRUE
        /\ pc' = [pc EXCEPT ![p] = "commit"]
        /\ UNCHANGED panicked
     \/ /\ ~committing /\ outstanding' # 0
        /\ pc' = Woken([pc EXCEPT ![p] = "idle"])
        /\ UNCHANGED <<committing, panicked>>
  /\ UNCHANGED <<disk, cache, refcnt, lh, tail>>

----------------------------------------------------------------------------
(* commit(), run by the process whose end_op was the last.                  *)

Goto(p, l) == pc' = [pc EXCEPT ![p] = l]

\* Mutant: the loop counter does not move.
Loop_NoAdvance(p, l) ==
  IF tail[p] < Len(lh)
  THEN UNCHANGED <<tail, pc>>
  ELSE tail' = [tail EXCEPT ![p] = 1] /\ Goto(p, l)

\* Leave the loop over the log at p's last block, to label l.
Loop(p, l) ==
  IF tail[p] < Len(lh)
  THEN tail' = [tail EXCEPT ![p] = @ + 1] /\ UNCHANGED pc
  ELSE tail' = [tail EXCEPT ![p] = 1] /\ Goto(p, l)

\* Mutant: the log is not written before the header.
commit_NoWriteLog(p) ==
  /\ pc[p] = "commit"
  /\ Goto(p, IF Len(lh) > 0 THEN "write_head" ELSE "end_commit")
  /\ UNCHANGED <<disk, cache, refcnt, logv, tail, wrote>>

commit(p) ==
  /\ pc[p] = "commit"
  /\ Goto(p, IF Len(lh) > 0 THEN "write_log" ELSE "end_commit")
  /\ UNCHANGED <<disk, cache, refcnt, logv, tail, wrote>>

write_log(p) ==
  /\ pc[p] = "write_log"
  /\ dlog' = [dlog EXCEPT ![tail[p]] = Read(lh[tail[p]])]
  /\ cache' = [cache EXCEPT ![lh[tail[p]]] = Read(lh[tail[p]])]
  /\ Loop(p, "write_head")
  /\ UNCHANGED <<home, dhead, refcnt, logv, wrote>>

\* The header fits in a sector, so its write is atomic: the commit point.
write_head(p) ==
  /\ pc[p] = "write_head"
  /\ dhead' = lh
  /\ Goto(p, "install_trans")
  /\ UNCHANGED <<home, dlog, cache, refcnt, logv, tail, wrote>>

install_trans(p, recovering) ==
  LET b == lh[tail[p]] IN
  /\ pc[p] = IF recovering THEN "recover_install" ELSE "install_trans"
  /\ cache' = [cache EXCEPT ![b] = dlog[tail[p]]]
  /\ home' = [home EXCEPT ![b] = dlog[tail[p]]]
  /\ refcnt' = IF recovering THEN refcnt ELSE [refcnt EXCEPT ![b] = @ - 1]
  /\ Loop(p, IF recovering THEN "recover_clear" ELSE "clear_head")
  /\ UNCHANGED <<dhead, dlog, logv, wrote>>

\* lh.n = 0; write_head()
clear_head(p, recovering) ==
  /\ pc[p] = IF recovering THEN "recover_clear" ELSE "clear_head"
  /\ lh' = << >>
  /\ dhead' = << >>
  /\ Goto(p, IF recovering THEN "idle" ELSE "end_commit")
  /\ UNCHANGED <<home, dlog, cache, refcnt, outstanding, committing,
                 panicked, tail, wrote>>

\* the end of end_op
end_commit(p) ==
  /\ ~panicked
  /\ pc[p] = "end_commit"
  /\ committing' = FALSE
  /\ pc' = Woken([pc EXCEPT ![p] = "idle"])
  /\ UNCHANGED <<disk, cache, refcnt, lh, outstanding, panicked, tail, wrote>>

----------------------------------------------------------------------------
(* Crash, and recover_from_log at the next boot.                            *)

read_head(p) ==
  /\ pc[p] = "read_head"
  /\ lh' = dhead
  /\ Goto(p, IF dhead = << >> THEN "recover_clear" ELSE "recover_install")
  /\ UNCHANGED <<disk, cache, refcnt, outstanding, committing, panicked,
                 tail, wrote>>

\* A block that was being written when the power failed may be torn.
Crash ==
  /\ dlog' \in {dlog} \cup
       {[dlog EXCEPT ![tail[p]] = Torn] : p \in {q \in Procs : pc[q] = "write_log"}}
  /\ home' \in {home} \cup
       {[home EXCEPT ![lh[tail[p]]] = Torn] :
          p \in {q \in Procs : pc[q] \in {"install_trans", "recover_install"}}}
  /\ UNCHANGED dhead
  /\ cache' = [b \in Blocks |-> None]
  /\ refcnt' = [b \in Blocks |-> 0]
  /\ lh' = << >>
  /\ outstanding' = 0
  /\ committing' = FALSE
  /\ panicked' = FALSE
  /\ pc' = [p \in Procs |-> IF p = initproc THEN "read_head" ELSE "idle"]
  /\ tail' = [p \in Procs |-> 1]
  /\ wrote' = [p \in Procs |-> {}]

Committer(p) ==
  \/ commit(p)
  \/ write_log(p)
  \/ write_head(p)
  \/ install_trans(p, FALSE)
  \/ clear_head(p, FALSE)
  \/ end_commit(p)

Recovery(p) ==
  \/ read_head(p)
  \/ install_trans(p, TRUE)
  \/ clear_head(p, TRUE)

Next ==
  \/ \E p \in Procs :
       begin_op(p) \/ end_op(p) \/ Committer(p) \/ Recovery(p) \/ kill(p)
  \/ \E p \in Procs, b \in Blocks, v \in Values : log_write(p, b, v)
  \/ \E b \in Blocks : bread(b) \/ bget_recycle(b)
  \/ Crash

\* A process woken in begin_op, ending an operation, committing or
\* recovering is runnable, and the scheduler runs every runnable process.
Fairness ==
  \A p \in Procs :
    /\ WF_vars(pc[p] = "woken" /\ begin_op(p))
    /\ WF_vars(end_op(p))
    /\ WF_vars(Committer(p))
    /\ WF_vars(Recovery(p))

Spec == Init /\ [][Next]_vars

FairSpec == Spec /\ Fairness

----------------------------------------------------------------------------
(* Properties.                                                              *)

TypeOK ==
  /\ home \in [Blocks -> Contents]
  /\ dhead \in Seq(Blocks) /\ Len(dhead) < size
  /\ dlog \in [LogSlots -> Contents]
  /\ cache \in [Blocks -> Contents \cup {None}]
  /\ refcnt \in [Blocks -> Nat]
  /\ lh \in Seq(Blocks) /\ Len(lh) < size
  /\ outstanding \in Nat
  /\ committing \in BOOLEAN
  /\ panicked \in BOOLEAN
  /\ pc \in [Procs -> Labels]
  /\ tail \in [Procs -> LogSlots]
  /\ wrote \in [Procs -> SUBSET Blocks]

\* Where block b stands in header h.
SlotOf(h, b) == CHOOSE i \in 1 .. Len(h) : h[i] = b

\* What recovery would make of the disk: the log over the home locations.
Stable == [b \in Blocks |-> IF b \in Elems(dhead) THEN dlog[SlotOf(dhead, b)]
                                                  ELSE home[b]]

\* What a read returns; nobody reads before recovery is over.
Cur == IF up THEN [b \in Blocks |-> Read(b)] ELSE Stable

Active == {p \in Procs : pc[p] = "op"}

Atomic == INSTANCE Txn WITH stable <- Stable, cur <- Cur, active <- Active

\* log.c implements an atomic, crash-safe disk: the header write makes every
\* write of every ended operation durable at once and at no other moment does
\* anything become durable; installing, recycling a buffer, recovering and
\* crashing again during recovery change nothing a reader can see; a crash
\* falls back to the last commit, never to a part of an operation.
CrashAtomic == Atomic!Spec

\* begin_op, end_op: outstanding counts the operations under way, a commit
\* runs only when there are none, and there is never a second committer.
CommitExclusive ==
  /\ outstanding = Cardinality(Active)
  /\ committing <=> \E p \in Procs : pc[p] \in Commit
  /\ \A p \in Procs : pc[p] \in Commit =>
       Active = {} /\ \A q \in Procs : pc[q] \in Commit => q = p

\* begin_op's reservation is large enough: log_write never runs out of log
\* ("too big a transaction"), and end_op never meets a commit in progress.  And
\* no wakeup is lost: whoever sleeps on &log would still have to wait if it
\* looked again, and somebody is there to wake it.
ReservationSuffices ==
  /\ TypeOK /\ ~panicked
  /\ \A p \in Procs :
       pc[p] = "sleeping" => /\ committing \/ LogFull
                             /\ committing \/ outstanding > 0

\* The i-th logged block is still to be installed.
Pending(i) ==
  /\ up
  /\ \A p \in Procs :
       /\ pc[p] # "clear_head"
       /\ pc[p] = "install_trans" => i >= tail[p]

Dirty(b) == \E i \in 1 .. Len(lh) : lh[i] = b /\ Pending(i)

\* log_write, install_trans: a buffer is pinned once from the first log_write
\* of its block until the block is installed, and never after; so no dirty
\* buffer is recycled and no buffer is lost to the cache.
PinsMatchLog ==
  ~panicked => \A b \in Blocks : refcnt[b] = IF Dirty(b) THEN 1 ELSE 0

\* end_op, recover_from_log: a process asleep in begin_op is eventually woken;
\* once crashes stop, recovery ends with an empty log and so does every commit.
Recovers ==
  /\ \A p \in Procs : pc[p] = "sleeping" ~> pc[p] # "sleeping"
  /\ <>[][~Crash]_vars => <>[]up /\ []<>~committing
============================================================================
