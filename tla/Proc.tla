-------------------------------- MODULE Proc --------------------------------
(***************************************************************************)
(* The process table of kernel/proc.c on several CPUs: fork, exit, wait,   *)
(* kill, yield, sleep and wakeup between a child and its waiting parent,   *)
(* and each CPU's scheduler.                                               *)
(*                                                                         *)
(* Spin locks are explicit where they are held across swtch or across      *)
(* several steps: p->lock, which the scheduler and the process hand to     *)
(* each other, and wait_lock.  As in spinlock.c a lock records the CPU     *)
(* that holds it.  A step is what a thread does between two acquires, so   *)
(* that a spinning thread is one whose step is not enabled.  A scan of the *)
(* table for an entry it acts on is one step at that entry: the scan has   *)
(* passed the others by.  Memory, files and the exit status are left out.  *)
(***************************************************************************)
EXTENDS Naturals, FiniteSets

CONSTANTS
  Slots,     \* entries of proc[]
  initproc,
  CPUs,
  None,      \* a null pointer; a lock nobody holds; an idle CPU
  MaxPid,    \* bound: the last pid allocpid gives out
  KillPids   \* the arguments processes pass to kill

ASSUME ProcAssumption ==
  /\ initproc \in Slots
  /\ None \notin Slots \cup CPUs
  /\ MaxPid \in Nat \ {0} /\ KillPids \subseteq Nat

VARIABLES
  state, chan, killed, pid, parent,   \* struct proc
  lock,      \* p->lock of each entry
  wait_lock,
  nextpid,
  cpu,       \* cpus[c].proc
  pc,        \* where each process is in proc.c
  insched,   \* in sched(), or forked and never scheduled yet
  np,        \* fork's local np
  targeted   \* the pids kill was called with

table == <<state, chan, killed, pid, parent>>
vars == <<state, chan, killed, pid, parent, lock, wait_lock, nextpid, cpu, pc,
          insched, np, targeted>>

States == {"UNUSED", "USED", "SLEEPING", "RUNNABLE", "RUNNING", "ZOMBIE"}
Labels == {"user", "fork_parent", "fork_run", "wait", "wait_scan", "wait_decided",
           "wait_sleep", "exit", "exit_wakeup", "exit_zombie", "dead"}

\* procinit and userinit
Init ==
  /\ state = [p \in Slots |-> IF p = initproc THEN "RUNNABLE" ELSE "UNUSED"]
  /\ chan = [p \in Slots |-> None]
  /\ killed = [p \in Slots |-> FALSE]
  /\ pid = [p \in Slots |-> IF p = initproc THEN 1 ELSE 0]
  /\ parent = [p \in Slots |-> None]
  /\ lock = [p \in Slots |-> None]
  /\ wait_lock = None
  /\ nextpid = 2
  /\ cpu = [c \in CPUs |-> None]
  /\ pc = [p \in Slots |-> "user"]
  /\ insched = [p \in Slots |-> TRUE]
  /\ np = [p \in Slots |-> None]
  /\ targeted = {}

Goto(p, l) == pc' = [pc EXCEPT ![p] = l]

\* Process p executes on CPU c.
On(c, p) == cpu[c] = p /\ ~insched[p]

----------------------------------------------------------------------------
(* scheduler, sched, yield and forkret: p->lock goes from the one to the    *)
(* other.                                                                   *)

\* scheduler finds a RUNNABLE entry and switches to it with p->lock held.
scheduler_run(c, p) ==
  /\ cpu[c] = None
  /\ lock[p] = None /\ state[p] = "RUNNABLE"
  /\ lock' = [lock EXCEPT ![p] = c]
  /\ state' = [state EXCEPT ![p] = "RUNNING"]
  /\ cpu' = [cpu EXCEPT ![c] = p]
  /\ UNCHANGED <<chan, killed, pid, parent, wait_lock, nextpid, pc, insched, np, targeted>>

\* swtch from sched() back to the scheduler, which releases p->lock.
scheduler_back(c, p) ==
  /\ cpu[c] = p /\ insched[p] /\ state[p] # "RUNNING"
  /\ cpu' = [cpu EXCEPT ![c] = None]
  /\ lock' = [lock EXCEPT ![p] = None]
  /\ UNCHANGED <<table, wait_lock, nextpid, pc, insched, np, targeted>>

\* The process leaves sched() in yield or sleep, or starts at forkret; it
\* releases the lock its scheduler took.  sleep() then reacquires wait_lock,
\* as wait does at its start.
sched_return(c, p) ==
  /\ cpu[c] = p /\ insched[p] /\ state[p] = "RUNNING"
  /\ lock' = [lock EXCEPT ![p] = None]
  /\ insched' = [insched EXCEPT ![p] = FALSE]
  /\ IF pc[p] = "wait_sleep"
     THEN chan' = [chan EXCEPT ![p] = None] /\ Goto(p, "wait")
     ELSE UNCHANGED <<chan, pc>>
  /\ UNCHANGED <<state, killed, pid, parent, wait_lock, nextpid, cpu, np, targeted>>

\* Mutant: p->lock is released before the switch to the scheduler.
yield_ReleasesEarly(c, p) ==
  /\ On(c, p) /\ wait_lock # c
  /\ lock[p] = None
  /\ state' = [state EXCEPT ![p] = "RUNNABLE"]
  /\ insched' = [insched EXCEPT ![p] = TRUE]
  /\ UNCHANGED <<chan, killed, pid, parent, lock, wait_lock, nextpid, cpu, pc, np, targeted>>

\* The timer interrupts a process in user space, or in the kernel where it
\* holds no spin lock.
yield(c, p) ==
  /\ On(c, p) /\ wait_lock # c
  /\ lock[p] = None
  /\ lock' = [lock EXCEPT ![p] = c]
  /\ state' = [state EXCEPT ![p] = "RUNNABLE"]
  /\ insched' = [insched EXCEPT ![p] = TRUE]
  /\ UNCHANGED <<chan, killed, pid, parent, wait_lock, nextpid, cpu, pc, np, targeted>>

----------------------------------------------------------------------------
(* fork                                                                     *)

\* allocproc takes an UNUSED entry and fork fills it, all under np->lock.
fork(c, p, q) ==
  /\ On(c, p) /\ pc[p] = "user" /\ ~killed[p]
  /\ lock[q] = None /\ state[q] = "UNUSED"
  /\ nextpid <= MaxPid
  /\ nextpid' = nextpid + 1
  /\ state' = [state EXCEPT ![q] = "USED"]
  /\ pid' = [pid EXCEPT ![q] = nextpid]
  /\ pc' = [pc EXCEPT ![p] = "fork_parent", ![q] = "user"]
  /\ insched' = [insched EXCEPT ![q] = TRUE]
  /\ np' = [np EXCEPT ![p] = q]
  /\ UNCHANGED <<chan, killed, parent, lock, wait_lock, cpu, targeted>>

\* freeproc(q)
Freed(q) ==
  /\ state' = [state EXCEPT ![q] = "UNUSED"]
  /\ pid' = [pid EXCEPT ![q] = 0]
  /\ parent' = [parent EXCEPT ![q] = None]
  /\ chan' = [chan EXCEPT ![q] = None]
  /\ killed' = [killed EXCEPT ![q] = FALSE]

\* Memory runs out in allocproc or uvmcopy: the entry is freed again, and a
\* pid is lost.
fork_fail(c, p, q) ==
  /\ On(c, p) /\ pc[p] = "user" /\ ~killed[p]
  /\ lock[q] = None /\ state[q] = "UNUSED"
  /\ nextpid <= MaxPid
  /\ nextpid' = nextpid + 1
  /\ Freed(q)
  /\ UNCHANGED <<lock, wait_lock, cpu, pc, insched, np, targeted>>

fork_parent(c, p) ==
  /\ On(c, p) /\ pc[p] = "fork_parent"
  /\ wait_lock = None
  /\ parent' = [parent EXCEPT ![np[p]] = p]
  /\ Goto(p, "fork_run")
  /\ UNCHANGED <<state, chan, killed, pid, lock, wait_lock, nextpid, cpu, insched, np, targeted>>

fork_run(c, p) ==
  /\ On(c, p) /\ pc[p] = "fork_run"
  /\ lock[np[p]] = None
  /\ state' = [state EXCEPT ![np[p]] = "RUNNABLE"]
  /\ np' = [np EXCEPT ![p] = None]
  /\ Goto(p, "user")
  /\ UNCHANGED <<chan, killed, pid, parent, lock, wait_lock, nextpid, cpu, insched, targeted>>

----------------------------------------------------------------------------
(* wakeup, kill                                                             *)

\* What wakeup(q) does to the table entries when process p calls it.  Only q
\* sleeps on the channel q, so the locks of the others make no difference.
\* wakeup skips the caller.
CanWake(p, q) == q # p => lock[q] = None
Wake(p, q, st) ==
  IF q # p /\ st[q] = "SLEEPING" /\ chan[q] = q
  THEN [st EXCEPT ![q] = "RUNNABLE"] ELSE st

\* kill(n) finds entry q.  An UNUSED entry has pid 0.
kill(c, p, n, q) ==
  /\ On(c, p) /\ pc[p] = "user" /\ ~killed[p]
  /\ lock[q] = None /\ pid[q] = n
  /\ killed' = [killed EXCEPT ![q] = TRUE]
  /\ state' = IF state[q] = "SLEEPING" THEN [state EXCEPT ![q] = "RUNNABLE"] ELSE state
  /\ targeted' = targeted \cup {n}
  /\ UNCHANGED <<chan, pid, parent, lock, wait_lock, nextpid, cpu, pc, insched, np>>

----------------------------------------------------------------------------
(* exit                                                                     *)

\* By its own will, or because usertrap found p->killed set.  What exit does
\* to files and memory before it takes wait_lock is not in this module.
exit(c, p) ==
  /\ On(c, p) /\ pc[p] = "user" /\ p # initproc
  /\ Goto(p, "exit")
  /\ UNCHANGED <<table, lock, wait_lock, nextpid, cpu, insched, np, targeted>>

\* Mutant: the children keep their dead parent.
exit_reparent_NoReparent(c, p) ==
  /\ On(c, p) /\ pc[p] = "exit"
  /\ wait_lock = None
  /\ wait_lock' = c
  /\ Goto(p, "exit_wakeup")
  /\ UNCHANGED <<table, lock, nextpid, cpu, insched, np, targeted>>

\* Mutant: reparent does not wake init.
exit_reparent_NoWakeup(c, p) ==
  /\ On(c, p) /\ pc[p] = "exit"
  /\ wait_lock = None
  /\ wait_lock' = c
  /\ parent' = [q \in Slots |-> IF parent[q] = p THEN initproc ELSE parent[q]]
  /\ Goto(p, "exit_wakeup")
  /\ UNCHANGED <<state, chan, killed, pid, lock, nextpid, cpu, insched, np, targeted>>

\* reparent, with its wakeup(initproc) for every child
exit_reparent(c, p) ==
  LET kids == {q \in Slots : parent[q] = p} IN
  /\ On(c, p) /\ pc[p] = "exit"
  /\ wait_lock = None
  /\ kids # {} => CanWake(p, initproc)
  /\ wait_lock' = c
  /\ parent' = [q \in Slots |-> IF q \in kids THEN initproc ELSE parent[q]]
  /\ state' = IF kids # {} THEN Wake(p, initproc, state) ELSE state
  /\ Goto(p, "exit_wakeup")
  /\ UNCHANGED <<chan, killed, pid, lock, nextpid, cpu, insched, np, targeted>>

exit_wakeup(c, p) ==
  /\ On(c, p) /\ pc[p] = "exit_wakeup"
  /\ CanWake(p, parent[p])
  /\ state' = Wake(p, parent[p], state)
  /\ Goto(p, "exit_zombie")
  /\ UNCHANGED <<chan, killed, pid, parent, lock, wait_lock, nextpid, cpu, insched, np, targeted>>

\* Mutant: wait_lock is still held in sched().
exit_zombie_KeepsWaitLock(c, p) ==
  /\ On(c, p) /\ pc[p] = "exit_zombie"
  /\ lock[p] = None
  /\ lock' = [lock EXCEPT ![p] = c]
  /\ state' = [state EXCEPT ![p] = "ZOMBIE"]
  /\ insched' = [insched EXCEPT ![p] = TRUE]
  /\ Goto(p, "dead")
  /\ UNCHANGED <<chan, killed, pid, parent, wait_lock, nextpid, cpu, np, targeted>>

exit_zombie(c, p) ==
  /\ On(c, p) /\ pc[p] = "exit_zombie"
  /\ lock[p] = None
  /\ lock' = [lock EXCEPT ![p] = c]
  /\ state' = [state EXCEPT ![p] = "ZOMBIE"]
  /\ wait_lock' = None
  /\ insched' = [insched EXCEPT ![p] = TRUE]
  /\ Goto(p, "dead")
  /\ UNCHANGED <<chan, killed, pid, parent, nextpid, cpu, np, targeted>>

----------------------------------------------------------------------------
(* wait                                                                     *)

wait(c, p) ==
  /\ On(c, p) /\ pc[p] = "user" /\ ~killed[p]
  /\ Goto(p, "wait")
  /\ UNCHANGED <<table, lock, wait_lock, nextpid, cpu, insched, np, targeted>>

wait_acquire(c, p) ==
  /\ On(c, p) /\ pc[p] = "wait"
  /\ wait_lock = None
  /\ wait_lock' = c
  /\ Goto(p, "wait_scan")
  /\ UNCHANGED <<table, lock, nextpid, cpu, insched, np, targeted>>

wait_reap(c, p, q) ==
  /\ On(c, p) /\ pc[p] = "wait_scan"
  /\ parent[q] = p
  /\ lock[q] = None /\ state[q] = "ZOMBIE"
  /\ Freed(q)
  /\ wait_lock' = None
  /\ Goto(p, "user")
  /\ UNCHANGED <<lock, nextpid, cpu, insched, np, targeted>>

\* copyout of the exit status fails: the zombie stays.  init passes a null
\* address, for which there is no copyout.
wait_fault(c, p, q) ==
  /\ On(c, p) /\ pc[p] = "wait_scan" /\ p # initproc
  /\ parent[q] = p
  /\ lock[q] = None /\ state[q] = "ZOMBIE"
  /\ wait_lock' = None
  /\ Goto(p, "user")
  /\ UNCHANGED <<table, lock, nextpid, cpu, insched, np, targeted>>

\* The end of the scan.  No child becomes a zombie while wait_lock is held, so
\* it does not matter when the scan looked at each.  p->killed is read here
\* without p->lock.
wait_check(c, p) ==
  LET kids == {q \in Slots : parent[q] = p} IN
  /\ On(c, p) /\ pc[p] = "wait_scan"
  /\ \A q \in kids : state[q] # "ZOMBIE"
  /\ IF kids = {} \/ killed[p]
     THEN wait_lock' = None /\ Goto(p, "user")
     ELSE UNCHANGED wait_lock /\ Goto(p, "wait_decided")
  /\ UNCHANGED <<table, lock, nextpid, cpu, insched, np, targeted>>

\* sleep(p, &wait_lock), up to sched()
wait_sleep(c, p) ==
  /\ On(c, p) /\ pc[p] = "wait_decided"
  /\ lock[p] = None
  /\ lock' = [lock EXCEPT ![p] = c]
  /\ wait_lock' = None
  /\ chan' = [chan EXCEPT ![p] = p]
  /\ state' = [state EXCEPT ![p] = "SLEEPING"]
  /\ insched' = [insched EXCEPT ![p] = TRUE]
  /\ Goto(p, "wait_sleep")
  /\ UNCHANGED <<killed, pid, parent, nextpid, cpu, np, targeted>>

----------------------------------------------------------------------------
Forking(c, p) == fork_parent(c, p) \/ fork_run(c, p)
Exiting(c, p) == exit_reparent(c, p) \/ exit_wakeup(c, p) \/ exit_zombie(c, p)
Waiting(c, p) ==
  \/ wait_acquire(c, p)
  \/ \E q \in Slots : wait_reap(c, p, q) \/ wait_fault(c, p, q)
  \/ wait_check(c, p)
  \/ wait_sleep(c, p)
Switching(c, p) == scheduler_back(c, p) \/ sched_return(c, p)

Next ==
  \E c \in CPUs, p \in Slots :
    \/ scheduler_run(c, p) \/ Switching(c, p) \/ yield(c, p)
    \/ \E q \in Slots : fork(c, p, q) \/ fork_fail(c, p, q)
    \/ Forking(c, p)
    \/ \E n \in KillPids, q \in Slots : kill(c, p, n, q)
    \/ exit(c, p) \/ Exiting(c, p)
    \/ wait(c, p) \/ Waiting(c, p)

Spec == Init /\ [][Next]_vars

----------------------------------------------------------------------------
(* Properties                                                               *)

TypeOK ==
  /\ state \in [Slots -> States]
  /\ chan \in [Slots -> Slots \cup {None}]
  /\ killed \in [Slots -> BOOLEAN]
  /\ pid \in [Slots -> 0 .. MaxPid]
  /\ parent \in [Slots -> Slots \cup {None}]
  /\ lock \in [Slots -> CPUs \cup {None}]
  /\ wait_lock \in CPUs \cup {None}
  /\ nextpid \in 2 .. (MaxPid + 1)
  /\ cpu \in [CPUs -> Slots \cup {None}]
  /\ pc \in [Slots -> Labels]
  /\ insched \in [Slots -> BOOLEAN]
  /\ np \in [Slots -> Slots \cup {None}]
  /\ targeted \subseteq KillPids

\* A process is on at most one CPU, and whoever holds p->lock sees RUNNING
\* exactly when the process is on one: nobody schedules, or frees, a process
\* whose kernel stack is in use (scheduler, sched, and wait's "make sure the
\* child isn't still in exit() or swtch()").
OneStack ==
  /\ TypeOK
  /\ \A c, d \in CPUs : cpu[c] = cpu[d] /\ cpu[c] # None => c = d
  /\ \A p \in Slots :
       lock[p] = None => (state[p] = "RUNNING" <=> \E c \in CPUs : cpu[c] = p)

\* In sched() the CPU holds p->lock and no other spin lock; the process that
\* comes out of swtch releases a lock its CPU holds: sched's panics "sched
\* p->lock" and "sched locks", and release's, are never reached.
SchedLocks ==
  \A c \in CPUs, p \in Slots :
    cpu[c] = p /\ insched[p] =>
      /\ lock[p] = c /\ wait_lock # c
      /\ \A q \in Slots : lock[q] = c => q = p

\* A parent asleep in wait has children and no zombie among them: the exit of
\* a child, or the children of an exiting process given to init, never slips
\* between the scan and the sleep.  And "Kill the process with the given pid":
\* a process is killed only if its own pid was given to kill, whatever
\* processes had the entry before it, or if kill was called with 0, which is the
\* pid of every free entry (proc.c:714): it marks one, and allocproc leaves the
\* mark to the next process there.
WaiterMustWait ==
  \A p \in Slots :
    /\ state[p] = "SLEEPING" /\ wait_lock = None =>
         LET kids == {q \in Slots : parent[q] = p}
         IN kids # {} /\ \A q \in kids : state[q] # "ZOMBIE"
    /\ state[p] # "UNUSED" /\ killed[p] => pid[p] \in targeted \/ 0 \in targeted

\* fork, exit and wait as one step each: fork where the parent is recorded,
\* exit where the children are given away.
status ==
  [p \in Slots |->
    CASE state[p] = "UNUSED" \/ (state[p] = "USED" /\ parent[p] = None) -> "free"
      [] state[p] = "ZOMBIE" \/ pc[p] \in {"exit_wakeup", "exit_zombie"} -> "dead"
      [] OTHER -> "alive"]
Tree == INSTANCE Family
\* The process table implements the family tree: every live process but init
\* has a live parent, an exiting one leaves no child behind, and only the
\* parent takes a dead child away.
FamilyKept == Tree!Spec

=============================================================================
