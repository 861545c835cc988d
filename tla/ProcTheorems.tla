----------------------------- MODULE ProcTheorems ---------------------------
(***************************************************************************)
(* The inductive invariant of Proc, and its properties for any number of   *)
(* table entries and CPUs and every bound on pids.  The properties speak of*)
(* what a CPU, a waiting parent or the family tree can see; that they stay *)
(* true rests on who holds which lock where, and on what is known meanwhile*)
(* of fork's new entry and of wait_lock's holder.                          *)
(***************************************************************************)
EXTENDS Proc, TLAPS

\* p->lock is held across a step only around swtch, by the CPU that p is on.
LockInv ==
  /\ \A c, d \in CPUs : cpu[c] = cpu[d] /\ cpu[c] # None => c = d
  /\ \A c \in CPUs, p \in Slots : cpu[c] = p /\ insched[p] => lock[p] = c
  /\ \A p \in Slots : lock[p] # None => cpu[lock[p]] = p /\ insched[p]

\* A RUNNING process is on a CPU, and one that is not in sched() is RUNNING.
RunInv ==
  \A p \in Slots :
    /\ state[p] = "RUNNING" => \E c \in CPUs : cpu[c] = p
    /\ ~insched[p] => state[p] = "RUNNING"

\* wait_lock is held by the CPU of the process that took it, and by no other.
Holding == {"wait_scan", "wait_decided", "exit_wakeup", "exit_zombie"}
HoldInv ==
  /\ \A p \in Slots : pc[p] \in Holding => wait_lock \in CPUs /\ On(wait_lock, p)
  /\ wait_lock # None => \E p \in Slots : On(wait_lock, p)

\* What fork is making stays USED and has one maker; it has a parent when, and
\* only when, fork has set it.
Making(p) == pc[p] \in {"fork_parent", "fork_run"}
ForkInv ==
  /\ \A p \in Slots : Making(p) =>
       /\ np[p] \in Slots /\ state[np[p]] = "USED"
       /\ pc[p] = "fork_parent" <=> parent[np[p]] = None
  /\ \A p, q \in Slots : Making(p) /\ Making(q) /\ np[p] = np[q] => p = q

\* A free entry has no parent, and init does not exit.
TreeInv ==
  /\ \A p \in Slots : state[p] = "UNUSED" => parent[p] = None
  /\ pc[initproc] \notin {"exit", "exit_wakeup", "exit_zombie"}

\* Who sleeps in wait, or is about to, has children, and none that is a zombie
\* or has already given its wakeup.
Waits(p) ==
  /\ \E q \in Slots : parent[q] = p
  /\ \A q \in Slots : parent[q] = p => state[q] # "ZOMBIE" /\ pc[q] # "exit_zombie"
SleepInv ==
  \A p \in Slots :
    /\ state[p] = "SLEEPING" => chan[p] = p /\ Waits(p)
    /\ pc[p] = "wait_decided" => Waits(p)

ProcIInv == TypeOK /\ LockInv /\ RunInv /\ HoldInv /\ ForkInv /\ TreeInv /\ SleepInv

----------------------------------------------------------------------------
\* After procinit and userinit only init is there, RUNNABLE, and every lock is free.
LEMMA InitInv == Init => ProcIInv
  BY ProcAssumption DEF ProcAssumption, Init, ProcIInv, TypeOK, States, Labels,
     LockInv, RunInv, HoldInv, Holding, On, ForkInv, Making, TreeInv, SleepInv,
     Waits

\* The scheduler takes the lock of a RUNNABLE entry and keeps it over swtch.
LEMMA Step_scheduler_run ==
  ASSUME ProcIInv, NEW c \in CPUs, NEW p \in Slots,
         scheduler_run(c, p)
  PROVE  ProcIInv'
<1>1. TypeOK'
  BY DEF ProcIInv, TypeOK, States, scheduler_run
<1>2. LockInv'
  BY ProcAssumption DEF ProcAssumption, ProcIInv, TypeOK, LockInv, RunInv,
     scheduler_run
<1>3. RunInv'
  BY ProcAssumption DEF ProcAssumption, ProcIInv, TypeOK, RunInv, scheduler_run
<1>4. HoldInv'
  BY ProcAssumption DEF ProcAssumption, ProcIInv, TypeOK, HoldInv, scheduler_run, On
<1>5. ForkInv'
  BY DEF ProcIInv, TypeOK, ForkInv, Making, scheduler_run
<1>6. TreeInv'
  BY DEF ProcIInv, TypeOK, TreeInv, scheduler_run
<1>7. SleepInv'
  BY DEF ProcIInv, TypeOK, SleepInv, Waits, scheduler_run
<1> QED BY <1>1, <1>2, <1>3, <1>4, <1>5, <1>6, <1>7 DEF ProcIInv

\* The scheduler releases the lock that sched() was entered with.
LEMMA Step_scheduler_back ==
  ASSUME ProcIInv, NEW c \in CPUs, NEW p \in Slots,
         scheduler_back(c, p)
  PROVE  ProcIInv'
<1>1. TypeOK'
  BY DEF ProcIInv, TypeOK, scheduler_back, table
<1>2. LockInv'
  BY ProcAssumption DEF ProcAssumption, ProcIInv, TypeOK, LockInv, scheduler_back
<1>3. RunInv'
  BY DEF ProcIInv, TypeOK, RunInv, scheduler_back, table
<1>4. HoldInv'
  BY DEF ProcIInv, TypeOK, HoldInv, scheduler_back, On
<1>5. ForkInv' /\ TreeInv' /\ SleepInv'
  BY DEF ProcIInv, ForkInv, TreeInv, SleepInv, Making, Waits, scheduler_back, table
<1> QED BY <1>1, <1>2, <1>3, <1>4, <1>5 DEF ProcIInv

\* A process leaves sched(): it releases the lock its scheduler took.
LEMMA Step_sched_return ==
  ASSUME ProcIInv, NEW c \in CPUs, NEW p \in Slots,
         sched_return(c, p)
  PROVE  ProcIInv'
<1>1. TypeOK'
  BY DEF ProcIInv, TypeOK, Labels, sched_return, Goto
<1>2. LockInv'
  BY DEF ProcIInv, TypeOK, LockInv, sched_return, table
<1>3. RunInv'
  BY DEF ProcIInv, TypeOK, RunInv, Making, sched_return, Goto
<1>4. HoldInv'
  BY DEF ProcIInv, TypeOK, HoldInv, Holding, sched_return, Goto, On
<1>5. ForkInv'
  BY DEF ProcIInv, TypeOK, ForkInv, Making, sched_return, Goto
<1>6. TreeInv'
  BY ProcAssumption DEF ProcAssumption, ProcIInv, TypeOK, TreeInv, sched_return,
     Goto
<1>7. SleepInv'
  BY DEF ProcIInv, TypeOK, SleepInv, Waits, sched_return, Goto
<1> QED BY <1>1, <1>2, <1>3, <1>4, <1>5, <1>6, <1>7 DEF ProcIInv

\* A timer interrupt: the process holds no spin lock, so wait_lock is not its.
LEMMA Step_yield ==
  ASSUME ProcIInv, NEW c \in CPUs, NEW p \in Slots,
         yield(c, p)
  PROVE  ProcIInv'
<1>1. TypeOK'
  BY DEF ProcIInv, TypeOK, States, yield
<1>2. LockInv'
  BY ProcAssumption DEF ProcAssumption, ProcIInv, TypeOK, LockInv, yield, On
<1>3. RunInv'
  BY DEF ProcIInv, TypeOK, RunInv, yield
<1>4. HoldInv'
  BY ProcAssumption DEF ProcAssumption, ProcIInv, TypeOK, LockInv, HoldInv, yield,
     On
<1>5. ForkInv'
  BY DEF ProcIInv, TypeOK, RunInv, ForkInv, Making, yield, On
<1>6. TreeInv'
  BY DEF ProcIInv, TypeOK, TreeInv, yield
<1>7. SleepInv'
  BY DEF ProcIInv, TypeOK, SleepInv, Waits, yield
<1> QED BY <1>1, <1>2, <1>3, <1>4, <1>5, <1>6, <1>7 DEF ProcIInv

\* allocproc takes an UNUSED entry: it has no parent, and no other fork has it.
LEMMA Step_fork ==
  ASSUME ProcIInv, NEW c \in CPUs, NEW p \in Slots, NEW q \in Slots,
         fork(c, p, q)
  PROVE  ProcIInv'
<1>1. TypeOK'
  BY ProcAssumption DEF ProcAssumption, ProcIInv, TypeOK, States, Labels, fork
<1>2. LockInv'
  BY DEF ProcIInv, TypeOK, LockInv, RunInv, fork
<1>3. RunInv'
  BY DEF ProcIInv, TypeOK, RunInv, fork
<1>4. HoldInv'
  BY DEF ProcIInv, TypeOK, RunInv, HoldInv, Holding, fork, On
<1>5. ForkInv'
  BY DEF ProcIInv, TypeOK, ForkInv, TreeInv, Making, fork
<1>6. TreeInv'
  BY ProcAssumption DEF ProcAssumption, ProcIInv, TypeOK, TreeInv, fork
<1>7. SleepInv'
  BY DEF ProcIInv, TypeOK, SleepInv, Waits, fork
<1> QED BY <1>1, <1>2, <1>3, <1>4, <1>5, <1>6, <1>7 DEF ProcIInv

\* fork fails for want of memory: the UNUSED entry is UNUSED again.
LEMMA Step_fork_fail ==
  ASSUME ProcIInv, NEW c \in CPUs, NEW p \in Slots, NEW q \in Slots,
         fork_fail(c, p, q)
  PROVE  ProcIInv'
<1>1. TypeOK'
  BY ProcAssumption DEF ProcAssumption, ProcIInv, TypeOK, fork_fail, Freed
<1>2. RunInv'
  BY DEF ProcIInv, TypeOK, RunInv, fork_fail, Freed
<1>3. ForkInv'
  BY DEF ProcIInv, TypeOK, ForkInv, Making, fork_fail, Freed
<1>4. TreeInv'
  BY DEF ProcIInv, TypeOK, TreeInv, fork_fail, Freed
<1>5. SleepInv'
  BY DEF ProcIInv, TypeOK, TreeInv, SleepInv, Waits, fork_fail, Freed
<1>6. LockInv' /\ HoldInv'
  BY DEF ProcIInv, LockInv, HoldInv, On, fork_fail
<1> QED BY <1>1, <1>2, <1>3, <1>4, <1>5, <1>6 DEF ProcIInv

\* fork records the parent: the child is USED, so no waiting parent gets a zombie.
LEMMA Step_fork_parent ==
  ASSUME ProcIInv, NEW c \in CPUs, NEW p \in Slots,
         fork_parent(c, p)
  PROVE  ProcIInv'
<1>1. TypeOK'
  BY DEF ProcIInv, TypeOK, ForkInv, Making, Labels, fork_parent, Goto
<1>2. HoldInv'
  BY ProcAssumption DEF ProcAssumption, ProcIInv, TypeOK, HoldInv, Holding,
     fork_parent, Goto
<1>3. ForkInv'
  BY ProcAssumption DEF ProcAssumption, ProcIInv, TypeOK, ForkInv, Making,
     fork_parent, Goto
<1>4. TreeInv'
  BY DEF ProcIInv, TypeOK, ForkInv, TreeInv, Making, fork_parent, Goto
<1>5. SleepInv'
  BY ProcAssumption DEF ProcAssumption, ProcIInv, TypeOK, RunInv, ForkInv, SleepInv,
     Waits, Making, fork_parent, Goto, On
<1>6. LockInv' /\ RunInv'
  BY DEF ProcIInv, LockInv, RunInv, fork_parent
<1> QED BY <1>1, <1>2, <1>3, <1>4, <1>5, <1>6 DEF ProcIInv

\* fork makes its entry RUNNABLE: it is on no CPU, for it was USED.
LEMMA Step_fork_run ==
  ASSUME ProcIInv, NEW c \in CPUs, NEW p \in Slots,
         fork_run(c, p)
  PROVE  ProcIInv'
<1>1. TypeOK'
  BY DEF ProcIInv, TypeOK, ForkInv, Making, States, Labels, fork_run, Goto
<1>2. RunInv'
  BY DEF ProcIInv, TypeOK, RunInv, ForkInv, Making, fork_run
<1>3. HoldInv'
  BY DEF ProcIInv, TypeOK, HoldInv, Holding, fork_run, Goto, On
<1>4. ForkInv'
  BY DEF ProcIInv, TypeOK, ForkInv, Making, fork_run, Goto
<1>5. TreeInv'
  BY DEF ProcIInv, TypeOK, ForkInv, TreeInv, fork_run, Goto, table
<1>6. SleepInv'
  BY DEF ProcIInv, TypeOK, LockInv, SleepInv, Waits, fork_run, Goto
<1>7. LockInv'
  BY SMTT(60) DEF ProcIInv, LockInv, fork_run
<1> QED BY <1>1, <1>2, <1>3, <1>4, <1>5, <1>6, <1>7 DEF ProcIInv

\* kill takes a process out of its sleep.
LEMMA Step_kill ==
  ASSUME ProcIInv, NEW c \in CPUs, NEW p \in Slots, NEW n \in KillPids, NEW q \in Slots,
         kill(c, p, n, q)
  PROVE  ProcIInv'
<1>1. TypeOK'
  BY DEF ProcIInv, TypeOK, States, kill, On
<1>2. RunInv'
  BY DEF ProcIInv, TypeOK, RunInv, kill
<1>3. ForkInv'
  BY DEF ProcIInv, TypeOK, ForkInv, Making, kill
<1>4. TreeInv'
  BY DEF ProcIInv, TypeOK, TreeInv, kill
<1>5. SleepInv'
  BY DEF ProcIInv, TypeOK, SleepInv, Waits, kill
<1>6. LockInv' /\ HoldInv'
  BY SMTT(60) DEF ProcIInv, LockInv, HoldInv, On, kill
<1> QED BY <1>1, <1>2, <1>3, <1>4, <1>5, <1>6 DEF ProcIInv

\* A process other than init starts to exit.
LEMMA Step_exit ==
  ASSUME ProcIInv, NEW c \in CPUs, NEW p \in Slots,
         exit(c, p)
  PROVE  ProcIInv'
<1>1. TypeOK'
  BY DEF ProcIInv, TypeOK, Labels, exit, Goto, table
<1>2. HoldInv'
  BY DEF ProcIInv, TypeOK, HoldInv, Holding, exit, Goto, On
<1>3. ForkInv'
  BY DEF ProcIInv, TypeOK, ForkInv, Making, exit, Goto, table
<1>4. TreeInv'
  BY DEF ProcIInv, TypeOK, TreeInv, exit, Goto, table
<1>5. SleepInv'
  BY DEF ProcIInv, TypeOK, SleepInv, Waits, exit, Goto, table
<1>6. LockInv' /\ RunInv'
  BY DEF ProcIInv, LockInv, RunInv, exit, table
<1> QED BY <1>1, <1>2, <1>3, <1>4, <1>5, <1>6 DEF ProcIInv

\* exit takes wait_lock and gives the children to init, which is woken if it sleeps.
LEMMA Step_exit_reparent ==
  ASSUME ProcIInv, NEW c \in CPUs, NEW p \in Slots,
         exit_reparent(c, p)
  PROVE  ProcIInv'
<1>1. TypeOK'
  BY ProcAssumption DEF ProcAssumption, ProcIInv, TypeOK, States, Labels,
     exit_reparent, Goto, Wake
<1>2. RunInv'
  BY DEF ProcIInv, TypeOK, RunInv, exit_reparent, Wake
<1>3. HoldInv'
  BY ProcAssumption DEF ProcAssumption, ProcIInv, TypeOK, HoldInv, exit_reparent,
     Goto, On
<1>4. ForkInv'
  BY ProcAssumption DEF ProcAssumption, ProcIInv, TypeOK, ForkInv, Making,
     exit_reparent, Goto, Wake
<1>5. TreeInv'
  BY ProcAssumption DEF ProcAssumption, ProcIInv, TypeOK, TreeInv, exit_reparent,
     Goto, Wake
<1>6. SleepInv'
  BY ProcAssumption DEF ProcAssumption, ProcIInv, TypeOK, LockInv, RunInv, HoldInv,
     ForkInv, TreeInv, SleepInv, Waits, Holding, Making, exit_reparent, Goto, Wake,
     On, table
<1>7. LockInv'
  BY SMTT(60) DEF ProcIInv, LockInv, exit_reparent
<1> QED BY <1>1, <1>2, <1>3, <1>4, <1>5, <1>6, <1>7 DEF ProcIInv

\* exit wakes the parent while it holds wait_lock: the parent is not asleep after.
LEMMA Step_exit_wakeup ==
  ASSUME ProcIInv, NEW c \in CPUs, NEW p \in Slots,
         exit_wakeup(c, p)
  PROVE  ProcIInv'
<1>1. TypeOK'
  <2>1. state' \in [Slots -> States]
    BY Zenon DEF ProcIInv, TypeOK, States, exit_wakeup, Wake
  <2> QED
    BY <2>1 DEF ProcIInv, TypeOK, Labels, exit_wakeup, Goto
<1>2. RunInv'
  BY DEF ProcIInv, TypeOK, LockInv, RunInv, exit_wakeup, Goto, Wake, On
<1>3. HoldInv'
  BY DEF ProcIInv, TypeOK, RunInv, HoldInv, Holding, exit_wakeup, Goto, On
<1>4. ForkInv'
  BY DEF ProcIInv, TypeOK, ForkInv, Making, exit_wakeup, Goto, Wake
<1>5. TreeInv'
  BY DEF ProcIInv, TypeOK, TreeInv, exit_wakeup, Goto, Wake
<1>6. SleepInv'
  BY DEF ProcIInv, TypeOK, RunInv, HoldInv, SleepInv, Waits, Holding, exit_wakeup,
     Goto, Wake, On
<1>7. LockInv'
  BY SMTT(60) DEF ProcIInv, LockInv, exit_wakeup
<1> QED BY <1>1, <1>2, <1>3, <1>4, <1>5, <1>6, <1>7 DEF ProcIInv

\* exit makes the process a zombie: its parent was woken and could not sleep again.
LEMMA Step_exit_zombie ==
  ASSUME ProcIInv, NEW c \in CPUs, NEW p \in Slots,
         exit_zombie(c, p)
  PROVE  ProcIInv'
<1>1. TypeOK'
  BY DEF ProcIInv, TypeOK, States, Labels, exit_zombie, Goto
<1>2. LockInv'
  BY ProcAssumption DEF ProcAssumption, ProcIInv, TypeOK, LockInv, exit_zombie, On
<1>3. RunInv'
  BY DEF ProcIInv, TypeOK, RunInv, exit_zombie
<1>4. HoldInv'
  BY DEF ProcIInv, TypeOK, HoldInv, Holding, exit_zombie, Goto, On
<1>5. ForkInv'
  BY DEF ProcIInv, TypeOK, RunInv, ForkInv, Making, exit_zombie, Goto, On
<1>6. TreeInv'
  BY DEF ProcIInv, TypeOK, TreeInv, exit_zombie, Goto
<1>7. SleepInv'
  BY DEF ProcIInv, TypeOK, SleepInv, Waits, exit_zombie, Goto
<1> QED BY <1>1, <1>2, <1>3, <1>4, <1>5, <1>6, <1>7 DEF ProcIInv

\* A process calls wait.
LEMMA Step_wait ==
  ASSUME ProcIInv, NEW c \in CPUs, NEW p \in Slots,
         wait(c, p)
  PROVE  ProcIInv'
<1>1. TypeOK'
  BY DEF ProcIInv, TypeOK, Labels, wait, Goto, table
<1>2. HoldInv'
  BY ProcAssumption DEF ProcAssumption, ProcIInv, TypeOK, HoldInv, Holding, wait,
     Goto, On
<1>3. ForkInv'
  BY DEF ProcIInv, TypeOK, ForkInv, Making, wait, Goto, On, table
<1>4. TreeInv'
  BY DEF ProcIInv, TypeOK, TreeInv, wait, Goto, On, table
<1>5. SleepInv'
  BY DEF ProcIInv, TypeOK, SleepInv, Waits, wait, Goto, On, table
<1>6. LockInv' /\ RunInv'
  BY Zenon DEF ProcIInv, LockInv, RunInv, wait, table
<1> QED BY <1>1, <1>2, <1>3, <1>4, <1>5, <1>6 DEF ProcIInv

\* wait takes wait_lock.
LEMMA Step_wait_acquire ==
  ASSUME ProcIInv, NEW c \in CPUs, NEW p \in Slots,
         wait_acquire(c, p)
  PROVE  ProcIInv'
<1>1. TypeOK'
  BY DEF ProcIInv, TypeOK, Labels, wait_acquire, Goto, On, table
<1>2. HoldInv'
  BY ProcAssumption DEF ProcAssumption, ProcIInv, TypeOK, HoldInv, wait_acquire,
     Goto, On
<1>3. ForkInv'
  BY DEF ProcIInv, TypeOK, ForkInv, Making, wait_acquire, Goto, On, table
<1>4. TreeInv'
  BY DEF ProcIInv, TypeOK, TreeInv, wait_acquire, Goto, table
<1>5. SleepInv'
  BY DEF ProcIInv, TypeOK, SleepInv, Waits, wait_acquire, Goto, On, table
<1>6. LockInv' /\ RunInv'
  BY SMTT(60) DEF ProcIInv, LockInv, RunInv, wait_acquire, table
<1> QED BY <1>1, <1>2, <1>3, <1>4, <1>5, <1>6 DEF ProcIInv

\* wait frees a zombie: nobody waits for one, and no fork is making it.
LEMMA Step_wait_reap ==
  ASSUME ProcIInv, NEW c \in CPUs, NEW p \in Slots, NEW q \in Slots,
         wait_reap(c, p, q)
  PROVE  ProcIInv'
<1>1. TypeOK'
  BY ProcAssumption DEF ProcAssumption, ProcIInv, TypeOK, States, Labels, wait_reap,
     Goto, Freed, On
<1>2. RunInv'
  BY DEF ProcIInv, TypeOK, RunInv, wait_reap, Goto, Freed
<1>3. HoldInv'
  BY DEF ProcIInv, TypeOK, HoldInv, Holding, wait_reap, Goto, On
<1>4. ForkInv'
  BY ProcAssumption DEF ProcAssumption, ProcIInv, TypeOK, ForkInv, Making,
     wait_reap, Goto, Freed, On
<1>5. TreeInv'
  BY DEF ProcIInv, TypeOK, TreeInv, wait_reap, Goto, Freed
<1>6. SleepInv'
  BY ProcAssumption DEF ProcAssumption, ProcIInv, TypeOK, SleepInv, Waits,
     wait_reap, Goto, Freed, On
<1>7. LockInv'
  BY SMTT(60) DEF ProcIInv, LockInv, wait_reap
<1> QED BY <1>1, <1>2, <1>3, <1>4, <1>5, <1>6, <1>7 DEF ProcIInv

\* wait fails to copy the status out and leaves the zombie.
LEMMA Step_wait_fault ==
  ASSUME ProcIInv, NEW c \in CPUs, NEW p \in Slots, NEW q \in Slots,
         wait_fault(c, p, q)
  PROVE  ProcIInv'
<1>1. TypeOK'
  BY DEF ProcIInv, TypeOK, Labels, wait_fault, Goto, table
<1>2. HoldInv'
  BY DEF ProcIInv, TypeOK, HoldInv, Holding, wait_fault, Goto, On
<1>3. ForkInv'
  BY DEF ProcIInv, TypeOK, ForkInv, Making, wait_fault, Goto, table
<1>4. TreeInv'
  BY DEF ProcIInv, TypeOK, TreeInv, wait_fault, Goto, table
<1>5. SleepInv'
  BY ProcAssumption DEF ProcAssumption, ProcIInv, TypeOK, SleepInv, Waits,
     wait_fault, Goto, table
<1>6. LockInv' /\ RunInv'
  BY SMTT(60) DEF ProcIInv, LockInv, RunInv, wait_fault, table
<1> QED BY <1>1, <1>2, <1>3, <1>4, <1>5, <1>6 DEF ProcIInv

\* wait has found children and no zombie; none gave its wakeup, under wait_lock.
LEMMA Step_wait_check ==
  ASSUME ProcIInv, NEW c \in CPUs, NEW p \in Slots,
         wait_check(c, p)
  PROVE  ProcIInv'
<1>1. TypeOK'
  BY Zenon, ProcAssumption DEF ProcAssumption, ProcIInv, TypeOK, Labels, wait_check, Goto,
     table
<1>2. HoldInv'
  BY DEF ProcIInv, TypeOK, HoldInv, Holding, wait_check, Goto, On
<1>3. ForkInv'
  BY ProcAssumption DEF ProcAssumption, ProcIInv, TypeOK, ForkInv, Making,
     wait_check, Goto, On, table
<1>4. TreeInv'
  BY Zenon, ProcAssumption DEF ProcAssumption, ProcIInv, TypeOK, TreeInv, wait_check, Goto,
     table
<1>5. SleepInv'
  BY ProcAssumption DEF ProcAssumption, ProcIInv, TypeOK, HoldInv, SleepInv, Waits,
     Holding, wait_check, Goto, On, table
<1>6. LockInv' /\ RunInv'
  BY Zenon DEF ProcIInv, LockInv, RunInv, wait_check, table
<1> QED BY <1>1, <1>2, <1>3, <1>4, <1>5, <1>6 DEF ProcIInv

\* wait goes to sleep: what it found is still so, for it held wait_lock till now.
LEMMA Step_wait_sleep ==
  ASSUME ProcIInv, NEW c \in CPUs, NEW p \in Slots,
         wait_sleep(c, p)
  PROVE  ProcIInv'
<1>1. TypeOK'
  BY ProcAssumption DEF ProcAssumption, ProcIInv, TypeOK, States, Labels,
     wait_sleep, Goto, On
<1>2. LockInv'
  BY ProcAssumption DEF ProcAssumption, ProcIInv, TypeOK, LockInv, wait_sleep, Goto,
     On
<1>3. RunInv'
  BY DEF ProcIInv, TypeOK, RunInv, wait_sleep, Goto, On
<1>4. HoldInv'
  BY ProcAssumption DEF ProcAssumption, ProcIInv, TypeOK, HoldInv, Holding,
     wait_sleep, Goto, On
<1>5. ForkInv'
  BY ProcAssumption DEF ProcAssumption, ProcIInv, TypeOK, RunInv, ForkInv, Making,
     wait_sleep, Goto, On
<1>6. TreeInv'
  BY ProcAssumption DEF ProcAssumption, ProcIInv, TypeOK, TreeInv, wait_sleep, Goto,
     On
<1>7. SleepInv'
  BY ProcAssumption DEF ProcAssumption, ProcIInv, TypeOK, SleepInv, Waits,
     wait_sleep, Goto, On
<1> QED BY <1>1, <1>2, <1>3, <1>4, <1>5, <1>6, <1>7 DEF ProcIInv

-----------------------------------------------------------------------------
\* Every step of the process table and of the schedulers keeps the invariant.
LEMMA NextInv ==
  ASSUME ProcIInv, [Next]_vars
  PROVE  ProcIInv'
<1>1. CASE UNCHANGED vars
  <2>1. TypeOK' /\ LockInv' /\ RunInv'
    BY Zenon, <1>1 DEF vars, ProcIInv, TypeOK, LockInv, RunInv
  <2>2. HoldInv' /\ ForkInv'
    BY Zenon, <1>1 DEF vars, ProcIInv, HoldInv, Holding, On, ForkInv, Making
  <2>3. TreeInv' /\ SleepInv'
    BY Zenon, <1>1 DEF vars, ProcIInv, TreeInv, SleepInv, Waits
  <2> QED
    BY <2>1, <2>2, <2>3 DEF ProcIInv
<1>2. ASSUME NEW c \in CPUs, NEW p \in Slots,
             scheduler_run(c, p) \/ Switching(c, p) \/ yield(c, p)
      PROVE  ProcIInv'
  BY <1>2, Step_scheduler_run, Step_scheduler_back, Step_sched_return, Step_yield DEF Switching
<1>3. ASSUME NEW c \in CPUs, NEW p \in Slots,
             (\E q \in Slots : fork(c, p, q) \/ fork_fail(c, p, q)) \/ Forking(c, p)
      PROVE  ProcIInv'
  BY <1>3, Step_fork, Step_fork_fail, Step_fork_parent, Step_fork_run DEF Forking
<1>4. ASSUME NEW c \in CPUs, NEW p \in Slots, NEW n \in KillPids, NEW q \in Slots,
             kill(c, p, n, q)
      PROVE  ProcIInv'
  BY <1>4, Step_kill
<1>5. ASSUME NEW c \in CPUs, NEW p \in Slots, exit(c, p) \/ Exiting(c, p)
      PROVE  ProcIInv'
  BY <1>5, Step_exit, Step_exit_reparent, Step_exit_wakeup, Step_exit_zombie DEF Exiting
<1>6. ASSUME NEW c \in CPUs, NEW p \in Slots, wait(c, p) \/ Waiting(c, p)
      PROVE  ProcIInv'
  BY <1>6, Step_wait, Step_wait_acquire, Step_wait_reap, Step_wait_fault, Step_wait_check,
     Step_wait_sleep DEF Waiting
<1> QED BY <1>1, <1>2, <1>3, <1>4, <1>5, <1>6 DEF Next

\* ProcIInv holds in every reachable state, for any table, CPUs and arguments of kill.
THEOREM ProcInvariant == Spec => []ProcIInv
<1> QED BY InitInv, NextInv, PTL DEF Spec

----------------------------------------------------------------------------

\* A process is on one CPU at most, and RUNNING tells whoever holds p->lock
\* that it is (scheduler, sched).
THEOREM StacksExclusive == Spec => []OneStack
<1>1. ProcIInv => OneStack
  <2> SUFFICES ASSUME ProcIInv PROVE OneStack
    OBVIOUS
  <2>1. ASSUME NEW p \in Slots, NEW c \in CPUs, lock[p] = None, cpu[c] = p
        PROVE  state[p] = "RUNNING"
    BY <2>1, ProcAssumption DEF ProcAssumption, ProcIInv, TypeOK, LockInv, RunInv
  <2> QED
    BY <2>1 DEF ProcIInv, LockInv, RunInv, OneStack
<1> QED
  BY <1>1, ProcInvariant, PTL

\* sched() is entered and left with p->lock held and no other spin lock.
THEOREM SchedLocksHeld == Spec => []SchedLocks
<1>1. ProcIInv => SchedLocks
  <2> SUFFICES ASSUME ProcIInv, NEW c \in CPUs, NEW p \in Slots,
                      cpu[c] = p, insched[p]
               PROVE  lock[p] = c /\ wait_lock # c /\ \A q \in Slots : lock[q] = c => q = p
    BY DEF SchedLocks
  <2>1. lock[p] = c
    BY DEF ProcIInv, LockInv
  <2>2. wait_lock # c
    BY ProcAssumption DEF ProcAssumption, ProcIInv, HoldInv, On
  <2>3. \A q \in Slots : lock[q] = c => q = p
    BY ProcAssumption DEF ProcAssumption, ProcIInv, LockInv
  <2> QED
    BY Zenon, <2>1, <2>2, <2>3
<1> QED
  BY <1>1, ProcInvariant, PTL

----------------------------------------------------------------------------
(* wait and kill                                                            *)

\* A free entry has pid 0, so that kill(0) finds it; a marked entry has a pid
\* that was given to kill, or took the mark over from when it was free.
KilledInv ==
  \A p \in Slots :
    /\ state[p] = "UNUSED" => pid[p] = 0
    /\ killed[p] => pid[p] \in targeted \/ 0 \in targeted

\* Only fork, freeproc and kill write pid or killed, or make an entry UNUSED.
\* kill(0) finds a free entry, which fork hands on with the mark.
LEMMA KilledStep ==
  ASSUME ProcIInv, KilledInv, [Next]_vars
  PROVE  KilledInv'
<1> USE DEF KilledInv
<1>1. ASSUME NEW c \in CPUs, NEW p \in Slots, NEW q \in Slots, fork(c, p, q)
      PROVE  KilledInv'
  BY Zenon, <1>1 DEF ProcIInv, TypeOK, fork
<1>2. ASSUME NEW c \in CPUs, NEW p \in Slots, NEW q \in Slots,
             fork_fail(c, p, q) \/ wait_reap(c, p, q)
      PROVE  KilledInv'
  BY Zenon, <1>2 DEF ProcIInv, TypeOK, fork_fail, wait_reap, Freed
<1>3. ASSUME NEW c \in CPUs, NEW p \in Slots, NEW n \in KillPids, NEW q \in Slots,
             kill(c, p, n, q)
      PROVE  KilledInv'
  BY Zenon, <1>3 DEF ProcIInv, TypeOK, kill
<1>4. ASSUME UNCHANGED <<pid, killed, targeted>>,
             \A p \in Slots : state'[p] = "UNUSED" => state[p] = "UNUSED"
      PROVE  KilledInv'
  BY <1>4
<1>5. ASSUME NEW c \in CPUs, NEW p \in Slots,
             \/ scheduler_run(c, p) \/ Switching(c, p) \/ yield(c, p) \/ exit(c, p)
             \/ Exiting(c, p) \/ wait(c, p)
      PROVE  KilledInv'
  <2>1. CASE scheduler_run(c, p) \/ Switching(c, p) \/ yield(c, p)
    BY Zenon, <1>4, <2>1 DEF ProcIInv, TypeOK, scheduler_run, Switching, scheduler_back,
       sched_return, yield, table
  <2>2. CASE exit(c, p) \/ wait(c, p)
    BY Zenon, <1>4, <2>2 DEF exit, wait, table
  <2>3. CASE Exiting(c, p)
    BY <1>4, <2>3 DEF ProcIInv, TypeOK, Exiting, exit_reparent, exit_wakeup, exit_zombie, Wake
  <2> QED
    BY Zenon, <1>5, <2>1, <2>2, <2>3
<1>6. ASSUME NEW c \in CPUs, NEW p \in Slots, Forking(c, p)
      PROVE  KilledInv'
  BY Zenon, <1>4, <1>6 DEF ProcIInv, TypeOK, Forking, fork_parent, fork_run
<1>7. ASSUME NEW c \in CPUs, NEW p \in Slots, Waiting(c, p)
      PROVE  KilledInv'
  BY Zenon, <1>2, <1>4, <1>7 DEF ProcIInv, TypeOK, Waiting, wait_acquire, wait_fault,
     wait_check, wait_sleep, table
<1>8. CASE UNCHANGED vars
  BY Zenon, <1>4, <1>8 DEF vars
<1> QED
  BY Zenon, <1>1, <1>2, <1>3, <1>5, <1>6, <1>7, <1>8 DEF Next

\* wait, exit and kill, whatever pids kill is called with: a parent asleep in
\* wait has a child to wait for and no zombie, and who is killed was named to
\* kill by pid, unless kill(0) was called.
THEOREM WaitersMustWait == Spec => []WaiterMustWait
<1>1. Init => KilledInv
  BY ProcAssumption DEF ProcAssumption, Init, KilledInv
<1>2. ProcIInv /\ KilledInv /\ [Next]_vars => KilledInv'
  BY KilledStep
<1>3. ProcIInv /\ KilledInv => WaiterMustWait
  BY Zenon DEF ProcIInv, SleepInv, Waits, KilledInv, WaiterMustWait
<1> QED
  BY <1>1, <1>2, <1>3, ProcInvariant, PTL DEF Spec

----------------------------------------------------------------------------
(* The refinement of Family                                                 *)

Free(p) == state[p] = "UNUSED" \/ (state[p] = "USED" /\ parent[p] = None)
Dead(p) == state[p] = "ZOMBIE" \/ pc[p] \in {"exit_wakeup", "exit_zombie"}
StatusOf(p) == IF Free(p) THEN "free" ELSE IF Dead(p) THEN "dead" ELSE "alive"

\* The cases of status exclude each other: who is in exit and not yet a zombie
\* is RUNNING.
LEMMA StatusIs ==
  ASSUME ProcIInv
  PROVE  status = [p \in Slots |-> StatusOf(p)]
<1> SUFFICES ASSUME NEW p \in Slots PROVE ~(Free(p) /\ Dead(p))
  BY DEF status, StatusOf, Free, Dead
<1> QED
  BY Zenon DEF ProcIInv, HoldInv, RunInv, On, Holding, Free, Dead

\* The same after a step.
LEMMA StatusNext ==
  ASSUME ProcIInv'
  PROVE  status' = [p \in Slots |-> StatusOf(p)']
<1> SUFFICES ASSUME NEW p \in Slots PROVE ~(Free(p) /\ Dead(p))'
  BY DEF status, StatusOf, Free, Dead
<1> QED
  BY Zenon DEF ProcIInv, HoldInv, RunInv, On, Holding, Free, Dead

\* A step that changes the status of q alone, from known to known.
LEMMA StatusChanges ==
  ASSUME ProcIInv, ProcIInv', NEW q \in Slots, NEW new,
         StatusOf(q)' = new, \A r \in Slots \ {q} : StatusOf(r)' = StatusOf(r)
  PROVE  status' = [status EXCEPT ![q] = new]
BY StatusIs, StatusNext

\* fork is done where it records the parent: the entry was USED and had none.
LEMMA ForkStep ==
  ASSUME ProcIInv, ProcIInv', NEW c \in CPUs, NEW p \in Slots, fork_parent(c, p)
  PROVE  Tree!Next
<1>1. PICK q \in Slots : q = np[p] /\ state[q] = "USED" /\ parent[q] = None
  BY Zenon DEF ProcIInv, ForkInv, Making, fork_parent
<1>2. state[p] = "RUNNING" /\ pc[p] = "fork_parent" /\ p # None
  BY Zenon, ProcAssumption DEF ProcAssumption, ProcIInv, RunInv, On, fork_parent
<1>3. pc[q] \notin {"exit_wakeup", "exit_zombie"}
  BY Zenon, <1>1 DEF ProcIInv, RunInv, HoldInv, Holding, On
<1>4. parent' = [parent EXCEPT ![q] = p] /\ state' = state /\ pc' = [pc EXCEPT ![p] = "fork_run"]
  BY Zenon, <1>1 DEF fork_parent, Goto
<1>5. parent \in [Slots -> Slots \cup {None}] /\ pc \in [Slots -> Labels]
  BY Zenon DEF ProcIInv, TypeOK
<1>6. status[q] = "free" /\ status[p] = "alive"
  BY Zenon, <1>1, <1>2, StatusIs DEF StatusOf, Free, Dead
<1>7. StatusOf(q)' = "alive"
  BY Zenon, <1>1, <1>2, <1>3, <1>4, <1>5 DEF StatusOf, Free, Dead
<1>8. \A r \in Slots \ {q} : StatusOf(r)' = StatusOf(r)
  BY <1>2, <1>4, <1>5 DEF StatusOf, Free, Dead
<1>9. status' = [status EXCEPT ![q] = "alive"]
  BY <1>7, <1>8, StatusChanges
<1> QED
  BY Zenon, <1>4, <1>6, <1>9 DEF Tree!Fork, Tree!Next

\* exit is done where it gives the children away; init does not get there.
LEMMA ExitStep ==
  ASSUME ProcIInv, ProcIInv', NEW c \in CPUs, NEW p \in Slots, exit_reparent(c, p)
  PROVE  Tree!Next
<1>1. state[p] = "RUNNING" /\ pc[p] = "exit" /\ p # initproc
  BY Zenon DEF ProcIInv, RunInv, TreeInv, On, exit_reparent
<1>2. /\ parent' = [q \in Slots |-> IF parent[q] = p THEN initproc ELSE parent[q]]
      /\ pc' = [pc EXCEPT ![p] = "exit_wakeup"]
  BY Zenon DEF exit_reparent, Goto
<1>3. \A r \in Slots : \/ state'[r] = state[r]
                       \/ state[r] = "SLEEPING" /\ state'[r] = "RUNNABLE"
  BY Zenon, ProcAssumption DEF ProcAssumption, ProcIInv, TypeOK, exit_reparent, Wake
<1>4. initproc # None /\ None \notin Slots
  BY ProcAssumption DEF ProcAssumption
<1>5. pc \in [Slots -> Labels]
  BY Zenon DEF ProcIInv, TypeOK
<1>6. status[p] = "alive"
  BY Zenon, <1>1, StatusIs DEF StatusOf, Free, Dead
<1>7. StatusOf(p)' = "dead"
  BY Zenon, <1>1, <1>2, <1>3, <1>5 DEF StatusOf, Free, Dead
<1>8. \A r \in Slots \ {p} : StatusOf(r)' = StatusOf(r)
  BY Zenon, <1>2, <1>3, <1>4, <1>5 DEF StatusOf, Free, Dead
<1>9. status' = [status EXCEPT ![p] = "dead"]
  BY <1>7, <1>8, StatusChanges
<1> QED
  BY Zenon, <1>1, <1>2, <1>6, <1>9 DEF Tree!Exit, Tree!Next

\* wait is done where freeproc clears the zombie, a child of the caller.
LEMMA ReapStep ==
  ASSUME ProcIInv, ProcIInv', NEW c \in CPUs, NEW p \in Slots, NEW q \in Slots,
         wait_reap(c, p, q)
  PROVE  Tree!Next
<1>1. state[p] = "RUNNING" /\ pc[p] = "wait_scan" /\ state[q] = "ZOMBIE" /\ parent[q] = p
  BY Zenon DEF ProcIInv, RunInv, On, wait_reap
<1>2. /\ parent' = [parent EXCEPT ![q] = None] /\ state' = [state EXCEPT ![q] = "UNUSED"]
      /\ pc' = [pc EXCEPT ![p] = "user"]
  BY Zenon DEF wait_reap, Freed, Goto
<1>3. /\ state \in [Slots -> States] /\ pc \in [Slots -> Labels]
      /\ parent \in [Slots -> Slots \cup {None}]
  BY Zenon DEF ProcIInv, TypeOK
<1>4. status[p] = "alive" /\ status[q] = "dead"
  BY <1>1, StatusIs DEF StatusOf, Free, Dead
<1>5. StatusOf(q)' = "free"
  BY <1>2, <1>3 DEF StatusOf, Free
<1>6. \A r \in Slots \ {q} : StatusOf(r)' = StatusOf(r)
  BY Zenon, <1>1, <1>2, <1>3 DEF StatusOf, Free, Dead
<1>7. status' = [status EXCEPT ![q] = "free"]
  BY <1>5, <1>6, StatusChanges
<1> QED
  BY Zenon, <1>1, <1>2, <1>4, <1>7 DEF Tree!Reap, Tree!Next

\* What leaves the family as it is
Unseen ==
  /\ parent' = parent
  /\ \A r \in Slots : (Free(r)' <=> Free(r)) /\ (Dead(r)' <=> Dead(r))

\* Status is made of Free and Dead.
LEMMA SilentIf ==
  ASSUME ProcIInv, ProcIInv', Unseen
  PROVE  UNCHANGED <<status, parent>>
<1>1. \A r \in Slots : StatusOf(r)' = StatusOf(r)
  BY DEF Unseen, StatusOf
<1> QED
  BY <1>1, StatusIs, StatusNext DEF Unseen

\* Every other step leaves the family as it is: fork's other two because an
\* entry without a parent counts as free, exit's because it was dead before.
LEMMA SilentStep ==
  ASSUME ProcIInv, ProcIInv', NEW c \in CPUs, NEW p \in Slots
  PROVE  \/ scheduler_run(c, p) \/ Switching(c, p) \/ yield(c, p)
         \/ \E q \in Slots : fork(c, p, q) \/ fork_fail(c, p, q) \/ wait_fault(c, p, q)
         \/ fork_run(c, p)
         \/ \E n \in KillPids, q \in Slots : kill(c, p, n, q)
         \/ exit(c, p) \/ exit_wakeup(c, p) \/ exit_zombie(c, p)
         \/ wait(c, p) \/ wait_acquire(c, p) \/ wait_check(c, p) \/ wait_sleep(c, p)
         => UNCHANGED <<status, parent>>
<1>0. /\ state \in [Slots -> States] /\ pc \in [Slots -> Labels]
      /\ parent \in [Slots -> Slots \cup {None}]
  BY Zenon DEF ProcIInv, TypeOK
<1>1. ASSUME scheduler_run(c, p)
      PROVE  Unseen
  BY Zenon, <1>0, <1>1 DEF Unseen, Free, Dead, scheduler_run
<1>2. ASSUME scheduler_back(c, p)
      PROVE  Unseen
  BY Zenon, <1>2 DEF Unseen, Free, Dead, scheduler_back, table
<1>3. ASSUME sched_return(c, p)
      PROVE  Unseen
  BY Zenon, <1>0, <1>3 DEF Unseen, Free, Dead, sched_return, Goto
<1>4. ASSUME yield(c, p)
      PROVE  Unseen
  BY <1>0, <1>4 DEF ProcIInv, RunInv, On, Unseen, Free, Dead, yield
<1>5. ASSUME NEW q \in Slots, fork(c, p, q)
      PROVE  Unseen
  <2>1. parent[q] = None /\ pc[p] = "user" /\ pc[q] \notin {"exit_wakeup", "exit_zombie"}
    BY Zenon, <1>5 DEF ProcIInv, RunInv, TreeInv, HoldInv, Holding, On, fork
  <2> QED
    BY Zenon, <1>0, <1>5, <2>1 DEF Unseen, Free, Dead, fork
<1>6. ASSUME NEW q \in Slots, fork_fail(c, p, q)
      PROVE  Unseen
  <2>1. parent[q] = None
    BY Zenon, <1>6 DEF ProcIInv, TreeInv, fork_fail
  <2> QED
    BY Zenon, <1>0, <1>6, <2>1 DEF Unseen, Free, Dead, fork_fail, Freed
<1>7. ASSUME fork_run(c, p)
      PROVE  Unseen
  <2>1. PICK q \in Slots : q = np[p] /\ state[q] = "USED" /\ parent[q] # None
    BY Zenon, <1>7 DEF ProcIInv, ForkInv, Making, fork_run
  <2> QED
    BY Zenon, <1>0, <1>7, <2>1 DEF Unseen, Free, Dead, fork_run, Goto
<1>8. ASSUME NEW n \in KillPids, NEW q \in Slots, kill(c, p, n, q)
      PROVE  Unseen
  BY Zenon, <1>0, <1>8 DEF Unseen, Free, Dead, kill
<1>9. ASSUME exit(c, p) \/ wait(c, p) \/ wait_acquire(c, p)
      PROVE  Unseen
  BY Zenon, <1>0, <1>9 DEF Unseen, Free, Dead, exit, wait, wait_acquire, Goto, table
<1>10. ASSUME exit_wakeup(c, p)
      PROVE  Unseen
  BY Zenon, <1>0, <1>10 DEF Unseen, Free, Dead, exit_wakeup, Wake, Goto
<1>11. ASSUME exit_zombie(c, p)
      PROVE  Unseen
  BY <1>0, <1>11 DEF ProcIInv, RunInv, On, Unseen, Free, Dead, exit_zombie, Goto
<1>12. ASSUME NEW q \in Slots, wait_fault(c, p, q)
      PROVE  Unseen
  BY Zenon, <1>0, <1>12 DEF Unseen, Free, Dead, wait_fault, Goto, table
<1>13. ASSUME wait_check(c, p)
      PROVE  Unseen
  BY Zenon, <1>0, <1>13 DEF Unseen, Free, Dead, wait_check, Goto, table
<1>14. ASSUME wait_sleep(c, p)
      PROVE  Unseen
  BY <1>0, <1>14 DEF ProcIInv, RunInv, On, Unseen, Free, Dead, wait_sleep, Goto
<1> QED
  BY Zenon, <1>1, <1>2, <1>3, <1>4, <1>5, <1>6, <1>7, <1>8, <1>9, <1>10, <1>11, <1>12, <1>13, <1>14,
     SilentIf DEF Switching

\* The process table implements the family tree for every table and every
\* number of CPUs.
THEOREM FamilyRefined == Spec => FamilyKept
<1>1. Init => Tree!Init
  BY ProcAssumption DEF ProcAssumption, Init, Tree!Init, status
<1>2. ProcIInv /\ ProcIInv' /\ [Next]_vars => [Tree!Next]_<<status, parent>>
  <2> SUFFICES ASSUME ProcIInv, ProcIInv', [Next]_vars
               PROVE  Tree!Next \/ UNCHANGED <<status, parent>>
    OBVIOUS
  <2>1. CASE UNCHANGED vars
    BY <2>1 DEF vars, status
  <2>2. CASE Next
    BY Zenon, <2>2, ForkStep, ExitStep, ReapStep, SilentStep
       DEF Next, Forking, Exiting, Waiting
  <2> QED
    BY <2>1, <2>2
<1> QED
  BY <1>1, <1>2, ProcInvariant, PTL DEF Spec, FamilyKept, Tree!Spec
=============================================================================
