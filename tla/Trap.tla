-------------------------------- MODULE Trap --------------------------------
(***************************************************************************)
(* Traps, interrupt masking and context switches: usertrap, usertrapret,   *)
(* kerneltrap, devintr and clockintr of kernel/trap.c, the spin locks of   *)
(* spinlock.c with push_off and pop_off, sched, yield, sleep, wakeup and   *)
(* scheduler and kill of proc.c, and sys_sleep, sys_uptime and sys_kill of  *)
(* sysproc.c.                                                              *)
(*                                                                         *)
(* A context is a process's kernel thread or a CPU's scheduler, and has a  *)
(* stack of activations: its own, and kerneltrap's above it.  A CPU runs   *)
(* one context; between two of its steps, if interrupts are on, it may     *)
(* take a trap, which changes the CPU's registers as the hardware does.    *)
(***************************************************************************)
EXTENDS Naturals, Sequences, FiniteSets

CONSTANTS
  Procs, CPUs, None,
  hart0,     \* the CPU that counts ticks
  TicksMod,  \* ticks wraps, as a uint does at 2^32
  N          \* the ticks sys_sleep is asked for

ASSUME TrapAssumption ==
  /\ hart0 \in CPUs /\ TicksMod \in Nat /\ N \in 1 .. (TicksMod - 1)
  /\ Procs \cap CPUs = {} /\ None \notin Procs \cup CPUs

VARIABLES
  reg,     \* of each CPU: sie, spie, spp, sepc, scause and stvec
  noff, intena, proc,     \* struct cpu
  cur,     \* the context each CPU executes
  stack,   \* the activations of each context, the latest first
  lock,    \* the CPU that holds tickslock, vdisk_lock, or a p->lock
  state, chan, killed, epc,   \* struct proc; epc, of the trapframe, counts from
                              \* the instruction that trapped
  ticks, ticks0,
  busy,    \* the processes whose disk request the device still works on
  elapsed  \* ticks since the process called sys_sleep, up to N

cpus == <<noff, intena, proc>>
procs == <<state, chan, killed, epc>>
clock == <<ticks, ticks0, elapsed>>
vars == <<reg, cpus, cur, stack, lock, procs, clock, busy>>

Contexts == Procs \cup CPUs
Chans    == {"ticks", "disk"}      \* a channel is named like the lock it goes with
Locks    == Chans \cup Procs
Devices  == {"timer", "external"}

\* An activation: where it is, the lock it spins for, where it goes when it has
\* it, where it goes at the end of a call, the channel it waits for or wakes,
\* the processes wakeup has still to see, sched's intena, the cause of the trap,
\* whether it slept since, and the sepc and sstatus that kerneltrap saved.
Frame(l) == [at |-> l, lk |-> None, then |-> None, next |-> None, k |-> None,
             todo |-> {}, ie |-> FALSE, cause |-> None, slept |-> FALSE, saved |-> None]

Init ==
  /\ reg = [c \in CPUs |-> [sie |-> FALSE, spie |-> FALSE, spp |-> "S", sepc |-> None,
                            scause |-> None, stvec |-> "kernelvec"]]
  /\ noff = [c \in CPUs |-> 0] /\ intena = [c \in CPUs |-> FALSE]
  /\ proc = [c \in CPUs |-> None]
  /\ cur = [c \in CPUs |-> c]
  /\ stack = [x \in Contexts |-> <<Frame(IF x \in CPUs THEN "scan" ELSE "forkret")>>]
  /\ lock = [l \in Locks |-> None]
  /\ state = [p \in Procs |-> "RUNNABLE"] /\ chan = [p \in Procs |-> None]
  /\ killed = [p \in Procs |-> FALSE] /\ epc = [p \in Procs |-> 0]
  /\ ticks = 0 /\ ticks0 = [p \in Procs |-> 0]
  /\ busy = {}
  /\ elapsed = [p \in Procs |-> 0]

\* CPU c executes label l; the activation it executes.
Top(c)   == stack[cur[c]][1]
At(c, l) == Top(c).at = l
With(c, f) == stack' = [stack EXCEPT ![cur[c]] = <<f>> \o Tail(@)]
Goto(c, l) == With(c, [Top(c) EXCEPT !.at = l])
Nested(c)  == Len(stack[cur[c]]) > 1

----------------------------------------------------------------------------
(* Spin locks                                                               *)

push_off(c) ==
  /\ intena' = IF noff[c] = 0 THEN [intena EXCEPT ![c] = reg[c].sie] ELSE intena
  /\ noff' = [noff EXCEPT ![c] = @ + 1]
  /\ reg' = [reg EXCEPT ![c].sie = FALSE]

\* acquire of l by the activation f, up to the atomic swap
acquire(c, f, l, then) ==
  /\ push_off(c)
  /\ With(c, [f EXCEPT !.at = "spin", !.lk = l, !.then = then])

spin(c) ==
  /\ At(c, "spin") /\ lock[Top(c).lk] = None
  /\ lock' = [lock EXCEPT ![Top(c).lk] = c]
  /\ With(c, [Top(c) EXCEPT !.at = Top(c).then, !.lk = None, !.then = None])
  /\ UNCHANGED <<reg, cpus, cur, procs, clock, busy>>

\* pop_off: the interrupt enable of c with e as its intena
Restored(c, e) == IF noff[c] = 1 /\ e THEN TRUE ELSE reg[c].sie

release(c, l) ==
  /\ lock' = [lock EXCEPT ![l] = None]
  /\ noff' = [noff EXCEPT ![c] = @ - 1]
  /\ reg' = [reg EXCEPT ![c].sie = Restored(c, intena[c])]

----------------------------------------------------------------------------
(* The scheduler, sched and yield                                           *)

\* The outer loop turns interrupts on; while it walks the table they are as
\* the process that ran last left them.
scheduler_loop(c) ==
  /\ At(c, "scan") /\ ~reg[c].sie
  /\ reg' = [reg EXCEPT ![c].sie = TRUE]
  /\ UNCHANGED <<cpus, cur, stack, lock, procs, clock, busy>>

scheduler_acquire(c, p) ==
  /\ At(c, "scan")
  /\ acquire(c, [Top(c) EXCEPT !.k = p], p, "test")
  /\ UNCHANGED <<proc, cur, lock, procs, clock, busy>>

scheduler_run(c) ==
  LET p == Top(c).k IN
  /\ At(c, "test")
  /\ \/ /\ state[p] = "RUNNABLE"
        /\ state' = [state EXCEPT ![p] = "RUNNING"]
        /\ proc' = [proc EXCEPT ![c] = p]
        /\ cur' = [cur EXCEPT ![c] = p]                        \* swtch
        /\ Goto(c, "back")
        /\ UNCHANGED <<reg, noff, lock>>
     \/ /\ state[p] # "RUNNABLE"
        /\ release(c, p)
        /\ With(c, Frame("scan"))
        /\ UNCHANGED <<proc, cur, state>>
  /\ UNCHANGED <<intena, chan, killed, epc, clock, busy>>

scheduler_back(c) ==
  /\ At(c, "back")
  /\ proc' = [proc EXCEPT ![c] = None]
  /\ release(c, Top(c).k)
  /\ With(c, Frame("scan"))
  /\ UNCHANGED <<intena, cur, procs, clock, busy>>

\* sched() by f: intena stays with the thread, the CPU goes to its scheduler.
sched(c, f, s) ==
  /\ state' = [state EXCEPT ![cur[c]] = s]
  /\ With(c, [f EXCEPT !.at = "resume", !.ie = intena[c]])
  /\ cur' = [cur EXCEPT ![c] = c]

yield(c) ==
  /\ At(c, "yield")
  /\ sched(c, Top(c), "RUNNABLE")
  /\ UNCHANGED <<reg, cpus, lock, chan, killed, epc, clock, busy>>

\* exit(-1) by a killed process, from where it has p->lock for good
exit(c) ==
  /\ At(c, "exit")
  /\ sched(c, Top(c), "ZOMBIE")
  /\ UNCHANGED <<reg, cpus, lock, chan, killed, epc, clock, busy>>

\* The end of sched(), and release of p->lock in yield and sleep.
resume(c) ==
  LET p == cur[c] IN
  /\ At(c, "resume")
  /\ intena' = [intena EXCEPT ![c] = Top(c).ie]
  /\ lock' = [lock EXCEPT ![p] = None]
  /\ noff' = [noff EXCEPT ![c] = @ - 1]
  /\ reg' = [reg EXCEPT ![c].sie = Restored(c, Top(c).ie)]
  /\ chan' = [chan EXCEPT ![p] = None]
  /\ With(c, [Top(c) EXCEPT !.at = Top(c).next, !.next = None, !.ie = FALSE])
  /\ UNCHANGED <<proc, cur, state, killed, epc, clock, busy>>

forkret(c) ==
  /\ At(c, "forkret")
  /\ release(c, cur[c])
  /\ Goto(c, "usertrapret")
  /\ UNCHANGED <<intena, proc, cur, procs, clock, busy>>

----------------------------------------------------------------------------
(* Entering and leaving the kernel                                          *)

\* Mutant: interrupts go on for a page fault too.
intr_on_Faults(cause) == cause \in {"syscall", "fault"}

intr_on(cause) == cause = "syscall"

\* uservec, usertrap: a system call, a page fault or an interrupt in user mode.
\* The hardware turns interrupts off; usertrap turns them on for a system call
\* when it is done with the registers.  A system call of a killed process is not
\* made: p->killed is never cleared, and sends it from the end of usertrap to exit.
usertrap(c, cause) ==
  LET p == cur[c]
      call == cause = "syscall" /\ ~killed[p]
      at == IF cause \in Devices THEN "devintr"
            ELSE IF cause = "syscall" /\ ~call THEN "usertrap_end" ELSE cause
  IN
  /\ At(c, "user")
  /\ epc' = [epc EXCEPT ![p] = IF call THEN 1 ELSE 0]
  /\ reg' = [reg EXCEPT ![c] = [@ EXCEPT !.spie = reg[c].sie, !.spp = "U", !.sepc = <<p, 0>>,
       !.scause = cause, !.stvec = "kernelvec", !.sie = intr_on(cause) /\ at # "usertrap_end"]]
  /\ With(c, [Frame(at) EXCEPT !.cause = cause])
  /\ UNCHANGED <<cpus, cur, lock, state, chan, killed, clock, busy>>

\* The end of usertrap, but for a timer interrupt: exit(-1) begins with
\* acquire(&p->lock) here.
usertrap_end(c) ==
  /\ At(c, "usertrap_end")
  /\ IF killed[cur[c]] THEN acquire(c, Top(c), cur[c], "exit")
     ELSE Goto(c, "usertrapret") /\ UNCHANGED <<reg, noff, intena>>
  /\ UNCHANGED <<proc, cur, lock, procs, clock, busy>>

\* kernelvec, kerneltrap: an interrupt in the kernel.  sepc names the place.
kerneltrap(c, cause) ==
  LET x == cur[c]
      r == [reg[c] EXCEPT !.spie = TRUE, !.sie = FALSE, !.spp = "S",
              !.sepc = <<x, Len(stack[x])>>, !.scause = cause]
  IN
  /\ reg[c].sie /\ ~At(c, "user")
  /\ reg' = [reg EXCEPT ![c] = r]
  /\ stack' = [stack EXCEPT ![x] =
       <<[Frame("devintr") EXCEPT !.cause = cause,
          !.saved = [sepc |-> r.sepc, spie |-> TRUE, spp |-> "S"]]>> \o @]
  /\ UNCHANGED <<cpus, cur, lock, procs, clock, busy>>

\* Mutant: the registers are left as another trap had them.
restore_Nothing(c) ==
  /\ At(c, "restore")
  /\ Goto(c, "sret")
  /\ UNCHANGED <<reg, cpus, cur, lock, procs, clock, busy>>

\* The end of kerneltrap: w_sepc, w_sstatus
restore(c) ==
  LET r == Top(c).saved IN
  /\ At(c, "restore")
  /\ reg' = [reg EXCEPT ![c] = [@ EXCEPT !.sepc = r.sepc, !.sie = FALSE,
                                        !.spie = r.spie, !.spp = r.spp]]
  /\ Goto(c, "sret")
  /\ UNCHANGED <<cpus, cur, lock, procs, clock, busy>>

usertrapret(c) ==
  /\ At(c, "usertrapret")
  /\ reg' = [reg EXCEPT ![c].sie = FALSE, ![c].stvec = "uservec"]
  /\ With(c, [Frame("userret") EXCEPT !.cause = Top(c).cause])
  /\ UNCHANGED <<cpus, cur, lock, procs, clock, busy>>

userret(c) ==
  /\ At(c, "userret")
  /\ reg' = [reg EXCEPT ![c] = [@ EXCEPT !.spp = "U", !.spie = TRUE,
                                        !.sepc = <<cur[c], epc[cur[c]]>>]]
  /\ Goto(c, "sret")
  /\ UNCHANGED <<cpus, cur, lock, procs, clock, busy>>

\* The register is dead until the next trap.
sret(c) ==
  LET x == cur[c] IN
  /\ At(c, "sret")
  /\ reg' = [reg EXCEPT ![c].sie = reg[c].spie, ![c].sepc = None]
  /\ IF Nested(c) THEN stack' = [stack EXCEPT ![x] = Tail(@)] ELSE With(c, Frame("user"))
  /\ UNCHANGED <<cpus, cur, lock, procs, clock, busy>>

----------------------------------------------------------------------------
(* Interrupt handlers                                                       *)

\* devintr looks at scause as it is now.
devintr(c) ==
  LET d == reg[c].scause IN
  /\ At(c, "devintr")
  /\ \/ /\ d = "timer" /\ c = hart0
        /\ acquire(c, Top(c), "ticks", "clockintr")
     \/ /\ d = "timer" /\ c # hart0
        /\ Goto(c, "ticked")
        /\ UNCHANGED <<reg, noff, intena>>
     \/ /\ d = "external"
        /\ acquire(c, Top(c), "disk", "diskintr")
     \/ /\ d \notin Devices
        /\ Goto(c, "usertrap_end")
        /\ UNCHANGED <<reg, noff, intena>>
  /\ killed' = [p \in Procs |-> killed[p] \/ (p = cur[c] /\ d \notin Devices)]
  /\ UNCHANGED <<proc, cur, lock, state, chan, epc, clock, busy>>

\* wakeup(chan) begins, with every process but the one that runs here.
Wake(c, k) ==
  With(c, [Top(c) EXCEPT !.at = "wakeup", !.k = k, !.todo = Procs \ {proc[c]}])

\* Mutant: the count is not followed by a wakeup.
clockintr_NoWakeup(c) ==
  /\ At(c, "clockintr")
  /\ ticks' = (ticks + 1) % TicksMod
  /\ elapsed' = [p \in Procs |-> IF elapsed[p] < N THEN elapsed[p] + 1 ELSE N]
  /\ With(c, [Top(c) EXCEPT !.at = "wakeup", !.k = "ticks", !.todo = {}])
  /\ UNCHANGED <<reg, cpus, cur, lock, procs, ticks0, busy>>

clockintr(c) ==
  /\ At(c, "clockintr")
  /\ ticks' = (ticks + 1) % TicksMod
  /\ elapsed' = [p \in Procs |-> IF elapsed[p] < N THEN elapsed[p] + 1 ELSE N]
  /\ Wake(c, "ticks")
  /\ UNCHANGED <<reg, cpus, cur, lock, procs, ticks0, busy>>

\* virtio_disk_intr, after some of the requests are done
diskintr(c) ==
  /\ At(c, "diskintr")
  /\ busy' \in SUBSET busy
  /\ Wake(c, "disk")
  /\ UNCHANGED <<reg, cpus, cur, lock, procs, clock>>

\* One turn of wakeup's loop, with p->lock; the order of the table is any.
wakeup(c) ==
  LET f == Top(c) IN
  /\ At(c, "wakeup")
  /\ \E p \in f.todo :
       /\ lock[p] = None
       /\ state' = [state EXCEPT ![p] =
            IF @ = "SLEEPING" /\ chan[p] = f.k /\ (f.k = "disk" => p \notin busy)
            THEN "RUNNABLE" ELSE @]
       /\ With(c, [f EXCEPT !.todo = @ \ {p}])
  /\ UNCHANGED <<reg, cpus, cur, lock, chan, killed, epc, clock, busy>>

\* The handler ends: release, and the acknowledgement of a software interrupt.
wakeup_end(c) ==
  LET f == Top(c)
      t == f.k = "ticks"
  IN
  /\ At(c, "wakeup") /\ f.todo = {}
  /\ lock' = [lock EXCEPT ![f.k] = None]
  /\ noff' = [noff EXCEPT ![c] = @ - 1]
  /\ reg' = [reg EXCEPT ![c].sie = Restored(c, intena[c])]
  /\ Goto(c, IF t THEN "ticked" ELSE IF Nested(c) THEN "restore" ELSE "usertrap_end")
  /\ UNCHANGED <<intena, proc, cur, procs, clock, busy>>

\* which_dev == 2: give up the CPU, unless it is the scheduler that was
\* interrupted, a process about to leave the CPU, or in user mode a killed one.
ticked(c) ==
  /\ At(c, "ticked")
  /\ IF Nested(c)
     THEN IF proc[c] = None \/ state[proc[c]] # "RUNNING"
          THEN Goto(c, "restore") /\ UNCHANGED <<reg, noff, intena>>
          ELSE acquire(c, [Top(c) EXCEPT !.next = "restore"], proc[c], "yield")
     ELSE IF killed[proc[c]] THEN acquire(c, Top(c), proc[c], "exit")
          ELSE acquire(c, [Top(c) EXCEPT !.next = "usertrapret"], proc[c], "yield")
  /\ UNCHANGED <<proc, cur, lock, procs, clock, busy>>

----------------------------------------------------------------------------
(* System calls and faults that wait                                        *)

\* sys_sleep and sys_uptime begin with acquire(&tickslock); sys_kill comes to the
\* entry it looks for, its own or another, past the others.
syscall(c) ==
  /\ At(c, "syscall")
  /\ \/ \E l \in {"sys_sleep", "sys_uptime"} : acquire(c, Top(c), "ticks", l)
     \/ \E p \in Procs : acquire(c, [Top(c) EXCEPT !.k = p], p, "kill")
  /\ UNCHANGED <<proc, cur, lock, procs, clock, busy>>

sys_uptime(c) ==
  /\ At(c, "sys_uptime")
  /\ release(c, "ticks")
  /\ Goto(c, "usertrap_end")
  /\ UNCHANGED <<intena, proc, cur, procs, clock, busy>>

\* kill(p->pid), with p->lock
kill(c) ==
  LET p == Top(c).k IN
  /\ At(c, "kill")
  /\ killed' = [killed EXCEPT ![p] = TRUE]
  /\ state' = [state EXCEPT ![p] = IF @ = "SLEEPING" THEN "RUNNABLE" ELSE @]
  /\ release(c, p)
  /\ With(c, [Top(c) EXCEPT !.at = "usertrap_end", !.k = None])
  /\ UNCHANGED <<intena, proc, cur, chan, epc, clock, busy>>

sys_sleep(c) ==
  /\ At(c, "sys_sleep")
  /\ ticks0' = [ticks0 EXCEPT ![cur[c]] = ticks]
  /\ elapsed' = [elapsed EXCEPT ![cur[c]] = 0]
  /\ With(c, [Top(c) EXCEPT !.at = "wait", !.k = "ticks"])
  /\ UNCHANGED <<reg, cpus, cur, lock, procs, ticks, busy>>

\* vma_fault: refused at once, or a read from the disk, with interrupts off
vma_fault(c) ==
  /\ At(c, "fault")
  /\ \/ Goto(c, "devintr") /\ UNCHANGED <<reg, noff, intena>>
     \/ acquire(c, Top(c), "disk", "virtio_disk_rw")
  /\ UNCHANGED <<proc, cur, lock, procs, clock, busy>>

virtio_disk_rw(c) ==
  /\ At(c, "virtio_disk_rw")
  /\ busy' = busy \cup {cur[c]}
  /\ With(c, [Top(c) EXCEPT !.at = "wait", !.k = "disk"])
  /\ UNCHANGED <<reg, cpus, cur, lock, procs, clock>>

\* mappages succeeds, or finds no memory
vma_fault_end(c) ==
  /\ At(c, "read")
  /\ \E l \in {"usertrap_end", "devintr"} : Goto(c, l)
  /\ UNCHANGED <<reg, cpus, cur, lock, procs, clock, busy>>

\* What p waits for has come; the difference of the ticks is unsigned.
Ready(p, k) ==
  IF k = "ticks" THEN (ticks + TicksMod - ticks0[p]) % TicksMod >= N ELSE p \notin busy

\* The test of the loops around sleep(); sys_sleep gives up when the process is
\* killed, virtio_disk_rw does not.  sleep begins with acquire(&p->lock).
wait(c) ==
  LET k == Top(c).k IN
  /\ At(c, "wait")
  /\ IF Ready(cur[c], k) \/ (k = "ticks" /\ killed[cur[c]])
     THEN /\ release(c, k)
          /\ Goto(c, IF k = "ticks" THEN "usertrap_end" ELSE "read")
          /\ ticks0' = [ticks0 EXCEPT ![cur[c]] = 0]
          /\ elapsed' = [elapsed EXCEPT ![cur[c]] = 0]
          /\ UNCHANGED <<intena, ticks>>
     ELSE acquire(c, Top(c), cur[c], "sleep") /\ UNCHANGED <<lock, clock>>
  /\ UNCHANGED <<proc, cur, procs, busy>>

sleep(c) ==
  LET k == Top(c).k IN
  /\ At(c, "sleep")
  /\ release(c, k)
  /\ chan' = [chan EXCEPT ![cur[c]] = k]
  /\ sched(c, [Top(c) EXCEPT !.slept = @ \/ Top(c).cause = "fault", !.next = "reacquire"], "SLEEPING")
  /\ UNCHANGED <<intena, proc, killed, epc, clock, busy>>

sleep_end(c) ==
  /\ At(c, "reacquire")
  /\ acquire(c, Top(c), Top(c).k, "wait")
  /\ UNCHANGED <<proc, cur, lock, procs, clock, busy>>

----------------------------------------------------------------------------
Scheduler(c) ==
  \/ scheduler_loop(c) \/ scheduler_run(c) \/ scheduler_back(c)
  \/ \E p \in Procs : scheduler_acquire(c, p)

Thread(c) ==
  \/ spin(c) \/ yield(c) \/ exit(c) \/ resume(c) \/ forkret(c)
  \/ restore(c) \/ usertrap_end(c) \/ usertrapret(c) \/ userret(c) \/ sret(c)
  \/ devintr(c) \/ clockintr(c) \/ diskintr(c) \/ wakeup(c) \/ wakeup_end(c) \/ ticked(c)
  \/ syscall(c) \/ sys_uptime(c) \/ sys_sleep(c) \/ kill(c)
  \/ vma_fault(c) \/ virtio_disk_rw(c) \/ vma_fault_end(c)
  \/ wait(c) \/ sleep(c) \/ sleep_end(c)

Next ==
  \E c \in CPUs :
    \/ Scheduler(c) \/ Thread(c)
    \/ \E cause \in {"syscall", "fault"} \cup Devices : usertrap(c, cause)
    \/ \E cause \in Devices : kerneltrap(c, cause)

Spec == Init /\ [][Next]_vars

----------------------------------------------------------------------------
(* Properties                                                               *)

TypeOK ==
  /\ \A c \in CPUs :
       /\ {reg[c].sie, reg[c].spie} \subseteq BOOLEAN /\ reg[c].spp \in {"S", "U"}
       /\ reg[c].scause \in Devices \cup {"syscall", "fault", None}
       /\ reg[c].stvec \in {"kernelvec", "uservec"}
       /\ cur[c] \in {c} \cup Procs
  /\ noff \in [CPUs -> Nat] /\ intena \in [CPUs -> BOOLEAN]
  /\ proc \in [CPUs -> Procs \cup {None}] /\ lock \in [Locks -> CPUs \cup {None}]
  /\ \A x \in Contexts : stack[x] # <<>>
  /\ state \in [Procs -> {"RUNNABLE", "RUNNING", "SLEEPING", "ZOMBIE"}]
  /\ chan \in [Procs -> Chans \cup {None}] /\ killed \in [Procs -> BOOLEAN]
  /\ epc \in [Procs -> 0 .. 1]
  /\ ticks \in 0 .. (TicksMod - 1) /\ ticks0 \in [Procs -> 0 .. (TicksMod - 1)]
  /\ busy \subseteq Procs /\ elapsed \in [Procs -> 0 .. N]

\* A trap goes back where it came from, with interrupts as they were, whatever
\* other traps the CPU took and whatever CPU the thread is on now: kerneltrap's
\* "the yield() may have caused some traps to occur, so restore trap registers".
\* And traps go through the right vector: usertrapret's "turn off interrupts
\* until we're back in user space, where usertrap() is correct".
TrapReturns ==
  /\ TypeOK
  /\ \A c \in CPUs :
       LET r == reg[c]
           x == cur[c]
       IN
       /\ At(c, "sret") =>
            /\ r.spie
            /\ r.sepc = IF Nested(c) THEN <<x, Len(stack[x]) - 1>>
                        ELSE <<x, IF Top(c).cause = "syscall" THEN 1 ELSE 0>>
            /\ r.spp = IF Nested(c) THEN "S" ELSE "U"
       /\ At(c, "user") => r.stvec = "uservec" /\ r.sie
       /\ ~At(c, "user") /\ r.sie => r.stvec = "kernelvec"

\* noff is the number of spin locks a CPU holds or spins for, and interrupts are
\* off as long as it is not 0, so that no handler spins for a lock that the code
\* it interrupted holds; sched() is entered with p->lock alone; the panics of
\* acquire, release, pop_off and sched are out of reach.  And no wakeup is lost:
\* whoever sleeps would sleep again.
LocksMasked ==
  /\ \A c \in CPUs :
       LET held == {l \in Locks : lock[l] = c}
           f == Top(c)
       IN
       /\ noff[c] = Cardinality(held) + IF f.at = "spin" THEN 1 ELSE 0
       /\ noff[c] > 0 => ~reg[c].sie
       /\ f.at = "spin" => f.lk \notin held
       /\ f.at = "wakeup" => f.todo \cap held = {}
       /\ f.at \in {"yield", "exit"} => held = {cur[c]} /\ state[cur[c]] = "RUNNING"
       /\ f.at = "resume" => held = {cur[c]}
       /\ Len(stack[cur[c]]) <= 2
  /\ \A p \in Procs :
       state[p] = "SLEEPING" /\ lock[chan[p]] = None => ~Ready(p, chan[p])

\* devintr acts on the trap it was called for, unless vma_fault slept before it
\* was refused: then scause is that of another trap (trap.c:69, whose scause is
\* read again at trap.c:182), and the fault may pass for an interrupt.  And
\* sys_sleep(n) returns before clockintr has counted n ticks, also when ticks
\* wraps, only to a process that was killed, which a kill of another process or
\* a wakeup that came for no reason does not make it.
OwnCause ==
  [][\A c \in CPUs : cur'[c] = cur[c] =>
       LET f == Top(c)
           g == stack'[cur[c]][1]
       IN
       /\ f.at = "devintr" /\ g.at # "devintr" => reg[c].scause = f.cause \/ f.slept
       /\ f.at = "wait" /\ g.at = "usertrap_end" =>
            elapsed[cur[c]] = N \/ killed[cur[c]]]_vars
=============================================================================
