# A TLA+ model of the xv6 kernel with mmap

The system is xv6-riscv, a small multi-processor Unix-like kernel in C under
`src/kernel/`, with file-backed `mmap` added. This directory holds
specifications of the parts of it that are hard to get right, the TLC
configurations that check them on small instances, and proofs, checked by TLAPS,
of what matters most for every instance.

    tlc -config MCLog.cfg MCLog        # one run; the pairs are listed below
    tlapm LogTheorems.tla              # one module's proofs; likewise the other *Inv and *Theorems

## 1. The system

| Component | State | Operations | What makes it correct |
|---|---|---|---|
| Log (`log.c`) | header and blocks on disk, `lh`, `outstanding`, `committing` | `begin_op`, `log_write`, `end_op`, commit, recovery | operations are atomic across crashes; a commit runs alone; the log never overflows |
| Buffer cache (`bio.c`) | LRU list, `blockno`, `valid`, `refcnt`, data | `bread`, `bwrite`, `brelse`, `bpin`, `bunpin` | one copy and one user of a block; a buffer in use keeps its block |
| Inode table (`fs.c`, `sysfile.c`) | `itable`, inodes on disk | `iget`, `ilock`, `iput`, `ialloc`, create, open, link, unlink, close | exact references and link counts; nothing in use is freed |
| File content (`fs.c`, `file.c`) | bitmap, block numbers, indirect blocks, offsets | `balloc`, `bmap`, `itrunc`, `readi`, `writei`, `filewrite` | no block lost or used twice; a write fits its transaction |
| Directories (`fs.c`, `sysfile.c`) | a tree of names | `namex`, create, mkdir, link, unlink, chdir | link counts and `..` exact; no circle of locks |
| Pipe, descriptors (`pipe.c`, `file.c`) | ring, two counters, two open flags, reference counts | pipe, dup, read, write, close | a bounded FIFO; no lost wakeup; freed last |
| Console (`console.c`, `uart.c`, `plic.c`) | input and output rings | `consoleintr`, `consoleread`, `consolewrite`, `uartintr` | a terminal with an editable line; nobody waits for what is there |
| Processes (`proc.c`) | `proc[]`, `wait_lock`, CPUs | fork, exit, wait, kill, yield, sleep, wakeup, scheduler | one CPU per kernel stack; every zombie has a parent that will see it |
| Traps, spin locks, clock (`trap.c`, `spinlock.c`, `sysproc.c`) | trap registers, `noff`, `intena`, `ticks` | `usertrap`, `kerneltrap`, `devintr`, acquire, release, `sys_sleep` | traps return where they came from; locks mask interrupts |
| Memory (`kalloc.c`, `vm.c`, `exec.c`) | free list, page tables, `sz` | `kalloc`, `walk`, `uvmalloc`, `uvmcopy`, exec, `copyin` | no page lost or freed twice when memory runs out |
| Mappings (`proc.c`, `sysfile.c`) | `vmas`, pages, file references | mmap, munmap, fault, fork, exec, exit, sbrk | mappings disjoint and apart from the heap; stores written back to the right place |
| Disk driver (`virtio_disk.c`) | descriptors, two rings, `info` | `virtio_disk_rw`, `virtio_disk_intr` | descriptors owned once; every completion reaches its process |

System calls come in through traps and go down through open files to pipes, the
console or inodes; inodes are read and written through the log, the log through the
buffer cache, and that through the disk driver. Everything that waits uses `sleep`
and `wakeup` of `proc.c`. The hard behaviours are the ones between parts: the wakeup
that could come between a test and a sleep, locks that are dropped in the middle of
an operation (`brelse`, `iput`, `fileclose`, `namex`, the committer), a kill or an
interrupt at any of these points, memory that runs out half-way, power failing
between two disk writes, and counters and rings at their limits. `PROJECT.json`
lists them as hazards, each at its line.

### How the code is cut into steps

A step is what a thread does between two points at which another one can see or
change something it uses. What a spin lock protects is one step, unless the code
reads something the lock does not cover (`p->killed`), hands the lock on (`p->lock`
in the scheduler), or the lock itself is the subject (`Trap`): there the lock is a
variable. A sleep lock is a variable with an owner. Each module's header says where
its steps end.

## 2. Modules

| Module | Models | Relation to others |
|---|---|---|
| `Txn` | the promise of the log: an atomic disk | |
| `Log` | `log.c`, with `bread`, pinning and recycling of `bio.c`, kill, crash | refines `Txn` |
| `LogTheorems` | proofs about `Log` | extends `Log`, `Counting` |
| `Blocks` | the promise of the cache: blocks with one user each | |
| `Bcache` | `bio.c` and its sleep locks | refines `Blocks` |
| `BcacheTheorems` | proofs about `Bcache` | extends `Bcache` |
| `Inode` | the inode table under create, open, link, unlink, close, in one directory, with crashes | takes from `Log` that a crash returns to the last commit |
| `File` | block allocation, `readi` and `writei` under `fileread`, `filewrite` and `O_TRUNC`, with crashes | as `Inode` |
| `Tree` | path walks, create, mkdir, link, unlink and chdir in a tree of directories | inodes are freed as in `Inode`, without the table |
| `Fifo` | the promise of a pipe | |
| `Pipe` | `pipe.c`, descriptors and the counts of `file.c`, dup, fork, close, kill | refines `Fifo` |
| `PipeTheorems` | proofs about `Pipe` | extends `Pipe` |
| `Tty` | the promise of the console | |
| `Console` | `console.c`, `uart.c`, the UART's interrupt at the PLIC | refines `Tty` |
| `ConsoleTheorems` | proofs about `Console` | extends `Console` |
| `Family` | the promise of fork, exit and wait: a tree | |
| `Proc` | `proc.c` on several CPUs | refines `Family` |
| `ProcTheorems` | proofs about `Proc` | extends `Proc` |
| `Trap` | `trap.c`, `spinlock.c`, `sched`, `sleep`, `wakeup`, `kill`, `sys_sleep`, faults that read the disk | the same scheduler as `Proc`, with interrupts |
| `Memory` | `kalloc.c`, user page tables of `vm.c`, fork, sbrk, exec, copies | |
| `Mmap` | mappings, faults, write-back, fork, exec, exit, sbrk | |
| `MmapInv`, `MmapTheorems` | proofs about `Mmap` | extend `Mmap` |
| `Virtio` | `virtio_disk.c` and a device | |
| `VirtioTheorems` | proofs about `Virtio` | extends `Virtio`, `Counting` |
| `Counting` | what those proofs use of finite sets, as one formula | |
| `MC*` | constants, symmetry and constraints for TLC | |

Operators named `X_Y`, introduced by a comment "Mutant:", are altered forms of the
operator X. They are used by no specification. `PROJECT.json` says for each
property which of them, put in X's place, makes TLC report that property.

**Log.** `home`, `dhead` and `dlog` are the disk; `cache` and `refcnt` the buffers;
`lh`, `outstanding` and `committing` the log in memory; `pc` and `tail` say where
each process is. `begin_op`, `log_write` and `end_op` are the critical sections
of these functions. `commit`, `write_log`, `write_head`, `install_trans`,
`clear_head` and `end_commit` are the writes of a commit, one disk block a step;
recovery is `read_head` and the same two replay steps. `Crash` may come at any
step: it empties memory, and a block being written may be torn. The header fits
in one sector, so its write is atomic. `kill` wakes a sleeper early.

**Bcache.** `bget_hit` and `bget_miss` are the two halves of `bget` under
`bcache.lock`; `acquiresleep`, `bread_done`, `bwrite`, `brelse` (the sleep lock
goes) and `brelse_drop` (the count and the LRU list) follow. `bget_panic` is "bget:
no buffers".

**Inode.** `ondisk` is the disk as the log will have it, `committed` as it has it;
`crash` goes back to `committed`. The actions follow each system call from lock to
lock; `iput` is split at the four points where it gives up a lock. Files have no
content and there is one directory; `File` and `Tree` have the rest.

**File.** An inode is there three times: in memory (`addrs`, `size`), in the buffer
of its block, and on the disk as of the last commit, to which `crash` returns. A
block's content is what the code looks at: zeros, entries of an indirect block, or
anything else. Each inode has one `struct file`, which all processes share, as after
fork. `filewrite` runs a transaction for each piece; `wrote` are the blocks it has
logged. A copy may fail in the middle of a piece. Out of blocks is a panic, in the
model an operation that does not go on.

**Tree.** A directory is a function from names to inodes, with `up` for `..`. A call
chooses the elements of its path one by one as it walks, so that every path of up to
`MaxPath` elements is there. `namex` locks one directory a step. References are
not counted: an inode stays while a process is at it and is freed when the last one
leaves and no link is left. `late` and `lost` record names made in a directory that
was removed before.

**Pipe.** The counters wrap at `UINT`, a multiple of `PIPESIZE` as 2^32 is of 512.
`write_check` and `read_check` read `killed`; the sleeps are steps of their own, so
that a kill falls between. `copyin` and `copyout` may fail. `fd` counts the
descriptors of each process for each end, which `sys_dup` and fork make and close
and exit take away; a `sys_pipe` that finds no descriptors closes its two files.

**Console.** The interrupt handler is one actor: the PLIC gives an interrupt out
again only after its completion. Typed characters are those that `consoleintr` tells
apart; what the UART holds is two counts. The echo goes to the transmit register
without `uart_tx_lock`, as `uartputc_sync` does.

**Proc.** A lock records the CPU that holds it. `scheduler_run`, `sched_return` and
`scheduler_back` hand `p->lock` over as `swtch` does. fork, exit and wait are split
where they take another lock. A scan of the table is one step at the entry it acts
on.

**Trap.** A CPU has its trap registers, `noff`, `intena` and the thread it runs; a
thread has a stack of activations, its own and `kerneltrap`'s on top. An interrupt
may come at every step with interrupts on. Locks are taken in two steps, interrupts
off and then the swap. A process sleeps in `sys_sleep` or, in a page fault, for the
disk. `sys_kill` marks a process killed and wakes it; `usertrap` looks at the mark
before a system call and at its end (`usertrap_end`), `sys_sleep` at every turn.

**Memory.** Pages are anonymous: the free list is a number, a table the set of its
page-table pages, each named by the indices that lead to it, and the set of the
virtual pages it maps. A page that is lost or freed twice shows in the sum. A loop
that allocates is one step a turn, and other processes allocate in between. Pipes
stand for the other users of pages. `walkaddr` refuses what has no PTE_U: the guard
page, the trapframe and the trampoline.

**Mmap.** Addresses are page numbers, a page table a partial map. A page remembers
the file page it came from and what was last stored in it. `vma_unmap` runs one
transaction a page and is one step a page; the other calls change only the
caller's address space and are one step. `sbrk` grows the heap into mappings too, as
`growproc` does not look at them; `overgrown`, which no action reads, records of a
process that this happened to it or to the parent it was forked from, until its
address space is given up. A panic in `vm.c` is recorded, and `panic` loops for ever.

**Virtio.** The device takes requests in order and finishes them in any order, at
any step of the driver. `kill` wakes a process that waits for its transfer or for
descriptors. Ring indices wrap at `IdxMod`, a multiple of `NUM`.

## 3. Runs

Each run is a pair `MCX.tla`, `MCX.cfg`.

| Run | Module | Distinct states | What it checks |
|---|---|---|---|
| `log` | `MCLog` | 176 000 | `CrashAtomic`: `Log` implements `Txn`. `CommitExclusive`, `ReservationSuffices`, `PinsMatchLog`, `Recovers` |
| `bcache` | `MCBcache` | 91 000 | `ImplementsBlocks`: `Bcache` implements `Blocks`. `RefsExact` |
| `inode` | `MCInode` | 969 000 | `RefsExact`, `LinksExact`, `NoCycle`, `OnlyDropLoses` |
| `file` | `MCFile` | 589 000 | `BlocksExact`, `OperationFits`, `OffsetHeld` |
| `tree` | `MCTree` | 409 000 | `TreeExact`, `NoWaitCycle` |
| `pipe` | `MCPipe` | 2 255 000 | `PipeIsFifo`: `Pipe` implements `Fifo`. `FreedLast`, `NoLostWakeup`, `ZeroRead` |
| `console` | `MCConsole` | 711 000 | `IsTerminal`: `Console` implements `Tty`. `NobodyStuck` |
| `proc` | `MCProc` | 870 000 | `FamilyKept`: `Proc` implements `Family`. `OneStack`, `SchedLocks`, `WaiterMustWait` |
| `trap` | `MCTrap` | 2 410 000 | `TrapReturns`, `LocksMasked`, `OwnCause` |
| `memory` | `MCMemory` | 128 000 | `PagesConserved`, `CopyExact` |
| `mmap` | `MCMmap` | 2 649 000 | `SpaceSound`, `PagesGoHome`, `RefsExact`, `PrivateStays`, `WriteBack` |
| `virtio` | `MCVirtio` | 113 000 | `DescsOwned`, `EntriesLive`, `ReturnsAfterTransfer`, `RequestsFinish` |

The comment above each property says what it means in terms of the code. `TypeOK`
is a conjunct of one of the invariants of each module.

### Bounds, and why they are enough

- **Log.** One process commits while the other waits, or both share a commit; their
  reservations fill the log, so that sleeping for space happens. Three blocks allow
  absorption and a commit of two. Crashes are not bounded. The proofs cover the rest.
- **Bcache.** Four blocks for three buffers force recycling; three processes give a
  user, a waiter and a recycler. `MaxPins` bounds the blocks pinned at a time.
- **Inode.** Two processes, two names and two inodes: every system call meets every
  other one, and freed inodes are used again. `MaxCrashes` bounds the crashes,
  `NOFILE` the open files of a process. There are as many table entries as inodes.
- **File.** Blocks of two bytes, one direct and up to three indirect ones, of five on
  the disk: a write starts and ends inside blocks, crosses into the indirect ones
  and runs out of blocks. With `MAXOPBLOCKS` at 6 `filewrite` cuts the longer of the
  two counts (`Counts`) into pieces. `MaxCalls` bounds the calls.
- **Tree.** The root and two more inodes: a directory in a directory, or a directory
  and a file. `MaxPath` bounds a path, `MaxLinks` the links of a file.
- **Pipe.** A ring of two bytes whose counters wrap at four. Three processes: two
  compete at one end while one is at the other. One of them can be killed
  (`Killable`). `NOFILE` lets `fdalloc` fail, and `Counts` has the empty call.
- **Console.** Rings of two whose indices wrap at four, one character in the UART
  (`MaxRx`), two processes that both read and both write. `MaxN` bounds a call.
- **Proc.** Four entries: init, a parent, a child and one that is reused.
  `MaxPid` bounds the processes ever made. Two CPUs compete for every process. kill
  is called with the pid of the second process, who forks, waits and exits, and with 0
  (`KillPids`).
- **Trap.** Two CPUs, two processes and a clock that wraps at two (`TicksMod`). Each may
  kill itself or the other.
- **Memory.** A page of two bytes, tables with four entries a level, and 18 pages,
  too few for two processes that exec or fork at once, so that every allocation
  fails somewhere. `MaxSz`, `MaxN`, `MaxArg` and `MaxPipes` bound the heap, a
  request, an argument and the pipes.
- **Mmap.** Two processes and a shared and a private mapping, of a file that can grow
  to one page (`MAXFILE`), in three pages that the heap shares (`TRAPFRAME`, `MaxSz`).
- **Virtio.** Eight descriptors as in the code (`NUM`) serve two chains of three,
  so the third process waits with two left. `IdxMod` makes the indices wrap.

Three runs have a constraint `Few`, in the MC module. `mmap`: at most two mappings at
a time, and one when the heaps of both processes have grown into mappings. `trap`: both CPUs are active with one process, or both processes on one CPU.
`console`: the output ring is untouched, or the input ring is; each of them is
explored in full beside the code of the other.

Symmetry is used only in runs without liveness properties. `CHECK_DEADLOCK FALSE`
is set where the system may stop: a pipe that everybody has closed is freed and
nothing follows; inodes or blocks that are used up make `ialloc` and `balloc` panic;
the calls of `File` are bounded.

### Fairness

- **Log.** Weak fairness of a woken process, of the end of an operation, of the
  committer and of recovery: each runs when it can, and operations are finite.
  There is none for beginning an operation. Crashes have no fairness; `Recovers`
  speaks of behaviours in which they stop.
- **Virtio.** The device works on what it has taken; the interrupt handler and the
  process that finishes get `vdisk_lock` in the end. The claim starts when a
  request has been published. Getting descriptors is not claimed: others may
  be faster for ever.

The other modules have no liveness properties. What they would say, that a wakeup
comes, is stated there as an invariant: who is asleep has a reason to be
(`NoLostWakeup`, `NobodyStuck`, `WaiterMustWait`, `LocksMasked`). That a process
which can go on does so depends on spin locks that are not fair, which the code does
not rule out.

## 4. Proofs

Everything below holds for every value of the constants under the assumptions that
their modules name, which TLC evaluates for its instances.

**Log** (`LogTheorems`): `TypeCorrect`; `CommitsAlone`, that is
`Spec => []CommitExclusive`; `PinsExact`, `Spec => []PinsMatchLog`; `Refinement`,
`Spec => CrashAtomic`. Assumed: the processes are a finite set with
`initproc` in it, the sizes are natural numbers, the log has room for the header
and a block, a reservation is not larger than the log, and `Torn` and `None` are
no values. Operations may write any number of blocks (`OpBlocks`): where
`log_write` panics, the theorems still hold. None of the properties is inductive.
That a recycled buffer loses nothing needs the pins; the pins depend on which blocks
are logged and how far `install_trans` has come; that the header is written over a
complete log needs to know what `write_log` has copied. The invariant `IInv` adds
`BootInv` (a recovering process is alone), `HeadInv` (what both headers hold at each
point of commit and recovery, without repetition, and where `tail` stands), `CopyInv`
(what has been copied to and from the log), `CacheInv` (an unpinned buffer agrees with
the disk, a dirty one is cached), `PanicInv` (a process that panicked is still in its
operation) and `CardFacts` (counting of sets of processes). There is one lemma an
action. `Refinement` maps `stable` to what recovery would make of the disk, `cur` to
what `bread` returns, and `active` to the processes in an operation. Then
`write_head` is `Txn`'s commit, every other step of the committer and all of recovery
stutter, and a torn block is one that the mapping does not look at.

`ReservationHolds`, `Spec => []ReservationSuffices`, has the hypothesis `Fits`: an
operation writes fewer than `MAXOPBLOCKS` blocks, which is less than `LOGSIZE`, and the
log on disk has `LOGSIZE` blocks, its header included. On top of `IInv` it needs
`ResInv`: what an operation has written is in the log (`WroteInv`), the log has room
for every block that the operations under way may still write, the set `Slack` of
pairs of a process and a block (`RoomInv`), and whoever sleeps has a reason to
(`WaitInv`). The room is only just enough: the header takes a block that `begin_op`
does not count, and `log_write` panics on a full log even when the block it was given
is already logged. So `RoomInv` also says that, when one operation is left, there is a
block to spare unless all that is logged is its own; with two under way, each leaves at
least one block that it reserved unwritten.

**Proc** (`ProcTheorems`): `StacksExclusive`, `Spec => []OneStack`;
`SchedLocksHeld`, `Spec => []SchedLocks`; `WaitersMustWait`,
`Spec => []WaiterMustWait`; `FamilyRefined`, `Spec => FamilyKept`. For any process
table, finite or not, and any CPUs, whatever pids kill is called with. The invariant
`ProcIInv` says who
holds a `p->lock` across a switch (`LockInv`), who is on a CPU (`RunInv`), at which
points `wait_lock` is held, and by whom (`HoldInv`), that what fork is making stays
USED and has one maker (`ForkInv`), that a free entry has no parent and init does not
exit (`TreeInv`), and that who sleeps in wait, or is about to, has children and none
that is a zombie or has already given its wakeup (`SleepInv`). `ForkInv` is needed
because fork lets go of every lock before it records the parent. `SleepInv` survives
`exit` because `reparent`, the wakeup and the zombie come under one hold of
`wait_lock`, which is what `HoldInv` is for. In the
refinement fork is done where it records the parent, exit where the children are
given away, and wait where `freeproc` clears the zombie; every other step stutters.

**Bcache** (`BcacheTheorems`): `CountsExact`, `Spec => []RefsExact`;
`CacheRefinesBlocks`, `Spec => ImplementsBlocks`. For any finite sets of processes and
buffers, and any blocks and values. The invariant `BInv` says which processes have a
buffer (`AtInv`), that the owner of a sleep lock is a process that took it
(`OwnerInv`), that the count is that of users and pins (`CountInv`), that a block has
one copy (`CopyInv`) and that a valid copy that nobody is changing or has pinned
agrees with the disk (`DataInv`). Recycling is safe because a count of 0 leaves no
user, no waiter and no pin, so that the disk has the block's content. That an unused
buffer is left as long as users and pins are fewer than the buffers is a pigeonhole
argument (`BufferLeft`).

**Pipe** (`PipeTheorems`): `PipeRefinesFifo`, `Spec => PipeIsFifo`, for every
`PIPESIZE` and every modulus of the counters that it divides (`PipeAssumption`; 512
and 2^32 in the code). Its invariant has the distance of the counters within
`PIPESIZE` (`RingInv`) and nobody at a pipe that does not exist yet (`BornInv`). The
work is in the arithmetic: that the slots of the bytes in the ring differ (`Apart`),
and that a counter that runs over still leads to the next slot, which is where
divisibility is needed (`Period`). `PipeFreedLast`, `Spec => []FreedLast`;
`PipeNoLostWakeup`, `Spec => []NoLostWakeup`; `PipeZeroRead`,
`Spec => ZeroRead`, for any finite set of processes and any number of
descriptors. They share the invariant `PipeInv`: f->ref is the number of descriptors
and of failing calls of pipe() (`RefInv`), such a call is alone with its pipe
(`UndoInv`), who reads or writes has a descriptor (`UserInv`), an end is open as long
as it has references or its last one is on the way to `pipeclose`, and the page is
freed by the one process that found both ends closed (`EndsInv`), and a sleeper's
reason to sleep lasts, or the holder of the lock is one who is going to wake it
(`SleepInv`). The references are counted as pairs of a process and a number, so that
dup and close add and remove one element and fork a product (`CountMore`,
`CountCopy`). `SleepInv` needs `EndsInv`: a writer that returns without a wakeup
because the read end is closed would strand a reader, but a reader in the pipe has a
descriptor, which keeps the end open.

**Mmap** (`MmapInv`, `MmapTheorems`): `MmapSpaceSound`, `MmapPagesGoHome`,
`MmapRefsExact` and `MmapPrivateStays`, the four invariants of the run, and
`MmapWriteBack`, `Spec => WriteBack`; for every size of the address space, any number
of entries in a table of mappings, any files and any finite set of processes, and with
heaps that grow into mappings. The
invariant `MInv` says that the layout of an address space is sound (`Spaces`), also
half-way through `vma_unmap` and `vma_unmap_all`, where it says which pages of the
entry at hand, and which entries, are gone (`Cutting`, `Clearing`); what it says of the
heap it says of processes that are not `overgrown`, and it has no panic while there
is none (`Calm`). It says that a process
that is not running has neither mappings nor descriptors (`Alive`), and what a file
can hold (`Stored`). There is one lemma for what an operation does to a layout
(`mmap` puts a mapping below the others, `munmap` cuts off a head or a tail, `fork`
copies the table and none of the pages, ...) and one for each action that it does just
that. `RefsExact` counts pairs of a process and an entry, as in the pipe.

**Console** (`ConsoleTheorems`): `ConsoleNobodyStuck`, `Spec => []NobodyStuck`;
`ConsoleRefinesTty`, `Spec => IsTerminal`. For any processes, rings of any size, and
indices that wrap at any larger multiple of it (128 and 2^32, 32 and 2^64 in the code).
The invariant `IInv` says who holds the two locks (`LockInv`), that the handler has a
character and, once it has tested for room, keeps the room, since readers only make
more (`KeyInv`), that the three indices of the input ring and the two of the output
ring are in order around it (`RingInv`), that who sleeps has a reason to (`SleepInv`),
that bytes in the output ring have an interrupt coming (`SendInv`), and that who found
the transmitter empty under `uart_tx_lock` shares it with one echo at most (`ThrInv`),
for the echo does not take that lock. In the refinement `Type` is the store of a
character, `Erase` a backspace or one turn of `^U`, `Send` the step of `uartstart` that
takes a byte out of the ring.

**Virtio** (`VirtioTheorems`): `DescriptorsOwned`, `Spec => []DescsOwned`;
`HandlerEntriesLive`, `Spec => []EntriesLive`; `TransferBeforeReturn`,
`Spec => ReturnsAfterTransfer`. For any finite set of processes, any ring of at least
three descriptors and any range of the indices that its size divides (8 and 2^16 in the
code). What the handler reads in the used ring depends on all that happened to a
request before, so the invariant `IInv` follows requests from place to place: those that
are queued or being published (`QueueInv`), those that the device works on (`WorkInv`)
and those that it has finished (`UsedInv`) are live, that is at the head of a chain whose
process still waits, and no request is in two places or twice in one (`ApartInv`). The
chains are disjoint and of three descriptors (`ChainInv`) and their number is known
(`CountInv`); who holds `vdisk_lock`, owns a chain and waits follows from where a process
is (`LockInv`), and a process that need not wait has its buffer (`DoneInv`). As every
request has three descriptors, there are fewer of them than slots: the rings do not
overflow, the indices do not catch up with each other, and entries less than `NUM` apart
have different slots also across the wrap (`Ring`), for which `NUM` must divide the
range.

`LogTheorems` and `VirtioTheorems` have their lemmas under the hypothesis `CountFacts`
of `Counting`, plain facts about finite sets. It is no assumption of the theorems: the
lemma `Counted` derives it from the library before they are drawn.

What is only model-checked: liveness (`Recovers`, `RequestsFinish`), which TLAPS 1.4.5
does not prove, and everything about `Inode`, `File`, `Tree`, `Trap` and `Memory`. `Memory` has recursive operators, which the prover's SMT backend does not
take. For the others the inductive invariants have not been worked out as proofs.

## 5. What the checks show

All properties hold, and the theorems are proved. Some properties hold under a
condition that the code does not enforce, or allow for something that it does. The
condition is a constant or part of the property; without it TLC finds a
counterexample:

- **Log.** `ReservationSuffices` needs operations that write fewer than `MAXOPBLOCKS`
  blocks. With `OpBlocks = MAXOPBLOCKS` full operations reach the panic "too big a
  transaction" (`log.c:221`): `mkfs` counts the header block in the log
  (`src/mkfs/mkfs.c:25`), `begin_op` does not.
- **Bcache.** The run reaches `bget`'s panic (`bio.c:88`). `RefsExact` says that users,
  waiters and pins then have all the buffers; nothing in the code keeps them below
  `NBUF`.
- **Inode.** `iput` tests for the last reference once, frees the inode on disk, gives
  up both locks and then drops its reference (`fs.c:356`). In between `ialloc` can find
  the inode free and `iget` its old table entry. If the new file is closed and unlinked
  before the first `iput` goes on, those see one reference too many and leave the
  freeing to it; it does not look again, and the inode stays allocated without a name
  or an open file. `OnlyDropLoses` says that, crashes aside, there is no other way to
  lose one.
- **Tree.** create and link lock the directory that `nameiparent` found some time
  ago, which may have been removed since (`sysfile.c:302`). The new name is then lost
  with the directory, and its inode keeps the link count; `TreeExact` counts these. For
  the same reason `..` of a removed directory may name a freed inode, on which `ilock`
  panics ("ilock: no type"); `TreeExact` speaks of directories that have a name.
- **Pipe.** `NoLostWakeup` speaks of pipes none of whose users was killed. A killed
  writer returns at `pipe.c:84` without waking readers, who may sleep beside unread
  bytes until another write or close. `piperead` takes a byte out of the ring before
  `copyout` refuses its address (`pipe.c:123`). If that is the first one, the call
  returns 0, as at end of file, with writers there and a byte gone; `ZeroRead` allows
  this and no other false end of file.
- **Proc.** A kill between `wait`'s test of `p->killed` (`proc.c:549`) and its `sleep`
  wakes nobody; `WaiterMustWait` does not speak of it. `kill(0)` matches a free entry
  (`proc.c:714`), whose next user is born killed: `allocproc` does not clear the mark.
  `WaiterMustWait` says that a killed process was named to kill, or 0 was.
- **Trap.** A page fault may sleep for the disk, other traps overwrite `scause`, and
  `usertrap` then calls `devintr`, which reads it again (`trap.c:69`). `OwnCause`
  allows this for a fault that slept and was then refused, whose process is not killed
  but goes back to the instruction that faulted. A negative argument of
  `sys_sleep` is taken for a large unsigned one (`sysproc.c:65`).
- **Mmap.** `src/docs/labs/10-mmap.md:96` says that mappings are placed apart from the
  contiguous low memory. `sys_mmap` does so; `growproc` looks at `p->sz` alone
  (`proc.c:381`) and grows the heap into a mapping when asked to. After that one
  address belongs to both, sbrk can drop a mapping's page without writing it back,
  munmap leaves a hole in the heap, and fork or wait reaches a panic of `vm.c` that
  expects none. `SpaceSound` says that this is the only way to any of it: without its
  exception for `overgrown` processes, TLC reaches the overlap with one mmap and one
  sbrk. That mappings are disjoint, `RefsExact` and `PrivateStays` hold regardless.
- **Memory.** `CopyExact` is about processes without mappings. `walkaddr` refuses pages
  of a mapping that were never touched (`vm.c:353`).

## 6. What is not modelled

- The kernel's page table, boot, device set-up, `printf` and string functions:
  sequential code without shared state, or formatting.
- Assembly (`swtch.S`, `trampoline.S`, `kernelvec.S`): present in where it goes and
  which trap registers it reads, not in which general registers it saves.
- ELF headers: exec's loads are page-table operations that may fail at any point.
- `filestat`, `fetchaddr` and the like, which copy and change nothing.
- The free list of `kalloc`: its pages are a number.
- `ramdisk.c`, which is not linked; `mkfs`; user programs, except for init's loop;
  documents.

Parts meet at their promises: `Inode` and `File` use of the log that a crash returns
to the last commit, which is `Txn`, and `Log` uses of the cache what `Blocks` says.
These joints are by reading, not checked by a tool. The status of each component is in
`PROJECT.json`.
