------------------------------- MODULE Memory -------------------------------
(***************************************************************************)
(* Physical pages and user page tables: kernel/kalloc.c, the user half of  *)
(* vm.c, and what allocproc, fork, growproc, exec, sys_exec and freeproc   *)
(* do with them, when any allocation may fail.                             *)
(*                                                                         *)
(* Pages are anonymous: free is the length of the free list, a table is    *)
(* its page-table pages, named by the indices that lead to them, and the   *)
(* virtual pages it maps.  A page freed twice or never is a page too many  *)
(* or too few.  A step is one turn of a loop that allocates.               *)
(***************************************************************************)
EXTENDS Integers, Sequences, FiniteSets, FiniteSetsExt

CONSTANTS
  Procs, init,   \* process slots; initproc
  None,
  NPAGES,        \* pages between end and PHYSTOP, once the kernel has its own
  PGSIZE,        \* bytes of a page
  NPTE,          \* entries of a page-table page (512)
  UINT,          \* modulus of a C uint (2^32)
  MaxN,          \* most bytes growproc is asked for
  MaxSz,         \* largest process, in bytes
  MaxArg,        \* most arguments of exec
  MaxPipes       \* most pages held by pipes

MAXVA      == (NPTE * NPTE * NPTE) \div 2     \* in pages
TRAMPOLINE == MAXVA - 1
TRAPFRAME  == MAXVA - 2

ASSUME MemoryAssumption ==
  /\ init \in Procs /\ None \notin Procs
  /\ {NPAGES, PGSIZE, UINT, MaxN, MaxSz, MaxArg, MaxPipes} \subseteq Nat
  /\ PGSIZE > 0 /\ NPTE \in Nat \ {0, 1} /\ NPTE % 2 = 0
  /\ MaxN + MaxSz < UINT /\ MaxSz + 3 * PGSIZE <= TRAPFRAME * PGSIZE

VARIABLES
  free,          \* pages on kmem.freelist
  tab, tf, sz,   \* p->pagetable, whether p->trapframe is there, p->sz
  pc,
  a, lo, hi,     \* uvmalloc's cursor, oldsz and newsz; a is uvmcopy's i too
  nt, nsz,       \* exec's pagetable and sz
  argc,          \* pages of sys_exec's argv
  child,         \* fork's np
  pipes,         \* pages held by pipes
  panicked

local == <<a, lo, hi, nt, nsz, argc, child>>
vars == <<free, tab, tf, sz, pc, local, pipes, panicked>>

PGROUNDUP(n) == ((n + PGSIZE - 1) \div PGSIZE) * PGSIZE
Pages(n)     == PGROUNDUP(n) \div PGSIZE

\* A page table: nodes are page-table pages, leaf the virtual pages mapped,
\* guard those of them without PTE_U among the user's.  Null is no table.
Null == [nodes |-> {}, leaf |-> {}, guard |-> {}]
User(t) == t.leaf \ {TRAMPOLINE, TRAPFRAME}

\* What the functions below work on and return: the free list, a table, whether
\* they succeeded, whether they panicked.
On(f, t) == [free |-> f, t |-> t, ok |-> TRUE, bad |-> FALSE]
Failed(m) == [m EXCEPT !.ok = FALSE]

----------------------------------------------------------------------------
(* kalloc.c and vm.c                                                        *)

kalloc(m) == IF m.free = 0 THEN Failed(m) ELSE [m EXCEPT !.free = @ - 1, !.ok = TRUE]
kfree(m)  == [m EXCEPT !.free = @ + 1]

PX(level, va) == (va \div NPTE^level) % NPTE
Path(va) == {<<>>, <<PX(2, va)>>, <<PX(2, va), PX(1, va)>>}

\* walk with alloc: the missing page-table pages, from the root down, until
\* memory runs out.
walk(m, va) ==
  LET missing == Path(va) \ m.t.nodes
      made == {q \in missing : Cardinality({r \in missing : Len(r) < Len(q)}) < m.free}
  IN [m EXCEPT !.free = @ - Cardinality(made), !.t.nodes = @ \cup made,
               !.ok = made = missing]

mappages(m, va) ==
  LET w == walk(m, va) IN
  IF w.ok THEN [w EXCEPT !.bad = @ \/ va \in w.t.leaf, !.t.leaf = @ \cup {va}] ELSE w

uvmunmap(m, va, npages, do_free) ==
  LET gone == va .. (va + npages - 1) IN
  [m EXCEPT !.bad = @ \/ ~(gone \subseteq m.t.leaf),
            !.t.leaf = @ \ gone, !.t.guard = @ \ gone,
            !.free = IF do_free THEN @ + npages ELSE @]

uvmcreate(m) == LET k == kalloc(m) IN IF k.ok THEN [k EXCEPT !.t.nodes = {<<>>}] ELSE k

freewalk(m) ==
  [m EXCEPT !.bad = @ \/ m.t.leaf # {}, !.free = @ + Cardinality(m.t.nodes), !.t = Null]

uvmfree(m, n) == freewalk(IF n > 0 THEN uvmunmap(m, 0, Pages(n), TRUE) ELSE m)

uvmdealloc(m, oldsz, newsz) ==
  IF Pages(newsz) < Pages(oldsz)
  THEN uvmunmap(m, Pages(newsz), Pages(oldsz) - Pages(newsz), TRUE) ELSE m

\* The guard page below the stack
uvmclear(t, va) == [t EXCEPT !.guard = @ \cup {va}]

\* Mutant: the page that could not be mapped is not given back.
uvmalloc_turn_Leaks(m, va, oldsz) ==
  LET k == kalloc(m)
      w == mappages(k, va)
      undo(x) == Failed(uvmdealloc(x, va * PGSIZE, oldsz))
  IN CASE ~k.ok -> undo(k)
       [] k.ok /\ ~w.ok -> undo(w)
       [] OTHER -> w

\* One turn of uvmalloc's loop, at page va; on failure what came since oldsz
\* goes.  uvmcopy's turn is the same with oldsz 0.
uvmalloc_turn(m, va, oldsz) ==
  LET k == kalloc(m)
      w == mappages(k, va)
      undo(x) == Failed(uvmdealloc(x, va * PGSIZE, oldsz))
  IN CASE ~k.ok -> undo(k)
       [] k.ok /\ ~w.ok -> undo(kfree(w))
       [] OTHER -> w

----------------------------------------------------------------------------
(* Page tables of processes                                                 *)

proc_pagetable(m) ==
  LET c  == uvmcreate(m)
      t1 == mappages(c, TRAMPOLINE)
      t2 == mappages(t1, TRAPFRAME)
  IN CASE ~c.ok -> c
       [] c.ok /\ ~t1.ok -> Failed(uvmfree(t1, 0))
       [] c.ok /\ t1.ok /\ ~t2.ok -> Failed(uvmfree(uvmunmap(t2, TRAMPOLINE, 1, FALSE), 0))
       [] OTHER -> t2

proc_freepagetable(m, n) ==
  uvmfree(uvmunmap(uvmunmap(m, TRAMPOLINE, 1, FALSE), TRAPFRAME, 1, FALSE), n)

\* allocproc: the trapframe, then the table; freeproc when either fails.
allocproc(f) ==
  LET k == kalloc(On(f, Null))
      t == proc_pagetable(k)
  IN IF ~k.ok THEN k ELSE IF ~t.ok THEN kfree(t) ELSE t

\* freeproc of a process with table t and size n
freeproc(f, t, n) == kfree(proc_freepagetable(On(f, t), n))

\* userinit, uvminit: the first process has one page.
FirstProc == LET m == allocproc(NPAGES) IN mappages(kalloc(m), 0)

Init ==
  /\ free = FirstProc.free
  /\ tab = [p \in Procs |-> IF p = init THEN FirstProc.t ELSE Null]
  /\ tf = [p \in Procs |-> p = init]
  /\ sz = [p \in Procs |-> IF p = init THEN PGSIZE ELSE 0]
  /\ pc = [p \in Procs |-> IF p = init THEN "user" ELSE "unused"]
  /\ a = [p \in Procs |-> 0] /\ lo = [p \in Procs |-> 0] /\ hi = [p \in Procs |-> 0]
  /\ nt = [p \in Procs |-> Null] /\ nsz = [p \in Procs |-> 0]
  /\ argc = [p \in Procs |-> 0] /\ child = [p \in Procs |-> None]
  /\ pipes = 0 /\ panicked = FALSE

Goto(p, l) == pc' = [pc EXCEPT ![p] = l]
Took(m)    == free' = m.free /\ panicked' = (panicked \/ m.bad)

----------------------------------------------------------------------------
(* fork                                                                     *)

fork(p, np) ==
  LET m == allocproc(free) IN
  /\ pc[p] = "user" /\ pc[np] = "unused"
  /\ Took(m)
  /\ IF m.ok
     THEN /\ tab' = [tab EXCEPT ![np] = m.t] /\ tf' = [tf EXCEPT ![np] = TRUE]
          /\ child' = [child EXCEPT ![p] = np] /\ a' = [a EXCEPT ![p] = 0]
          /\ pc' = [pc EXCEPT ![p] = "copy", ![np] = "used"]
     ELSE UNCHANGED <<tab, tf, child, a, pc>>
  /\ UNCHANGED <<sz, lo, hi, nt, nsz, argc, pipes>>

\* A turn of uvmcopy, flags included; when it fails, freeproc(np), whose sz is
\* still 0.
uvmcopy(p) ==
  LET np == child[p]
      m  == uvmalloc_turn(On(free, tab[np]), a[p], 0)
      u  == freeproc(m.free, m.t, 0)
      absent == a[p] \notin tab[p].leaf
  IN
  /\ pc[p] = "copy" /\ a[p] * PGSIZE < sz[p]
  /\ IF m.ok
     THEN /\ free' = m.free /\ panicked' = (panicked \/ m.bad \/ absent)
          /\ tab' = [tab EXCEPT ![np] = [m.t EXCEPT !.guard = @ \cup (tab[p].guard \cap {a[p]})]]
          /\ a' = [a EXCEPT ![p] = @ + 1]
          /\ UNCHANGED <<tf, pc, child>>
     ELSE /\ free' = u.free /\ panicked' = (panicked \/ m.bad \/ u.bad \/ absent)
          /\ tab' = [tab EXCEPT ![np] = u.t] /\ tf' = [tf EXCEPT ![np] = FALSE]
          /\ pc' = [pc EXCEPT ![p] = "user", ![np] = "unused"]
          /\ a' = [a EXCEPT ![p] = 0] /\ child' = [child EXCEPT ![p] = None]
  /\ UNCHANGED <<sz, lo, hi, nt, nsz, argc, pipes>>

fork_end(p) ==
  LET np == child[p] IN
  /\ pc[p] = "copy" /\ a[p] * PGSIZE >= sz[p]
  /\ sz' = [sz EXCEPT ![np] = sz[p]]
  /\ pc' = [pc EXCEPT ![p] = "user", ![np] = "user"]
  /\ a' = [a EXCEPT ![p] = 0] /\ child' = [child EXCEPT ![p] = None]
  /\ UNCHANGED <<free, tab, tf, lo, hi, nt, nsz, argc, pipes, panicked>>

----------------------------------------------------------------------------
(* growproc                                                                 *)

\* sz + n is a uint: a size below zero comes out as a large one, and
\* uvmdealloc has nothing to do.
growproc(p, n) ==
  LET newsz == (sz[p] + n) % UINT
      m == uvmdealloc(On(free, tab[p]), sz[p], newsz)
  IN
  /\ pc[p] = "user" /\ n # 0 /\ sz[p] + n <= MaxSz
  /\ IF n > 0
     THEN /\ a' = [a EXCEPT ![p] = Pages(sz[p])] /\ lo' = [lo EXCEPT ![p] = PGROUNDUP(sz[p])]
          /\ hi' = [hi EXCEPT ![p] = newsz]
          /\ Goto(p, "grow")
          /\ UNCHANGED <<free, tab, sz, panicked>>
     ELSE /\ Took(m) /\ tab' = [tab EXCEPT ![p] = m.t]
          /\ sz' = [sz EXCEPT ![p] = IF newsz >= @ THEN @ ELSE newsz]
          /\ UNCHANGED <<a, lo, hi, pc>>
  /\ UNCHANGED <<tf, nt, nsz, argc, child, pipes>>

sys_sbrk(p) == \E n \in (0 - MaxN) .. MaxN : growproc(p, n)

Reset(p) == a' = [a EXCEPT ![p] = 0] /\ lo' = [lo EXCEPT ![p] = 0] /\ hi' = [hi EXCEPT ![p] = 0]

growproc_turn(p) ==
  LET m == uvmalloc_turn(On(free, tab[p]), a[p], lo[p]) IN
  /\ pc[p] = "grow" /\ a[p] * PGSIZE < hi[p]
  /\ Took(m) /\ tab' = [tab EXCEPT ![p] = m.t]
  /\ IF m.ok THEN a' = [a EXCEPT ![p] = @ + 1] /\ UNCHANGED <<lo, hi, pc>>
             ELSE Reset(p) /\ Goto(p, "user")
  /\ UNCHANGED <<tf, sz, nt, nsz, argc, child, pipes>>

growproc_end(p) ==
  /\ pc[p] = "grow" /\ a[p] * PGSIZE >= hi[p]
  /\ sz' = [sz EXCEPT ![p] = hi[p]]
  /\ Reset(p) /\ Goto(p, "user")
  /\ UNCHANGED <<free, tab, tf, nt, nsz, argc, child, pipes, panicked>>

----------------------------------------------------------------------------
(* exec                                                                     *)

\* A turn of sys_exec's loop: a page for an argument, or the end of argv.
\* The string may not be readable, and there may be too many arguments.
sys_exec(p) ==
  LET k == kalloc(On(free, Null)) IN
  /\ pc[p] \in {"user", "args"}
  /\ \/ /\ argc[p] < MaxArg /\ k.ok
        /\ free' = k.free /\ argc' = [argc EXCEPT ![p] = @ + 1]
        /\ \E l \in {"args", "freeargs"} : Goto(p, l)
     \/ /\ argc[p] = MaxArg \/ ~k.ok
        /\ Goto(p, "freeargs") /\ UNCHANGED <<free, argc>>
     \/ Goto(p, "exec") /\ UNCHANGED <<free, argc>>
  /\ UNCHANGED <<tab, tf, sz, a, lo, hi, nt, nsz, child, pipes, panicked>>

\* The file is not there or no program, or a new table for it.
exec(p) ==
  LET m == proc_pagetable(On(free, Null)) IN
  /\ pc[p] = "exec"
  /\ \/ Goto(p, "freeargs") /\ UNCHANGED <<free, nt, panicked>>
     \/ /\ Took(m) /\ nt' = [nt EXCEPT ![p] = m.t]
        /\ Goto(p, IF m.ok THEN "load" ELSE "freeargs")
  /\ UNCHANGED <<tab, tf, sz, a, lo, hi, nsz, argc, child, pipes>>

\* uvmalloc(pagetable, sz, newsz): nothing when newsz < sz
uvmalloc(p, newsz, l) ==
  /\ a' = [a EXCEPT ![p] = Pages(nsz[p])] /\ lo' = [lo EXCEPT ![p] = PGROUNDUP(nsz[p])]
  /\ hi' = [hi EXCEPT ![p] = IF newsz < nsz[p] THEN nsz[p] ELSE newsz]
  /\ Goto(p, l)

\* The next program header: not readable or not sound, or memory up to
\* vaddr + memsz; or there is none, and two pages for the stack.
exec_load(p) ==
  /\ pc[p] = "load"
  /\ \/ Goto(p, "bad") /\ UNCHANGED <<a, lo, hi, nsz>>
     \/ \E e \in 0 .. MaxSz : uvmalloc(p, e, "segment") /\ UNCHANGED nsz
     \/ /\ nsz' = [nsz EXCEPT ![p] = PGROUNDUP(@)]
        /\ uvmalloc(p, PGROUNDUP(nsz[p]) + 2 * PGSIZE, "stack")
  /\ UNCHANGED <<free, tab, tf, sz, nt, argc, child, pipes, panicked>>

exec_turn(p) ==
  LET m == uvmalloc_turn(On(free, nt[p]), a[p], lo[p]) IN
  /\ pc[p] \in {"segment", "stack"} /\ a[p] * PGSIZE < hi[p]
  /\ Took(m) /\ nt' = [nt EXCEPT ![p] = m.t]
  /\ IF m.ok THEN a' = [a EXCEPT ![p] = @ + 1] /\ UNCHANGED <<lo, hi, pc>>
             ELSE Reset(p) /\ Goto(p, "bad")
  /\ UNCHANGED <<tab, tf, sz, nsz, argc, child, pipes>>

\* A size of 0 is an error.  loadseg reads the file into the segment, whose
\* pages must be there, and may fail.  After the stack: uvmclear, and the
\* arguments, which may not fit.
exec_loaded(p) ==
  LET seg == pc[p] = "segment" IN
  /\ pc[p] \in {"segment", "stack"} /\ a[p] * PGSIZE >= hi[p]
  /\ Reset(p)
  /\ nsz' = [nsz EXCEPT ![p] = hi[p]]
  /\ panicked' = (panicked \/ (seg /\ ~(0 .. (Pages(hi[p]) - 1) \subseteq nt[p].leaf)))
  /\ nt' = IF seg THEN nt ELSE [nt EXCEPT ![p] = uvmclear(@, Pages(hi[p]) - 2)]
  /\ \/ hi[p] > 0 /\ Goto(p, IF seg THEN "load" ELSE "commit")
     \/ Goto(p, "bad")
  /\ UNCHANGED <<free, tab, tf, sz, argc, child, pipes>>

\* The old table goes, with the size the process had.
exec_commit(p) ==
  LET m == proc_freepagetable(On(free, tab[p]), sz[p]) IN
  /\ pc[p] = "commit"
  /\ Took(m)
  /\ tab' = [tab EXCEPT ![p] = nt[p]] /\ sz' = [sz EXCEPT ![p] = nsz[p]]
  /\ nt' = [nt EXCEPT ![p] = Null] /\ nsz' = [nsz EXCEPT ![p] = 0]
  /\ Goto(p, "freeargs")
  /\ UNCHANGED <<tf, a, lo, hi, argc, child, pipes>>

exec_bad(p) ==
  LET m == proc_freepagetable(On(free, nt[p]), nsz[p]) IN
  /\ pc[p] = "bad"
  /\ Took(m)
  /\ nt' = [nt EXCEPT ![p] = Null] /\ nsz' = [nsz EXCEPT ![p] = 0]
  /\ Goto(p, "freeargs")
  /\ UNCHANGED <<tab, tf, sz, a, lo, hi, argc, child, pipes>>

sys_exec_end(p) ==
  /\ pc[p] = "freeargs"
  /\ free' = free + argc[p] /\ argc' = [argc EXCEPT ![p] = 0]
  /\ Goto(p, "user")
  /\ UNCHANGED <<tab, tf, sz, a, lo, hi, nt, nsz, child, pipes, panicked>>

----------------------------------------------------------------------------
(* Copies between user and kernel                                           *)

\* walkaddr finds page va in table t, with PTE_U: uvmclear took it from the guard
\* page, and the trampoline and the trapframe are mapped without.
walkaddr(t, va) == va < MAXVA /\ va \in User(t) \ t.guard

\* Mutant: the first page is taken to be whole.
InPage_Whole(va, len) == IF PGSIZE < len THEN PGSIZE ELSE len

\* The bytes of [va, va + len) in va's page
InPage(va, len) == LET n == PGSIZE - (va % PGSIZE) IN IF n > len THEN len ELSE n

\* copyin and copyout of len bytes at va: the addresses moved, None if refused
RECURSIVE copyin(_, _, _)
copyin(t, va, len) ==
  IF len = 0 THEN <<>>
  ELSE LET n == InPage(va, len)
           rest == copyin(t, (va \div PGSIZE + 1) * PGSIZE, len - n)
       IN IF ~walkaddr(t, va \div PGSIZE) \/ rest = None THEN None
          ELSE [k \in 1 .. n |-> va + k - 1] \o rest

\* copyinstr, when the bytes at zeros are '\0': the length of the string
RECURSIVE copyinstr(_, _, _, _)
copyinstr(t, va, max, zeros) ==
  IF max = 0 \/ ~walkaddr(t, va \div PGSIZE) THEN None
  ELSE LET n == InPage(va, max)
           z == {k \in 0 .. (n - 1) : va + k \in zeros}
           rest == copyinstr(t, (va \div PGSIZE + 1) * PGSIZE, max - n, zeros)
       IN IF z # {} THEN CHOOSE k \in z : \A j \in z : k <= j
          ELSE IF rest = None THEN None ELSE n + rest

----------------------------------------------------------------------------
\* exit; and freeproc of the zombie, in its parent's wait
exit(p) ==
  /\ pc[p] = "user" /\ p # init
  /\ Goto(p, "zombie")
  /\ UNCHANGED <<free, tab, tf, sz, local, pipes, panicked>>

wait(p) ==
  LET m == freeproc(free, tab[p], sz[p]) IN
  /\ pc[p] = "zombie"
  /\ Took(m)
  /\ tab' = [tab EXCEPT ![p] = m.t] /\ tf' = [tf EXCEPT ![p] = FALSE]
  /\ sz' = [sz EXCEPT ![p] = 0]
  /\ Goto(p, "unused")
  /\ UNCHANGED <<local, pipes>>

\* Pipes are the other users of pages.
pipealloc ==
  /\ pipes < MaxPipes /\ free > 0
  /\ pipes' = pipes + 1 /\ free' = free - 1
  /\ UNCHANGED <<tab, tf, sz, pc, local, panicked>>

pipeclose ==
  /\ pipes > 0
  /\ pipes' = pipes - 1 /\ free' = free + 1
  /\ UNCHANGED <<tab, tf, sz, pc, local, panicked>>

Next ==
  \/ \E p \in Procs :
       \/ \E np \in Procs : fork(p, np)
       \/ uvmcopy(p) \/ fork_end(p)
       \/ sys_sbrk(p) \/ growproc_turn(p) \/ growproc_end(p)
       \/ sys_exec(p) \/ exec(p) \/ exec_load(p) \/ exec_turn(p) \/ exec_loaded(p)
       \/ exec_commit(p) \/ exec_bad(p) \/ sys_exec_end(p)
       \/ exit(p) \/ wait(p)
  \/ pipealloc \/ pipeclose

Spec == Init /\ [][Next]_vars

----------------------------------------------------------------------------
(* Properties                                                               *)

TypeOK ==
  LET IsTable(t) ==
        /\ t.leaf \subseteq 0 .. TRAMPOLINE /\ t.guard \subseteq t.leaf
        /\ t.nodes \subseteq UNION {Path(va) : va \in 0 .. TRAMPOLINE}
  IN
  /\ free \in 0 .. NPAGES /\ pipes \in 0 .. MaxPipes
  /\ \A p \in Procs : IsTable(tab[p]) /\ IsTable(nt[p])
  /\ tf \in [Procs -> BOOLEAN] /\ {sz, a, lo, hi, nsz, argc} \subseteq [Procs -> Nat]
  /\ pc \in [Procs -> {"unused", "used", "user", "zombie", "grow", "copy", "args", "exec",
                       "load", "segment", "stack", "commit", "bad", "freeargs"}]
  /\ child \in [Procs -> Procs \cup {None}]

\* The pages process p accounts for: its tables, what they map for the user,
\* its trapframe and its arguments
Owned(p) ==
  Cardinality(tab[p].nodes) + Cardinality(User(tab[p]))
    + Cardinality(nt[p].nodes) + Cardinality(User(nt[p]))
    + (IF tf[p] THEN 1 ELSE 0) + argc[p]

\* Between system calls p->sz tells what is mapped: the user's pages are those
\* below sz, and the table has the pages that lead to them, to the trampoline
\* and to the trapframe; a slot that is not used holds nothing.
SizeTells(p) ==
  /\ pc[p] \in {"user", "zombie"} =>
       /\ tf[p] /\ tab[p].leaf = (0 .. (Pages(sz[p]) - 1)) \cup {TRAMPOLINE, TRAPFRAME}
       /\ UNION {Path(va) : va \in tab[p].leaf} \subseteq tab[p].nodes
       /\ tab[p].guard \subseteq User(tab[p])
       /\ nt[p] = Null /\ argc[p] = 0
  /\ pc[p] = "unused" => ~tf[p] /\ tab[p] = Null /\ sz[p] = 0

\* No page is lost and none is freed twice, at whatever allocation uvmalloc,
\* uvmcopy, proc_pagetable, allocproc, exec or sys_exec give up: every page is on
\* the free list or has one owner.  p->sz still tells what is mapped, which
\* uvmcopy, uvmunmap and freewalk rely on; so none of the panics of mappages,
\* uvmunmap, freewalk, uvmcopy and loadseg is reached.
PagesConserved ==
  /\ TypeOK
  /\ ~panicked
  /\ free + pipes + MapThenSumSet(Owned, Procs) = NPAGES
  /\ \A p \in Procs : SizeTells(p)

\* copyin, copyout and copyinstr go page by page through the table a process
\* has by now; what they move is the bytes asked for, in order, and they refuse
\* exactly when one of those bytes (for a string, those up to its '\0' or to max)
\* is not the user's: beyond sz (the trapframe and the trampoline, which are
\* mapped there, and what lies at MAXVA included), or in the guard page below
\* the stack.
CopyExact ==
  \A p \in Procs : pc[p] = "user" =>
    \A va \in 0 .. (4 * PGSIZE - 1) \cup (TRAPFRAME - 1) * PGSIZE .. MAXVA * PGSIZE,
       len \in {1, PGSIZE + 1, 2 * PGSIZE + 1} :
      LET mine(n) == \A x \in va .. (va + n - 1) :
                       x < PGROUNDUP(sz[p]) /\ x \div PGSIZE \notin tab[p].guard
      IN
      /\ copyin(tab[p], va, len) = IF mine(len) THEN [k \in 1 .. len |-> va + k - 1] ELSE None
      /\ \A z \in {va, va + PGSIZE + 1} :
           copyinstr(tab[p], va, len, {z}) =
             IF z < va + len /\ mine(z - va + 1) THEN z - va ELSE None
=============================================================================
