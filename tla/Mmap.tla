-------------------------------- MODULE Mmap --------------------------------
(***************************************************************************)
(* User address spaces with file-backed mappings: sys_mmap, sys_munmap,    *)
(* vma_fault, vma_unmap and vma_unmap_all of kernel/proc.c and sysfile.c,  *)
(* with fork, exec, exit, wait's freeproc, sbrk and the page-table walks   *)
(* of kernel/vm.c they use.                                                *)
(*                                                                         *)
(* Addresses and lengths are in pages; the page table is a partial map     *)
(* from page numbers to pages.  A process changes only its own address     *)
(* space, so a system call is one step, except vma_unmap, whose loop runs  *)
(* one transaction per page and interleaves with the other processes at    *)
(* the files.  A fault that vma_fault refuses kills the process, which is  *)
(* the step exit.                                                          *)
(***************************************************************************)
EXTENDS Naturals, Sequences, FiniteSets, FiniteSetsExt

CONSTANTS
  Procs, first,   \* processes; init, which exists at the start
  Files,          \* open-file entries, each with an inode of its own
  Writable,       \* the files that are opened for writing
  None,
  NVMA,           \* entries of p->vmas
  TRAPFRAME,      \* first page number above the mappings
  InitSz,         \* p->sz of a new image
  FileSize,       \* pages a file has at the start
  MAXFILE,        \* most pages a file can have
  Requests,       \* the lengths, protections and flags given to mmap
  MaxSz           \* bound on the pages sbrk is asked for

ASSUME MmapAssumption ==
  /\ IsFiniteSet(Procs)
  /\ first \in Procs /\ Writable \subseteq Files
  /\ NVMA \in Nat \ {0} /\ TRAPFRAME \in Nat /\ InitSz \in 1 .. TRAPFRAME
  /\ MaxSz \in InitSz .. TRAPFRAME
  /\ FileSize \in Nat /\ MAXFILE \in Nat /\ FileSize <= MAXFILE
  /\ Requests \subseteq [length : Nat \ {0}, prot : SUBSET {"R", "W"} \ {{}},
                         flags : {"MAP_SHARED", "MAP_PRIVATE"}]

VARIABLES
  life,      \* of each process: unborn, alive, zombie
  sz,        \* p->sz, in pages
  vmas,      \* p->vmas
  pte,       \* the valid leaves of p->pagetable above and below sz
  fds,       \* the files each process has open
  ref,       \* f->ref
  data,      \* contents of the inodes, a sequence of pages
  job,       \* the vma_unmap a process is in the middle of
  overgrown, \* history: sbrk grew the heap of the image into a mapping, here or
             \* in the process it was forked from
  panicked   \* the kernel has panicked: nothing moves any more, and what the
             \* step that panicked leaves in the other variables means nothing

vars == <<life, sz, vmas, pte, fds, ref, data, job, overgrown, panicked>>

Pages   == 0 .. (TRAPFRAME - 1)
Slots   == 1 .. NVMA
\* What a page holds: what the file held at first, nothing, program data, or
\* what the process stored there through a shared or a private mapping.
Vals    == {"file", "zero", "heap", "shared", "private"}
VMA     == [addr : Pages, length : 1 .. TRAPFRAME, prot : SUBSET {"R", "W"},
            flags : {"MAP_SHARED", "MAP_PRIVATE"}, file : Files, offset : Nat]
\* w is PTE_W; home remembers the file page vma_fault read, as <<file, index>>.
Page    == [val : Vals, w : BOOLEAN, home : {None} \cup (Files \X Nat)]
Heap    == [val |-> "heap", w |-> TRUE, home |-> None]
Image(n) == [a \in Pages |-> IF a < n THEN Heap ELSE None]
\* A vma_unmap of [addr, end) under way in slot, at page va, called by "then";
\* i is the loop index of vma_unmap_all.
Job     == [then : {"munmap", "exit", "exec"}, i : 0 .. NVMA, slot : 0 .. NVMA,
            addr : Pages, va : 0 .. TRAPFRAME, end : 0 .. TRAPFRAME]

\* None is no entry, page or job.
ASSUME NoneAssumption == None \notin VMA \cup Page \cup Job

Init ==
  /\ life = [p \in Procs |-> IF p = first THEN "alive" ELSE "unborn"]
  /\ sz = [p \in Procs |-> IF p = first THEN InitSz ELSE 0]
  /\ vmas = [p \in Procs |-> [s \in Slots |-> None]]
  /\ pte = [p \in Procs |-> Image(sz[p])]
  /\ fds = [p \in Procs |-> {}]
  /\ ref = [f \in Files |-> 0]
  /\ data = [f \in Files |-> [i \in 1 .. FileSize |-> "file"]]
  /\ job = [p \in Procs |-> None]
  /\ overgrown = [p \in Procs |-> FALSE]
  /\ panicked = FALSE

Used(p)    == {s \in Slots : vmas[p][s] # None}
End(v)     == v.addr + v.length
Covers(v, a) == v.addr <= a /\ a < End(v)
Running(p) == life[p] = "alive" /\ job[p] = None /\ ~panicked

----------------------------------------------------------------------------
(* Open files                                                               *)

open(p, f) ==
  /\ Running(p) /\ ref[f] = 0
  /\ ref' = [ref EXCEPT ![f] = 1]
  /\ fds' = [fds EXCEPT ![p] = @ \cup {f}]
  /\ UNCHANGED <<life, sz, vmas, pte, data, job, overgrown, panicked>>

close(p, f) ==
  /\ Running(p) /\ f \in fds[p]
  /\ ref' = [ref EXCEPT ![f] = @ - 1]
  /\ fds' = [fds EXCEPT ![p] = @ \ {f}]
  /\ UNCHANGED <<life, sz, vmas, pte, data, job, overgrown, panicked>>

----------------------------------------------------------------------------
(* mmap, page faults and stores                                             *)

\* mmap's test of the file's mode
Permitted(r, f) ==
  r.flags = "MAP_SHARED" /\ "W" \in r.prot => f \in Writable

Lowest(p) == Min({TRAPFRAME} \cup {vmas[p][s].addr : s \in Used(p)})

\* Mutant: the mapping takes no reference of its own.
mmap_NoDup(p, r, f) ==
  LET free == Slots \ Used(p) IN
  /\ Running(p) /\ f \in fds[p]
  /\ Permitted(r, f)
  /\ free # {} /\ sz[p] + r.length <= Lowest(p)
  /\ vmas' = [vmas EXCEPT ![p][Min(free)] =
       [addr |-> Lowest(p) - r.length, length |-> r.length, prot |-> r.prot,
        flags |-> r.flags, file |-> f, offset |-> 0]]
  /\ UNCHANGED <<life, sz, pte, fds, ref, data, job, overgrown, panicked>>

mmap(p, r, f) ==
  LET free == Slots \ Used(p) IN
  /\ Running(p) /\ f \in fds[p]
  /\ Permitted(r, f)
  /\ free # {} /\ sz[p] + r.length <= Lowest(p)
  /\ vmas' = [vmas EXCEPT ![p][Min(free)] =
       [addr |-> Lowest(p) - r.length, length |-> r.length, prot |-> r.prot,
        flags |-> r.flags, file |-> f, offset |-> 0]]
  /\ ref' = [ref EXCEPT ![f] = @ + 1]                             \* filedup
  /\ UNCHANGED <<life, sz, pte, fds, data, job, overgrown, panicked>>

\* readi of page i of file f into a page of zeros
Readi(f, i) == IF i < Len(data[f]) THEN data[f][i + 1] ELSE "zero"

\* A fault of a kind the protection allows, at a page that is not there.
vma_fault(p, a) ==
  \E s \in Used(p) :
    LET v == vmas[p][s]
        i == v.offset + (a - v.addr)
    IN
    /\ Running(p)
    /\ Covers(v, a) /\ \A t \in Used(p) : Covers(vmas[p][t], a) => s <= t
    /\ pte[p][a] = None
    /\ pte' = [pte EXCEPT ![p][a] =
         [val |-> Readi(v.file, i), w |-> "W" \in v.prot, home |-> <<v.file, i>>]]
    /\ UNCHANGED <<life, sz, vmas, fds, ref, data, job, overgrown, panicked>>

\* The program stores into a mapped page.
store(p, a) ==
  \E s \in Used(p) :
    /\ Running(p)
    /\ Covers(vmas[p][s], a)
    /\ pte[p][a] # None /\ pte[p][a].w
    /\ pte' = [pte EXCEPT ![p][a].val =
         IF vmas[p][s].flags = "MAP_SHARED" THEN "shared" ELSE "private"]
    /\ UNCHANGED <<life, sz, vmas, fds, ref, data, job, overgrown, panicked>>

----------------------------------------------------------------------------
(* vma_unmap and vma_unmap_all                                              *)

\* The first entry that holds all of [a, e).
Holding(p, a, e) == {s \in Used(p) : vmas[p][s].addr <= a /\ e <= End(vmas[p][s])}

\* sys_munmap of a whole mapping, of its head or of its tail
munmap(p, a, e) ==
  /\ Running(p) /\ a < e /\ Holding(p, a, e) # {}
  /\ LET s == Min(Holding(p, a, e)) IN
     /\ a = vmas[p][s].addr \/ e = End(vmas[p][s])
     /\ job' = [job EXCEPT ![p] =
          [then |-> "munmap", i |-> 0, slot |-> s, addr |-> a, va |-> a, end |-> e]]
  /\ UNCHANGED <<life, sz, vmas, pte, fds, ref, data, overgrown, panicked>>

\* vma_unmap_all as exit and exec call it: i is its loop index, and slot 0
\* means that no vma_unmap is under way.
UnmapAll(p, then) ==
  job' = [job EXCEPT ![p] =
    [then |-> then, i |-> 0, slot |-> 0, addr |-> 0, va |-> 0, end |-> 0]]

\* The entries the loop of vma_unmap_all has still to see.
Rest(p) == {s \in Used(p) : s > job[p].i}

unmap_next(p) ==
  /\ job[p] # None /\ ~panicked
  /\ job[p].slot = 0 /\ Rest(p) # {}
  /\ LET s == Min(Rest(p))
         v == vmas[p][s]
     IN job' = [job EXCEPT ![p] =
          [then |-> @.then, i |-> s, slot |-> Min(Holding(p, v.addr, End(v))),
           addr |-> v.addr, va |-> v.addr, end |-> End(v)]]
  /\ UNCHANGED <<life, sz, vmas, pte, fds, ref, data, overgrown, panicked>>

\* writei of a page at index i: refused beyond the end of the file and at its
\* largest size, and growing it at its end.
Writei(f, i, val) ==
  IF i > Len(data[f]) \/ i >= MAXFILE THEN data
  ELSE [data EXCEPT ![f] = [k \in 1 .. (IF i = Len(@) THEN i + 1 ELSE Len(@)) |->
                              IF k = i + 1 THEN val ELSE @[k]]]

\* Mutant: private mappings are written back too.
unmap_page_AnyFlags(p) ==
  LET j == job[p]
      v == vmas[p][j.slot]
      g == pte[p][j.va]
      i == v.offset + (j.va - v.addr)
  IN
  /\ j # None /\ ~panicked
  /\ j.slot # 0 /\ j.va < j.end
  /\ data' = IF g # None /\ "W" \in v.prot THEN Writei(v.file, i, g.val) ELSE data
  /\ pte' = [pte EXCEPT ![p][j.va] = None]
  /\ job' = [job EXCEPT ![p].va = @ + 1]
  /\ UNCHANGED <<life, sz, vmas, fds, ref, overgrown, panicked>>

\* Mutant: only munmap writes back.
unmap_page_NotAtExit(p) ==
  LET j == job[p]
      v == vmas[p][j.slot]
      g == pte[p][j.va]
      i == v.offset + (j.va - v.addr)
  IN
  /\ j # None /\ ~panicked
  /\ j.slot # 0 /\ j.va < j.end
  /\ data' = IF g # None /\ v.flags = "MAP_SHARED" /\ "W" \in v.prot /\ j.then = "munmap"
             THEN Writei(v.file, i, g.val) ELSE data
  /\ pte' = [pte EXCEPT ![p][j.va] = None]
  /\ job' = [job EXCEPT ![p].va = @ + 1]
  /\ UNCHANGED <<life, sz, vmas, fds, ref, overgrown, panicked>>

\* One turn of vma_unmap's loop: a page that was never touched is skipped; a
\* page of a shared writable mapping is written back, in a transaction of its
\* own, before it is freed.  An error of writei is only reported.
unmap_page(p) ==
  LET j == job[p]
      v == vmas[p][j.slot]
      g == pte[p][j.va]
      i == v.offset + (j.va - v.addr)
  IN
  /\ j # None /\ ~panicked
  /\ j.slot # 0 /\ j.va < j.end
  /\ data' = IF g # None /\ v.flags = "MAP_SHARED" /\ "W" \in v.prot
             THEN Writei(v.file, i, g.val) ELSE data
  /\ pte' = [pte EXCEPT ![p][j.va] = None]
  /\ job' = [job EXCEPT ![p].va = @ + 1]
  /\ UNCHANGED <<life, sz, vmas, fds, ref, overgrown, panicked>>

\* Mutant: the offset of what remains is not advanced.
unmap_end_NoOffset(p) ==
  LET j == job[p]
      v == vmas[p][j.slot]
  IN
  /\ j # None /\ ~panicked
  /\ j.slot # 0 /\ j.va = j.end
  /\ vmas' = [vmas EXCEPT ![p][j.slot] =
       IF j.addr = v.addr /\ j.end = End(v) THEN None
       ELSE IF j.addr = v.addr THEN [v EXCEPT !.addr = j.end, !.length = End(v) - j.end]
       ELSE [v EXCEPT !.length = j.addr - v.addr]]
  /\ ref' = IF j.addr = v.addr /\ j.end = End(v) THEN [ref EXCEPT ![v.file] = @ - 1] ELSE ref
  /\ job' = [job EXCEPT ![p] = IF j.then = "munmap" THEN None ELSE [j EXCEPT !.slot = 0]]
  /\ UNCHANGED <<life, sz, pte, fds, data, overgrown, panicked>>

\* The end of vma_unmap: drop the mapping and its file reference, or cut off
\* its head or its tail.
unmap_end(p) ==
  LET j == job[p]
      v == vmas[p][j.slot]
  IN
  /\ j # None /\ ~panicked
  /\ j.slot # 0 /\ j.va = j.end
  /\ \/ /\ j.addr = v.addr /\ j.end = End(v)
        /\ vmas' = [vmas EXCEPT ![p][j.slot] = None]
        /\ ref' = [ref EXCEPT ![v.file] = @ - 1]
     \/ /\ j.addr = v.addr /\ j.end # End(v)
        /\ vmas' = [vmas EXCEPT ![p][j.slot] =
             [v EXCEPT !.addr = j.end, !.offset = @ + (j.end - j.addr),
                       !.length = @ - (j.end - j.addr)]]
        /\ UNCHANGED ref
     \/ /\ j.addr # v.addr
        /\ vmas' = [vmas EXCEPT ![p][j.slot].length = @ - (j.end - j.addr)]
        /\ UNCHANGED ref
  /\ job' = [job EXCEPT ![p] = IF j.then = "munmap" THEN None ELSE [j EXCEPT !.slot = 0]]
  /\ UNCHANGED <<life, sz, pte, fds, data, overgrown, panicked>>

----------------------------------------------------------------------------
(* Process life: exit, wait, exec, fork, sbrk                               *)

\* exit; init, the first process, does not
exit(p) ==
  /\ Running(p) /\ p # first
  /\ UnmapAll(p, "exit")
  /\ UNCHANGED <<life, sz, vmas, pte, fds, ref, data, overgrown, panicked>>

exit_end(p) ==
  /\ job[p] # None /\ ~panicked
  /\ job[p].then = "exit" /\ job[p].slot = 0 /\ Rest(p) = {}
  /\ life' = [life EXCEPT ![p] = "zombie"]
  /\ ref' = [f \in Files |-> IF f \in fds[p] THEN ref[f] - 1 ELSE ref[f]]
  /\ fds' = [fds EXCEPT ![p] = {}]
  /\ job' = [job EXCEPT ![p] = None]
  /\ UNCHANGED <<sz, vmas, pte, data, overgrown, panicked>>

\* proc_freepagetable: uvmunmap panics at a hole below sz ("not mapped"),
\* freewalk at a leaf above it.
FreePanics(p) == \E a \in Pages : (a < sz[p]) # (pte[p][a] # None)

\* wait: freeproc
freeproc(p) ==
  /\ life[p] = "zombie" /\ ~panicked
  /\ panicked' = FreePanics(p)
  /\ life' = [life EXCEPT ![p] = "unborn"]
  /\ sz' = [sz EXCEPT ![p] = 0]
  /\ pte' = [pte EXCEPT ![p] = Image(0)]
  /\ overgrown' = [overgrown EXCEPT ![p] = @ /\ panicked']
  /\ UNCHANGED <<vmas, fds, ref, data, job>>

\* Mutant: exec forgets the mappings.
exec_KeepsVmas(p) ==
  /\ Running(p)
  /\ job' = [job EXCEPT ![p] =
       [then |-> "exec", i |-> NVMA, slot |-> 0, addr |-> 0, va |-> 0, end |-> 0]]
  /\ UNCHANGED <<life, sz, vmas, pte, fds, ref, data, overgrown, panicked>>

\* exec, once it has built the new image
exec(p) ==
  /\ Running(p)
  /\ UnmapAll(p, "exec")
  /\ UNCHANGED <<life, sz, vmas, pte, fds, ref, data, overgrown, panicked>>

exec_end(p) ==
  /\ job[p] # None /\ ~panicked
  /\ job[p].then = "exec" /\ job[p].slot = 0 /\ Rest(p) = {}
  /\ panicked' = FreePanics(p)
  /\ sz' = [sz EXCEPT ![p] = InitSz]
  /\ pte' = [pte EXCEPT ![p] = Image(InitSz)]
  /\ overgrown' = [overgrown EXCEPT ![p] = @ /\ panicked']
  /\ job' = [job EXCEPT ![p] = None]
  /\ UNCHANGED <<life, vmas, fds, ref, data>>

\* fork: uvmcopy copies the pages below sz and panics at a hole; the child has
\* the mappings and references of its own, but none of their pages.
fork(p, q) ==
  /\ Running(p) /\ life[q] = "unborn"
  /\ panicked' = \E a \in Pages : a < sz[p] /\ pte[p][a] = None
  /\ life' = [life EXCEPT ![q] = "alive"]
  /\ sz' = [sz EXCEPT ![q] = sz[p]]
  /\ pte' = [pte EXCEPT ![q] = [a \in Pages |-> IF a < sz[p] THEN pte[p][a] ELSE None]]
  /\ vmas' = [vmas EXCEPT ![q] = vmas[p]]
  /\ overgrown' = [overgrown EXCEPT ![q] = overgrown[p]]
  /\ fds' = [fds EXCEPT ![q] = fds[p]]
  /\ ref' = [f \in Files |->
       ref[f] + Cardinality({s \in Used(p) : vmas[p][s].file = f})
              + IF f \in fds[p] THEN 1 ELSE 0]
  /\ UNCHANGED <<data, job>>

\* sbrk by a page up: growproc looks at p->sz alone, and not at the mappings;
\* mappages panics at a page that is mapped ("remap").
sbrk_grow(p) ==
  LET a == sz[p] IN
  /\ Running(p) /\ a < MaxSz
  /\ panicked' = (pte[p][a] # None)
  /\ pte' = [pte EXCEPT ![p][a] = Heap]
  /\ sz' = [sz EXCEPT ![p] = a + 1]
  /\ overgrown' = [overgrown EXCEPT ![p] = @ \/ \E s \in Used(p) : Covers(vmas[p][s], a)]
  /\ UNCHANGED <<life, vmas, fds, ref, data, job>>

\* sbrk by a page down: uvmunmap panics at a hole.
sbrk_shrink(p) ==
  LET a == sz[p] - 1 IN
  /\ Running(p) /\ sz[p] > 1
  /\ panicked' = (pte[p][a] = None)
  /\ pte' = [pte EXCEPT ![p][a] = None]
  /\ sz' = [sz EXCEPT ![p] = a]
  /\ UNCHANGED <<life, vmas, fds, ref, data, job, overgrown>>

\* panic spins for ever.
panic ==
  /\ panicked
  /\ UNCHANGED vars

----------------------------------------------------------------------------
Next ==
  \/ panic
  \/ \E p \in Procs :
     \/ \E f \in Files : open(p, f) \/ close(p, f) \/ \E r \in Requests : mmap(p, r, f)
     \/ \E a \in Pages : vma_fault(p, a) \/ store(p, a)
     \/ \E a \in Pages, e \in 1 .. TRAPFRAME : munmap(p, a, e)
     \/ unmap_next(p) \/ unmap_page(p) \/ unmap_end(p)
     \/ exit(p) \/ exit_end(p) \/ freeproc(p)
     \/ exec(p) \/ exec_end(p)
     \/ \E q \in Procs : fork(p, q)
     \/ sbrk_grow(p) \/ sbrk_shrink(p)

Spec == Init /\ [][Next]_vars

----------------------------------------------------------------------------
(* Properties                                                               *)

TypeOK ==
  /\ life \in [Procs -> {"unborn", "alive", "zombie"}]
  /\ sz \in [Procs -> 0 .. TRAPFRAME]
  /\ \A p \in Procs :
       /\ \A s \in Slots : vmas[p][s] = None \/ vmas[p][s] \in VMA
       /\ \A a \in Pages : pte[p][a] = None \/ pte[p][a] \in Page
       /\ job[p] = None \/ job[p] \in Job
  /\ fds \in [Procs -> SUBSET Files]
  /\ ref \in [Files -> Nat]
  /\ \A f \in Files : Len(data[f]) <= MAXFILE /\ \A i \in 1 .. Len(data[f]) : data[f][i] \in Vals
  /\ overgrown \in [Procs -> BOOLEAN] /\ panicked \in BOOLEAN

\* No two mappings of a process share a page, whatever was mapped, cut or grown
\* before, and only they have pages above p->sz.  They lie above p->sz (section 13
\* of docs/labs/10-mmap.md: apart from the contiguous low memory), and below sz
\* every page is there, in every process but those whose heap sbrk grew into a
\* mapping, which growproc does not prevent (proc.c:381), or whose image was
\* forked from such a one.  Other processes are not touched by that: as long as
\* there is none, mappages, uvmunmap, uvmcopy and freewalk do not panic.
SpaceSound ==
  /\ TypeOK
  /\ panicked => \E p \in Procs : overgrown[p]
  /\ \A p \in Procs :
       /\ \A s, t \in Used(p) : s # t =>
            End(vmas[p][s]) <= vmas[p][t].addr \/ End(vmas[p][t]) <= vmas[p][s].addr
       /\ \A a \in Pages :
            a >= sz[p] /\ pte[p][a] # None => \E s \in Used(p) : Covers(vmas[p][s], a)
       /\ ~overgrown[p] => /\ \A s \in Used(p) : sz[p] <= vmas[p][s].addr
                           /\ \A a \in Pages : a < sz[p] => pte[p][a] # None

\* A resident page of a mapping is the file page the mapping stands for now,
\* however its head and tail were cut since the page was read, so that it is
\* written back to the place it came from; or it is a heap page that sbrk put
\* into the mapping.
PagesGoHome ==
  \A p \in Procs : \A s \in Used(p), a \in Pages :
    LET v == vmas[p][s]
        g == pte[p][a]
    IN
    Covers(v, a) /\ g # None =>
      \/ g.home = <<v.file, v.offset + (a - v.addr)>>
      \/ overgrown[p] /\ g.home = None

\* A file's reference count is the number of descriptors and mappings of it,
\* through close, munmap, fork, exec and exit: a mapped file stays open.
RefsExact ==
  \A f \in Files :
    ref[f] = Cardinality({p \in Procs : f \in fds[p]})
             + Cardinality({x \in Procs \X Slots :
                 vmas[x[1]][x[2]] # None /\ vmas[x[1]][x[2]].file = f})

\* docs/labs/10-mmap.md: what is stored through a MAP_PRIVATE mapping stays in
\* the process's own page and never reaches the file, also where sbrk put heap
\* pages into mappings.
PrivateStays ==
  \A f \in Files : \A i \in 1 .. Len(data[f]) : data[f][i] # "private"

\* docs/labs/10-mmap.md: MAP_SHARED is written back at munmap and at exit.  No
\* step of these or of exec drops a writable page stored to through a shared
\* mapping without leaving its content in the file, unless writei refuses the
\* place.  In a process whose heap was grown into a mapping sbrk drops such
\* pages too.
WroteBack(p, a) ==
  LET g == pte[p][a]
      f == g.home[1]
      i == g.home[2]
      shared == \E s \in Used(p) : Covers(vmas[p][s], a) /\ vmas[p][s].flags = "MAP_SHARED"
  IN
  ~overgrown[p] /\ g # None /\ g.w /\ shared /\ g.val = "shared" /\ pte'[p][a] = None =>
    \/ i > Len(data[f]) \/ i >= MAXFILE
    \/ i < Len(data'[f]) /\ data'[f][i + 1] = "shared"
WriteBack == [][\A p \in Procs, a \in Pages : WroteBack(p, a)]_vars
=============================================================================
