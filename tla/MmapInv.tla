------------------------------ MODULE MmapInv ------------------------------
(***************************************************************************)
(* The inductive invariant of the address spaces: every address space is   *)
(* laid out well, every vma_unmap under way works on one of its mappings,  *)
(* and every step of mmap, munmap, fork, exec, exit and sbrk keeps it so.  *)
(***************************************************************************)
EXTENDS Mmap, Integers, WellFoundedInduction, TLAPS

----------------------------------------------------------------------------
(* One address space                                                        *)

\* The entries in use of a table of mappings
UsedIn(vs) == {s \in Slots : vs[s] # None}

\* No two mappings share a page.
Disjoint(vs) ==
  \A s, t \in UsedIn(vs) : s # t =>
    End(vs[s]) <= vs[t].addr \/ End(vs[t]) <= vs[s].addr

\* They lie between the heap and the trapframe, unless the heap was grown into
\* one of them (o).
Placed(o, z, vs) ==
  \A s \in UsedIn(vs) : (~o => z <= vs[s].addr) /\ End(vs[s]) <= TRAPFRAME

\* The heap has all its pages, and other pages belong to a mapping.
Resident(o, z, vs, pg) ==
  \A a \in Pages :
    IF a < z THEN ~o => pg[a] # None
    ELSE pg[a] # None => \E s \in UsedIn(vs) : Covers(vs[s], a)

\* A page g at address a of mapping v: where it came from, what it may hold,
\* and whether it can have been stored to.
PageOf(o, v, a, g) ==
  /\ g.home = <<v.file, v.offset + (a - v.addr)>> \/ (o /\ g.home = None)
  /\ ~o => (g.w <=> "W" \in v.prot)
  /\ v.flags = "MAP_SHARED" => g.val # "private"

Faithful(o, vs, pg) ==
  \A s \in UsedIn(vs), a \in Pages :
    Covers(vs[s], a) /\ pg[a] # None => PageOf(o, vs[s], a, pg[a])

Layout(o, z, vs, pg) ==
  /\ o \in BOOLEAN /\ z \in 0 .. TRAPFRAME
  /\ vs \in [Slots -> VMA \cup {None}]
  /\ pg \in [Pages -> Page \cup {None}]
  /\ Disjoint(vs) /\ Placed(o, z, vs) /\ Resident(o, z, vs, pg) /\ Faithful(o, vs, pg)

\* vma_unmap of [j.addr, j.end): a head, a tail or all of the mapping at j.slot,
\* whose pages below j.va are gone.
Cutting(j, vs, pg) ==
  /\ j.slot \in UsedIn(vs)
  /\ vs[j.slot].addr <= j.addr /\ j.addr < j.end /\ j.end <= End(vs[j.slot])
  /\ j.addr = vs[j.slot].addr \/ j.end = End(vs[j.slot])
  /\ j.addr <= j.va /\ j.va <= j.end
  /\ \A a \in Pages : j.addr <= a /\ a < j.va => pg[a] = None

\* vma_unmap_all at entry j.i: those before it are gone, and this one is being
\* unmapped whole.
Clearing(j, vs) ==
  /\ j.slot # 0 => /\ j.slot = j.i
                   /\ j.addr = vs[j.slot].addr /\ j.end = End(vs[j.slot])
  /\ \A s \in UsedIn(vs) : j.i < s \/ s = j.slot

Working(j, vs, pg) ==
  j # None =>
    /\ j \in Job
    /\ j.slot # 0 => Cutting(j, vs, pg)
    /\ IF j.then = "munmap" THEN j.slot # 0 ELSE Clearing(j, vs)

Spaces ==
  /\ overgrown \in [Procs -> BOOLEAN]
  /\ sz \in [Procs -> 0 .. TRAPFRAME]
  /\ vmas \in [Procs -> [Slots -> VMA \cup {None}]]
  /\ pte \in [Procs -> [Pages -> Page \cup {None}]]
  /\ job \in [Procs -> Job \cup {None}]
  /\ \A p \in Procs : Layout(overgrown[p], sz[p], vmas[p], pte[p]) /\ Working(job[p], vmas[p], pte[p])

----------------------------------------------------------------------------
(* Helpers                                                                  *)

\* What the assumptions say of the numbers
LEMMA Bounds ==
  /\ NVMA \in Nat \ {0} /\ TRAPFRAME \in Nat /\ InitSz \in 1 .. TRAPFRAME
  /\ MaxSz \in InitSz .. TRAPFRAME
  /\ FileSize \in Nat /\ MAXFILE \in Nat /\ FileSize <= MAXFILE
BY MmapAssumption DEF MmapAssumption

\* Page numbers
LEMMA PageNumbers ==
  /\ Pages \subseteq Nat /\ 0 .. TRAPFRAME \subseteq Nat
  /\ \A a, e \in 0 .. TRAPFRAME : a < e => a \in Pages
BY Bounds DEF Pages

\* Four numbers in order
LEMMA Ascending == \A a, b, c, d \in Nat : a <= b /\ b <= c /\ c <= d => a <= d
OBVIOUS

\* A set of numbers has a least member.
LEMMA Least ==
  ASSUME NEW S \in SUBSET Nat, S # {}
  PROVE  Min(S) \in S /\ \A y \in S : Min(S) <= y
<1>1. PICK x \in S : \A y \in S : ~(<<y, x>> \in OpToRel(<, Nat))
  BY WFMin, NatLessThanWellFounded
<1>2. \A y \in S : x <= y
  <2> TAKE y \in S
  <2>1. y \in Nat /\ x \in Nat
    OBVIOUS
  <2>2. ~(y < x)
    BY Zenon, <1>1, <2>1 DEF OpToRel
  <2> QED
    BY <2>1, <2>2
<1> QED
  BY Zenon, <1>2 DEF Min

\* What an address space has in its entries in use
LEMMA UsedAre ==
  ASSUME NEW vs \in [Slots -> VMA \cup {None}], NEW s \in UsedIn(vs)
  PROVE  /\ s \in Slots /\ vs[s] \in VMA /\ vs[s].addr \in Pages
         /\ vs[s].length \in 1 .. TRAPFRAME /\ vs[s].offset \in Nat /\ vs[s].file \in Files
         /\ vs[s].addr \in Nat /\ End(vs[s]) \in Nat /\ vs[s].addr < End(vs[s])
<1>1. s \in Slots /\ vs[s] \in VMA
  BY DEF UsedIn
<1>2. /\ vs[s].addr \in Pages /\ vs[s].length \in 1 .. TRAPFRAME
      /\ vs[s].offset \in Nat /\ vs[s].file \in Files
  BY <1>1 DEF VMA
<1> QED
  BY <1>1, <1>2, Bounds DEF Pages, End

----------------------------------------------------------------------------
(* What the steps do to an address space                                    *)

\* mmap: a mapping below all the others and above the heap
LEMMA MapLayout ==
  ASSUME NEW o, NEW z, NEW vs, NEW pg, Layout(o, z, vs, pg),
         NEW s \in Slots, vs[s] = None, NEW v \in VMA,
         z <= v.addr, End(v) <= TRAPFRAME, \A t \in UsedIn(vs) : End(v) <= vs[t].addr
  PROVE  Layout(o, z, [vs EXCEPT ![s] = v], pg)
<1> DEFINE ws == [vs EXCEPT ![s] = v]
<1>1. vs \in [Slots -> VMA \cup {None}] /\ v # None
  BY NoneAssumption DEF Layout, NoneAssumption
<1>2. /\ ws \in [Slots -> VMA \cup {None}] /\ ws[s] = v
      /\ \A t \in UsedIn(vs) : t \in UsedIn(ws) /\ t # s /\ ws[t] = vs[t]
      /\ s \in UsedIn(ws) /\ \A t \in UsedIn(ws) : t = s \/ t \in UsedIn(vs)
  BY <1>1 DEF UsedIn
<1>3. v.addr \in Nat /\ End(v) \in Nat /\ z \in Nat
  BY Bounds DEF VMA, Pages, End, Layout
<1> HIDE DEF ws
<1>4. Disjoint(ws)
  BY <1>2 DEF Disjoint, Layout
<1>5. Placed(o, z, ws)
  BY <1>2 DEF Placed, Layout
<1>6. Resident(o, z, ws, pg)
  BY <1>2 DEF Resident, Layout
<1>7. ASSUME NEW a \in Pages, Covers(v, a) PROVE pg[a] = None
  <2>1. a \in Nat /\ ~(a < z)
    BY <1>3, <1>7, Bounds DEF Pages, Covers
  <2>2. ASSUME NEW t \in UsedIn(vs) PROVE ~Covers(vs[t], a)
    BY <1>1, <1>3, <1>7, <2>1, <2>2, UsedAre DEF Covers
  <2> QED
    BY <2>1, <2>2 DEF Layout, Resident
<1>8. Faithful(o, ws, pg)
  BY <1>2, <1>7 DEF Faithful, Layout
<1> QED
  BY <1>2, <1>4, <1>5, <1>6, <1>8 DEF Layout, ws

\* vma_fault: a page appears in a mapping; store: it is stored to.
LEMMA PageLayout ==
  ASSUME NEW o, NEW z, NEW vs, NEW pg, Layout(o, z, vs, pg), NEW s \in UsedIn(vs), NEW a \in Pages,
         Covers(vs[s], a), NEW g \in Page, PageOf(o, vs[s], a, g)
  PROVE  Layout(o, z, vs, [pg EXCEPT ![a] = g])
<1> DEFINE hg == [pg EXCEPT ![a] = g]
<1>1. hg \in [Pages -> Page \cup {None}] /\ hg[a] = g /\ \A b \in Pages : b # a => hg[b] = pg[b]
  BY DEF Layout
<1>2. g # None
  BY NoneAssumption DEF NoneAssumption
<1> HIDE DEF hg
<1>3. Resident(o, z, vs, hg)
  BY <1>1, <1>2 DEF Resident, Layout
<1>4. ASSUME NEW t \in UsedIn(vs), Covers(vs[t], a) PROVE t = s
  <2>1. a \in Nat /\ vs \in [Slots -> VMA \cup {None}]
    BY Bounds DEF Pages, Layout
  <2>2. vs[t].addr \in Nat /\ End(vs[t]) \in Nat /\ vs[s].addr \in Nat /\ End(vs[s]) \in Nat
    BY <2>1, UsedAre
  <2>3. t # s => End(vs[s]) <= vs[t].addr \/ End(vs[t]) <= vs[s].addr
    BY DEF Layout, Disjoint
  <2> QED
    BY <1>4, <2>1, <2>2, <2>3 DEF Covers
<1>5. Faithful(o, vs, hg)
  BY <1>1, <1>4 DEF Faithful, Layout
<1> QED
  BY <1>1, <1>3, <1>5 DEF Layout, hg

\* unmap_page: a page goes away, above the heap as long as that is sound.
LEMMA GoneLayout ==
  ASSUME NEW o, NEW z, NEW vs, NEW pg, Layout(o, z, vs, pg), NEW a \in Pages, ~o => z <= a
  PROVE  Layout(o, z, vs, [pg EXCEPT ![a] = None])
<1> DEFINE hg == [pg EXCEPT ![a] = None]
<1>1. hg \in [Pages -> Page \cup {None}] /\ hg[a] = None /\ \A b \in Pages : b # a => hg[b] = pg[b]
  BY DEF Layout
<1>2. ~o => ~(a < z)
  BY Bounds DEF Pages, Layout
<1> HIDE DEF hg
<1>3. Resident(o, z, vs, hg)
  BY <1>1, <1>2 DEF Resident, Layout
<1>4. Faithful(o, vs, hg)
  BY <1>1 DEF Faithful, Layout
<1> QED
  BY <1>1, <1>3, <1>4 DEF Layout, hg

\* vma_unmap drops a mapping whose pages are gone.
LEMMA DropLayout ==
  ASSUME NEW o, NEW z, NEW vs, NEW pg, Layout(o, z, vs, pg), NEW s \in UsedIn(vs),
         \A a \in Pages : Covers(vs[s], a) => pg[a] = None
  PROVE  Layout(o, z, [vs EXCEPT ![s] = None], pg)
<1> DEFINE ws == [vs EXCEPT ![s] = None]
<1>1. /\ ws \in [Slots -> VMA \cup {None}]
      /\ \A t \in UsedIn(ws) : t \in UsedIn(vs) /\ ws[t] = vs[t]
      /\ \A t \in UsedIn(vs) : t = s \/ t \in UsedIn(ws)
  BY DEF UsedIn, Layout
<1> HIDE DEF ws
<1>2. Disjoint(ws) /\ Placed(o, z, ws)
  BY <1>1 DEF Disjoint, Placed, Layout
<1>3. Resident(o, z, ws, pg)
  BY <1>1 DEF Resident, Layout
<1>4. Faithful(o, ws, pg)
  BY <1>1 DEF Faithful, Layout
<1> QED
  BY <1>1, <1>2, <1>3, <1>4 DEF Layout, ws

\* vma_unmap cuts off the head or the tail of a mapping, whose pages are gone;
\* the rest stands for the same places of the same file.
LEMMA CutLayout ==
  ASSUME NEW o, NEW z, NEW vs, NEW pg, Layout(o, z, vs, pg), NEW s \in UsedIn(vs), NEW w \in VMA,
         vs[s].addr <= w.addr, End(w) <= End(vs[s]),
         w.file = vs[s].file, w.flags = vs[s].flags, w.prot = vs[s].prot,
         w.offset = vs[s].offset + (w.addr - vs[s].addr),
         \A a \in Pages : Covers(vs[s], a) /\ ~Covers(w, a) => pg[a] = None
  PROVE  Layout(o, z, [vs EXCEPT ![s] = w], pg)
<1> DEFINE ws == [vs EXCEPT ![s] = w]
<1>1. vs \in [Slots -> VMA \cup {None}] /\ w # None /\ z \in Nat /\ TRAPFRAME \in Nat
  BY NoneAssumption, Bounds DEF Layout, NoneAssumption
<1>2. /\ ws \in [Slots -> VMA \cup {None}] /\ ws[s] = w
      /\ UsedIn(ws) = UsedIn(vs) /\ \A t \in UsedIn(vs) : t # s => ws[t] = vs[t]
  BY <1>1 DEF UsedIn
<1>3. w.addr \in Nat /\ w.length \in Nat /\ End(w) \in Nat /\ w.addr < End(w)
  BY Bounds DEF VMA, Pages, End
<1>4. \A t \in UsedIn(vs) : vs[t].addr \in Nat /\ End(vs[t]) \in Nat /\ vs[t].offset \in Nat
  BY <1>1, UsedAre
<1> HIDE DEF ws
<1>5. Disjoint(ws)
  <2>1. ASSUME NEW t \in UsedIn(vs), t # s PROVE End(w) <= vs[t].addr \/ End(vs[t]) <= w.addr
    <3>1. End(vs[s]) <= vs[t].addr \/ End(vs[t]) <= vs[s].addr
      BY <2>1 DEF Layout, Disjoint
    <3> QED
      BY <1>3, <1>4, <3>1
  <2> QED
    BY <1>2, <2>1 DEF Disjoint, Layout
<1>6. Placed(o, z, ws)
  <2>1. (~o => z <= w.addr) /\ End(w) <= TRAPFRAME
    BY <1>1, <1>3, <1>4 DEF Layout, Placed
  <2> QED
    BY <1>2, <2>1 DEF Placed, Layout
<1>7. Resident(o, z, ws, pg)
  BY <1>2 DEF Resident, Layout
<1>8. ASSUME NEW a \in Pages, Covers(w, a), pg[a] # None PROVE PageOf(o, w, a, pg[a])
  <2>1. a \in Nat
    BY Bounds DEF Pages
  <2>2. Covers(vs[s], a)
    BY <1>3, <1>4, <1>8, <2>1 DEF Covers
  <2>3. PageOf(o, vs[s], a, pg[a])
    BY <1>8, <2>2 DEF Faithful, Layout
  <2>4. w.offset + (a - w.addr) = vs[s].offset + (a - vs[s].addr)
    BY <1>3, <1>4, <2>1
  <2> QED
    BY Zenon, <2>3, <2>4 DEF PageOf
<1>9. Faithful(o, ws, pg)
  BY <1>2, <1>8 DEF Faithful, Layout
<1> QED
  BY Zenon, <1>2, <1>5, <1>6, <1>7, <1>9 DEF Layout, ws

\* exec's new image, and the empty one of a free slot
LEMMA FreshLayout ==
  ASSUME NEW o \in BOOLEAN, NEW n \in 0 .. TRAPFRAME, NEW vs \in [Slots -> VMA \cup {None}], UsedIn(vs) = {}
  PROVE  Layout(o, n, vs, Image(n))
<1>1. Heap \in Page
  BY DEF Heap, Page, Vals
<1>2. Heap # None
  BY <1>1, NoneAssumption DEF NoneAssumption
<1>3. /\ Image(n) \in [Pages -> Page \cup {None}]
      /\ \A a \in Pages : IF a < n THEN Image(n)[a] # None ELSE Image(n)[a] = None
  BY <1>1, <1>2 DEF Image
<1> HIDE DEF Image
<1>4. Resident(o, n, vs, Image(n))
  BY <1>3 DEF Resident
<1> QED
  BY <1>3, <1>4 DEF Layout, Disjoint, Placed, Faithful

\* fork: the child has the heap and the mappings, but no page of these.
LEMMA CopyLayout ==
  ASSUME NEW o, NEW z, NEW vs, NEW pg, Layout(o, z, vs, pg)
  PROVE  Layout(o, z, vs, [a \in Pages |-> IF a < z THEN pg[a] ELSE None])
<1> DEFINE hg == [a \in Pages |-> IF a < z THEN pg[a] ELSE None]
<1>1. /\ hg \in [Pages -> Page \cup {None}]
      /\ \A a \in Pages : IF a < z THEN hg[a] = pg[a] ELSE hg[a] = None
  BY DEF Layout
<1> HIDE DEF hg
<1>2. Resident(o, z, vs, hg)
  BY <1>1 DEF Resident, Layout
<1>3. Faithful(o, vs, hg)
  BY <1>1 DEF Faithful, Layout
<1> QED
  BY <1>1, <1>2, <1>3 DEF Layout, hg

\* sbrk: a page more, in a mapping or not (n: the heap has grown into one by now)
LEMMA GrowLayout ==
  ASSUME NEW o, NEW z, NEW vs, NEW pg, Layout(o, z, vs, pg), z < TRAPFRAME, NEW n \in BOOLEAN,
         o => n, (\E s \in UsedIn(vs) : Covers(vs[s], z)) => n
  PROVE  (~n => pg[z] = None) /\ Layout(n, z + 1, vs, [pg EXCEPT ![z] = Heap])
<1> DEFINE hg == [pg EXCEPT ![z] = Heap]
<1>1. z \in Pages /\ z \in Nat /\ z + 1 \in 0 .. TRAPFRAME /\ ~(z < z)
  BY Bounds DEF Layout, Pages
<1>2. Heap \in Page /\ Heap.home = None /\ Heap.val # "private"
  BY DEF Heap, Page, Vals
<1>3. Heap # None
  BY <1>2, NoneAssumption DEF NoneAssumption
<1>4. hg \in [Pages -> Page \cup {None}] /\ hg[z] = Heap /\ \A b \in Pages : b # z => hg[b] = pg[b]
  BY <1>1, <1>2 DEF Layout
<1> HIDE DEF hg
<1>5. ~n => pg[z] = None
  BY <1>1 DEF Layout, Resident
<1>6. Placed(n, z + 1, vs)
  <2>1. ASSUME NEW s \in UsedIn(vs), ~n PROVE z + 1 <= vs[s].addr
    <3>1. vs[s].addr \in Nat /\ End(vs[s]) \in Nat /\ vs[s].addr < End(vs[s])
      BY UsedAre DEF Layout
    <3>2. z <= vs[s].addr /\ ~Covers(vs[s], z)
      BY Zenon, <2>1 DEF Layout, Placed
    <3> QED
      BY <1>1, <3>1, <3>2 DEF Covers
  <2> QED
    BY <2>1 DEF Layout, Placed
<1>7. Resident(n, z + 1, vs, hg)
  <2>1. \A a \in Pages : a < z + 1 <=> a < z \/ a = z
    BY <1>1, Bounds DEF Pages
  <2> QED
    BY <1>3, <1>4, <2>1 DEF Layout, Resident
<1>8. Faithful(n, vs, hg)
  <2> SUFFICES ASSUME NEW s \in UsedIn(vs), NEW a \in Pages, Covers(vs[s], a), hg[a] # None
               PROVE  PageOf(n, vs[s], a, hg[a])
    BY Zenon DEF Faithful
  <2>1. CASE a = z
    BY Zenon, <1>2, <1>4, <2>1 DEF PageOf
  <2>2. CASE a # z
    <3>1. hg[a] = pg[a]
      BY Zenon, <1>4, <2>2
    <3>2. PageOf(o, vs[s], a, pg[a])
      BY Zenon, <3>1 DEF Layout, Faithful
    <3> QED
      BY Zenon, <3>1, <3>2 DEF PageOf
  <2> QED
    BY Zenon, <2>1, <2>2
<1> QED
  BY Zenon, <1>1, <1>4, <1>5, <1>6, <1>7, <1>8 DEF Layout, hg

\* sbrk: a page less
LEMMA ShrinkLayout ==
  ASSUME NEW o, NEW z, NEW vs, NEW pg, Layout(o, z, vs, pg), z > 0
  PROVE  (~o => pg[z - 1] # None) /\ Layout(o, z - 1, vs, [pg EXCEPT ![z - 1] = None])
<1> DEFINE y == z - 1
           hg == [pg EXCEPT ![y] = None]
<1>1. y \in Pages /\ y \in Nat /\ z = y + 1 /\ z \in Nat /\ y \in 0 .. TRAPFRAME /\ y < z
  BY Bounds DEF Layout, Pages
<1>2. hg \in [Pages -> Page \cup {None}] /\ hg[y] = None /\ \A b \in Pages : b # y => hg[b] = pg[b]
  BY <1>1 DEF Layout
<1> HIDE DEF y, hg
<1>3. ~o => pg[y] # None
  BY <1>1 DEF Layout, Resident
<1>4. Placed(o, y, vs)
  BY <1>1, UsedAre DEF Layout, Placed
<1>5. Resident(o, y, vs, hg)
  <2>1. \A a \in Pages : a < z <=> a < y \/ a = y
    BY <1>1, Bounds DEF Pages
  <2>2. ~(y < y)
    BY <1>1
  <2> QED
    BY <1>2, <2>1, <2>2 DEF Layout, Resident
<1>6. Faithful(o, vs, hg)
  BY <1>2 DEF Layout, Faithful
<1> QED
  BY Zenon, <1>1, <1>2, <1>3, <1>4, <1>5, <1>6 DEF Layout, y, hg

----------------------------------------------------------------------------
(* The steps                                                                *)

\* The kernel panics only where a heap was grown into a mapping.
Calm == panicked \in BOOLEAN /\ (panicked => \E p \in Procs : overgrown[p])

\* A process that is not running has no job, descriptors or mappings.
Alive ==
  /\ life \in [Procs -> {"unborn", "alive", "zombie"}]
  /\ fds \in [Procs -> SUBSET Files]
  /\ Calm
  /\ \A p \in Procs : life[p] # "alive" =>
       job[p] = None /\ fds[p] = {} /\ UsedIn(vmas[p]) = {}

\* A step that does not panic and grows no heap
LEMMA CalmKept ==
  ASSUME Calm, panicked' = panicked, overgrown' = overgrown
  PROVE  Calm'
BY DEF Calm

\* What the files hold
Stored ==
  /\ data \in [Files -> Seq({"file", "zero", "shared", "heap"})]
  /\ \A f \in Files : Len(data[f]) <= MAXFILE

MInv == Spaces /\ Alive /\ Stored

\* Only p's address space changes, and to a sound one.
Local(p, o, z, vs, pg, j) ==
  /\ j \in Job \cup {None} /\ Layout(o, z, vs, pg) /\ Working(j, vs, pg)
  /\ overgrown' = [overgrown EXCEPT ![p] = o]
  /\ sz' = [sz EXCEPT ![p] = z] /\ vmas' = [vmas EXCEPT ![p] = vs]
  /\ pte' = [pte EXCEPT ![p] = pg] /\ job' = [job EXCEPT ![p] = j]

\* A step of one process leaves the address spaces of the others alone.
LEMMA LocalStep ==
  ASSUME Spaces, NEW p \in Procs, NEW o, NEW z, NEW vs, NEW pg, NEW j,
         Local(p, o, z, vs, pg, j)
  PROVE  Spaces'
<1> USE DEF Local
<1>1. /\ z \in 0 .. TRAPFRAME /\ vs \in [Slots -> VMA \cup {None}]
      /\ pg \in [Pages -> Page \cup {None}] /\ o \in BOOLEAN
  BY Zenon DEF Layout
<1>2. /\ overgrown' \in [Procs -> BOOLEAN] /\ sz' \in [Procs -> 0 .. TRAPFRAME]
      /\ vmas' \in [Procs -> [Slots -> VMA \cup {None}]]
      /\ pte' \in [Procs -> [Pages -> Page \cup {None}]]
      /\ job' \in [Procs -> Job \cup {None}]
  BY Zenon, <1>1 DEF Spaces
<1>3. overgrown'[p] = o /\ sz'[p] = z /\ vmas'[p] = vs /\ pte'[p] = pg /\ job'[p] = j
  BY Zenon DEF Spaces
<1>4. \A q \in Procs : q # p =>
        /\ overgrown'[q] = overgrown[q] /\ sz'[q] = sz[q] /\ vmas'[q] = vmas[q]
        /\ pte'[q] = pte[q] /\ job'[q] = job[q]
  BY Zenon DEF Spaces
<1>5. ASSUME NEW q \in Procs
      PROVE  Layout(overgrown'[q], sz'[q], vmas'[q], pte'[q]) /\ Working(job'[q], vmas'[q], pte'[q])
  BY Zenon, <1>3, <1>4 DEF Spaces
<1> QED
  BY Zenon, <1>2, <1>5 DEF Spaces

\* What does not change
LEMMA Same ==
  ASSUME Spaces, NEW p \in Procs
  PROVE  /\ overgrown = [overgrown EXCEPT ![p] = overgrown[p]]
         /\ sz = [sz EXCEPT ![p] = sz[p]] /\ vmas = [vmas EXCEPT ![p] = vmas[p]]
         /\ pte = [pte EXCEPT ![p] = pte[p]] /\ job = [job EXCEPT ![p] = job[p]]
BY Zenon DEF Spaces

\* What a process has
LEMMA Own ==
  ASSUME Spaces, NEW p \in Procs
  PROVE  /\ Layout(overgrown[p], sz[p], vmas[p], pte[p]) /\ Working(job[p], vmas[p], pte[p])
         /\ sz[p] \in 0 .. TRAPFRAME /\ vmas[p] \in [Slots -> VMA \cup {None}]
         /\ pte[p] \in [Pages -> Page \cup {None}] /\ job[p] \in Job \cup {None}
         /\ Used(p) = UsedIn(vmas[p]) /\ sz[p] \in Nat /\ overgrown[p] \in BOOLEAN
BY Bounds DEF Spaces, Used, UsedIn

\* A process without a job
LEMMA Idle ==
  ASSUME NEW vs, NEW pg
  PROVE  Working(None, vs, pg)
BY DEF Working

\* Where mmap puts a mapping
LEMMA LowestIs ==
  ASSUME Spaces, NEW p \in Procs
  PROVE  /\ Lowest(p) \in Nat /\ Lowest(p) <= TRAPFRAME
         /\ \A t \in UsedIn(vmas[p]) : Lowest(p) <= vmas[p][t].addr
<1> DEFINE S == {TRAPFRAME} \cup {vmas[p][s].addr : s \in Used(p)}
<1>1. vmas[p] \in [Slots -> VMA \cup {None}] /\ Used(p) = UsedIn(vmas[p])
  BY Own
<1>2. \A s \in Used(p) : vmas[p][s].addr \in Nat
  BY <1>1, UsedAre
<1>3. S \in SUBSET Nat /\ S # {} /\ TRAPFRAME \in S /\ \A s \in Used(p) : vmas[p][s].addr \in S
  BY Zenon, <1>2, Bounds
<1>4. Lowest(p) = Min(S)
  BY DEF Lowest
<1> HIDE DEF S
<1>5. Min(S) \in S /\ \A y \in S : Min(S) <= y
  BY <1>3, Least
<1> QED
  BY Zenon, <1>1, <1>3, <1>4, <1>5

\* The entry mmap fills, and with what
LEMMA NewMapping ==
  ASSUME Spaces, NEW p \in Procs, NEW r \in Requests, NEW f \in Files, mmap(p, r, f)
  PROVE  \E s \in Slots, v \in VMA :
           /\ vmas[p][s] = None /\ v.file = f
           /\ vmas' = [vmas EXCEPT ![p] = [vmas[p] EXCEPT ![s] = v]]
           /\ End(v) = Lowest(p) /\ sz[p] <= v.addr
<1> DEFINE s == Min(Slots \ Used(p))
           v == [addr |-> Lowest(p) - r.length, length |-> r.length, prot |-> r.prot,
                 flags |-> r.flags, file |-> f, offset |-> 0]
<1>1. s \in Slots /\ vmas[p][s] = None
  <2>1. Slots \ Used(p) \in SUBSET Nat /\ Slots \ Used(p) # {}
    BY Bounds DEF Slots, mmap
  <2>2. s \in Slots \ Used(p)
    BY <2>1, Least
  <2> QED
    BY <2>2 DEF Used
<1>2. /\ sz[p] + r.length <= Lowest(p)
      /\ vmas' = [vmas EXCEPT ![p] = [vmas[p] EXCEPT ![s] = v]]
  BY DEF mmap
<1>3. /\ r.length \in Nat \ {0} /\ r.prot \in SUBSET {"R", "W"}
      /\ r.flags \in {"MAP_SHARED", "MAP_PRIVATE"}
  BY MmapAssumption DEF MmapAssumption
<1>4. sz[p] \in Nat /\ TRAPFRAME \in Nat
  BY Own, Bounds
<1>5. Lowest(p) \in Nat /\ Lowest(p) <= TRAPFRAME
  BY LowestIs
<1>6. /\ Lowest(p) - r.length \in Pages /\ r.length \in 1 .. TRAPFRAME
      /\ Lowest(p) - r.length + r.length = Lowest(p) /\ sz[p] <= Lowest(p) - r.length
  BY <1>2, <1>3, <1>4, <1>5 DEF Pages
<1>7. v \in VMA /\ End(v) = Lowest(p) /\ sz[p] <= v.addr
  BY Zenon, <1>3, <1>6 DEF VMA, End
<1>8. v.file = f
  OBVIOUS
<1> HIDE DEF s, v
<1> QED
  BY Zenon, <1>1, <1>2, <1>7, <1>8

\* mmap puts its mapping in a free entry.
LEMMA MmapStep ==
  ASSUME Spaces, NEW p \in Procs, NEW r \in Requests, NEW f \in Files, mmap(p, r, f)
  PROVE  Spaces'
<1>1. PICK s \in Slots, v \in VMA :
        /\ vmas[p][s] = None
        /\ vmas' = [vmas EXCEPT ![p] = [vmas[p] EXCEPT ![s] = v]]
        /\ End(v) = Lowest(p) /\ sz[p] <= v.addr
  BY NewMapping
<1>2. overgrown' = overgrown /\ sz' = sz /\ pte' = pte /\ job' = job /\ job[p] = None
  BY DEF mmap, Running
<1>3. Layout(overgrown[p], sz[p], [vmas[p] EXCEPT ![s] = v], pte[p])
  BY Zenon, <1>1, Own, LowestIs, MapLayout
<1>4. Local(p, overgrown[p], sz[p], [vmas[p] EXCEPT ![s] = v], pte[p], None)
  BY Zenon, <1>1, <1>2, <1>3, Same, Idle DEF Local
<1> QED
  BY <1>4, LocalStep

\* vma_fault maps the page of the file the address stands for.
LEMMA FaultStep ==
  ASSUME MInv, NEW p \in Procs, NEW a \in Pages, vma_fault(p, a)
  PROVE  Spaces'
<1>1. PICK s \in Used(p) :
        /\ Running(p) /\ Covers(vmas[p][s], a)
        /\ pte' = [pte EXCEPT ![p][a] =
             [val |-> Readi(vmas[p][s].file, vmas[p][s].offset + (a - vmas[p][s].addr)),
              w |-> "W" \in vmas[p][s].prot,
              home |-> <<vmas[p][s].file, vmas[p][s].offset + (a - vmas[p][s].addr)>>]]
        /\ UNCHANGED <<overgrown, sz, vmas, job>>
  BY Zenon DEF vma_fault
<1> DEFINE v == vmas[p][s]
           i == v.offset + (a - v.addr)
           g == [val |-> Readi(v.file, i), w |-> "W" \in v.prot, home |-> <<v.file, i>>]
<1>2. s \in UsedIn(vmas[p]) /\ vmas[p] \in [Slots -> VMA \cup {None}] /\ Spaces
  BY Zenon, Own DEF MInv
<1>3. v.file \in Files /\ v.offset \in Nat /\ v.addr \in Nat
  BY Zenon, <1>2, UsedAre
<1>4. i \in Nat
  BY <1>1, <1>3, Bounds DEF Pages, Covers
<1> HIDE DEF v, i
<1>5. Readi(v.file, i) \in {"file", "zero", "shared", "heap"}
  <2>1. data[v.file] \in Seq({"file", "zero", "shared", "heap"})
    BY <1>3 DEF MInv, Stored
  <2>2. ASSUME i < Len(data[v.file]) PROVE data[v.file][i + 1] \in {"file", "zero", "shared", "heap"}
    <3>1. i + 1 \in 1 .. Len(data[v.file])
      BY <1>4, <2>1, <2>2
    <3> QED
      BY <2>1, <3>1
  <2> QED
    BY <2>2 DEF Readi
<1>6. g \in Page
  BY <1>3, <1>4, <1>5 DEF Page, Vals
<1>7. PageOf(overgrown[p], v, a, g)
  BY Zenon, <1>5 DEF PageOf, i
<1>8. pte' = [pte EXCEPT ![p] = [pte[p] EXCEPT ![a] = g]] /\ job[p] = None
  BY Zenon, <1>1 DEF i, v, Running
<1> HIDE DEF g
<1>9. Layout(overgrown[p], sz[p], vmas[p], [pte[p] EXCEPT ![a] = g])
  BY Zenon, <1>1, <1>2, <1>6, <1>7, Own, PageLayout DEF v
<1>10. /\ overgrown' = [overgrown EXCEPT ![p] = overgrown[p]]
      /\ sz' = [sz EXCEPT ![p] = sz[p]] /\ vmas' = [vmas EXCEPT ![p] = vmas[p]]
       /\ job' = [job EXCEPT ![p] = None]
  BY Zenon, <1>1, <1>2, <1>8, Same
<1>11. Local(p, overgrown[p], sz[p], vmas[p], [pte[p] EXCEPT ![a] = g], None)
  BY Zenon, <1>2, <1>8, <1>9, <1>10, Idle DEF Local
<1> QED
  BY Zenon, <1>2, <1>11, LocalStep

\* A store changes what the page holds.
LEMMA StoreStep ==
  ASSUME Spaces, NEW p \in Procs, NEW a \in Pages, store(p, a)
  PROVE  Spaces'
<1>1. PICK s \in Used(p) :
        /\ Running(p) /\ Covers(vmas[p][s], a) /\ pte[p][a] # None
        /\ pte' = [pte EXCEPT ![p][a].val =
             IF vmas[p][s].flags = "MAP_SHARED" THEN "shared" ELSE "private"]
        /\ UNCHANGED <<overgrown, sz, vmas, job>>
  BY Zenon DEF store
<1> DEFINE v == vmas[p][s]
           g == [pte[p][a] EXCEPT !.val = IF v.flags = "MAP_SHARED" THEN "shared" ELSE "private"]
<1>2. s \in UsedIn(vmas[p]) /\ pte[p][a] \in Page
  BY <1>1, Own
<1>3. PageOf(overgrown[p], v, a, pte[p][a])
  BY Zenon, <1>1, <1>2, Own DEF Layout, Faithful
<1>4. /\ g \in Page /\ g.home = pte[p][a].home /\ g.w = pte[p][a].w
      /\ g.val = IF v.flags = "MAP_SHARED" THEN "shared" ELSE "private"
  BY <1>2 DEF Page, Vals
<1>5. pte' = [pte EXCEPT ![p] = [pte[p] EXCEPT ![a] = g]] /\ job[p] = None
  BY <1>1 DEF Running
<1> HIDE DEF v, g
<1>6. PageOf(overgrown[p], v, a, g)
  BY Zenon, <1>3, <1>4 DEF PageOf
<1>7. Layout(overgrown[p], sz[p], vmas[p], [pte[p] EXCEPT ![a] = g])
  BY Zenon, <1>1, <1>2, <1>4, <1>6, Own, PageLayout DEF v
<1>8. /\ overgrown' = [overgrown EXCEPT ![p] = overgrown[p]]
      /\ sz' = [sz EXCEPT ![p] = sz[p]] /\ vmas' = [vmas EXCEPT ![p] = vmas[p]]
      /\ job' = [job EXCEPT ![p] = None]
  BY <1>1, <1>5, Same
<1>9. Local(p, overgrown[p], sz[p], vmas[p], [pte[p] EXCEPT ![a] = g], None)
  BY Zenon, <1>5, <1>7, <1>8, Idle DEF Local
<1> QED
  BY <1>9, LocalStep

\* The first entry that holds [a, e) is the one it lies in.
LEMMA HoldingIs ==
  ASSUME Spaces, NEW p \in Procs, NEW a \in Nat, NEW e \in Nat, Holding(p, a, e) # {}
  PROVE  /\ Min(Holding(p, a, e)) \in UsedIn(vmas[p])
         /\ vmas[p][Min(Holding(p, a, e))].addr <= a
         /\ e <= End(vmas[p][Min(Holding(p, a, e))])
<1>1. Holding(p, a, e) \in SUBSET Nat
  BY Bounds DEF Holding, Used, Slots
<1>2. Min(Holding(p, a, e)) \in Holding(p, a, e)
  BY <1>1, Least
<1> QED
  BY Zenon, <1>2, Own DEF Holding

\* munmap starts vma_unmap on the first entry that holds the range.
LEMMA MunmapStep ==
  ASSUME Spaces, NEW p \in Procs, NEW a \in Pages, NEW e \in 1 .. TRAPFRAME, munmap(p, a, e)
  PROVE  Spaces'
<1> DEFINE s == Min(Holding(p, a, e))
           j == [then |-> "munmap", i |-> 0, slot |-> s, addr |-> a, va |-> a, end |-> e]
<1>1. /\ a < e /\ Holding(p, a, e) # {}
      /\ a = vmas[p][s].addr \/ e = End(vmas[p][s])
      /\ job' = [job EXCEPT ![p] = j] /\ UNCHANGED <<overgrown, sz, vmas, pte>>
  BY Zenon DEF munmap
<1>2. a \in Nat /\ e \in Nat
  BY Bounds DEF Pages
<1>3. s \in UsedIn(vmas[p]) /\ vmas[p][s].addr <= a /\ e <= End(vmas[p][s])
  BY Zenon, <1>1, <1>2, HoldingIs
<1>4. s \in 0 .. NVMA /\ s # 0
  BY <1>3, Bounds DEF UsedIn, Slots
<1> HIDE DEF s
<1>5. j \in Job /\ j # None
  <2>1. a \in 0 .. TRAPFRAME /\ e \in 0 .. TRAPFRAME /\ 0 \in 0 .. NVMA
    BY Bounds DEF Pages
  <2>2. j \in Job
    BY Zenon, <1>4, <2>1 DEF Job
  <2> QED
    BY Zenon, <2>2, NoneAssumption DEF NoneAssumption
<1>6. Cutting(j, vmas[p], pte[p])
  <2>1. j.slot = s /\ j.addr = a /\ j.va = a /\ j.end = e
    BY Zenon
  <2>2. a <= a /\ a <= e /\ \A b \in Pages : ~(a <= b /\ b < a)
    BY <1>1, <1>2, Bounds DEF Pages
  <2> HIDE DEF j
  <2> QED
    BY Zenon, <1>1, <1>3, <2>1, <2>2 DEF Cutting
<1>7. Working(j, vmas[p], pte[p])
  BY Zenon, <1>4, <1>5, <1>6 DEF Working
<1> HIDE DEF j
<1>8. /\ overgrown' = [overgrown EXCEPT ![p] = overgrown[p]]
      /\ sz' = [sz EXCEPT ![p] = sz[p]] /\ vmas' = [vmas EXCEPT ![p] = vmas[p]]
      /\ pte' = [pte EXCEPT ![p] = pte[p]] /\ job' = [job EXCEPT ![p] = j]
      /\ j \in Job \cup {None} /\ Layout(overgrown[p], sz[p], vmas[p], pte[p])
  BY Zenon, <1>1, <1>5, Same, Own
<1>9. Local(p, overgrown[p], sz[p], vmas[p], pte[p], j)
  BY <1>7, <1>8 DEF Local
<1> QED
  BY Zenon, <1>9, LocalStep

\* vma_unmap_all takes up its next entry, and vma_unmap finds that same entry.
LEMMA UnmapNextStep ==
  ASSUME Spaces, NEW p \in Procs, unmap_next(p)
  PROVE  Spaces'
<1> DEFINE s == Min(Rest(p))
           v == vmas[p][s]
           t == Min(Holding(p, v.addr, End(v)))
           j == [then |-> job[p].then, i |-> s, slot |-> t,
                 addr |-> v.addr, va |-> v.addr, end |-> End(v)]
<1>1. /\ job[p] # None /\ job[p].slot = 0 /\ Rest(p) # {}
      /\ job' = [job EXCEPT ![p] = j] /\ UNCHANGED <<overgrown, sz, vmas, pte>>
  BY Zenon DEF unmap_next
<1>2. /\ job[p] \in Job /\ job[p].then # "munmap" /\ Clearing(job[p], vmas[p])
      /\ vmas[p] \in [Slots -> VMA \cup {None}] /\ Layout(overgrown[p], sz[p], vmas[p], pte[p])
      /\ Used(p) = UsedIn(vmas[p])
  BY Zenon, <1>1, Own DEF Working
<1>3. s \in Rest(p) /\ \A u \in Rest(p) : s <= u
  <2>1. Rest(p) \in SUBSET Nat
    BY Bounds DEF Rest, Used, Slots
  <2> QED
    BY Zenon, <1>1, <2>1, Least
<1>4. s \in UsedIn(vmas[p]) /\ s \in Nat /\ s # 0 /\ s \in 0 .. NVMA
  <2>1. s \in UsedIn(vmas[p]) /\ s \in Slots
    BY Zenon, <1>2, <1>3 DEF Rest, UsedIn
  <2> HIDE DEF s
  <2> QED
    BY <2>1, Bounds DEF Slots
<1>5. \A u \in UsedIn(vmas[p]) : u \in Nat /\ s <= u
  <2>1. \A u \in UsedIn(vmas[p]) : u \in Nat /\ u # 0
    BY Bounds DEF UsedIn, Slots
  <2>2. \A u \in UsedIn(vmas[p]) : job[p].i < u
    BY Zenon, <1>1, <1>2, <2>1 DEF Clearing
  <2> QED
    BY Zenon, <1>2, <1>3, <2>1, <2>2 DEF Rest
<1> HIDE DEF s
<1>6. /\ v.addr \in Pages /\ v.addr \in Nat /\ End(v) \in Nat /\ v.addr < End(v)
      /\ End(v) <= TRAPFRAME
  BY Zenon, <1>2, <1>4, UsedAre DEF Layout, Placed
<1>7. t = s
  <2>1. s \in Holding(p, v.addr, End(v))
    <3>1. v.addr <= v.addr /\ End(v) <= End(v)
      BY <1>6
    <3> QED
      BY Zenon, <1>2, <1>4, <3>1 DEF Holding
  <2>2. t \in UsedIn(vmas[p]) /\ vmas[p][t].addr <= v.addr /\ End(v) <= End(vmas[p][t])
    BY Zenon, <1>6, <2>1, HoldingIs
  <2>3. vmas[p][t].addr \in Nat /\ End(vmas[p][t]) \in Nat
    BY Zenon, <1>2, <2>2, UsedAre
  <2>4. t # s => End(v) <= vmas[p][t].addr \/ End(vmas[p][t]) <= v.addr
    BY Zenon, <1>2, <1>4, <2>2 DEF Layout, Disjoint
  <2> HIDE DEF t, v
  <2> QED
    BY <1>6, <2>2, <2>3, <2>4
<1> HIDE DEF t
<1>8. j \in Job /\ j # None
  <2>1. job[p].then \in {"munmap", "exit", "exec"}
    BY Zenon, <1>2 DEF Job
  <2>2. v.addr \in 0 .. TRAPFRAME /\ End(v) \in 0 .. TRAPFRAME
    BY <1>6, Bounds DEF Pages
  <2>3. j \in Job
    BY Zenon, <1>4, <1>6, <1>7, <2>1, <2>2 DEF Job
  <2> QED
    BY Zenon, <2>3, NoneAssumption DEF NoneAssumption
<1>9. Cutting(j, vmas[p], pte[p])
  <2>1. /\ j.slot = s /\ j.addr = v.addr /\ j.va = v.addr /\ j.end = End(v) /\ j.i = s
    BY Zenon, <1>7
  <2>2. v.addr <= v.addr /\ End(v) <= End(v) /\ v.addr <= End(v)
    BY <1>6
  <2>3. \A a \in Pages : ~(v.addr <= a /\ a < v.addr)
    BY <1>6, Bounds DEF Pages
  <2> HIDE DEF j
  <2> QED
    BY Zenon, <1>4, <1>6, <2>1, <2>2, <2>3 DEF Cutting
<1>10. Clearing(j, vmas[p])
  <2>1. \A u \in UsedIn(vmas[p]) : s < u \/ u = s
    BY <1>4, <1>5
  <2> QED
    BY Zenon, <1>7, <2>1 DEF Clearing
<1>11. Working(j, vmas[p], pte[p])
  BY Zenon, <1>2, <1>8, <1>9, <1>10 DEF Working
<1> HIDE DEF j
<1>12. /\ overgrown' = [overgrown EXCEPT ![p] = overgrown[p]]
      /\ sz' = [sz EXCEPT ![p] = sz[p]] /\ vmas' = [vmas EXCEPT ![p] = vmas[p]]
       /\ pte' = [pte EXCEPT ![p] = pte[p]] /\ job' = [job EXCEPT ![p] = j]
       /\ j \in Job \cup {None} /\ Layout(overgrown[p], sz[p], vmas[p], pte[p])
  BY Zenon, <1>1, <1>2, <1>8, Same
<1>13. Local(p, overgrown[p], sz[p], vmas[p], pte[p], j)
  BY Zenon, <1>11, <1>12 DEF Local
<1> QED
  BY Zenon, <1>13, LocalStep

\* What a process in vma_unmap has
LEMMA CuttingIs ==
  ASSUME Spaces, NEW p \in Procs, job[p] # None, job[p].slot # 0
  PROVE  /\ job[p] \in Job /\ Cutting(job[p], vmas[p], pte[p])
         /\ job[p].then = "munmap" \/ Clearing(job[p], vmas[p])
         /\ job[p].slot \in UsedIn(vmas[p]) /\ vmas[p][job[p].slot] \in VMA
         /\ job[p].va \in Nat /\ job[p].addr \in Nat /\ job[p].end \in Nat
         /\ sz[p] \in Nat /\ (~overgrown[p] => sz[p] <= job[p].va)
         /\ job[p].va < job[p].end => job[p].va \in Pages
<1>1. /\ job[p] \in Job /\ Cutting(job[p], vmas[p], pte[p])
      /\ job[p].then = "munmap" \/ Clearing(job[p], vmas[p])
      /\ vmas[p] \in [Slots -> VMA \cup {None}] /\ Layout(overgrown[p], sz[p], vmas[p], pte[p])
  BY Zenon, Own DEF Working
<1>2. job[p].slot \in UsedIn(vmas[p])
  BY Zenon, <1>1 DEF Cutting
<1>3. /\ job[p].va \in 0 .. TRAPFRAME /\ job[p].addr \in Pages /\ job[p].end \in 0 .. TRAPFRAME
  BY Zenon, <1>1 DEF Job
<1>4. /\ job[p].va \in Nat /\ job[p].addr \in Nat /\ job[p].end \in Nat /\ sz[p] \in Nat
      /\ job[p].va < job[p].end => job[p].va \in Pages
  BY Zenon, <1>3, Own, PageNumbers
<1>5. vmas[p][job[p].slot] \in VMA /\ vmas[p][job[p].slot].addr \in Nat
  BY Zenon, <1>1, <1>2, UsedAre
<1>6. ~overgrown[p] => sz[p] <= vmas[p][job[p].slot].addr
  BY Zenon, <1>1, <1>2 DEF Layout, Placed
<1>7. vmas[p][job[p].slot].addr <= job[p].addr /\ job[p].addr <= job[p].va
  BY Zenon, <1>1 DEF Cutting
<1>8. ~overgrown[p] => sz[p] <= job[p].va
  BY Zenon, <1>4, <1>5, <1>6, <1>7, Ascending
<1> QED
  BY Zenon, <1>1, <1>2, <1>4, <1>5, <1>8

\* vma_unmap takes one page out.
LEMMA UnmapPageStep ==
  ASSUME Spaces, NEW p \in Procs, unmap_page(p)
  PROVE  Spaces'
<1> DEFINE k == job[p]
           j == [k EXCEPT !.va = @ + 1]
           pg == [pte[p] EXCEPT ![k.va] = None]
<1>1. /\ k # None /\ k.slot # 0 /\ k.va < k.end
      /\ pte' = [pte EXCEPT ![p] = pg] /\ job' = [job EXCEPT ![p] = j]
      /\ UNCHANGED <<overgrown, sz, vmas>>
  BY Zenon DEF unmap_page
<1>2. /\ k \in Job /\ Cutting(k, vmas[p], pte[p])
      /\ k.then = "munmap" \/ Clearing(k, vmas[p])
      /\ k.va \in Nat /\ k.addr \in Nat /\ k.end \in Nat /\ k.va \in Pages
      /\ ~overgrown[p] => sz[p] <= k.va
  BY Zenon, <1>1, CuttingIs
<1>3. k.va + 1 \in 0 .. TRAPFRAME
  BY <1>1, <1>2, Bounds DEF Pages
<1>4. /\ j \in Job /\ j.va = k.va + 1 /\ j.slot = k.slot /\ j.addr = k.addr /\ j.end = k.end
      /\ j.then = k.then /\ j.i = k.i
  BY Zenon, <1>2, <1>3 DEF Job
<1>5. /\ Layout(overgrown[p], sz[p], vmas[p], pg)
  BY Zenon, <1>2, Own, GoneLayout
<1>6. pg[k.va] = None /\ \A b \in Pages : b # k.va => pg[b] = pte[p][b]
  BY Zenon, <1>2, Own
<1>7. job' = [job EXCEPT ![p] = j] /\ pte' = [pte EXCEPT ![p] = pg]
  BY <1>1
<1> HIDE DEF j, pg, k
<1>8. Cutting(j, vmas[p], pg)
  <2>1. \A a \in Pages : j.addr <= a /\ a < j.va => pg[a] = None
    <3> SUFFICES ASSUME NEW a \in Pages, j.addr <= a, a < j.va PROVE pg[a] = None
      OBVIOUS
    <3>1. a \in Nat
      BY Bounds DEF Pages
    <3>2. a # k.va => a < k.va /\ k.addr <= a
      BY <1>2, <1>4, <3>1
    <3> QED
      BY Zenon, <1>2, <1>6, <3>2 DEF Cutting
  <2>2. k.addr <= k.va + 1 /\ k.va + 1 <= k.end
    <3>1. k.va < k.end /\ k.addr <= k.va
      BY Zenon, <1>1, <1>2 DEF Cutting
    <3> QED
      BY <1>2, <3>1
  <2> QED
    BY Zenon, <1>2, <1>4, <2>1, <2>2 DEF Cutting
<1>9. Working(j, vmas[p], pg)
  BY Zenon, <1>1, <1>2, <1>4, <1>8 DEF Working, Clearing
<1>10. /\ overgrown' = [overgrown EXCEPT ![p] = overgrown[p]]
      /\ sz' = [sz EXCEPT ![p] = sz[p]] /\ vmas' = [vmas EXCEPT ![p] = vmas[p]]
       /\ j \in Job \cup {None}
  BY Zenon, <1>1, <1>4, Same
<1>11. Local(p, overgrown[p], sz[p], vmas[p], pg, j)
  BY Zenon, <1>5, <1>7, <1>9, <1>10 DEF Local
<1> QED
  BY Zenon, <1>11, LocalStep

\* The end of vma_unmap for a whole mapping
LEMMA DropStep ==
  ASSUME Spaces, NEW p \in Procs, job[p] # None, job[p].slot # 0, job[p].va = job[p].end,
         job[p].addr = vmas[p][job[p].slot].addr, job[p].end = End(vmas[p][job[p].slot]),
         vmas' = [vmas EXCEPT ![p] = [vmas[p] EXCEPT ![job[p].slot] = None]],
         job' = [job EXCEPT ![p] = IF job[p].then = "munmap" THEN None
                                   ELSE [job[p] EXCEPT !.slot = 0]],
         overgrown' = overgrown, sz' = sz, pte' = pte
  PROVE  Spaces'
<1> DEFINE k == job[p]
           vs == [vmas[p] EXCEPT ![k.slot] = None]
           j == IF k.then = "munmap" THEN None ELSE [k EXCEPT !.slot = 0]
<1>1. /\ k \in Job /\ Cutting(k, vmas[p], pte[p])
      /\ k.then = "munmap" \/ Clearing(k, vmas[p])
      /\ k.slot \in UsedIn(vmas[p])
  BY Zenon, CuttingIs
<1>2. \A a \in Pages : Covers(vmas[p][k.slot], a) => pte[p][a] = None
  BY Zenon, <1>1 DEF Covers, Cutting
<1>3. Layout(overgrown[p], sz[p], vs, pte[p])
  BY Zenon, <1>1, <1>2, Own, DropLayout
<1>4. \A s \in UsedIn(vs) : s \in UsedIn(vmas[p]) /\ s # k.slot
  BY <1>1, Own DEF UsedIn
<1>5. /\ vmas' = [vmas EXCEPT ![p] = vs] /\ job' = [job EXCEPT ![p] = j]
      /\ overgrown' = [overgrown EXCEPT ![p] = overgrown[p]]
      /\ sz' = [sz EXCEPT ![p] = sz[p]] /\ pte' = [pte EXCEPT ![p] = pte[p]]
  BY Same
<1> HIDE DEF vs
<1>6. Working(j, vs, pte[p]) /\ j \in Job \cup {None}
  <2>1. CASE k.then = "munmap"
    BY <2>1 DEF Working
  <2>2. CASE k.then # "munmap"
    <3>1. j = [k EXCEPT !.slot = 0]
      BY <2>2
    <3>2. j \in Job /\ j.slot = 0 /\ j.i = k.i /\ j.then = k.then
      BY <1>1, <3>1, Bounds DEF Job
    <3> HIDE DEF j
    <3>3. Clearing(j, vs)
      BY Zenon, <1>1, <1>4, <2>2, <3>2 DEF Clearing
    <3> QED
      BY Zenon, <2>2, <3>2, <3>3 DEF Working
  <2> QED
    BY Zenon, <2>1, <2>2
<1> HIDE DEF j
<1>7. Local(p, overgrown[p], sz[p], vs, pte[p], j)
  BY Zenon, <1>3, <1>5, <1>6 DEF Local
<1> QED
  BY <1>7, LocalStep

\* What vma_unmap leaves of a mapping
Remains(w, v, k) ==
  /\ w.file = v.file /\ w.flags = v.flags /\ w.prot = v.prot
  /\ w.offset = v.offset + (w.addr - v.addr)
  /\ \/ k.addr = v.addr /\ w.addr = k.end /\ End(w) = End(v)
     \/ k.end = End(v) /\ w.addr = v.addr /\ End(w) = k.addr

\* The end of vma_unmap for a head or a tail, which only munmap asks for
LEMMA CutStep ==
  ASSUME Spaces, NEW p \in Procs, job[p] # None, job[p].slot # 0, job[p].va = job[p].end,
         ~(job[p].addr = vmas[p][job[p].slot].addr /\ job[p].end = End(vmas[p][job[p].slot])),
         NEW w \in VMA, Remains(w, vmas[p][job[p].slot], job[p]),
         vmas' = [vmas EXCEPT ![p] = [vmas[p] EXCEPT ![job[p].slot] = w]],
         job' = [job EXCEPT ![p] = IF job[p].then = "munmap" THEN None
                                   ELSE [job[p] EXCEPT !.slot = 0]],
         overgrown' = overgrown, sz' = sz, pte' = pte
  PROVE  Spaces'
<1> DEFINE k == job[p]
           v == vmas[p][k.slot]
           vs == [vmas[p] EXCEPT ![k.slot] = w]
<1>1. /\ k \in Job /\ Cutting(k, vmas[p], pte[p])
      /\ k.then = "munmap" \/ Clearing(k, vmas[p])
      /\ k.slot \in UsedIn(vmas[p])
      /\ k.addr \in Nat /\ k.end \in Nat /\ k.va \in Nat
  BY Zenon, CuttingIs
<1>2. k.then = "munmap"
  BY Zenon, <1>1 DEF Clearing
<1>3. v.addr \in Nat /\ End(v) \in Nat
  BY Zenon, <1>1, Own, UsedAre
<1>4. v.addr <= w.addr /\ End(w) <= End(v) /\ w.addr \in Nat /\ End(w) \in Nat
  <2>1. /\ \/ k.addr = v.addr /\ w.addr = k.end /\ End(w) = End(v)
           \/ k.end = End(v) /\ w.addr = v.addr /\ End(w) = k.addr
        /\ v.addr <= k.addr /\ k.addr < k.end /\ k.end <= End(v)
    BY Zenon, <1>1 DEF Cutting, Remains
  <2> HIDE DEF k, v
  <2> QED
    BY <1>1, <1>3, <2>1
<1>5. ASSUME NEW a \in Pages, Covers(v, a), ~Covers(w, a) PROVE pte[p][a] = None
  <2>1. a \in Nat
    BY Bounds DEF Pages
  <2>2. /\ \/ k.addr = v.addr /\ w.addr = k.end /\ End(w) = End(v)
           \/ k.end = End(v) /\ w.addr = v.addr /\ End(w) = k.addr
        /\ k.va = k.end
    BY Zenon DEF Remains
  <2>3. k.addr <= a /\ a < k.va
    <3> HIDE DEF k, v
    <3> QED
      BY <1>1, <1>3, <1>4, <1>5, <2>1, <2>2 DEF Covers
  <2> QED
    BY Zenon, <1>1, <2>3 DEF Cutting
<1>6. Layout(overgrown[p], sz[p], vs, pte[p])
  BY Zenon, <1>1, <1>4, <1>5, Own, CutLayout DEF Remains
<1>7. /\ vmas' = [vmas EXCEPT ![p] = vs] /\ job' = [job EXCEPT ![p] = None]
      /\ overgrown' = [overgrown EXCEPT ![p] = overgrown[p]]
      /\ sz' = [sz EXCEPT ![p] = sz[p]] /\ pte' = [pte EXCEPT ![p] = pte[p]]
  BY Zenon, <1>2, Same
<1> HIDE DEF vs
<1>8. Local(p, overgrown[p], sz[p], vs, pte[p], None)
  BY Zenon, <1>6, <1>7, Idle DEF Local
<1> QED
  BY Zenon, <1>8, LocalStep

\* The end of vma_unmap: the whole mapping, its head or its tail
LEMMA UnmapEndIs ==
  ASSUME Spaces, NEW p \in Procs, unmap_end(p)
  PROVE  LET k == job[p]
             v == vmas[p][k.slot]
         IN \/ /\ k.addr = v.addr /\ k.end = End(v)
               /\ vmas' = [vmas EXCEPT ![p] = [vmas[p] EXCEPT ![k.slot] = None]]
               /\ ref' = [ref EXCEPT ![v.file] = @ - 1]
            \/ /\ ~(k.addr = v.addr /\ k.end = End(v)) /\ ref' = ref
               /\ \E w \in VMA : /\ Remains(w, v, k)
                                 /\ vmas' = [vmas EXCEPT ![p] = [vmas[p] EXCEPT ![k.slot] = w]]
<1> DEFINE k == job[p]
           v == vmas[p][k.slot]
<1>1. k # None /\ k.slot # 0
  BY Zenon DEF unmap_end
<1>2. \/ /\ k.addr = v.addr /\ k.end = End(v)
         /\ vmas' = [vmas EXCEPT ![p] = [vmas[p] EXCEPT ![k.slot] = None]]
         /\ ref' = [ref EXCEPT ![v.file] = @ - 1]
      \/ /\ k.addr = v.addr /\ k.end # End(v) /\ ref' = ref
         /\ vmas' = [vmas EXCEPT ![p] = [vmas[p] EXCEPT ![k.slot] =
              [v EXCEPT !.addr = k.end, !.offset = @ + (k.end - k.addr),
                        !.length = @ - (k.end - k.addr)]]]
      \/ /\ k.addr # v.addr /\ ref' = ref
         /\ vmas' = [vmas EXCEPT ![p] = [vmas[p] EXCEPT ![k.slot] =
              [v EXCEPT !.length = @ - (k.end - k.addr)]]]
  BY Zenon DEF unmap_end
<1>3. /\ v \in VMA /\ k.addr \in Nat /\ k.end \in Nat /\ k.slot \in UsedIn(vmas[p])
      /\ Cutting(k, vmas[p], pte[p])
  BY Zenon, <1>1, CuttingIs
<1>4. /\ v.addr \in Nat /\ v.length \in Nat /\ v.offset \in Nat /\ End(v) = v.addr + v.length
      /\ End(v) <= TRAPFRAME
  <2>1. v.addr \in Pages /\ v.length \in 1 .. TRAPFRAME /\ v.offset \in Nat
    BY Zenon, <1>3 DEF VMA
  <2>2. End(v) <= TRAPFRAME
    BY Zenon, <1>3, Own DEF Layout, Placed
  <2> HIDE DEF v
  <2> QED
    BY <2>1, <2>2, Bounds DEF Pages, End
<1>5. /\ v.addr <= k.addr /\ k.addr < k.end /\ k.end <= End(v)
      /\ k.addr = v.addr \/ k.end = End(v)
  BY Zenon, <1>3 DEF Cutting
<1> HIDE DEF k, v
<1>6. CASE k.addr = v.addr /\ k.end = End(v)
  BY Zenon, <1>2, <1>6 DEF k, v
<1>7. CASE k.addr = v.addr /\ k.end # End(v)
  <2> DEFINE w == [v EXCEPT !.addr = k.end, !.offset = @ + (k.end - k.addr),
                            !.length = @ - (k.end - k.addr)]
  <2>1. ref' = ref /\ vmas' = [vmas EXCEPT ![p] = [vmas[p] EXCEPT ![k.slot] = w]]
    BY Zenon, <1>2, <1>7
  <2>2. /\ k.end \in Pages /\ v.offset + (k.end - k.addr) \in Nat
        /\ v.length - (k.end - k.addr) \in 1 .. TRAPFRAME
    <3>1. k.addr \in Nat /\ k.end \in Nat
      BY Zenon, <1>3
    <3> QED
      BY <1>4, <1>5, <1>7, <3>1, Bounds DEF Pages
  <2>3. /\ w \in VMA /\ w.addr = k.end /\ w.offset = v.offset + (k.end - k.addr)
        /\ w.length = v.length - (k.end - k.addr)
        /\ w.file = v.file /\ w.flags = v.flags /\ w.prot = v.prot
    BY Zenon, <1>3, <2>2 DEF VMA
  <2> HIDE DEF w
  <2>4. End(w) = End(v) /\ w.offset = v.offset + (w.addr - v.addr)
    BY <1>3, <1>4, <1>7, <2>3 DEF End
  <2>5. Remains(w, v, k)
    BY Zenon, <1>7, <2>3, <2>4 DEF Remains
  <2> QED
    BY Zenon, <1>7, <2>1, <2>3, <2>5 DEF k, v
<1>8. CASE k.addr # v.addr
  <2> DEFINE w == [v EXCEPT !.length = @ - (k.end - k.addr)]
  <2>1. ref' = ref /\ vmas' = [vmas EXCEPT ![p] = [vmas[p] EXCEPT ![k.slot] = w]]
    BY Zenon, <1>2, <1>8
  <2>2. v.length - (k.end - k.addr) \in 1 .. TRAPFRAME
    BY <1>3, <1>4, <1>5, <1>8, Bounds
  <2>3. /\ w \in VMA /\ w.addr = v.addr /\ w.offset = v.offset
        /\ w.length = v.length - (k.end - k.addr)
        /\ w.file = v.file /\ w.flags = v.flags /\ w.prot = v.prot
    BY Zenon, <1>3, <2>2 DEF VMA
  <2> HIDE DEF w
  <2>4. End(w) = k.addr /\ w.offset = v.offset + (w.addr - v.addr)
    BY <1>3, <1>4, <1>5, <1>8, <2>3 DEF End
  <2>5. Remains(w, v, k)
    BY Zenon, <1>5, <1>8, <2>3, <2>4 DEF Remains
  <2> QED
    BY Zenon, <1>8, <2>1, <2>3, <2>5 DEF k, v
<1> QED
  BY Zenon, <1>6, <1>7, <1>8

\* vma_unmap cuts the entry down or frees it.
LEMMA UnmapEndStep ==
  ASSUME Spaces, NEW p \in Procs, unmap_end(p)
  PROVE  Spaces'
<1>1. /\ job[p] # None /\ job[p].slot # 0 /\ job[p].va = job[p].end
      /\ overgrown' = overgrown /\ sz' = sz /\ pte' = pte
      /\ job' = [job EXCEPT ![p] = IF job[p].then = "munmap" THEN None
                                   ELSE [job[p] EXCEPT !.slot = 0]]
  BY Zenon DEF unmap_end
<1> QED
  BY Zenon, <1>1, UnmapEndIs, DropStep, CutStep

\* The life of processes, and sbrk.  A process that ends or starts an image has
\* no mappings left: the loop of vma_unmap_all has seen every entry.
LEMMA ExitStep ==
  ASSUME Spaces, NEW p \in Procs, exit(p) \/ exec(p)
  PROVE  Spaces'
<1>1. PICK then \in {"exit", "exec"} : UnmapAll(p, then) /\ UNCHANGED <<overgrown, sz, vmas, pte>>
  BY DEF exit, exec
<1> DEFINE j == [then |-> then, i |-> 0, slot |-> 0, addr |-> 0, va |-> 0, end |-> 0]
<1>2. 0 \in Pages /\ 0 \in 0 .. NVMA /\ 0 \in 0 .. TRAPFRAME
  BY Bounds DEF Pages
<1>3. j \in Job
  BY <1>2 DEF Job
<1>4. Clearing(j, vmas[p])
  BY Bounds DEF Clearing, UsedIn, Slots
<1>5. Working(j, vmas[p], pte[p])
  BY Zenon, <1>3, <1>4 DEF Working
<1>6. job' = [job EXCEPT ![p] = j]
  BY Zenon, <1>1 DEF UnmapAll
<1> HIDE DEF j
<1>7. Local(p, overgrown[p], sz[p], vmas[p], pte[p], j)
  BY Zenon, <1>1, <1>3, <1>5, <1>6, Own, Same DEF Local
<1> QED
  BY Zenon, <1>7, LocalStep

\* Once vma_unmap_all is through no entry is in use.
LEMMA NoneLeft ==
  ASSUME Spaces, NEW p \in Procs, job[p] # None, job[p].then # "munmap", job[p].slot = 0,
         Rest(p) = {}
  PROVE  UsedIn(vmas[p]) = {}
<1>1. Clearing(job[p], vmas[p]) /\ Used(p) = UsedIn(vmas[p])
  BY Zenon, Own DEF Working
<1>2. \A s \in UsedIn(vmas[p]) : s # 0
  BY Bounds DEF UsedIn, Slots
<1> QED
  BY Zenon, <1>1, <1>2 DEF Clearing, Rest

\* proc_freepagetable finds what it expects, unless the heap grew into a mapping.
LEMMA FreesWell ==
  ASSUME Spaces, NEW p \in Procs, UsedIn(vmas[p]) = {}, ~overgrown[p]
  PROVE  ~FreePanics(p)
<1>1. Resident(overgrown[p], sz[p], vmas[p], pte[p])
  BY Zenon, Own DEF Layout
<1> QED
  BY <1>1 DEF FreePanics, Resident

\* What is left of the image of a process without mappings when it is freed
LEMMA FreeCalm ==
  ASSUME Spaces, NEW p \in Procs, UsedIn(vmas[p]) = {}, panicked' = FreePanics(p),
         overgrown' = [overgrown EXCEPT ![p] = overgrown[p] /\ panicked']
  PROVE  Calm' /\ (overgrown[p] /\ panicked') \in BOOLEAN
<1>1. overgrown'[p] = (overgrown[p] /\ panicked')
  BY Zenon DEF Spaces
<1>2. panicked' \in BOOLEAN
  BY Zenon DEF FreePanics
<1>3. panicked' => overgrown[p]
  BY Zenon, FreesWell
<1> QED
  BY Zenon, <1>1, <1>2, <1>3 DEF Calm

\* exit leaves the zombie its heap.
LEMMA ExitEndStep ==
  ASSUME Spaces, NEW p \in Procs, exit_end(p)
  PROVE  Spaces' /\ UsedIn(vmas[p]) = {}
<1>1. /\ job[p] # None /\ job[p].then # "munmap" /\ job[p].slot = 0 /\ Rest(p) = {}
      /\ job' = [job EXCEPT ![p] = None] /\ UNCHANGED <<overgrown, sz, vmas, pte>>
  BY Zenon DEF exit_end
<1>2. Local(p, overgrown[p], sz[p], vmas[p], pte[p], None)
  BY Zenon, <1>1, Own, Same, Idle DEF Local
<1> QED
  BY Zenon, <1>1, <1>2, LocalStep, NoneLeft

\* exec replaces the image once the mappings are gone.
LEMMA ExecEndStep ==
  ASSUME Spaces, NEW p \in Procs, exec_end(p)
  PROVE  Spaces' /\ Calm'
<1> DEFINE o == overgrown[p] /\ panicked'
<1>1. /\ job[p] # None /\ job[p].then # "munmap" /\ job[p].slot = 0 /\ Rest(p) = {}
      /\ job' = [job EXCEPT ![p] = None] /\ sz' = [sz EXCEPT ![p] = InitSz]
      /\ pte' = [pte EXCEPT ![p] = Image(InitSz)] /\ vmas' = vmas
      /\ overgrown' = [overgrown EXCEPT ![p] = o] /\ panicked' = FreePanics(p)
  BY Zenon DEF exec_end
<1>2. UsedIn(vmas[p]) = {}
  BY Zenon, <1>1, NoneLeft
<1>3. Calm' /\ o \in BOOLEAN
  BY Zenon, <1>1, <1>2, FreeCalm
<1> HIDE DEF o
<1>4. InitSz \in 0 .. TRAPFRAME
  BY Bounds
<1>5. Layout(o, InitSz, vmas[p], Image(InitSz))
  BY Zenon, <1>2, <1>3, <1>4, Own, FreshLayout
<1>6. Local(p, o, InitSz, vmas[p], Image(InitSz), None)
  BY Zenon, <1>1, <1>5, Same, Idle DEF Local
<1> QED
  BY Zenon, <1>3, <1>6, LocalStep

\* freeproc frees the heap, the only pages left.
LEMMA FreeprocStep ==
  ASSUME Spaces, Alive, NEW p \in Procs, freeproc(p)
  PROVE  Spaces' /\ Calm'
<1> DEFINE o == overgrown[p] /\ panicked'
<1>1. /\ sz' = [sz EXCEPT ![p] = 0] /\ pte' = [pte EXCEPT ![p] = Image(0)] /\ vmas' = vmas
      /\ overgrown' = [overgrown EXCEPT ![p] = o] /\ panicked' = FreePanics(p)
      /\ job' = job /\ life[p] = "zombie"
  BY Zenon DEF freeproc
<1>2. UsedIn(vmas[p]) = {} /\ job[p] = None
  <2>1. life[p] # "alive"
    BY <1>1
  <2> QED
    BY Zenon, <2>1 DEF Alive
<1>3. Calm' /\ o \in BOOLEAN
  BY Zenon, <1>1, <1>2, FreeCalm
<1> HIDE DEF o
<1>4. 0 \in 0 .. TRAPFRAME
  BY Bounds
<1>5. Layout(o, 0, vmas[p], Image(0))
  BY Zenon, <1>2, <1>3, <1>4, Own, FreshLayout
<1>6. Local(p, o, 0, vmas[p], Image(0), None)
  BY Zenon, <1>1, <1>2, <1>5, Same, Idle DEF Local
<1> QED
  BY Zenon, <1>3, <1>6, LocalStep

\* fork copies the heap and the entries; the pages of mappings fault in anew.
LEMMA ForkStep ==
  ASSUME Spaces, Alive, NEW p \in Procs, NEW q \in Procs, fork(p, q)
  PROVE  Spaces' /\ Calm'
<1> DEFINE pg == [a \in Pages |-> IF a < sz[p] THEN pte[p][a] ELSE None]
<1>1. /\ sz' = [sz EXCEPT ![q] = sz[p]] /\ pte' = [pte EXCEPT ![q] = pg]
      /\ vmas' = [vmas EXCEPT ![q] = vmas[p]] /\ job' = job /\ life[q] = "unborn"
      /\ overgrown' = [overgrown EXCEPT ![q] = overgrown[p]]
      /\ panicked' = \E a \in Pages : a < sz[p] /\ pte[p][a] = None
  BY Zenon DEF fork
<1>2. Calm'
  <2>1. (\E a \in Pages : a < sz[p] /\ pte[p][a] = None) => overgrown[p]
    BY Zenon, Own DEF Layout, Resident
  <2>2. overgrown'[q] = overgrown[p]
    BY Zenon, <1>1 DEF Spaces
  <2> QED
    BY Zenon, <1>1, <2>1, <2>2 DEF Calm
<1>3. job[q] = None
  <2>1. life[q] # "alive"
    BY <1>1
  <2> QED
    BY Zenon, <2>1 DEF Alive
<1>4. Layout(overgrown[p], sz[p], vmas[p], pg)
  <2>1. Layout(overgrown[p], sz[p], vmas[p], pte[p])
    BY Zenon, Own
  <2> QED
    BY <2>1, CopyLayout
<1> HIDE DEF pg
<1>5. Local(q, overgrown[p], sz[p], vmas[p], pg, None)
  BY Zenon, <1>1, <1>3, <1>4, Same, Idle DEF Local
<1> QED
  BY Zenon, <1>2, <1>5, LocalStep

\* sbrk grows the heap, into a mapping or not, and panics only in the former case.
LEMMA GrowStep ==
  ASSUME Spaces, NEW p \in Procs, sbrk_grow(p)
  PROVE  Spaces' /\ Calm'
<1> DEFINE o == overgrown[p] \/ \E s \in Used(p) : Covers(vmas[p][s], sz[p])
<1>1. /\ sz[p] < MaxSz /\ pte' = [pte EXCEPT ![p] = [pte[p] EXCEPT ![sz[p]] = Heap]]
      /\ sz' = [sz EXCEPT ![p] = sz[p] + 1] /\ vmas' = vmas /\ job' = job /\ job[p] = None
      /\ overgrown' = [overgrown EXCEPT ![p] = o] /\ panicked' = (pte[p][sz[p]] # None)
  BY Zenon DEF sbrk_grow, Running
<1>2. sz[p] < TRAPFRAME
  BY <1>1, Own, Bounds
<1>3. /\ o \in BOOLEAN /\ (overgrown[p] => o)
      /\ (\E s \in UsedIn(vmas[p]) : Covers(vmas[p][s], sz[p])) => o
  BY Zenon, Own
<1> HIDE DEF o
<1>4. /\ ~o => pte[p][sz[p]] = None
      /\ Layout(o, sz[p] + 1, vmas[p], [pte[p] EXCEPT ![sz[p]] = Heap])
  <2>1. Layout(overgrown[p], sz[p], vmas[p], pte[p])
    BY Zenon, Own
  <2> QED
    BY <1>2, <1>3, <2>1, GrowLayout
<1>5. Calm'
  <2>1. overgrown'[p] = o
    BY Zenon, <1>1 DEF Spaces
  <2> QED
    BY Zenon, <1>1, <1>4, <2>1 DEF Calm
<1>6. Local(p, o, sz[p] + 1, vmas[p], [pte[p] EXCEPT ![sz[p]] = Heap], None)
  BY Zenon, <1>1, <1>4, Same, Idle DEF Local
<1> QED
  BY Zenon, <1>5, <1>6, LocalStep

\* sbrk gives up the last page of the heap, which is there unless a mapping that
\* the heap grew into took it.
LEMMA ShrinkStep ==
  ASSUME Spaces, NEW p \in Procs, sbrk_shrink(p)
  PROVE  Spaces' /\ Calm'
<1> DEFINE y == sz[p] - 1
<1>1. /\ sz[p] > 1 /\ pte' = [pte EXCEPT ![p] = [pte[p] EXCEPT ![y] = None]]
      /\ sz' = [sz EXCEPT ![p] = y] /\ vmas' = vmas /\ job' = job /\ job[p] = None
      /\ overgrown' = overgrown /\ panicked' = (pte[p][y] = None)
  BY Zenon DEF sbrk_shrink, Running
<1>2. sz[p] > 0
  BY <1>1, Own
<1>3. /\ ~overgrown[p] => pte[p][y] # None
      /\ Layout(overgrown[p], y, vmas[p], [pte[p] EXCEPT ![y] = None])
  BY Zenon, <1>2, Own, ShrinkLayout
<1> HIDE DEF y
<1>4. Calm'
  BY Zenon, <1>1, <1>3 DEF Calm
<1>5. Local(p, overgrown[p], y, vmas[p], [pte[p] EXCEPT ![y] = None], None)
  BY Zenon, <1>1, <1>3, Same, Idle DEF Local
<1> QED
  BY Zenon, <1>4, <1>5, LocalStep

----------------------------------------------------------------------------
(* The inductive invariant                                                  *)

\* What a step of p leaves alone of the other processes
Others(p) ==
  \A q \in Procs : q # p => vmas'[q] = vmas[q] /\ job'[q] = job[q] /\ fds'[q] = fds[q]

\* A step of a running process
LEMMA AliveKept ==
  ASSUME Alive, NEW p \in Procs, life[p] = "alive", life' = life, Others(p),
         fds' \in [Procs -> SUBSET Files], Calm'
  PROVE  Alive'
<1>1. ASSUME NEW q \in Procs, life'[q] # "alive"
      PROVE  job'[q] = None /\ fds'[q] = {} /\ UsedIn(vmas'[q]) = {}
  BY Zenon, <1>1 DEF Alive, Others
<1>2. life' \in [Procs -> {"unborn", "alive", "zombie"}]
  BY Zenon DEF Alive
<1> QED
  BY Zenon, <1>1, <1>2 DEF Alive, UsedIn

\* A process in vma_unmap or vma_unmap_all is alive.
LEMMA BusyAlive ==
  ASSUME Alive, NEW p \in Procs, job[p] # None
  PROVE  life[p] = "alive"
BY DEF Alive

\* Steps that change no descriptor, or one
LEMMA FileAlive ==
  ASSUME MInv, NEW p \in Procs, NEW f \in Files, open(p, f) \/ close(p, f)
  PROVE  Alive'
<1>1. fds' \in [Procs -> SUBSET Files] /\ \A q \in Procs : q # p => fds'[q] = fds[q]
  <2>1. fds \in [Procs -> SUBSET Files]
    BY Zenon DEF MInv, Alive
  <2>2. \E F \in SUBSET Files : fds' = [fds EXCEPT ![p] = F]
    BY <2>1 DEF open, close
  <2> QED
    BY Zenon, <2>1, <2>2
<1>2. /\ life[p] = "alive" /\ life' = life /\ Calm' /\ vmas' = vmas /\ job' = job
  BY Zenon, CalmKept DEF open, close, Running, MInv, Alive
<1> QED
  BY Zenon, <1>1, <1>2, AliveKept DEF Others, MInv

\* The steps of mappings keep what Alive says.
LEMMA MapAlive ==
  ASSUME MInv, NEW p \in Procs, Calm'
  PROVE  \/ \E f \in Files, r \in Requests : mmap(p, r, f)
         \/ \E a \in Pages : vma_fault(p, a) \/ store(p, a)
         \/ \E a \in Pages, e \in 1 .. TRAPFRAME : munmap(p, a, e)
         \/ unmap_next(p) \/ unmap_page(p) \/ unmap_end(p)
         \/ exit(p) \/ exec(p) \/ exec_end(p) \/ sbrk_grow(p) \/ sbrk_shrink(p)
         => Alive'
<1>1. /\ vmas \in [Procs -> [Slots -> VMA \cup {None}]] /\ job \in [Procs -> Job \cup {None}]
      /\ fds \in [Procs -> SUBSET Files]
  BY Zenon DEF MInv, Spaces, Alive
<1> DEFINE Kept == life' = life /\ fds' = fds /\ life[p] = "alive" /\ Others(p)
<1>2. ASSUME NEW f \in Files, NEW r \in Requests, mmap(p, r, f) PROVE Kept
  BY Zenon, <1>1, <1>2 DEF mmap, Others, Running
<1>3. ASSUME NEW a \in Pages, vma_fault(p, a) \/ store(p, a) PROVE Kept
  BY Zenon, <1>3 DEF vma_fault, store, Others, Running
<1>4. ASSUME NEW a \in Pages, NEW e \in 1 .. TRAPFRAME, munmap(p, a, e) PROVE Kept
  BY Zenon, <1>1, <1>4 DEF munmap, Others, Running
<1>5. ASSUME unmap_next(p) PROVE Kept
  BY Zenon, <1>1, <1>5, BusyAlive DEF unmap_next, Others, MInv
<1>6. ASSUME unmap_page(p) PROVE Kept
  BY Zenon, <1>1, <1>6, BusyAlive DEF unmap_page, Others, MInv
<1>7. ASSUME unmap_end(p) PROVE Kept
  BY Zenon, <1>1, <1>7, BusyAlive DEF unmap_end, Others, MInv
<1>8. ASSUME exit(p) \/ exec(p) PROVE Kept
  BY Zenon, <1>1, <1>8 DEF exit, exec, UnmapAll, Others, Running
<1>9. ASSUME exec_end(p) PROVE Kept
  BY Zenon, <1>1, <1>9, BusyAlive DEF exec_end, Others, MInv
<1>10. ASSUME sbrk_grow(p) \/ sbrk_shrink(p) PROVE Kept
  BY Zenon, <1>10 DEF sbrk_grow, sbrk_shrink, Others, Running
<1>11. Kept => Alive'
  BY Zenon, <1>1, AliveKept DEF MInv
<1> HIDE DEF Kept
<1> QED
  BY Zenon, <1>2, <1>3, <1>4, <1>5, <1>6, <1>7, <1>8, <1>9, <1>10, <1>11

\* The end of a process and its slot, and a new one
LEMMA LifeAlive ==
  ASSUME MInv, NEW p \in Procs, Calm'
  PROVE  exit_end(p) \/ freeproc(p) \/ (\E q \in Procs : fork(p, q)) => Alive'
<1>1. /\ life \in [Procs -> {"unborn", "alive", "zombie"}] /\ fds \in [Procs -> SUBSET Files]
      /\ vmas \in [Procs -> [Slots -> VMA \cup {None}]] /\ job \in [Procs -> Job \cup {None}]
      /\ \A q \in Procs : life[q] # "alive" =>
           job[q] = None /\ fds[q] = {} /\ UsedIn(vmas[q]) = {}
  BY Zenon DEF MInv, Spaces, Alive
<1>2. ASSUME exit_end(p) PROVE Alive'
  <2>1. UsedIn(vmas[p]) = {}
    BY Zenon, <1>2, ExitEndStep DEF MInv
  <2>2. /\ life' = [life EXCEPT ![p] = "zombie"] /\ fds' = [fds EXCEPT ![p] = {}]
        /\ job' = [job EXCEPT ![p] = None] /\ vmas' = vmas
    BY Zenon, <1>2 DEF exit_end
  <2> QED
    BY Zenon, <1>1, <2>1, <2>2 DEF Alive, UsedIn
<1>3. ASSUME freeproc(p) PROVE Alive'
  <2>1. /\ life[p] = "zombie" /\ life' = [life EXCEPT ![p] = "unborn"]
        /\ fds' = fds /\ vmas' = vmas /\ job' = job
    BY <1>3 DEF freeproc
  <2> QED
    BY Zenon, <1>1, <2>1 DEF Alive, UsedIn
<1>4. ASSUME NEW q \in Procs, fork(p, q) PROVE Alive'
  <2>1. /\ life' = [life EXCEPT ![q] = "alive"] /\ fds' = [fds EXCEPT ![q] = fds[p]]
        /\ vmas' = [vmas EXCEPT ![q] = vmas[p]] /\ job' = job
    BY Zenon, <1>4 DEF fork
  <2> QED
    BY Zenon, <1>1, <2>1 DEF Alive, UsedIn
<1> QED
  BY Zenon, <1>2, <1>3, <1>4

\* writei leaves the file a sequence of pages it may hold.
LEMMA WriteiStored ==
  ASSUME Stored, NEW f \in Files, NEW i \in Nat, NEW val \in {"file", "zero", "shared", "heap"},
         data' = Writei(f, i, val)
  PROVE  /\ Stored'
         /\ \/ i > Len(data[f]) \/ i >= MAXFILE
            \/ i < Len(data'[f]) /\ data'[f][i + 1] = val
<1> DEFINE S == {"file", "zero", "shared", "heap"}
           n == IF i = Len(data[f]) THEN i + 1 ELSE Len(data[f])
           new == [k \in 1 .. n |-> IF k = i + 1 THEN val ELSE data[f][k]]
<1>1. /\ data \in [Files -> Seq(S)] /\ \A g \in Files : Len(data[g]) <= MAXFILE
      /\ MAXFILE \in Nat
  BY Zenon, Bounds DEF Stored
<1>2. CASE i > Len(data[f]) \/ i >= MAXFILE
  BY Zenon, <1>2 DEF Writei, Stored
<1>3. CASE ~(i > Len(data[f]) \/ i >= MAXFILE)
  <2>1. data' = [data EXCEPT ![f] = new]
    BY <1>3 DEF Writei
  <2>2. Len(data[f]) \in Nat /\ data[f] \in [1 .. Len(data[f]) -> S]
    BY <1>1
  <2>3. n \in Nat /\ n <= MAXFILE /\ i + 1 \in 1 .. n /\ i < n
    <3>1. PICK l \in Nat : l = Len(data[f])
      BY <2>2
    <3>2. l <= MAXFILE /\ MAXFILE \in Nat /\ ~(i > l \/ i >= MAXFILE)
      BY Zenon, <1>1, <1>3, <3>1
    <3>3. n = IF i = l THEN i + 1 ELSE l
      BY <3>1
    <3> HIDE DEF n
    <3> QED
      BY <3>2, <3>3
  <2>4. new \in [1 .. n -> S]
    <3>1. \A k \in 1 .. n : k # i + 1 => k \in 1 .. Len(data[f])
      BY <2>2
    <3> QED
      BY Zenon, <2>2, <3>1
  <2>5. new \in Seq(S) /\ Len(new) = n /\ new[i + 1] = val
    BY <2>3, <2>4
  <2> HIDE DEF n, new, S
  <2>6. /\ data' \in [Files -> Seq(S)] /\ data'[f] = new
        /\ \A g \in Files : g # f => data'[g] = data[g]
    BY Zenon, <1>1, <2>1, <2>5
  <2>7. \A g \in Files : Len(data'[g]) <= MAXFILE
    BY Zenon, <1>1, <2>3, <2>5, <2>6
  <2> QED
    BY Zenon, <2>3, <2>5, <2>6, <2>7 DEF Stored, S
<1> QED
  BY Zenon, <1>2, <1>3

\* The page at which vma_unmap is: one of the mapping's, and of the file's
LEMMA UnmapPageIs ==
  ASSUME Spaces, NEW p \in Procs, unmap_page(p)
  PROVE  \E k, v, g :
           /\ k = job[p] /\ v = vmas[p][k.slot] /\ g = pte[p][k.va]
           /\ k.slot \in UsedIn(vmas[p]) /\ k.va \in Pages /\ Covers(v, k.va)
           /\ v.file \in Files /\ v.offset + (k.va - v.addr) \in Nat
           /\ g # None => g \in Page /\ PageOf(overgrown[p], v, k.va, g)
           /\ data' = IF g # None /\ v.flags = "MAP_SHARED" /\ "W" \in v.prot
                      THEN Writei(v.file, v.offset + (k.va - v.addr), g.val) ELSE data
<1>0. PICK k, v, g : k = job[p] /\ v = vmas[p][k.slot] /\ g = pte[p][k.va]
  BY Zenon
<1>1. /\ k # None /\ k.slot # 0 /\ k.va < k.end
      /\ data' = IF g # None /\ v.flags = "MAP_SHARED" /\ "W" \in v.prot
                 THEN Writei(v.file, v.offset + (k.va - v.addr), g.val) ELSE data
  BY Zenon, <1>0 DEF unmap_page
<1>2. /\ Cutting(k, vmas[p], pte[p]) /\ k.slot \in UsedIn(vmas[p]) /\ k.va \in Pages
      /\ k.va \in Nat /\ k.end \in Nat /\ k.addr \in Nat
  BY Zenon, <1>0, <1>1, CuttingIs
<1>3. v.file \in Files /\ v.offset \in Nat /\ v.addr \in Nat /\ End(v) \in Nat
  BY Zenon, <1>0, <1>2, Own, UsedAre
<1>4. v.addr <= k.addr /\ k.addr <= k.va /\ k.end <= End(v)
  BY Zenon, <1>0, <1>2 DEF Cutting
<1>5. Covers(v, k.va) /\ v.offset + (k.va - v.addr) \in Nat
  <2>1. k.va < k.end
    BY Zenon, <1>1
  <2> QED
    BY <1>2, <1>3, <1>4, <2>1 DEF Covers
<1>6. g # None => g \in Page /\ PageOf(overgrown[p], v, k.va, g)
  BY Zenon, <1>0, <1>2, <1>5, Own DEF Layout, Faithful
<1> QED
  BY Zenon, <1>0, <1>1, <1>2, <1>3, <1>5, <1>6

\* unmap_page writes back what a shared mapping may hold.
LEMMA UnmapStored ==
  ASSUME MInv, NEW p \in Procs, unmap_page(p)
  PROVE  Stored'
<1>1. PICK k, v, g :
        /\ k = job[p] /\ v = vmas[p][k.slot] /\ g = pte[p][k.va]
        /\ k.slot \in UsedIn(vmas[p]) /\ k.va \in Pages /\ Covers(v, k.va)
        /\ v.file \in Files /\ v.offset + (k.va - v.addr) \in Nat
        /\ g # None => g \in Page /\ PageOf(overgrown[p], v, k.va, g)
        /\ data' = IF g # None /\ v.flags = "MAP_SHARED" /\ "W" \in v.prot
                   THEN Writei(v.file, v.offset + (k.va - v.addr), g.val) ELSE data
  BY Zenon, UnmapPageIs DEF MInv
<1>2. CASE g # None /\ v.flags = "MAP_SHARED" /\ "W" \in v.prot
  <2>1. g.val \in {"file", "zero", "shared", "heap"}
    BY Zenon, <1>1, <1>2 DEF Page, Vals, PageOf
  <2>2. data' = Writei(v.file, v.offset + (k.va - v.addr), g.val)
    BY Zenon, <1>1, <1>2
  <2> QED
    BY Zenon, <1>1, <2>1, <2>2, WriteiStored DEF MInv
<1>3. CASE ~(g # None /\ v.flags = "MAP_SHARED" /\ "W" \in v.prot)
  <2>1. data' = data
    BY Zenon, <1>1, <1>3
  <2> QED
    BY <2>1 DEF MInv, Stored
<1> QED
  BY Zenon, <1>2, <1>3

\* Nothing else writes to a file.
LEMMA DataKept ==
  ASSUME NEW p \in Procs
  PROVE  \/ \E f \in Files : open(p, f) \/ close(p, f) \/ \E r \in Requests : mmap(p, r, f)
         \/ \E a \in Pages : vma_fault(p, a) \/ store(p, a)
         \/ \E a \in Pages, e \in 1 .. TRAPFRAME : munmap(p, a, e)
         \/ unmap_next(p) \/ unmap_end(p) \/ exit(p) \/ exit_end(p) \/ freeproc(p)
         \/ exec(p) \/ exec_end(p) \/ (\E q \in Procs : fork(p, q))
         \/ sbrk_grow(p) \/ sbrk_shrink(p)
         => data' = data
<1>1. ASSUME NEW f \in Files, NEW r \in Requests, mmap(p, r, f) PROVE data' = data
  BY Zenon, <1>1 DEF mmap
<1>2. ASSUME NEW f \in Files, open(p, f) \/ close(p, f) PROVE data' = data
  BY Zenon, <1>2 DEF open, close
<1>3. ASSUME NEW a \in Pages, vma_fault(p, a) \/ store(p, a) PROVE data' = data
  BY Zenon, <1>3 DEF vma_fault, store
<1>4. ASSUME NEW a \in Pages, NEW e \in 1 .. TRAPFRAME, munmap(p, a, e) PROVE data' = data
  BY Zenon, <1>4 DEF munmap
<1>5. ASSUME unmap_next(p) \/ unmap_end(p) PROVE data' = data
  BY Zenon, <1>5 DEF unmap_next, unmap_end
<1>6. ASSUME exit(p) \/ exit_end(p) \/ freeproc(p) \/ exec(p) \/ exec_end(p) PROVE data' = data
  BY Zenon, <1>6 DEF exit, exit_end, freeproc, exec, exec_end
<1>7. ASSUME NEW q \in Procs, fork(p, q) PROVE data' = data
  BY Zenon, <1>7 DEF fork
<1>8. ASSUME sbrk_grow(p) \/ sbrk_shrink(p) PROVE data' = data
  BY Zenon, <1>8 DEF sbrk_grow, sbrk_shrink
<1> QED
  BY Zenon, <1>1, <1>2, <1>3, <1>4, <1>5, <1>6, <1>7, <1>8

\* Which process takes a step, and which step
Step(p) ==
  \/ \E f \in Files : open(p, f) \/ close(p, f) \/ \E r \in Requests : mmap(p, r, f)
  \/ \E a \in Pages : vma_fault(p, a) \/ store(p, a)
  \/ \E a \in Pages, e \in 1 .. TRAPFRAME : munmap(p, a, e)
  \/ unmap_next(p) \/ unmap_page(p) \/ unmap_end(p)
  \/ exit(p) \/ exit_end(p) \/ freeproc(p)
  \/ exec(p) \/ exec_end(p)
  \/ \E q \in Procs : fork(p, q)
  \/ sbrk_grow(p) \/ sbrk_shrink(p)

\* The initial state
LEMMA MInvInit == Init => MInv
<1> SUFFICES ASSUME Init PROVE MInv
  OBVIOUS
<1>1. /\ sz \in [Procs -> 0 .. TRAPFRAME] /\ vmas \in [Procs -> [Slots -> VMA \cup {None}]]
      /\ job \in [Procs -> Job \cup {None}] /\ overgrown \in [Procs -> BOOLEAN]
  BY Bounds DEF Init
<1>2. ASSUME NEW p \in Procs
      PROVE  Layout(overgrown[p], sz[p], vmas[p], pte[p]) /\ job[p] = None /\ UsedIn(vmas[p]) = {}
  <2>1. UsedIn(vmas[p]) = {} /\ job[p] = None /\ pte[p] = Image(sz[p])
    BY DEF Init, UsedIn
  <2> QED
    BY Zenon, <1>1, <2>1, FreshLayout
<1>3. pte \in [Procs -> [Pages -> Page \cup {None}]]
  <2>1. \A p \in Procs : pte[p] \in [Pages -> Page \cup {None}]
    BY Zenon, <1>2 DEF Layout
  <2>2. pte = [p \in Procs |-> Image(sz[p])]
    BY Zenon DEF Init
  <2> QED
    BY Zenon, <2>1, <2>2
<1>4. Spaces
  BY Zenon, <1>1, <1>2, <1>3, Idle DEF Spaces
<1>5. Alive
  BY Zenon, <1>2, Bounds DEF Init, Alive, Calm
<1>6. Stored
  <2>1. [i \in 1 .. FileSize |-> "file"] \in Seq({"file", "zero", "shared", "heap"})
    BY Bounds
  <2>2. Len([i \in 1 .. FileSize |-> "file"]) = FileSize
    BY Bounds
  <2> QED
    BY Zenon, <2>1, <2>2, Bounds DEF Init, Stored
<1> QED
  BY Zenon, <1>4, <1>5, <1>6 DEF MInv

\* Every step keeps the address spaces sound, and panics only where a heap was
\* grown into a mapping.
LEMMA StepSpaces ==
  ASSUME MInv, NEW p \in Procs
  PROVE  Step(p) => Spaces' /\ Calm'
<1>1. Spaces /\ Alive /\ (panicked' = panicked /\ overgrown' = overgrown => Calm')
  BY Zenon, CalmKept DEF MInv, Alive
<1>2. ASSUME NEW f \in Files, open(p, f) \/ close(p, f) PROVE Spaces' /\ Calm'
  BY Zenon, <1>1, <1>2 DEF open, close, Spaces
<1>3. ASSUME NEW f \in Files, NEW r \in Requests, mmap(p, r, f)
      PROVE  Spaces' /\ Calm'
  <2>1. panicked' = panicked /\ overgrown' = overgrown
    BY Zenon, <1>3 DEF mmap
  <2> QED
    BY Zenon, <1>1, <1>3, <2>1, MmapStep
<1>4. ASSUME NEW a \in Pages, vma_fault(p, a) \/ store(p, a) PROVE Spaces' /\ Calm'
  <2>1. panicked' = panicked /\ overgrown' = overgrown
    BY Zenon, <1>4 DEF vma_fault, store
  <2> QED
    BY Zenon, <1>1, <1>4, <2>1, FaultStep, StoreStep
<1>5. ASSUME NEW a \in Pages, NEW e \in 1 .. TRAPFRAME, munmap(p, a, e)
      PROVE  Spaces' /\ Calm'
  <2>1. panicked' = panicked /\ overgrown' = overgrown
    BY Zenon, <1>5 DEF munmap
  <2> QED
    BY Zenon, <1>1, <1>5, <2>1, MunmapStep
<1>6. ASSUME unmap_next(p) \/ unmap_page(p) \/ unmap_end(p) PROVE Spaces' /\ Calm'
  <2>1. panicked' = panicked /\ overgrown' = overgrown
    BY Zenon, <1>6 DEF unmap_next, unmap_page, unmap_end
  <2> QED
    BY Zenon, <1>1, <1>6, <2>1, UnmapNextStep, UnmapPageStep, UnmapEndStep
<1>7. ASSUME exit(p) \/ exec(p) \/ exit_end(p) PROVE Spaces' /\ Calm'
  <2>1. panicked' = panicked /\ overgrown' = overgrown
    BY Zenon, <1>7 DEF exit, exec, exit_end
  <2> QED
    BY Zenon, <1>1, <1>7, <2>1, ExitStep, ExitEndStep
<1>8. ASSUME exec_end(p) \/ freeproc(p) \/ sbrk_grow(p) \/ sbrk_shrink(p)
      PROVE  Spaces' /\ Calm'
  BY Zenon, <1>1, <1>8, ExecEndStep, FreeprocStep, GrowStep, ShrinkStep
<1>9. ASSUME NEW q \in Procs, fork(p, q) PROVE Spaces' /\ Calm'
  BY Zenon, <1>1, <1>9, ForkStep
<1> QED
  BY Zenon, <1>2, <1>3, <1>4, <1>5, <1>6, <1>7, <1>8, <1>9 DEF Step

\* Every step keeps the invariant.
LEMMA MInvNext == MInv /\ [Next]_vars => MInv'
<1> SUFFICES ASSUME MInv, [Next]_vars PROVE MInv'
  OBVIOUS
<1>1. CASE UNCHANGED vars
  BY Zenon, <1>1 DEF vars, MInv, Spaces, Alive, Calm, Stored, UsedIn
<1>2. CASE Next
  <2>0. CASE panic
    BY Zenon, <1>1, <2>0 DEF panic
  <2> SUFFICES ASSUME ~panic PROVE MInv'
    BY Zenon, <2>0
  <2>1. PICK p \in Procs : Step(p)
    BY Zenon, <1>2 DEF Next, Step
  <2>2. Spaces' /\ Calm'
    BY Zenon, <2>1, StepSpaces
  <2>3. Alive'
    BY Zenon, <2>1, <2>2, FileAlive, MapAlive, LifeAlive DEF Step
  <2>4. Stored'
    <3>1. data' = data => Stored'
      BY DEF MInv, Stored
    <3> QED
      BY Zenon, <2>1, <3>1, UnmapStored, DataKept DEF Step
  <2> QED
    BY Zenon, <2>2, <2>3, <2>4 DEF MInv
<1> QED
  BY <1>1, <1>2
=============================================================================
