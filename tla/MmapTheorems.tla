---------------------------- MODULE MmapTheorems ----------------------------
(***************************************************************************)
(* For every number of processes, files and entries and every size of the  *)
(* address space: the mappings of a process stay apart, and above its heap *)
(* until the heap is grown into one; what is written back goes where it    *)
(* was read from; a private page never reaches a file; the reference       *)
(* counts are exact.                                                       *)
(***************************************************************************)
EXTENDS MmapInv, FiniteSetTheorems

----------------------------------------------------------------------------
(* Reference counts                                                         *)

\* The processes with a descriptor of f, and the mappings of f
Descs(ds, f) == {p \in Procs : f \in ds[p]}
Maps(vv, f)  == {x \in Procs \X Slots : vv[x[1]][x[2]] # None /\ vv[x[1]][x[2]].file = f}

Counted == ref \in [Files -> Nat] /\ RefsExact

\* They are finitely many.
LEMMA CountsFinite ==
  ASSUME NEW ds, NEW vv, NEW f
  PROVE  /\ IsFiniteSet(Descs(ds, f)) /\ IsFiniteSet(Maps(vv, f))
         /\ Cardinality(Descs(ds, f)) \in Nat /\ Cardinality(Maps(vv, f)) \in Nat
<1>1. IsFiniteSet(Procs) /\ IsFiniteSet(Slots)
  <2>1. IsFiniteSet(1 .. NVMA)
    BY FS_Interval, Bounds
  <2> QED
    BY Zenon, <2>1, MmapAssumption DEF MmapAssumption, Slots
<1>2. IsFiniteSet(Procs \X Slots)
  BY Zenon, <1>1, FS_Product
<1>3. Descs(ds, f) \in SUBSET Procs /\ Maps(vv, f) \in SUBSET (Procs \X Slots)
  BY DEF Descs, Maps
<1>4. IsFiniteSet(Descs(ds, f)) /\ IsFiniteSet(Maps(vv, f))
  BY Zenon, <1>1, <1>2, <1>3, FS_Subset
<1> QED
  BY Zenon, <1>4, FS_CardinalityType

\* What Counted says of one file
LEMMA CountedIs ==
  Counted <=> /\ ref \in [Files -> Nat]
              /\ \A f \in Files : ref[f] = Cardinality(Descs(fds, f)) + Cardinality(Maps(vmas, f))
BY Zenon DEF Counted, RefsExact, Descs, Maps

\* The same after a step.
LEMMA CountedNext ==
  Counted' <=> /\ ref' \in [Files -> Nat]
               /\ \A f \in Files :
                    ref'[f] = Cardinality(Descs(fds', f)) + Cardinality(Maps(vmas', f))
BY Zenon DEF Counted, RefsExact, Descs, Maps

\* open counts its descriptor.
LEMMA OpenCounted ==
  ASSUME MInv, Counted, NEW p \in Procs, NEW f \in Files, open(p, f)
  PROVE  Counted'
<1>1. /\ ref[f] = 0 /\ ref' = [ref EXCEPT ![f] = 1] /\ vmas' = vmas
      /\ fds' = [fds EXCEPT ![p] = fds[p] \cup {f}] /\ fds \in [Procs -> SUBSET Files]
  BY Zenon DEF open, MInv, Alive
<1>2. Cardinality(Descs(fds, f)) = 0 /\ Cardinality(Maps(vmas, f)) = 0
  BY <1>1, CountedIs, CountsFinite
<1>3. Descs(fds, f) = {}
  BY Zenon, <1>2, CountsFinite, FS_EmptySet
<1>4. Descs(fds', f) = {p}
  BY Zenon, <1>1, <1>3 DEF Descs
<1>5. \A g \in Files : g # f => Descs(fds', g) = Descs(fds, g)
  BY <1>1 DEF Descs
<1>6. Cardinality(Descs(fds', f)) = 1
  BY Zenon, <1>4, FS_Singleton
<1>7. /\ ref' \in [Files -> Nat] /\ ref'[f] = 1 /\ \A g \in Files : g # f => ref'[g] = ref[g]
  BY Zenon, <1>1, CountedIs
<1>8. ref'[f] = Cardinality(Descs(fds', f)) + Cardinality(Maps(vmas', f))
  BY <1>1, <1>2, <1>6, <1>7
<1> QED
  BY Zenon, <1>1, <1>5, <1>7, <1>8, CountedIs, CountedNext

\* close gives its descriptor's reference back.
LEMMA CloseCounted ==
  ASSUME MInv, Counted, NEW p \in Procs, NEW f \in Files, close(p, f)
  PROVE  Counted'
<1>1. /\ f \in fds[p] /\ ref' = [ref EXCEPT ![f] = @ - 1] /\ vmas' = vmas
      /\ fds' = [fds EXCEPT ![p] = fds[p] \ {f}] /\ fds \in [Procs -> SUBSET Files]
  BY Zenon DEF close, MInv, Alive
<1>2. p \in Descs(fds, f) /\ Descs(fds', f) = Descs(fds, f) \ {p}
  BY Zenon, <1>1 DEF Descs
<1>3. ASSUME NEW g \in Files, g # f PROVE Descs(fds', g) = Descs(fds, g)
  <2>1. \A q \in Procs : g \in fds'[q] <=> g \in fds[q]
    BY Zenon, <1>1, <1>3
  <2> QED
    BY Zenon, <2>1 DEF Descs
<1>4. Cardinality(Descs(fds', f)) = Cardinality(Descs(fds, f)) - 1
  <2>1. Cardinality(Descs(fds, f) \ {p}) =
          IF p \in Descs(fds, f) THEN Cardinality(Descs(fds, f)) - 1 ELSE Cardinality(Descs(fds, f))
    BY Zenon, CountsFinite, FS_RemoveElement
  <2> QED
    BY Zenon, <1>2, <2>1
<1>5. Cardinality(Descs(fds', f)) \in Nat
  BY Zenon, CountsFinite
<1>6. ref[f] \in Nat /\ ref[f] - 1 \in Nat
  BY <1>4, <1>5, CountedIs, CountsFinite
<1>7. /\ ref' \in [Files -> Nat] /\ ref'[f] = ref[f] - 1
      /\ \A g \in Files : g # f => ref'[g] = ref[g]
  BY Zenon, <1>1, <1>6, CountedIs
<1>8. ref'[f] = Cardinality(Descs(fds', f)) + Cardinality(Maps(vmas', f))
  BY <1>1, <1>4, <1>7, CountedIs, CountsFinite
<1> QED
  BY Zenon, <1>1, <1>3, <1>7, <1>8, CountedIs, CountedNext

\* A step that changes one entry
EntrySet(p, s, w) == vmas' = [vmas EXCEPT ![p] = [vmas[p] EXCEPT ![s] = w]]

\* What setting one entry leaves alone
LEMMA EntryIs ==
  ASSUME Spaces, NEW p \in Procs, NEW s \in Slots, NEW w, EntrySet(p, s, w)
  PROVE  /\ vmas'[p][s] = w
         /\ \A q \in Procs, t \in Slots : q # p \/ t # s => vmas'[q][t] = vmas[q][t]
<1>1. vmas \in [Procs -> [Slots -> VMA \cup {None}]]
  BY Zenon DEF Spaces
<1>2. vmas'[p] = [vmas[p] EXCEPT ![s] = w] /\ \A q \in Procs : q # p => vmas'[q] = vmas[q]
  BY Zenon, <1>1 DEF EntrySet
<1>3. vmas[p] \in [Slots -> VMA \cup {None}]
  BY <1>1
<1> QED
  BY Zenon, <1>2, <1>3

\* What it does to the mappings of a file
LEMMA EntryMaps ==
  ASSUME Spaces, NEW p \in Procs, NEW s \in Slots, NEW w, EntrySet(p, s, w), NEW f
  PROVE  /\ w # None /\ w.file = f => Maps(vmas', f) = Maps(vmas, f) \cup {<<p, s>>}
         /\ w = None \/ w.file # f => Maps(vmas', f) = Maps(vmas, f) \ {<<p, s>>}
<1>1. /\ vmas'[p][s] = w
      /\ \A q \in Procs, t \in Slots : q # p \/ t # s => vmas'[q][t] = vmas[q][t]
  BY Zenon, EntryIs
<1>2. CASE w # None /\ w.file = f
  BY <1>1, <1>2 DEF Maps
<1>3. CASE w = None \/ w.file # f
  BY <1>1, <1>3 DEF Maps
<1> QED
  BY Zenon, <1>2, <1>3

\* mmap takes a reference with filedup.
LEMMA MmapCounted ==
  ASSUME MInv, Counted, NEW p \in Procs, NEW r \in Requests, NEW f \in Files, mmap(p, r, f)
  PROVE  Counted'
<1>1. PICK s \in Slots, v \in VMA :
        /\ vmas[p][s] = None /\ v.file = f
        /\ vmas' = [vmas EXCEPT ![p] = [vmas[p] EXCEPT ![s] = v]]
  BY NewMapping DEF MInv
<1>2. ref' = [ref EXCEPT ![f] = @ + 1] /\ fds' = fds
  BY Zenon DEF mmap
<1>3. v # None /\ v.file = f /\ Spaces /\ EntrySet(p, s, v)
  BY Zenon, <1>1, NoneAssumption DEF NoneAssumption, MInv, EntrySet
<1>6. \A g : <<p, s>> \notin Maps(vmas, g)
  BY <1>1 DEF Maps
<1>7. Maps(vmas', f) = Maps(vmas, f) \cup {<<p, s>>}
  BY Zenon, <1>3, EntryMaps
<1>8. ASSUME NEW g \in Files, g # f PROVE Maps(vmas', g) = Maps(vmas, g)
  <2>1. Maps(vmas', g) = Maps(vmas, g) \ {<<p, s>>}
    BY Zenon, <1>3, <1>8, EntryMaps
  <2> QED
    BY Zenon, <1>6, <2>1
<1>9. Cardinality(Maps(vmas', f)) = Cardinality(Maps(vmas, f)) + 1
  BY Zenon, <1>6, <1>7, CountsFinite, FS_AddElement
<1>10. /\ ref' \in [Files -> Nat] /\ ref'[f] = ref[f] + 1
       /\ \A g \in Files : g # f => ref'[g] = ref[g]
  BY <1>2, CountedIs
<1>11. ref'[f] = Cardinality(Descs(fds', f)) + Cardinality(Maps(vmas', f))
  BY <1>2, <1>9, <1>10, CountedIs, CountsFinite
<1> QED
  BY Zenon, <1>2, <1>8, <1>10, <1>11, CountedIs, CountedNext

\* vma_unmap drops the reference with the whole mapping, and only then.
LEMMA UnmapEndCounted ==
  ASSUME MInv, Counted, NEW p \in Procs, unmap_end(p)
  PROVE  Counted'
<1>1. job[p] # None /\ job[p].slot # 0 /\ fds' = fds
  BY Zenon DEF unmap_end
<1>2. PICK i \in Slots, v \in VMA : i = job[p].slot /\ v = vmas[p][i] /\ v # None /\ v.file \in Files
  <2>1. job[p].slot \in UsedIn(vmas[p])
    BY Zenon, <1>1, CuttingIs DEF MInv
  <2> QED
    <3>1. /\ job[p].slot \in Slots /\ vmas[p][job[p].slot] \in VMA
          /\ vmas[p][job[p].slot].file \in Files
      BY Zenon, <2>1, Own, UsedAre DEF MInv
    <3>2. vmas[p][job[p].slot] # None
      BY Zenon, <2>1 DEF UsedIn
    <3> QED
      BY Zenon, <3>1, <3>2
<1>5. \A f : <<p, i>> \in Maps(vmas, f) <=> v.file = f
  BY <1>2 DEF Maps
<1>3. CASE /\ vmas' = [vmas EXCEPT ![p] = [vmas[p] EXCEPT ![i] = None]]
           /\ ref' = [ref EXCEPT ![v.file] = @ - 1]
  <2>1. EntrySet(p, i, None) /\ Spaces
    BY Zenon, <1>3 DEF EntrySet, MInv
  <2>2. \A f : Maps(vmas', f) = Maps(vmas, f) \ {<<p, i>>}
    BY Zenon, <2>1, EntryMaps
  <2>3. <<p, i>> \in Maps(vmas, v.file) /\ Maps(vmas', v.file) = Maps(vmas, v.file) \ {<<p, i>>}
    BY Zenon, <1>5, <2>2
  <2>4. ASSUME NEW g \in Files, g # v.file PROVE Maps(vmas', g) = Maps(vmas, g)
    <3>1. <<p, i>> \notin Maps(vmas, g)
      BY Zenon, <1>5, <2>4
    <3> QED
      BY Zenon, <2>2, <3>1
  <2>5. Cardinality(Maps(vmas', v.file)) = Cardinality(Maps(vmas, v.file)) - 1
    <3>1. IsFiniteSet(Maps(vmas, v.file))
      BY Zenon, CountsFinite
    <3>2. Cardinality(Maps(vmas, v.file) \ {<<p, i>>}) =
            IF <<p, i>> \in Maps(vmas, v.file) THEN Cardinality(Maps(vmas, v.file)) - 1
            ELSE Cardinality(Maps(vmas, v.file))
      BY Zenon, <3>1, FS_RemoveElement
    <3> QED
      BY Zenon, <2>3, <3>2
  <2>6. PICK f \in Files : f = v.file
    BY Zenon, <1>2
  <2>7. ref[f] \in Nat /\ ref[f] - 1 \in Nat
    <3>1. Cardinality(Maps(vmas', f)) \in Nat
      BY CountsFinite
    <3> QED
      BY <2>5, <2>6, <3>1, CountedIs, CountsFinite
  <2>8. /\ ref' \in [Files -> Nat] /\ ref'[f] = ref[f] - 1
        /\ \A g \in Files : g # f => ref'[g] = ref[g]
    BY Zenon, <1>3, <2>6, <2>7, CountedIs
  <2>9. ref'[f] = Cardinality(Descs(fds', f)) + Cardinality(Maps(vmas', f))
    BY <1>1, <2>5, <2>6, <2>8, CountedIs, CountsFinite
  <2> QED
    BY Zenon, <1>1, <2>4, <2>6, <2>8, <2>9, CountedIs, CountedNext
<1>4. ASSUME NEW w \in VMA, w.file = v.file, ref' = ref,
             vmas' = [vmas EXCEPT ![p] = [vmas[p] EXCEPT ![i] = w]]
      PROVE  Counted'
  <2>1. w # None /\ w.file = v.file /\ Spaces /\ EntrySet(p, i, w)
    BY Zenon, <1>4, NoneAssumption DEF NoneAssumption, MInv, EntrySet
  <2>2. ASSUME NEW g \in Files PROVE Maps(vmas', g) = Maps(vmas, g)
    <3>1. CASE v.file = g
      <4>1. <<p, i>> \in Maps(vmas, g) /\ w.file = g
        BY Zenon, <1>5, <2>1, <3>1
      <4>2. Maps(vmas', g) = Maps(vmas, g) \cup {<<p, i>>}
        BY Zenon, <2>1, <4>1, EntryMaps
      <4> QED
        BY Zenon, <4>1, <4>2
    <3>2. CASE v.file # g
      <4>1. <<p, i>> \notin Maps(vmas, g) /\ w.file # g
        BY Zenon, <1>5, <2>1, <3>2
      <4>2. Maps(vmas', g) = Maps(vmas, g) \ {<<p, i>>}
        BY Zenon, <2>1, <4>1, EntryMaps
      <4> QED
        BY Zenon, <4>1, <4>2
    <3> QED
      BY Zenon, <3>1, <3>2
  <2> QED
    BY Zenon, <1>1, <1>4, <2>2, CountedIs, CountedNext
<1> QED
  BY Zenon, <1>2, <1>3, <1>4, UnmapEndIs DEF MInv, Remains

\* exit closes every descriptor.
LEMMA ExitEndCounted ==
  ASSUME MInv, Counted, NEW p \in Procs, exit_end(p)
  PROVE  Counted'
<1>1. /\ ref' = [f \in Files |-> IF f \in fds[p] THEN ref[f] - 1 ELSE ref[f]]
      /\ fds' = [fds EXCEPT ![p] = {}] /\ vmas' = vmas /\ fds \in [Procs -> SUBSET Files]
  BY Zenon DEF exit_end, MInv, Alive
<1>2. ASSUME NEW f \in Files
      PROVE  ref'[f] \in Nat /\ ref'[f] = Cardinality(Descs(fds', f)) + Cardinality(Maps(vmas', f))
  <2>1. Descs(fds', f) = Descs(fds, f) \ {p} /\ (p \in Descs(fds, f) <=> f \in fds[p])
    BY <1>1 DEF Descs
  <2>2. Cardinality(Descs(fds', f)) = IF p \in Descs(fds, f) THEN Cardinality(Descs(fds, f)) - 1
                                      ELSE Cardinality(Descs(fds, f))
    BY Zenon, <2>1, CountsFinite, FS_RemoveElement
  <2>3. ref[f] = Cardinality(Descs(fds, f)) + Cardinality(Maps(vmas, f))
    BY Zenon, CountedIs
  <2>4. ref'[f] = IF f \in fds[p] THEN ref[f] - 1 ELSE ref[f]
    BY <1>1
  <2>5. /\ Cardinality(Descs(fds, f)) \in Nat /\ Cardinality(Maps(vmas, f)) \in Nat
        /\ Cardinality(Descs(fds', f)) \in Nat
    BY Zenon, CountsFinite
  <2> QED
    BY <1>1, <2>1, <2>2, <2>3, <2>4, <2>5
<1>3. ref' \in [Files -> Nat]
  BY Zenon, <1>1, <1>2
<1> QED
  BY Zenon, <1>2, <1>3, CountedNext

\* fork counts a descriptor and every mapping of the child.
LEMMA ForkCounted ==
  ASSUME MInv, Counted, NEW p \in Procs, NEW q \in Procs, fork(p, q)
  PROVE  Counted'
<1>1. /\ fds' = [fds EXCEPT ![q] = fds[p]] /\ vmas' = [vmas EXCEPT ![q] = vmas[p]]
      /\ ref' = [f \in Files |-> ref[f] + Cardinality({s \in Used(p) : vmas[p][s].file = f})
                                        + IF f \in fds[p] THEN 1 ELSE 0]
      /\ life[q] # "alive"
  BY Zenon DEF fork
<1>2. /\ fds \in [Procs -> SUBSET Files] /\ vmas \in [Procs -> [Slots -> VMA \cup {None}]]
      /\ fds[q] = {} /\ UsedIn(vmas[q]) = {}
  BY Zenon, <1>1 DEF MInv, Alive, Spaces
<1>3. /\ fds'[q] = fds[p] /\ vmas'[q] = vmas[p]
      /\ \A o \in Procs : o # q => fds'[o] = fds[o] /\ vmas'[o] = vmas[o]
  BY Zenon, <1>1, <1>2
<1>4. ASSUME NEW f \in Files
      PROVE  ref'[f] \in Nat /\ ref'[f] = Cardinality(Descs(fds', f)) + Cardinality(Maps(vmas', f))
  <2> DEFINE S == {s \in Used(p) : vmas[p][s].file = f}
             C == {q} \X S
  <2>1. q \notin Descs(fds, f) /\ Descs(fds', f) = IF f \in fds[p] THEN Descs(fds, f) \cup {q}
                                                  ELSE Descs(fds, f)
    BY Zenon, <1>2, <1>3 DEF Descs
  <2>2. Cardinality(Descs(fds', f)) = Cardinality(Descs(fds, f)) + IF f \in fds[p] THEN 1 ELSE 0
    <3>1. IsFiniteSet(Descs(fds, f)) /\ Cardinality(Descs(fds, f)) \in Nat
      BY Zenon, CountsFinite
    <3>2. Cardinality(Descs(fds, f) \cup {q}) = Cardinality(Descs(fds, f)) + 1
      BY Zenon, <2>1, <3>1, FS_AddElement
    <3> QED
      BY <2>1, <3>1, <3>2
  <2>3. Maps(vmas', f) = Maps(vmas, f) \cup C /\ Maps(vmas, f) \cap C = {}
    <3>1. \A s \in Slots : vmas[q][s] = None
      BY Zenon, <1>2 DEF UsedIn
    <3>2. \A s : s \in S <=> s \in Slots /\ vmas[p][s] # None /\ vmas[p][s].file = f
      BY DEF Used
    <3> HIDE DEF S
    <3>3. ASSUME NEW x \in Procs \X Slots
          PROVE  x \in Maps(vmas', f) <=> x \in Maps(vmas, f) \/ x \in C
      BY <1>3, <3>1, <3>2 DEF Maps
    <3>4. C \subseteq Procs \X Slots
      BY Zenon, <3>2
    <3> QED
      BY Zenon, <3>1, <3>3, <3>4 DEF Maps
  <2>4. IsFiniteSet(S) /\ Cardinality(S) \in Nat
    <3>1. IsFiniteSet(Slots) /\ S \in SUBSET Slots
      BY FS_Interval, Bounds DEF Slots, Used
    <3>2. IsFiniteSet(S)
      BY Zenon, <3>1, FS_Subset
    <3> QED
      BY Zenon, <3>2, FS_CardinalityType
  <2> HIDE DEF S
  <2>5. IsFiniteSet(C) /\ Cardinality(C) = Cardinality(S)
    <3>1. IsFiniteSet({q}) /\ Cardinality({q}) = 1
      BY Zenon, FS_Singleton
    <3>2. IsFiniteSet({q} \X S) /\ Cardinality({q} \X S) = Cardinality({q}) * Cardinality(S)
      BY Zenon, <2>4, <3>1, FS_Product
    <3> QED
      BY <2>4, <3>1, <3>2
  <2> HIDE DEF C
  <2>6. Cardinality(Maps(vmas', f)) = Cardinality(Maps(vmas, f)) + Cardinality(S)
    <3>1. IsFiniteSet(Maps(vmas, f)) /\ Cardinality(Maps(vmas, f)) \in Nat
      BY Zenon, CountsFinite
    <3>2. Cardinality(Maps(vmas, f) \cup C) =
            Cardinality(Maps(vmas, f)) + Cardinality(C) - Cardinality(Maps(vmas, f) \cap C)
      BY Zenon, <2>5, <3>1, FS_Union
    <3>3. Cardinality(Maps(vmas, f) \cap C) = 0
      BY Zenon, <2>3, FS_EmptySet
    <3>4. Cardinality(Maps(vmas', f)) = Cardinality(Maps(vmas, f) \cup C)
      BY Zenon, <2>3
    <3> QED
      BY <2>4, <2>5, <3>1, <3>2, <3>3, <3>4
  <2>7. ref'[f] = ref[f] + Cardinality(S) + IF f \in fds[p] THEN 1 ELSE 0
    BY Zenon, <1>1 DEF S
  <2>8. ref[f] = Cardinality(Descs(fds, f)) + Cardinality(Maps(vmas, f))
    BY Zenon, CountedIs
  <2>9. /\ Cardinality(Descs(fds, f)) \in Nat /\ Cardinality(Maps(vmas, f)) \in Nat
    BY Zenon, CountsFinite
  <2>10. PICK d \in Nat : d = IF f \in fds[p] THEN 1 ELSE 0
    OBVIOUS
  <2> QED
    BY <2>2, <2>4, <2>6, <2>7, <2>8, <2>9, <2>10
<1>5. ref' \in [Files -> Nat]
  BY Zenon, <1>1, <1>4
<1> QED
  BY Zenon, <1>4, <1>5, CountedNext

\* The other steps touch no reference.
LEMMA RefsKept ==
  ASSUME Counted, NEW p \in Procs
  PROVE  \/ \E a \in Pages : vma_fault(p, a) \/ store(p, a)
         \/ \E a \in Pages, e \in 1 .. TRAPFRAME : munmap(p, a, e)
         \/ unmap_next(p) \/ unmap_page(p) \/ exit(p) \/ freeproc(p)
         \/ exec(p) \/ exec_end(p) \/ sbrk_grow(p) \/ sbrk_shrink(p)
         => Counted'
<1> DEFINE Kept == ref' = ref /\ fds' = fds /\ vmas' = vmas
<1>1. ASSUME NEW a \in Pages, vma_fault(p, a) \/ store(p, a) PROVE Kept
  BY Zenon, <1>1 DEF vma_fault, store
<1>2. ASSUME NEW a \in Pages, NEW e \in 1 .. TRAPFRAME, munmap(p, a, e) PROVE Kept
  BY Zenon, <1>2 DEF munmap
<1>3. ASSUME unmap_next(p) \/ unmap_page(p) PROVE Kept
  BY Zenon, <1>3 DEF unmap_next, unmap_page
<1>4. ASSUME exit(p) \/ freeproc(p) \/ exec(p) \/ exec_end(p) PROVE Kept
  BY Zenon, <1>4 DEF exit, freeproc, exec, exec_end
<1>5. ASSUME sbrk_grow(p) \/ sbrk_shrink(p) PROVE Kept
  BY Zenon, <1>5 DEF sbrk_grow, sbrk_shrink
<1>6. Kept => Counted'
  BY Zenon DEF Counted, RefsExact
<1> HIDE DEF Kept
<1> QED
  BY Zenon, <1>1, <1>2, <1>3, <1>4, <1>5, <1>6

\* No file is referenced at the start.
LEMMA CountedInit == Init => Counted
<1> SUFFICES ASSUME Init PROVE Counted
  OBVIOUS
<1>1. ASSUME NEW f \in Files PROVE Descs(fds, f) = {} /\ Maps(vmas, f) = {}
  BY Zenon DEF Init, Descs, Maps
<1>2. ref = [f \in Files |-> 0]
  BY DEF Init
<1> QED
  BY <1>1, <1>2, CountedIs, FS_EmptySet

\* Every step keeps the count.
LEMMA CountedStep == MInv /\ Counted /\ [Next]_vars => Counted'
<1> SUFFICES ASSUME MInv, Counted, [Next]_vars PROVE Counted'
  OBVIOUS
<1>1. CASE UNCHANGED vars
  BY Zenon, <1>1 DEF vars, Counted, RefsExact
<1>2. CASE Next
  <2>0. CASE panic
    BY Zenon, <1>1, <2>0 DEF panic
  <2> SUFFICES ASSUME ~panic PROVE Counted'
    BY Zenon, <2>0
  <2>1. PICK p \in Procs : Step(p)
    BY Zenon, <1>2 DEF Next, Step
  <2> QED
    BY Zenon, <2>1, OpenCounted, CloseCounted, MmapCounted, UnmapEndCounted, ExitEndCounted,
       ForkCounted, RefsKept DEF Step
<1> QED
  BY <1>1, <1>2

----------------------------------------------------------------------------
(* Theorems                                                                 *)

\* The two invariants hold in every reachable state.
LEMMA Invariant == Spec => [](MInv /\ Counted)
<1>1. MInv /\ Counted /\ [Next]_vars => MInv' /\ Counted'
  BY MInvNext, CountedStep
<1> QED
  BY <1>1, MInvInit, CountedInit, PTL DEF Spec

\* mmap, munmap, fork, exec, exit and sbrk: in every reachable state of any
\* number of processes the mappings of a process are disjoint, and above its heap
\* only they have pages; unless sbrk grew the heap of its image into a mapping the
\* mappings are above the heap, which has all its pages; and mappages, uvmunmap,
\* uvmcopy and freewalk have panicked only where there is such a heap.
THEOREM MmapSpaceSound == Spec => []SpaceSound
<1>1. MInv /\ Counted => SpaceSound
  <2> SUFFICES ASSUME MInv, Counted PROVE SpaceSound
    OBVIOUS
  <2>1. Spaces /\ Alive /\ Stored
    BY DEF MInv
  <2>2. TypeOK
    <3>1. \A f \in Files : Len(data[f]) <= MAXFILE /\ \A i \in 1 .. Len(data[f]) : data[f][i] \in Vals
      <4> SUFFICES ASSUME NEW f \in Files
                   PROVE  Len(data[f]) <= MAXFILE /\ \A i \in 1 .. Len(data[f]) : data[f][i] \in Vals
        BY Zenon
      <4>1. data[f] \in Seq({"file", "zero", "shared", "heap"}) /\ Len(data[f]) <= MAXFILE
        BY Zenon, <2>1 DEF Stored
      <4> QED
        BY <4>1 DEF Vals
    <3>2. ASSUME NEW p \in Procs
          PROVE  /\ \A s \in Slots : vmas[p][s] = None \/ vmas[p][s] \in VMA
                 /\ \A a \in Pages : pte[p][a] = None \/ pte[p][a] \in Page
                 /\ job[p] = None \/ job[p] \in Job
      BY Zenon, <2>1, Own
    <3> QED
      BY Zenon, <2>1, <3>1, <3>2 DEF TypeOK, Alive, Calm, Spaces, Counted
  <2>3. ASSUME NEW p \in Procs
        PROVE  /\ \A s, t \in Used(p) : s # t =>
                    End(vmas[p][s]) <= vmas[p][t].addr \/ End(vmas[p][t]) <= vmas[p][s].addr
               /\ \A a \in Pages :
                    a >= sz[p] /\ pte[p][a] # None => \E s \in Used(p) : Covers(vmas[p][s], a)
               /\ ~overgrown[p] => /\ \A s \in Used(p) : sz[p] <= vmas[p][s].addr
                                   /\ \A a \in Pages : a < sz[p] => pte[p][a] # None
    <3>1. /\ Layout(overgrown[p], sz[p], vmas[p], pte[p]) /\ Used(p) = UsedIn(vmas[p])
          /\ sz[p] \in Nat
      BY Zenon, <2>1, Own
    <3>2. \A a \in Pages : a >= sz[p] => ~(a < sz[p])
      BY <3>1, PageNumbers
    <3>3. /\ Disjoint(vmas[p]) /\ Placed(overgrown[p], sz[p], vmas[p])
          /\ Resident(overgrown[p], sz[p], vmas[p], pte[p])
      BY Zenon, <3>1 DEF Layout
    <3> QED
      BY Zenon, <3>1, <3>2, <3>3 DEF Disjoint, Placed, Resident
  <2> QED
    BY Zenon, <2>1, <2>2, <2>3 DEF SpaceSound, Alive, Calm
<1> QED
  BY <1>1, Invariant, PTL

\* vma_fault, munmap: a resident page of a mapping is the page of the file that
\* the mapping stands for at its address, however the mapping was cut, or a heap
\* page put there by sbrk.
THEOREM MmapPagesGoHome == Spec => []PagesGoHome
<1>1. MInv => PagesGoHome
  <2> SUFFICES ASSUME MInv, NEW p \in Procs, NEW s \in Used(p), NEW a \in Pages,
                      Covers(vmas[p][s], a), pte[p][a] # None
               PROVE  \/ pte[p][a].home =
                           <<vmas[p][s].file, vmas[p][s].offset + (a - vmas[p][s].addr)>>
                      \/ overgrown[p] /\ pte[p][a].home = None
    BY Zenon DEF PagesGoHome
  <2>1. PageOf(overgrown[p], vmas[p][s], a, pte[p][a])
    BY Zenon, Own DEF MInv, Layout, Faithful
  <2> QED
    BY Zenon, <2>1 DEF PageOf
<1> QED
  BY <1>1, Invariant, PTL

\* filedup and fileclose by mmap, munmap, fork, exec and exit: f->ref is the
\* number of descriptors and mappings of f.
THEOREM MmapRefsExact == Spec => []RefsExact
<1>1. Counted => RefsExact
  BY DEF Counted
<1> QED
  BY <1>1, Invariant, PTL

\* vma_unmap: what is stored through a private mapping never gets into a file,
\* wherever sbrk put the heap.
THEOREM MmapPrivateStays == Spec => []PrivateStays
<1>1. MInv => PrivateStays
  <2> SUFFICES ASSUME MInv, NEW f \in Files, NEW i \in 1 .. Len(data[f])
               PROVE  data[f][i] # "private"
    BY Zenon DEF PrivateStays
  <2>1. data[f] \in Seq({"file", "zero", "shared", "heap"})
    BY DEF MInv, Stored
  <2>2. data[f][i] \in {"file", "zero", "shared", "heap"}
    BY <2>1
  <2> QED
    BY Zenon, <2>2
<1> QED
  BY <1>1, Invariant, PTL

\* Only vma_unmap takes a page out of a mapping above the heap.
LEMMA OnlyUnmap ==
  ASSUME MInv, NEW q \in Procs, Step(q), NEW p \in Procs, ~overgrown[p],
         NEW a \in Pages, NEW s \in Used(p), Covers(vmas[p][s], a),
         pte[p][a] # None, pte'[p][a] = None
  PROVE  unmap_page(q) /\ q = p /\ a = job[p].va
<1>1. /\ pte \in [Procs -> [Pages -> Page \cup {None}]] /\ s \in UsedIn(vmas[p])
      /\ Spaces /\ Alive
  BY Zenon, Own DEF MInv, Spaces
<1>2. ~(a < sz[p])
  <2>1. PICK v : v = vmas[p][s]
    BY Zenon
  <2>2. v.addr \in Nat /\ sz[p] \in Nat /\ a \in Nat
    BY Zenon, <1>1, <2>1, Own, UsedAre, PageNumbers
  <2>3. sz[p] <= v.addr /\ v.addr <= a
    BY Zenon, <1>1, <2>1, Own DEF Layout, Placed, Covers
  <2> QED
    BY <2>2, <2>3
<1>3. ASSUME NEW b \in Pages, vma_fault(q, b) PROVE FALSE
  <2>1. PICK g : pte' = [pte EXCEPT ![q] = [pte[q] EXCEPT ![b] = g]] /\ pte[q][b] = None
    BY Zenon, <1>3 DEF vma_fault
  <2> QED
    BY Zenon, <1>1, <2>1
<1>4. ASSUME NEW b \in Pages, store(q, b) PROVE FALSE
  <2>1. PICK val \in Vals : /\ pte[q][b] # None
                            /\ pte' = [pte EXCEPT ![q] = [pte[q] EXCEPT ![b] = [@ EXCEPT !.val = val]]]
    BY Zenon, <1>4 DEF store, Vals
  <2>2. pte[q][b] \in Page
    BY <1>1, <2>1
  <2>3. [pte[q][b] EXCEPT !.val = val] \in Page
    BY <2>2 DEF Page
  <2>4. [pte[q][b] EXCEPT !.val = val] # None
    BY <2>3, NoneAssumption DEF NoneAssumption
  <2> QED
    BY Zenon, <1>1, <2>1, <2>4
<1>5. ASSUME unmap_page(q) PROVE q = p /\ a = job[p].va
  BY <1>1, <1>5 DEF unmap_page
<1>6. ASSUME freeproc(q) PROVE FALSE
  <2>1. q # p
    BY Zenon, <1>1, <1>6 DEF freeproc, Alive
  <2> QED
    BY Zenon, <1>1, <1>6, <2>1 DEF freeproc
<1>7. ASSUME exec_end(q) PROVE FALSE
  <2>1. q # p
    <3>1. /\ job[q] # None /\ job[q].then # "munmap" /\ job[q].slot = 0 /\ Rest(q) = {}
      BY Zenon, <1>7 DEF exec_end
    <3> QED
      BY Zenon, <1>1, <3>1, NoneLeft
  <2> QED
    BY Zenon, <1>1, <1>7, <2>1 DEF exec_end
<1>8. ASSUME NEW c \in Procs, fork(q, c) PROVE FALSE
  <2>1. c # p
    BY Zenon, <1>1, <1>8 DEF fork, Alive
  <2> QED
    BY Zenon, <1>1, <1>8, <2>1 DEF fork
<1>9. ASSUME sbrk_grow(q) PROVE FALSE
  <2>1. pte' = [pte EXCEPT ![q] = [@ EXCEPT ![sz[q]] = Heap]]
    BY Zenon, <1>9 DEF sbrk_grow
  <2>2. Heap # None
    <3>1. Heap \in Page
      BY DEF Heap, Page, Vals
    <3> QED
      BY <3>1, NoneAssumption DEF NoneAssumption
  <2> QED
    BY Zenon, <1>1, <2>1, <2>2
<1>10. ASSUME sbrk_shrink(q) PROVE FALSE
  <2>1. PICK b : b = sz[q] - 1 /\ pte' = [pte EXCEPT ![q] = [@ EXCEPT ![b] = None]]
    BY Zenon, <1>10 DEF sbrk_shrink
  <2>2. q = p => a # b
    <3>1. sz[q] \in Nat
      BY Zenon, <1>1, Own
    <3>2. b < sz[q]
      BY <2>1, <3>1
    <3> QED
      BY Zenon, <1>2, <3>2
  <2> QED
    BY <1>1, <2>1, <2>2
<1>11. \/ \E f \in Files : open(q, f) \/ close(q, f) \/ \E r \in Requests : mmap(q, r, f)
       \/ \E b \in Pages, e \in 1 .. TRAPFRAME : munmap(q, b, e)
       \/ unmap_next(q) \/ unmap_end(q) \/ exit(q) \/ exit_end(q) \/ exec(q)
       => FALSE
  <2>1. pte' # pte
    OBVIOUS
  <2> QED
    BY Zenon, <2>1 DEF open, close, mmap, munmap, unmap_next, unmap_end, exit, exit_end, exec
<1> QED
  BY Zenon, <1>3, <1>4, <1>5, <1>6, <1>7, <1>8, <1>9, <1>10, <1>11 DEF Step

\* vma_unmap, as munmap, exec and exit use it: a page that was stored to through
\* a shared mapping leaves the page table only with its content in the file, at
\* its place, unless writei refuses the place, in a process whose heap was not
\* grown into a mapping.
THEOREM MmapWriteBack == Spec => WriteBack
<1>1. ASSUME MInv, [Next]_vars, NEW p \in Procs, NEW a \in Pages PROVE WroteBack(p, a)
  <2> SUFFICES ASSUME ~overgrown[p], pte[p][a] # None, pte[p][a].w, pte[p][a].val = "shared",
                      pte'[p][a] = None, NEW s \in Used(p),
                      Covers(vmas[p][s], a), vmas[p][s].flags = "MAP_SHARED"
               PROVE  \E f, i : /\ f = pte[p][a].home[1] /\ i = pte[p][a].home[2]
                                /\ \/ i > Len(data[f]) \/ i >= MAXFILE
                                   \/ i < Len(data'[f]) /\ data'[f][i + 1] = "shared"
    BY Zenon DEF WroteBack
  <2>1. PICK q \in Procs : Step(q)
    BY Zenon, <1>1 DEF vars, Next, Step, panic
  <2>2. unmap_page(p) /\ a = job[p].va
    BY Zenon, <1>1, <2>1, OnlyUnmap
  <2>4. PICK k, v, g :
          /\ k = job[p] /\ v = vmas[p][k.slot] /\ g = pte[p][k.va]
          /\ k.slot \in UsedIn(vmas[p]) /\ k.va \in Pages /\ Covers(v, k.va)
          /\ v.file \in Files /\ v.offset + (k.va - v.addr) \in Nat
          /\ g # None => g \in Page /\ PageOf(overgrown[p], v, k.va, g)
          /\ data' = IF g # None /\ v.flags = "MAP_SHARED" /\ "W" \in v.prot
                     THEN Writei(v.file, v.offset + (k.va - v.addr), g.val) ELSE data
    BY Zenon, <1>1, <2>2, UnmapPageIs DEF MInv
  <2>5. s = k.slot
    <3>1. PICK u : u = vmas[p][s]
      BY Zenon
    <3>2. /\ s \in UsedIn(vmas[p]) /\ u.addr \in Nat /\ End(u) \in Nat
          /\ v.addr \in Nat /\ End(v) \in Nat /\ k.va \in Nat
      BY Zenon, <1>1, <2>4, <3>1, Own, UsedAre, PageNumbers DEF MInv
    <3>3. s # k.slot => End(u) <= v.addr \/ End(v) <= u.addr
      BY Zenon, <1>1, <2>4, <3>1, <3>2, Own DEF MInv, Layout, Disjoint
    <3>4. u.addr <= k.va /\ k.va < End(u) /\ v.addr <= k.va /\ k.va < End(v)
      BY Zenon, <2>2, <2>4, <3>1 DEF Covers
    <3> QED
      BY <3>2, <3>3, <3>4
  <2>6. /\ g # None /\ g.w /\ g.val = "shared" /\ PageOf(overgrown[p], v, k.va, g) /\ v.flags = "MAP_SHARED"
        /\ g.home = pte[p][a].home
    BY Zenon, <2>2, <2>4, <2>5
  <2>7. g.home[1] = v.file /\ g.home[2] = v.offset + (k.va - v.addr) /\ "W" \in v.prot
    BY <2>6 DEF PageOf
  <2>8. PICK f \in Files, i \in Nat : /\ f = v.file /\ i = v.offset + (k.va - v.addr)
                                      /\ f = pte[p][a].home[1] /\ i = pte[p][a].home[2]
    <3>1. g.home[1] \in Files /\ g.home[2] \in Nat
      BY Zenon, <2>4, <2>7
    <3> QED
      BY Zenon, <2>6, <2>7, <3>1
  <2>9. data' = Writei(f, i, "shared")
    BY Zenon, <2>4, <2>6, <2>7, <2>8
  <2>10. \/ i > Len(data[f]) \/ i >= MAXFILE
         \/ i < Len(data'[f]) /\ data'[f][i + 1] = "shared"
    BY Zenon, <1>1, <2>9, WriteiStored DEF MInv
  <2> QED
    BY Zenon, <2>8, <2>10
<1>2. MInv /\ [Next]_vars => [\A p \in Procs, a \in Pages : WroteBack(p, a)]_vars
  BY <1>1
<1> QED
  BY <1>2, Invariant, PTL DEF Spec, WriteBack
=============================================================================
