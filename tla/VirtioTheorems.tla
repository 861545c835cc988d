--------------------------- MODULE VirtioTheorems ---------------------------
(***************************************************************************)
(* What holds of virtio_disk.c for any number of processes and             *)
(* descriptors and any range of the ring indices: descriptors are owned by *)
(* one request, the handler meets live requests only, and virtio_disk_rw   *)
(* returns after the transfer.                                             *)
(***************************************************************************)
EXTENDS Virtio, Counting, TLAPS

Holding == {"publish", "test"}
Owning  == Holding \cup {"wait", "woken"}
Owners  == {p \in Procs : idx0[p] # None}

\* From index i on to index j around the ring, and the index k after i.
Dist(i, j) == IF i <= j THEN j - i ELSE j + IdxMod - i
At(i, k)   == IF i + k < IdxMod THEN i + k ELSE i + k - IdxMod

\* The entries of the available ring that the device has not taken, with the
\* one that is being published; those of the used ring nobody has looked at.
Publishing == \E p \in Procs : pc[p] = "publish"
Queued     == Dist(taken, availIdx) + (IF Publishing THEN 1 ELSE 0)
Finished   == Dist(used_idx, usedIdx)
QEntry(k)  == avail[At(taken, k) % NUM]
UEntry(k)  == used[At(used_idx, k) % NUM]

\* a heads the chain of a process that waits for the device.
Live(a) == /\ a \in D /\ info[a].b \in Procs
           /\ idx0[info[a].b] = a /\ disk[info[a].b]

\* TypeOK in two parts.
IdxType == /\ availIdx \in 0 .. IdxMod - 1 /\ taken \in 0 .. IdxMod - 1
           /\ usedIdx \in 0 .. IdxMod - 1 /\ used_idx \in 0 .. IdxMod - 1

DataType ==
  /\ free \subseteq D
  /\ desc \in [D -> [next : D \cup {None}, buf : Procs \cup {None}]]
  /\ info \in [D -> [b : Procs \cup {None}, status : {0, 255}]]
  /\ avail \in [D -> D \cup {None}] /\ used \in [D -> D \cup {None}]
  /\ lock \in Procs \cup {"intr", None}
  /\ pc \in [Procs -> {"idle", "alloc", "nodesc", "publish", "test", "wait", "woken"}]
  /\ idx0 \in [Procs -> D \cup {None}]
  /\ disk \in [Procs -> BOOLEAN] /\ done \in [Procs -> BOOLEAN]
  /\ working \subseteq D /\ irq \in BOOLEAN

\* Who holds vdisk_lock, owns a chain, and waits.
Place(p) ==
  /\ pc[p] \in Holding <=> lock = p
  /\ pc[p] \in Owning <=> idx0[p] # None
  /\ pc[p] \in Holding => disk[p]
  /\ disk[p] => idx0[p] # None
  /\ pc[p] = "publish" => avail[availIdx % NUM] = idx0[p]

\* An entry of the used ring is announced by an interrupt or being looked at.
Announced == used_idx # usedIdx => irq \/ lock = "intr"

LockInv == Announced /\ \A p \in Procs : Place(p)

\* A process's chain: three descriptors, its buffer, its info entry.
ChainOK(p) ==
  LET a == idx0[p]
      b == desc[a].next
      c == desc[b].next
  IN  /\ a \in D /\ b \in D /\ c \in D
      /\ a # b /\ a # c /\ b # c
      /\ desc[b].buf = p /\ info[a].b = p

ChainInv ==
  /\ \A p \in Owners : ChainOK(p) /\ Chain(idx0[p]) \cap free = {}
  /\ \A p, q \in Owners : p # q => Chain(idx0[p]) \cap Chain(idx0[q]) = {}

CountInv ==
  /\ Cardinality(free) + 3 * Cardinality(Owners) = NUM
  /\ \A p \in Procs : pc[p] = "nodesc" => Cardinality(free) < 3

\* The buffer of a process that need not wait any more has been transferred.
DoneInv == \A p \in Owners : disk[p] \/ done[p]

\* Every request that the device has not taken, works on or has finished is in
\* one place only.
QueueInv ==
  /\ \A k \in 0 .. Queued - 1 : Live(QEntry(k)) /\ QEntry(k) \notin working
  /\ \A k, l \in 0 .. Queued - 1 : QEntry(k) = QEntry(l) => k = l

WorkInv == \A a \in working : Live(a)

UsedInv ==
  /\ \A k \in 0 .. Finished - 1 :
       /\ Live(UEntry(k)) /\ UEntry(k) \notin working
       /\ info[UEntry(k)].status = 0 /\ done[info[UEntry(k)].b]
  /\ \A k, l \in 0 .. Finished - 1 : UEntry(k) = UEntry(l) => k = l

ApartInv ==
  \A k \in 0 .. Queued - 1, l \in 0 .. Finished - 1 : QEntry(k) # UEntry(l)

IInv ==
  /\ TypeOK /\ LockInv /\ ChainInv /\ CountInv /\ DoneInv
  /\ QueueInv /\ WorkInv /\ UsedInv /\ ApartInv

----------------------------------------------------------------------------
(* Indices and slots of a ring.                                             *)

USE Zenon

\* Division with remainder.
LEMMA Divide ==
  ASSUME NEW n \in Nat \ {0}, NEW x \in Nat
  PROVE  \E q \in Nat : x = q * n + (x % n)
<1>1. x % n \in Int /\ x \div n \in Nat /\ x \div n \in Int
  BY SMT
<1>2. ASSUME NEW q \in Int, NEW r \in Int, q = x \div n, r = x % n
      PROVE  x = q * n + r
  BY SMT, <1>2
<1>3. x = (x \div n) * n + (x % n)
  BY <1>1, <1>2
<1> QED
  BY <1>1, <1>3

\* Numbers with the same remainder differ by a multiple.
LEMMA SameRemainder ==
  ASSUME NEW n \in Nat \ {0}, NEW x \in Nat, NEW y \in Nat, x % n = y % n
  PROVE  \E c \in Int : x - y = c * n
<1>1. PICK q \in Nat : x = q * n + (x % n)
  BY Divide
<1>2. PICK s \in Nat : y = s * n + (x % n)
  BY Divide
<1>3. x % n \in Int
  BY SMT
<1>4. ASSUME NEW r \in Int, x = q * n + r, y = s * n + r
      PROVE  x - y = (q - s) * n
  BY SMT, <1>4
<1>5. x - y = (q - s) * n
  BY <1>1, <1>2, <1>3, <1>4
<1>6. q - s \in Int
  BY SMT
<1> QED
  BY <1>5, <1>6

\* A multiple of n closer than n to 0 is 0.
LEMMA SmallMultiple ==
  ASSUME NEW n \in Nat \ {0}, NEW c \in Int, c * n < n, -n < c * n
  PROVE  c = 0
  BY SMT

\* The indices wrap once.
LEMMA ModIdx ==
  \A x \in Nat : x < IdxMod + IdxMod => x % IdxMod = IF x < IdxMod THEN x ELSE x - IdxMod
  BY SMT, VirtioAssumption

\* NUM divides the range of the indices.
LEMMA Turns == \E m \in Nat : IdxMod = m * NUM
<1>1. NUM \in Nat \ {0} /\ IdxMod \in Nat /\ IdxMod % NUM = 0
  BY SMT, VirtioAssumption
<1>2. PICK q \in Nat : IdxMod = q * NUM + (IdxMod % NUM)
  BY <1>1, Divide
<1> QED
  BY SMT, <1>1, <1>2

\* Positions less than NUM apart, around the wrap or not, have slots of
\* their own.
LEMMA Ring ==
  ASSUME NEW i \in 0 .. IdxMod - 1, NEW k \in 0 .. NUM - 1, NEW l \in 0 .. NUM - 1,
         At(i, k) % NUM = At(i, l) % NUM
  PROVE  k = l
<1>1. PICK m \in Nat : IdxMod = m * NUM
  BY Turns
<1>2. NUM \in Nat \ {0} /\ NUM <= IdxMod /\ IdxMod \in Nat
  BY SMT, <1>1, VirtioAssumption
<1>3. At(i, k) \in Nat /\ At(i, l) \in Nat
  BY SMT, <1>2 DEF At
<1>4. PICK c \in Int : At(i, k) - At(i, l) = c * NUM
  BY <1>2, <1>3, SameRemainder
<1>5. \E d \in Int : k - l = d * NUM
  <2>1. CASE At(i, k) - At(i, l) = k - l
    BY <1>4, <2>1
  <2>2. CASE At(i, k) - At(i, l) = k - l - IdxMod
    <3>1. k - l = (c + m) * NUM
      BY SMT, <1>1, <1>2, <1>4, <2>2
    <3> QED
      BY SMT, <3>1
  <2>3. CASE At(i, k) - At(i, l) = k - l + IdxMod
    <3>1. k - l = (c - m) * NUM
      BY SMT, <1>1, <1>2, <1>4, <2>3
    <3> QED
      BY SMT, <3>1
  <2> QED
    BY SMT, <1>2, <2>1, <2>2, <2>3 DEF At
<1>6. PICK d \in Int : k - l = d * NUM
  BY <1>5
<1>7. d * NUM < NUM /\ -NUM < d * NUM
  BY SMT, <1>2, <1>6
<1>8. d = 0
  BY <1>2, <1>7, SmallMultiple
<1> QED
  BY SMT, <1>2, <1>6, <1>8

\* The constants, as the lemmas on the rings use them.
LEMMA Sizes == NUM \in Nat /\ NUM >= 3 /\ IdxMod \in Nat /\ IdxMod >= NUM
<1>1. PICK m \in Nat : IdxMod = m * NUM
  BY Turns
<1> QED
  BY SMT, <1>1, VirtioAssumption

\* How far an index is, and what is there.
LEMMA DistFacts ==
  ASSUME NEW i \in 0 .. IdxMod - 1, NEW j \in 0 .. IdxMod - 1
  PROVE  /\ Dist(i, j) \in 0 .. IdxMod - 1
         /\ At(i, Dist(i, j)) = j /\ At(i, 0) = i
         /\ Dist(i, j) = 0 <=> i = j
         /\ (j + IdxMod - i) % IdxMod = Dist(i, j)
         /\ \A k \in 0 .. IdxMod - 1 : (i + k) % IdxMod = At(i, k) /\ At(i, k) \in 0 .. IdxMod - 1
<1>1. IdxMod \in Nat \ {0}
  BY SMT, Sizes
<1>2. (j + IdxMod - i) % IdxMod = Dist(i, j)
  <2>1. j + IdxMod - i \in Nat
    BY SMT, <1>1
  <2>2. ASSUME NEW x \in Nat, x = j + IdxMod - i PROVE x % IdxMod = Dist(i, j)
    <3>1. x < IdxMod + IdxMod
      BY SMT, <1>1, <2>2
    <3>2. x % IdxMod = IF x < IdxMod THEN x ELSE x - IdxMod
      BY <3>1, ModIdx
    <3> QED
      BY SMT, <1>1, <2>2, <3>2 DEF Dist
  <2> QED
    BY <2>1, <2>2
<1>3. ASSUME NEW k \in 0 .. IdxMod - 1 PROVE (i + k) % IdxMod = At(i, k)
  <2>1. i + k \in Nat
    BY SMT, <1>1
  <2>2. ASSUME NEW x \in Nat, x = i + k PROVE x % IdxMod = At(i, k)
    <3>1. x < IdxMod + IdxMod
      BY SMT, <1>1, <2>2
    <3>2. x % IdxMod = IF x < IdxMod THEN x ELSE x - IdxMod
      BY <3>1, ModIdx
    <3> QED
      BY SMT, <1>1, <2>2, <3>2 DEF At
  <2> QED
    BY <2>1, <2>2
<1> QED
  BY SMT, <1>1, <1>2, <1>3 DEF Dist, At

\* An index that moves on by one.
LEMMA Advance ==
  ASSUME NEW i \in 0 .. IdxMod - 1
  PROVE  (i + 1) % IdxMod = (IF i + 1 = IdxMod THEN 0 ELSE i + 1)
         /\ (i + 1) % IdxMod \in 0 .. IdxMod - 1
<1>1. IdxMod \in Nat \ {0, 1} /\ i + 1 \in Nat /\ i + 1 < IdxMod + IdxMod
  BY SMT, Sizes
<1>2. (i + 1) % IdxMod = IF i + 1 < IdxMod THEN i + 1 ELSE i + 1 - IdxMod
  BY SMT, <1>1, ModIdx
<1> QED
  BY SMT, <1>1, <1>2

\* Putting an entry at the end of a queue, and taking one from its front.
LEMMA PutTake ==
  ASSUME NEW i \in 0 .. IdxMod - 1, NEW j \in 0 .. IdxMod - 1
  PROVE  /\ Dist(i, j) + 1 < IdxMod => Dist(i, (j + 1) % IdxMod) = Dist(i, j) + 1
         /\ i # j => Dist((i + 1) % IdxMod, j) = Dist(i, j) - 1
         /\ \A k \in 0 .. IdxMod - 2 : At((i + 1) % IdxMod, k) = At(i, k + 1)
<1>1. IdxMod \in Nat \ {0}
  BY SMT, Sizes
<1>2. ASSUME NEW m \in 0 .. IdxMod - 1, m = IF j + 1 = IdxMod THEN 0 ELSE j + 1, Dist(i, j) + 1 < IdxMod
      PROVE  Dist(i, m) = Dist(i, j) + 1
  BY SMT, <1>1, <1>2 DEF Dist
<1>3. ASSUME NEW m \in 0 .. IdxMod - 1, m = IF i + 1 = IdxMod THEN 0 ELSE i + 1
      PROVE  /\ i # j => Dist(m, j) = Dist(i, j) - 1
             /\ \A k \in 0 .. IdxMod - 2 : At(m, k) = At(i, k + 1)
  BY SMT, <1>1, <1>3 DEF Dist, At
<1>4. Dist(i, j) + 1 < IdxMod => Dist(i, (j + 1) % IdxMod) = Dist(i, j) + 1
  BY <1>2, Advance
<1> QED
  BY <1>3, <1>4, Advance

\* Slots are entries of the arrays.
LEMMA SlotType == ASSUME NEW x \in Nat PROVE x % NUM \in D
<1>1. NUM \in Nat \ {0}
  BY SMT, Sizes
<1> QED
  BY SMT, <1>1 DEF D

\* An entry written at the end of a queue leaves those before it alone.
LEMMA PutSlot ==
  ASSUME NEW i \in 0 .. IdxMod - 1, NEW j \in 0 .. IdxMod - 1, Dist(i, j) < NUM,
         NEW k \in 0 .. Dist(i, j) - 1
  PROVE  At(i, k) % NUM # j % NUM
<1>0. Dist(i, j) \in 0 .. IdxMod - 1
  BY DistFacts
<1>1. Dist(i, j) \in 0 .. NUM - 1 /\ k \in 0 .. NUM - 1 /\ k # Dist(i, j)
  BY SMT, <1>0, Sizes
<1>2. At(i, Dist(i, j)) = j
  BY DistFacts
<1> QED
  BY <1>1, <1>2, Ring

\* An entry cleared at the front of a queue leaves those behind it alone.
LEMMA TakeSlot ==
  ASSUME NEW i \in 0 .. IdxMod - 1, NEW k \in 1 .. NUM - 1
  PROVE  At(i, k) % NUM # i % NUM
<1>1. 0 \in 0 .. NUM - 1 /\ k \in 0 .. NUM - 1 /\ k # 0
  BY SMT, Sizes
<1>2. At(i, 0) = i
  BY DistFacts
<1> QED
  BY <1>1, <1>2, Ring

----------------------------------------------------------------------------
(* Counting.                                                                *)

\* The facts one at a time.
LEMMA Empty ==
  ASSUME CountFacts
  PROVE  IsFiniteSet({}) /\ Cardinality({}) = 0
  BY DEF CountFacts

\* Counting gives a natural number.
LEMMA Count ==
  ASSUME CountFacts, NEW S, IsFiniteSet(S)
  PROVE  Cardinality(S) \in Nat /\ (Cardinality(S) = 0 <=> S = {})
  BY DEF CountFacts

\* One element more.
LEMMA Add ==
  ASSUME CountFacts, NEW S, IsFiniteSet(S), NEW x
  PROVE  /\ IsFiniteSet(S \cup {x})
         /\ x \notin S => Cardinality(S \cup {x}) = Cardinality(S) + 1
  BY DEF CountFacts

\* One element less.
LEMMA Remove ==
  ASSUME CountFacts, NEW S, IsFiniteSet(S), NEW x
  PROVE  /\ IsFiniteSet(S \ {x})
         /\ x \in S => Cardinality(S \ {x}) = Cardinality(S) - 1
  BY DEF CountFacts

\* A part is no larger than the whole.
LEMMA Part ==
  ASSUME CountFacts, NEW S, IsFiniteSet(S), NEW T \in SUBSET S
  PROVE  IsFiniteSet(T) /\ Cardinality(T) <= Cardinality(S)
  BY DEF CountFacts

\* An interval of numbers.
LEMMA FromTo ==
  ASSUME CountFacts, NEW m \in Int, NEW n \in Int
  PROVE  IsFiniteSet(m .. n) /\ (m <= n + 1 => Cardinality(m .. n) = n - m + 1)
  BY DEF CountFacts

\* What maps one to one into a set is no larger.
LEMMA Inject ==
  ASSUME CountFacts, NEW S, NEW T, NEW f \in [S -> T], IsFiniteSet(T),
         \A x, y \in S : f[x] = f[y] => x = y
  PROVE  IsFiniteSet(S) /\ Cardinality(S) <= Cardinality(T)
  BY DEF CountFacts

\* A set of natural numbers has a least element.
LEMMA Least ==
  ASSUME CountFacts, NEW S \in SUBSET Nat, S # {}
  PROVE  \E m \in S : \A e \in S : m <= e
  BY DEF CountFacts

\* alloc3_desc finds three descriptors when there are three.
LEMMA ThreeFree ==
  ASSUME CountFacts, free \in SUBSET Nat, IsFiniteSet(free), Cardinality(free) >= 3
  PROVE  /\ Nth(0) \in free /\ Nth(1) \in free /\ Nth(2) \in free
         /\ Nth(0) # Nth(1) /\ Nth(0) # Nth(2) /\ Nth(1) # Nth(2)
<1> DEFINE Below(d) == {e \in free : e < d}
<1>1. PICK x \in free : \A e \in free : x <= e
  <2>1. free # {}
    BY SMT, Empty, Count
  <2> QED
    BY <2>1, Least
<1>2. /\ IsFiniteSet(free \ {x})
      /\ Cardinality(free \ {x}) = Cardinality(free) - 1 /\ Cardinality(free) \in Nat
  BY Remove, Count
<1>3. PICK y \in free \ {x} : \A e \in free \ {x} : y <= e
  <2>1. free \ {x} # {}
    BY SMT, <1>2, Empty, Count
  <2>2. free \ {x} \in SUBSET Nat
    OBVIOUS
  <2> QED
    BY <2>1, <2>2, Least
<1>4. /\ IsFiniteSet((free \ {x}) \ {y})
      /\ Cardinality((free \ {x}) \ {y}) = Cardinality(free \ {x}) - 1
  BY <1>2, <1>3, Remove
<1>5. PICK z \in (free \ {x}) \ {y} : \A e \in (free \ {x}) \ {y} : z <= e
  <2>1. (free \ {x}) \ {y} # {}
    BY SMT, <1>2, <1>4, Empty, Count
  <2>2. (free \ {x}) \ {y} \in SUBSET Nat
    OBVIOUS
  <2> QED
    BY <2>1, <2>2, Least
<1>6. Below(x) = {} /\ Below(y) = {x} /\ Below(z) = {x, y} /\ x # y
  <2>1. x \in Nat /\ y \in Nat /\ z \in Nat /\ y # x /\ z # x /\ z # y
        /\ x \in free /\ y \in free /\ z \in free
    BY <1>3, <1>5
  <2>2. x < y /\ x < z /\ y < z
    BY SMT, <1>1, <1>3, <1>5, <2>1
  <2>3. ASSUME NEW e \in free PROVE /\ ~(e < x)
                                    /\ e < y <=> e = x
                                    /\ e < z <=> e = x \/ e = y
    <3>1. e \in Nat /\ x <= e /\ (e = x \/ y <= e) /\ (e = x \/ e = y \/ z <= e)
      BY <1>1, <1>3, <1>5
    <3> QED
      BY SMT, <2>1, <2>2, <3>1
  <2> QED
    BY <2>1, <2>3
<1>7. Cardinality({}) = 0 /\ Cardinality({x}) = 1 /\ Cardinality({x, y}) = 2
  <2>1. Cardinality({x}) = 1 /\ IsFiniteSet({x})
    <3>1. {} \cup {x} = {x} /\ x \notin {}
      OBVIOUS
    <3>2. IsFiniteSet({} \cup {x}) /\ Cardinality({} \cup {x}) = Cardinality({}) + 1
      BY <3>1, Empty, Add
    <3> QED
      BY SMT, <3>1, <3>2, Empty
  <2>2. {x, y} = {x} \cup {y} /\ y \notin {x}
    BY <1>6
  <2>3. Cardinality({x, y}) = 2
    <3>1. Cardinality({x} \cup {y}) = Cardinality({x}) + 1
      BY <2>1, <2>2, Add
    <3>2. Cardinality({x} \cup {y}) = 2
      BY SMT, <2>1, <3>1
    <3> QED
      BY <2>2, <3>2
  <2> QED
    BY <2>1, <2>3, Empty, Count
<1>8. /\ \E d \in free : Cardinality(Below(d)) = 0
      /\ \E d \in free : Cardinality(Below(d)) = 1
      /\ \E d \in free : Cardinality(Below(d)) = 2
  BY <1>1, <1>3, <1>5, <1>6, <1>7
<1>9. /\ Nth(0) \in free /\ Cardinality(Below(Nth(0))) = 0
      /\ Nth(1) \in free /\ Cardinality(Below(Nth(1))) = 1
      /\ Nth(2) \in free /\ Cardinality(Below(Nth(2))) = 2
  BY <1>8 DEF Nth
<1> HIDE DEF Below
<1> QED
  BY SMT, <1>9

\* Three elements more.
LEMMA AddThree ==
  ASSUME CountFacts, NEW T, IsFiniteSet(T), NEW a, NEW b, NEW c, a # b, a # c, b # c,
         a \notin T, b \notin T, c \notin T
  PROVE  Cardinality(T \cup {a, b, c}) = Cardinality(T) + 3
<1>0. Cardinality(T) \in Nat
  BY Count
<1>1. IsFiniteSet(T \cup {a}) /\ Cardinality(T \cup {a}) = Cardinality(T) + 1
  BY Add
<1>2. b \notin T \cup {a}
  OBVIOUS
<1>3. /\ IsFiniteSet((T \cup {a}) \cup {b})
      /\ Cardinality((T \cup {a}) \cup {b}) = Cardinality(T \cup {a}) + 1
  BY <1>1, <1>2, Add
<1>4. c \notin (T \cup {a}) \cup {b}
  OBVIOUS
<1>5. Cardinality(((T \cup {a}) \cup {b}) \cup {c}) = Cardinality((T \cup {a}) \cup {b}) + 1
  BY <1>3, <1>4, Add
<1>6. ((T \cup {a}) \cup {b}) \cup {c} = T \cup {a, b, c}
  OBVIOUS
<1>7. Cardinality(((T \cup {a}) \cup {b}) \cup {c}) = Cardinality(T) + 3
  BY SMT, <1>0, <1>1, <1>3, <1>5
<1> QED
  BY <1>6, <1>7

\* Three elements less.
LEMMA RemoveThree ==
  ASSUME CountFacts, NEW S, IsFiniteSet(S), NEW a \in S, NEW b \in S, NEW c \in S,
         a # b, a # c, b # c
  PROVE  Cardinality(S \ {a, b, c}) = Cardinality(S) - 3
<1>1. IsFiniteSet(S \ {a, b, c}) /\ Cardinality(S \ {a, b, c}) \in Nat
  BY Part, Count
<1>2. (S \ {a, b, c}) \cup {a, b, c} = S
  OBVIOUS
<1>3. a \notin S \ {a, b, c} /\ b \notin S \ {a, b, c} /\ c \notin S \ {a, b, c}
  OBVIOUS
<1>4. Cardinality((S \ {a, b, c}) \cup {a, b, c}) = Cardinality(S \ {a, b, c}) + 3
  BY <1>1, <1>3, AddThree
<1>5. Cardinality(S) = Cardinality(S \ {a, b, c}) + 3
  BY <1>2, <1>4
<1> QED
  BY SMT, <1>1, <1>5

----------------------------------------------------------------------------
(* What the invariant gives.                                                *)

\* The two parts make TypeOK.
LEMMA TypeParts == TypeOK <=> IdxType /\ DataType
  BY DEF TypeOK, IdxType, DataType

\* The types, in the form the steps use them.
LEMMA Types ==
  ASSUME CountFacts, TypeOK
  PROVE  /\ availIdx \in 0 .. IdxMod - 1 /\ taken \in 0 .. IdxMod - 1
         /\ usedIdx \in 0 .. IdxMod - 1 /\ used_idx \in 0 .. IdxMod - 1
         /\ DOMAIN desc = D /\ DOMAIN info = D
         /\ \A d \in D : DOMAIN info[d] = {"b", "status"}
         /\ free \in SUBSET Nat /\ IsFiniteSet(free) /\ Cardinality(free) \in Nat
         /\ Owners \in SUBSET Procs /\ IsFiniteSet(Owners) /\ Cardinality(Owners) \in Nat
<1>1. availIdx \in 0 .. IdxMod - 1 /\ taken \in 0 .. IdxMod - 1
      /\ usedIdx \in 0 .. IdxMod - 1 /\ used_idx \in 0 .. IdxMod - 1
  BY TypeParts DEF IdxType
<1>2. DOMAIN desc = D /\ DOMAIN info = D /\ \A d \in D : DOMAIN info[d] = {"b", "status"}
  BY TypeParts DEF DataType
<1>3. D \subseteq Nat /\ IsFiniteSet(D)
  BY SMT, Sizes, FromTo DEF D
<1>4. free \in SUBSET D
  BY TypeParts DEF DataType
<1>5. free \in SUBSET Nat /\ IsFiniteSet(free)
  BY <1>3, <1>4, Part
<1>6. Owners \in SUBSET Procs
  BY DEF Owners
<1>7. IsFiniteSet(Owners)
  BY <1>6, VirtioAssumption, Part
<1> QED
  BY <1>1, <1>2, <1>5, <1>6, <1>7, Count

\* A list of requests without repetition is no longer than there are owners.
LEMMA ListBound ==
  ASSUME CountFacts, TypeOK, NEW n \in Nat, NEW e,
         \A k \in 0 .. n - 1 : Live(e[k]),
         \A k, l \in 0 .. n - 1 : e[k] = e[l] => k = l
  PROVE  n <= Cardinality(Owners)
<1> DEFINE f == [j \in 1 .. n |-> info[e[j - 1]].b]
<1>1. \A j \in 1 .. n : j - 1 \in 0 .. n - 1
  BY SMT
<1>2. \A j \in 1 .. n : /\ f[j] \in Procs /\ idx0[f[j]] = e[j - 1] /\ idx0[f[j]] \in D
  BY <1>1 DEF Live
<1>3. None \notin D
  BY SMT, Sizes, VirtioAssumption DEF D
<1>4. f \in [1 .. n -> Owners]
  BY <1>2, <1>3 DEF Owners
<1>5. ASSUME NEW j \in 1 .. n, NEW m \in 1 .. n, f[j] = f[m] PROVE j = m
  <2>1. e[j - 1] = e[m - 1]
    BY <1>2, <1>5
  <2>2. j - 1 = m - 1
    BY <1>1, <2>1
  <2> QED
    BY SMT, <2>2
<1> HIDE DEF f
<1>6. Cardinality(1 .. n) <= Cardinality(Owners)
  BY <1>4, <1>5, Types, Inject
<1>7. Cardinality(1 .. n) = n
  BY SMT, FromTo
<1> QED
  BY <1>6, <1>7

\* The queues are shorter than the rings: entries do not collide, and the
\* indices do not come around to each other.
LEMMA RoomInRings ==
  ASSUME CountFacts, IInv
  PROVE  /\ Queued \in Nat /\ Finished \in Nat
         /\ Queued <= Cardinality(Owners) /\ Finished <= Cardinality(Owners)
         /\ 3 * Cardinality(Owners) <= NUM
         /\ Cardinality(free) >= 3 => 3 * Cardinality(Owners) + 3 <= NUM
<1>1. TypeOK /\ Dist(taken, availIdx) \in Nat /\ Dist(used_idx, usedIdx) \in Nat
  <2>1. TypeOK
    BY DEF IInv
  <2>2. /\ Dist(taken, availIdx) \in 0 .. IdxMod - 1
        /\ Dist(used_idx, usedIdx) \in 0 .. IdxMod - 1
    BY <2>1, Types, DistFacts
  <2> QED
    BY SMT, <2>1, <2>2, Sizes
<1>2. Queued \in Nat /\ Finished \in Nat
  BY SMT, <1>1 DEF Queued, Finished
<1>3. Queued <= Cardinality(Owners)
  <2> DEFINE e == [k \in 0 .. Queued - 1 |-> QEntry(k)]
  <2>1. /\ \A k \in 0 .. Queued - 1 : Live(e[k])
        /\ \A k, l \in 0 .. Queued - 1 : e[k] = e[l] => k = l
    BY DEF IInv, QueueInv
  <2> HIDE DEF e
  <2> QED
    BY <1>1, <1>2, <2>1, ListBound
<1>4. Finished <= Cardinality(Owners)
  <2> DEFINE e == [k \in 0 .. Finished - 1 |-> UEntry(k)]
  <2>1. /\ \A k \in 0 .. Finished - 1 : Live(e[k])
        /\ \A k, l \in 0 .. Finished - 1 : e[k] = e[l] => k = l
    BY DEF IInv, UsedInv
  <2> HIDE DEF e
  <2> QED
    BY <1>1, <1>2, <2>1, ListBound
<1>5. /\ Cardinality(free) + 3 * Cardinality(Owners) = NUM
      /\ Cardinality(free) \in Nat /\ Cardinality(Owners) \in Nat
  BY <1>1, Types DEF IInv, CountInv
<1> QED
  BY SMT, <1>2, <1>3, <1>4, <1>5, Sizes

\* The entry that the handler looks at, and the one that the device takes.
LEMMA FrontEntry ==
  ASSUME CountFacts, IInv
  PROVE  /\ used_idx # usedIdx => /\ Finished >= 1 /\ Entry = UEntry(0) /\ Live(Entry)
                                  /\ Entry \notin working /\ done[info[Entry].b]
         /\ taken # availIdx => /\ Queued >= 1 /\ avail[taken % NUM] = QEntry(0)
                                /\ Live(QEntry(0)) /\ QEntry(0) \notin working
<1>0. TypeOK
  BY DEF IInv
<1>1. At(used_idx, 0) = used_idx /\ At(taken, 0) = taken
  BY <1>0, Types, DistFacts
<1>2. /\ Dist(taken, availIdx) = 0 <=> taken = availIdx
      /\ Dist(used_idx, usedIdx) = 0 <=> used_idx = usedIdx
  BY <1>0, Types, DistFacts
<1>3. Dist(taken, availIdx) \in 0 .. IdxMod - 1 /\ Dist(used_idx, usedIdx) \in 0 .. IdxMod - 1
  BY <1>0, Types, DistFacts
<1>4. /\ used_idx # usedIdx => Finished >= 1 /\ 0 \in 0 .. Finished - 1
      /\ taken # availIdx => Queued >= 1 /\ 0 \in 0 .. Queued - 1
  BY SMT, <1>2, <1>3, Sizes DEF Finished, Queued
<1>5. Entry = UEntry(0) /\ avail[taken % NUM] = QEntry(0)
  BY <1>1 DEF Entry, UEntry, QEntry
<1> QED
  BY <1>4, <1>5 DEF IInv, UsedInv, QueueInv

\* Steps keep the types.
LEMMA TypeStep == ASSUME CountFacts, IInv, [Next]_vars PROVE TypeOK'
<1>0. TypeOK /\ IdxType /\ DataType
  BY TypeParts DEF IInv
<1> SUFFICES IdxType' /\ DataType'
  BY DEF TypeOK, IdxType, DataType
<1> DEFINE Labels == {"idle", "alloc", "nodesc", "publish", "test", "wait", "woken"}
<1>1. ASSUME NEW p \in Procs, rw(p) PROVE IdxType' /\ DataType'
  BY <1>0, <1>1 DEF IdxType, DataType, rw
<1>2. ASSUME NEW p \in Procs, alloc3_desc_fail(p) PROVE IdxType' /\ DataType'
  <2>1. pc' \in [Procs -> Labels]
    BY SMT, <1>0, <1>2 DEF DataType, alloc3_desc_fail, WakeAlloc
  <2> QED
    BY <1>0, <1>2, <2>1 DEF IdxType, DataType, alloc3_desc_fail, device
<1>3. ASSUME NEW p \in Procs, alloc3_desc(p) PROVE IdxType' /\ DataType'
  <2>1. Nth(0) \in D /\ Nth(1) \in D /\ Nth(2) \in D
    BY <1>0, <1>3, ThreeFree, Types DEF alloc3_desc, DataType
  <2>2. /\ Clear \in [next : D \cup {None}, buf : Procs \cup {None}]
        /\ [next |-> Nth(1), buf |-> None] \in [next : D \cup {None}, buf : Procs \cup {None}]
        /\ [next |-> Nth(2), buf |-> p] \in [next : D \cup {None}, buf : Procs \cup {None}]
        /\ [b |-> p, status |-> 255] \in [b : Procs \cup {None}, status : {0, 255}]
    BY <2>1 DEF Clear
  <2>3. availIdx % NUM \in D
    <3>1. availIdx \in Nat
      BY SMT, <1>0, Types, Sizes
    <3> QED
      BY <3>1, SlotType
  <2>4. desc' \in [D -> [next : D \cup {None}, buf : Procs \cup {None}]]
    BY <1>0, <1>3, <2>1, <2>2 DEF IdxType, DataType, alloc3_desc
  <2>5. info' \in [D -> [b : Procs \cup {None}, status : {0, 255}]]
    BY <1>0, <1>3, <2>1, <2>2 DEF IdxType, DataType, alloc3_desc
  <2>6. free' \subseteq D /\ avail' \in [D -> D \cup {None}]
    BY <1>0, <1>3, <2>1, <2>3 DEF IdxType, DataType, alloc3_desc
  <2> QED
    BY <1>0, <1>3, <2>1, <2>4, <2>5, <2>6 DEF IdxType, DataType, alloc3_desc, device
<1>4. ASSUME NEW p \in Procs, publish(p) PROVE IdxType' /\ DataType'
  <2>1. availIdx' \in 0 .. IdxMod - 1
    BY <1>0, <1>4, Types, Advance DEF publish
  <2> QED
    BY <1>0, <1>4, <2>1 DEF IdxType, DataType, publish, device
<1>5. ASSUME NEW p \in Procs, wait(p) \/ kill(p) PROVE IdxType' /\ DataType'
  <2>a. /\ lock' \in Procs \cup {"intr", None}
        /\ pc' = [pc EXCEPT ![p] = "wait"]
           \/ pc' = [pc EXCEPT ![p] = IF @ = "wait" THEN "woken" ELSE "alloc"]
    BY <1>0, <1>5 DEF DataType, wait, kill
  <2>1. pc' \in [Procs -> Labels] /\ lock' \in Procs \cup {"intr", None}
    BY SMT, <1>0, <2>a DEF DataType
  <2>2. UNCHANGED <<free, desc, info, avail, availIdx, used_idx, idx0, disk, device, irq>>
    BY <1>5 DEF wait, kill
  <2> QED
    BY <1>0, <2>1, <2>2 DEF IdxType, DataType, device
<1>6. ASSUME NEW p \in Procs, finish(p) PROVE IdxType' /\ DataType'
  <2>1. idx0[p] # None /\ ChainOK(p)
    BY <1>6 DEF finish, IInv, LockInv, Place, Owning, ChainInv, Owners
  <2>2. Chain(idx0[p]) \subseteq D
    BY <2>1 DEF ChainOK, Chain
  <2>3. Clear \in [next : D \cup {None}, buf : Procs \cup {None}]
    BY DEF Clear
  <2>4. desc' \in [D -> [next : D \cup {None}, buf : Procs \cup {None}]]
    BY <1>0, <1>6, <2>3 DEF IdxType, DataType, finish
  <2>5. info' \in [D -> [b : Procs \cup {None}, status : {0, 255}]]
    <3>1. idx0[p] \in D
      BY <2>1 DEF ChainOK
    <3> QED
      BY SMT, <1>0, <1>6, <3>1 DEF IdxType, DataType, finish
  <2> QED
    BY <1>0, <1>6, <2>2, <2>4, <2>5 DEF IdxType, DataType, finish, WakeAlloc, device
<1>7. ASSUME device_take PROVE IdxType' /\ DataType'
  <2>1. taken' \in 0 .. IdxMod - 1
    BY <1>0, <1>7, Types, Advance DEF device_take
  <2>2. avail[taken % NUM] \in D
    BY <1>7, FrontEntry DEF device_take, Live
  <2>3. working' \subseteq D /\ avail' \in [D -> D \cup {None}]
    <3>1. /\ working' = working \cup {avail[taken % NUM]}
          /\ avail' = [avail EXCEPT ![taken % NUM] = None]
      BY <1>7 DEF device_take
    <3>2. working' \subseteq D
      <4>1. working \subseteq D
        BY <1>0 DEF DataType
      <4>2. \A x \in working' : x \in working \/ x = avail[taken % NUM]
        BY <3>1
      <4> QED
        BY <2>2, <4>1, <4>2
    <3>3. avail' \in [D -> D \cup {None}]
      BY <1>0, <3>1 DEF DataType
    <3> QED
      BY <3>2, <3>3
  <2> QED
    BY <1>0, <1>7, <2>1, <2>3 DEF IdxType, DataType, device_take
<1>8. ASSUME NEW a \in D, device_done(a) PROVE IdxType' /\ DataType'
  <2>1. usedIdx' \in 0 .. IdxMod - 1
    BY <1>0, <1>8, Types, Advance DEF device_done
  <2>2. info' \in [D -> [b : Procs \cup {None}, status : {0, 255}]]
    BY SMT, <1>0, <1>8 DEF IdxType, DataType, device_done
  <2>3. done' \in [Procs -> BOOLEAN]
    BY <1>0, <1>8 DEF IdxType, DataType, device_done
  <2> QED
    BY <1>0, <1>8, <2>1, <2>2, <2>3 DEF IdxType, DataType, device_done
<1>9. ASSUME intr \/ intr_end PROVE IdxType' /\ DataType'
  <2>1. lock' \in Procs \cup {"intr", None} /\ irq' \in BOOLEAN
    BY <1>0, <1>9 DEF DataType, intr, intr_end
  <2>2. UNCHANGED <<free, desc, info, avail, availIdx, used_idx, pc, idx0, disk, device>>
    BY <1>9 DEF intr, intr_end
  <2> QED
    BY <1>0, <2>1, <2>2 DEF IdxType, DataType, device
<1>10. ASSUME intr_entry PROVE IdxType' /\ DataType'
  <2>1. used_idx' \in 0 .. IdxMod - 1
    BY <1>0, <1>10, Types, Advance DEF intr_entry
  <2> QED
    BY <1>0, <1>10, <2>1 DEF IdxType, DataType, intr_entry
<1>11. CASE UNCHANGED vars
  BY <1>0, <1>11 DEF IdxType, DataType, vars, driver, device
<1> QED
  BY <1>1, <1>2, <1>3, <1>4, <1>5, <1>6, <1>7, <1>8, <1>9, <1>10, <1>11 DEF Next

\* What a process does with the lock and its chain.
LEMMA Places ==
  ASSUME CountFacts, IInv, NEW p \in Procs
  PROVE  /\ p # None /\ p # "intr" /\ "intr" # None /\ None \notin D
         /\ pc[p] \in Holding <=> lock = p
         /\ p \in Owners <=> pc[p] \in Owning
         /\ idx0[p] # None <=> pc[p] \in Owning
         /\ pc[p] \in Holding => disk[p]
         /\ disk[p] => pc[p] \in Owning
<1>1. p # None /\ p # "intr" /\ "intr" # None
  BY VirtioAssumption
<1>2. None \notin D
  BY SMT, Sizes, VirtioAssumption DEF D
<1> QED
  BY <1>1, <1>2 DEF IInv, LockInv, Place, Owners

\* Nobody is publishing while the lock is free, or held by the handler.
LEMMA NotPublishing ==
  ASSUME CountFacts, IInv, lock \notin Procs
  PROVE  ~Publishing /\ \A q \in Procs : pc[q] \notin Holding
  BY DEF IInv, LockInv, Place, Publishing, Holding

\* While a process publishes, nobody else holds the lock.
LEMMA PublishAlone ==
  ASSUME CountFacts, IInv, NEW p \in Procs, pc[p] \in Holding
  PROVE  lock = p /\ \A q \in Procs : q # p => pc[q] \notin Holding
  BY DEF IInv, LockInv, Place

\* A process that stops waiting for the device is not in a queue.
LEMMA LiveWaits ==
  ASSUME CountFacts, IInv, NEW a, Live(a)
  PROVE  /\ a \in D /\ info[a].b \in Owners /\ disk[info[a].b] /\ a = idx0[info[a].b]
         /\ a \notin free
         /\ \A p \in Owners : a = idx0[p] => info[a].b = p
<1>1. a \in D /\ info[a].b \in Procs /\ idx0[info[a].b] = a /\ disk[info[a].b]
  BY DEF Live
<1>2. info[a].b \in Owners
  BY <1>1, Places DEF Owners
<1>3. Chain(idx0[info[a].b]) \cap free = {}
  BY <1>2 DEF IInv, ChainInv
<1>4. a \in Chain(idx0[info[a].b])
  BY <1>1 DEF Chain
<1>5. \A p \in Owners : info[idx0[p]].b = p
  BY DEF IInv, ChainInv, ChainOK
<1> QED
  BY <1>1, <1>2, <1>3, <1>4, <1>5

\* A step that does not touch a live request leaves it live.
LEMMA LiveKept ==
  ASSUME NEW a, Live(a), info'[a].b = info[a].b,
         idx0'[info[a].b] = idx0[info[a].b], disk'[info[a].b]
  PROVE  Live(a)'
  BY DEF Live

----------------------------------------------------------------------------
(* The lock, the chains and the counts.                                     *)

\* rw, alloc3_desc_fail, wait, kill, intr, intr_end, stuttering: the rings, the
\* chains and the buffers stay as they are.
Quiet(p) == rw(p) \/ alloc3_desc_fail(p) \/ wait(p) \/ kill(p)
Still    == (\E p \in Procs : Quiet(p)) \/ intr \/ intr_end \/ UNCHANGED vars

\* Such a step, in what it leaves alone.
LEMMA StillFacts ==
  ASSUME CountFacts, IInv, Still
  PROVE  /\ UNCHANGED <<free, desc, info, avail, availIdx, used, usedIdx, used_idx, idx0, disk, taken, working>>
         /\ \A q \in Procs :
              /\ pc'[q] \in Owning <=> pc[q] \in Owning
              /\ pc'[q] = "publish" <=> pc[q] = "publish"
              /\ done'[q] = done[q] \/ pc[q] = "idle"
         /\ Owners' = Owners /\ Publishing' = Publishing
<1>0. /\ pc \in [Procs -> {"idle", "alloc", "nodesc", "publish", "test", "wait", "woken"}]
      /\ done \in [Procs -> BOOLEAN]
  BY TypeParts DEF IInv, DataType
<1>1. UNCHANGED <<free, desc, info, avail, availIdx, used, usedIdx, used_idx, idx0, disk, taken, working>>
  BY DEF Still, Quiet, rw, alloc3_desc_fail, wait, kill, intr, intr_end, vars, driver, device
<1>2. ASSUME NEW p \in Procs, Quiet(p), NEW q \in Procs
      PROVE  /\ pc'[q] \in Owning <=> pc[q] \in Owning
             /\ pc'[q] = "publish" <=> pc[q] = "publish"
             /\ done'[q] = done[q] \/ pc[q] = "idle"
  <2>1. CASE rw(p)
    BY <1>0, <2>1 DEF rw, Owning, Holding
  <2>2. CASE alloc3_desc_fail(p)
    BY <1>0, <2>2 DEF alloc3_desc_fail, WakeAlloc, Owning, Holding, device
  <2>3. CASE wait(p)
    BY <1>0, <2>3 DEF wait, Owning, Holding, device
  <2>4. CASE kill(p)
    BY <1>0, <2>4 DEF kill, Owning, Holding, device
  <2> QED
    BY <1>2, <2>1, <2>2, <2>3, <2>4 DEF Quiet
<1>3. ASSUME intr \/ intr_end \/ UNCHANGED vars PROVE UNCHANGED <<pc, done>>
  BY <1>3 DEF intr, intr_end, vars, driver, device
<1>4. \A q \in Procs :
        /\ pc'[q] \in Owning <=> pc[q] \in Owning
        /\ pc'[q] = "publish" <=> pc[q] = "publish"
        /\ done'[q] = done[q] \/ pc[q] = "idle"
  BY <1>2, <1>3 DEF Still
<1> QED
  BY <1>1, <1>4 DEF Owners, Publishing

\* The lock and the places of the processes.
LEMMA LockStep == ASSUME CountFacts, IInv, [Next]_vars PROVE LockInv'
<1>0. /\ pc \in [Procs -> {"idle", "alloc", "nodesc", "publish", "test", "wait", "woken"}]
      /\ idx0 \in [Procs -> D \cup {None}] /\ disk \in [Procs -> BOOLEAN]
      /\ avail \in [D -> D \cup {None}] /\ Announced
  BY TypeParts DEF IInv, DataType, LockInv
<1>a. \A q \in Procs :
        /\ q # None /\ q # "intr" /\ "intr" # None /\ None \notin D
        /\ Place(q)
  BY Places DEF IInv, LockInv
<1>1. ASSUME NEW p \in Procs, rw(p) PROVE LockInv'
  <2>1. Announced'
    BY <1>0, <1>1, <1>a DEF Announced, rw, Place, Holding, device
  <2>2. ASSUME NEW q \in Procs PROVE Place(q)'
    <3>1. CASE q = p
      BY <1>0, <1>1, <1>a, <3>1 DEF Place, rw, Holding, Owning
    <3>2. CASE q # p
      BY <1>0, <1>1, <1>a, <3>2 DEF Place, rw, Holding, Owning
    <3> QED
      BY <3>1, <3>2
  <2> QED
    BY <2>1, <2>2 DEF LockInv
<1>2. ASSUME NEW p \in Procs, alloc3_desc_fail(p) PROVE LockInv'
  <2>1. Announced'
    BY <1>0, <1>2, <1>a DEF Announced, alloc3_desc_fail, Place, Holding, device
  <2>2. ASSUME NEW q \in Procs PROVE Place(q)'
    <3>1. CASE q = p
      BY <1>0, <1>2, <1>a, <3>1 DEF Place, alloc3_desc_fail, WakeAlloc, Holding, Owning
    <3>2. CASE q # p
      BY <1>0, <1>2, <1>a, <3>2 DEF Place, alloc3_desc_fail, WakeAlloc, Holding, Owning
    <3> QED
      BY <3>1, <3>2
  <2> QED
    BY <2>1, <2>2 DEF LockInv
<1>3. ASSUME NEW p \in Procs, alloc3_desc(p) PROVE LockInv'
  <2>1. Nth(0) \in D
    BY <1>3, ThreeFree, Types, TypeParts DEF alloc3_desc, IInv, DataType
  <2>2. availIdx % NUM \in D
    <3>1. availIdx \in Nat
      BY SMT, Types, Sizes DEF IInv
    <3> QED
      BY <3>1, SlotType
  <2>3. avail'[availIdx % NUM] = Nth(0) /\ idx0'[p] = Nth(0) /\ UNCHANGED <<availIdx, used_idx, usedIdx, irq>>
    BY <1>0, <1>3, <2>1, <2>2 DEF alloc3_desc, device
  <2>4. /\ lock = None /\ lock' = p /\ pc[p] = "alloc" /\ pc' = [pc EXCEPT ![p] = "publish"]
        /\ idx0' = [idx0 EXCEPT ![p] = Nth(0)] /\ disk' = [disk EXCEPT ![p] = TRUE]
    BY <1>3 DEF alloc3_desc
  <2>5. Announced'
    BY <1>0, <1>a, <2>3, <2>4 DEF Announced
  <2>6. ASSUME NEW q \in Procs PROVE Place(q)'
    <3>1. CASE q = p
      BY <1>0, <1>a, <2>1, <2>3, <2>4, <3>1 DEF Place, Holding, Owning
    <3>2. CASE q # p
      <4>1. pc'[q] = pc[q] /\ idx0'[q] = idx0[q] /\ disk'[q] = disk[q] /\ pc[q] \notin Holding
        BY <1>0, <1>a, <2>4, <3>2 DEF Place
      <4> QED
        BY <1>a, <2>4, <3>2, <4>1 DEF Place, Holding
    <3> QED
      BY <3>1, <3>2
  <2> QED
    BY <2>5, <2>6 DEF LockInv
<1>4. ASSUME NEW p \in Procs, publish(p) PROVE LockInv'
  <2>1. Announced'
    BY <1>0, <1>4, <1>a DEF Announced, publish, Place, Holding, device
  <2>2. ASSUME NEW q \in Procs PROVE Place(q)'
    <3>1. CASE q = p
      BY <1>0, <1>4, <1>a, <3>1 DEF Place, publish, Holding, Owning
    <3>2. CASE q # p
      BY <1>0, <1>4, <1>a, <3>2 DEF Place, publish, Holding, Owning
    <3> QED
      BY <3>1, <3>2
  <2> QED
    BY <2>1, <2>2 DEF LockInv
<1>5. ASSUME NEW p \in Procs, wait(p) PROVE LockInv'
  <2>1. Announced'
    BY <1>0, <1>5, <1>a DEF Announced, wait, Place, Holding, device
  <2>2. ASSUME NEW q \in Procs PROVE Place(q)'
    <3>1. CASE q = p
      BY <1>0, <1>5, <1>a, <3>1 DEF Place, wait, Holding, Owning
    <3>2. CASE q # p
      BY <1>0, <1>5, <1>a, <3>2 DEF Place, wait, Holding, Owning
    <3> QED
      BY <3>1, <3>2
  <2> QED
    BY <2>1, <2>2 DEF LockInv
<1>6. ASSUME NEW p \in Procs, kill(p) PROVE LockInv'
  <2>1. Announced'
    BY <1>0, <1>6, <1>a DEF Announced, kill, Place, Holding, device
  <2>2. ASSUME NEW q \in Procs PROVE Place(q)'
    <3>1. CASE q = p
      BY <1>0, <1>6, <1>a, <3>1 DEF Place, kill, Holding, Owning
    <3>2. CASE q # p
      BY <1>0, <1>6, <1>a, <3>2 DEF Place, kill, Holding, Owning
    <3> QED
      BY <3>1, <3>2
  <2> QED
    BY <2>1, <2>2 DEF LockInv
<1>7. ASSUME NEW p \in Procs, finish(p) PROVE LockInv'
  <2>1. Announced'
    BY <1>0, <1>7, <1>a DEF Announced, finish, Place, Holding, device
  <2>2. ASSUME NEW q \in Procs PROVE Place(q)'
    <3>1. CASE q = p
      BY <1>0, <1>7, <1>a, <3>1 DEF Place, finish, WakeAlloc, Holding, Owning
    <3>2. CASE q # p
      BY <1>0, <1>7, <1>a, <3>2 DEF Place, finish, WakeAlloc, Holding, Owning
    <3> QED
      BY <3>1, <3>2
  <2> QED
    BY <2>1, <2>2 DEF LockInv
<1>8. ASSUME device_take PROVE LockInv'
  <2>1. ASSUME NEW q \in Procs, pc[q] = "publish" PROVE avail'[availIdx % NUM] = avail[availIdx % NUM]
    <3>1. taken # availIdx /\ avail' = [avail EXCEPT ![taken % NUM] = None]
      BY <1>8 DEF device_take
    <3>2. Dist(taken, availIdx) \in 1 .. NUM - 1 /\ At(taken, Dist(taken, availIdx)) = availIdx
      <4>1. /\ Dist(taken, availIdx) \in 0 .. IdxMod - 1
            /\ Dist(taken, availIdx) # 0 /\ At(taken, Dist(taken, availIdx)) = availIdx
        BY <3>1, Types, DistFacts DEF IInv
      <4>2. Dist(taken, availIdx) <= Queued
        BY SMT, <4>1, Sizes DEF Queued
      <4>3. Cardinality(Owners) \in Nat
        BY Types DEF IInv
      <4> QED
        BY SMT, <4>1, <4>2, <4>3, Sizes, RoomInRings
    <3>3. availIdx % NUM # taken % NUM
      BY <3>2, TakeSlot, Types DEF IInv
    <3>4. availIdx \in Nat
      BY SMT, Types, Sizes DEF IInv
    <3>5. availIdx % NUM \in D
      BY <3>4, SlotType
    <3> QED
      BY <1>0, <3>1, <3>3, <3>5
  <2>2. UNCHANGED <<pc, lock, idx0, disk, irq, used_idx, usedIdx, availIdx>>
    BY <1>8 DEF device_take
  <2> QED
    BY <1>0, <1>a, <2>1, <2>2 DEF LockInv, Place, Announced
<1>9. ASSUME NEW a \in D, device_done(a) PROVE LockInv'
  <2>1. UNCHANGED <<pc, lock, idx0, disk, avail, availIdx>> /\ irq'
    BY <1>9 DEF device_done
  <2> QED
    BY <1>a, <2>1 DEF LockInv, Place, Announced
<1>10. ASSUME intr PROVE LockInv'
  <2>1. UNCHANGED <<pc, idx0, disk, avail, availIdx, used_idx, usedIdx>>
    BY <1>10 DEF intr, device
  <2>2. Announced' /\ \A q \in Procs : lock' = q <=> lock = q
    BY <1>0, <1>10, <1>a DEF intr, Announced, device
  <2> QED
    BY <1>a, <2>1, <2>2 DEF LockInv, Place
<1>11. ASSUME intr_end PROVE LockInv'
  <2>1. UNCHANGED <<pc, idx0, disk, avail, availIdx, used_idx, usedIdx>>
    BY <1>11 DEF intr_end, device
  <2>2. Announced' /\ \A q \in Procs : lock' = q <=> lock = q
    BY <1>0, <1>11, <1>a DEF intr_end, Announced, device
  <2> QED
    BY <1>a, <2>1, <2>2 DEF LockInv, Place
<1>12. ASSUME intr_entry PROVE LockInv'
  <2> DEFINE b == info[Entry].b
  <2>1. b \in Procs /\ lock = "intr"
    BY <1>12, FrontEntry DEF intr_entry, Live
  <2>2. /\ disk' = [disk EXCEPT ![b] = FALSE]
        /\ pc' = [pc EXCEPT ![b] = IF @ = "wait" THEN "woken" ELSE @]
        /\ UNCHANGED <<lock, idx0, avail, availIdx>>
    BY <1>12 DEF intr_entry
  <2> HIDE DEF b
  <2>3. ASSUME NEW q \in Procs PROVE Place(q)'
    <3>1. pc[q] \notin Holding
      BY <1>a, <2>1 DEF Place
    <3>2. CASE q = b
      BY <1>0, <1>a, <2>1, <2>2, <3>1, <3>2 DEF Place, Holding, Owning
    <3>3. CASE q # b
      BY <1>0, <1>a, <2>1, <2>2, <3>1, <3>3 DEF Place
    <3> QED
      BY <3>2, <3>3
  <2> QED
    BY <2>1, <2>2, <2>3 DEF LockInv, Announced
<1>13. CASE UNCHANGED vars
  <2>1. UNCHANGED <<pc, lock, idx0, disk, avail, availIdx, used_idx, usedIdx, irq>>
    BY <1>13 DEF vars, driver, device
  <2> QED
    BY <1>0, <1>a, <2>1 DEF LockInv, Place, Announced
<1> QED
  BY <1>1, <1>2, <1>3, <1>4, <1>5, <1>6, <1>7, <1>8, <1>9, <1>10, <1>11, <1>12, <1>13 DEF Next

\* What alloc3_desc and the set-up of a request do with three descriptors.
Allocated(p, a, b, c) ==
  /\ a # b /\ a # c /\ b # c /\ a \in D /\ b \in D /\ c \in D
  /\ free' = free \ {a, b, c}
  /\ desc'[a].next = b /\ desc'[b] = [next |-> c, buf |-> p]
  /\ \A d \in D \ {a, b, c} : desc'[d] = desc[d]
  /\ info' = [info EXCEPT ![a] = [b |-> p, status |-> 255]]
  /\ info'[a].b = p
  /\ idx0' = [idx0 EXCEPT ![p] = a]
  /\ avail' = [avail EXCEPT ![availIdx % NUM] = a]
  /\ p \notin Owners /\ Owners' = Owners \cup {p}

\* It finds three, and its process owned none.
LEMMA AllocFacts ==
  ASSUME CountFacts, IInv, NEW p \in Procs, alloc3_desc(p)
  PROVE  \E a, b, c \in free : Allocated(p, a, b, c)
<1> DEFINE a == Nth(0)
           b == Nth(1)
           c == Nth(2)
<1>0. /\ desc \in [D -> [next : D \cup {None}, buf : Procs \cup {None}]]
      /\ info \in [D -> [b : Procs \cup {None}, status : {0, 255}]]
      /\ idx0 \in [Procs -> D \cup {None}] /\ free \subseteq D /\ TypeOK
  BY TypeParts DEF IInv, DataType
<1>1. /\ a \in free /\ b \in free /\ c \in free /\ a # b /\ a # c /\ b # c
  BY <1>0, ThreeFree, Types DEF alloc3_desc
<1>2. a \in D /\ b \in D /\ c \in D
  BY <1>0, <1>1
<1>3. /\ free' = free \ {a, b, c}
      /\ desc' = [desc EXCEPT ![a] = [next |-> b, buf |-> None],
                              ![b] = [next |-> c, buf |-> p], ![c] = Clear]
      /\ info' = [info EXCEPT ![a] = [b |-> p, status |-> 255]]
      /\ idx0' = [idx0 EXCEPT ![p] = a]
      /\ avail' = [avail EXCEPT ![availIdx % NUM] = a]
      /\ pc[p] = "alloc"
  BY DEF alloc3_desc
<1> HIDE DEF a, b, c
<1>4. desc'[a] = [next |-> b, buf |-> None] /\ desc'[b] = [next |-> c, buf |-> p]
  BY SMT, <1>0, <1>1, <1>2, <1>3
<1>5. desc'[a].next = b
  BY SMT, <1>4
<1>6. \A d \in D \ {a, b, c} : desc'[d] = desc[d]
  BY <1>0, <1>3
<1>7. info'[a] = [b |-> p, status |-> 255]
  BY <1>0, <1>2, <1>3
<1>8. info'[a].b = p
  BY SMT, <1>7
<1>9. p \notin Owners /\ Owners' = Owners \cup {p}
  <2>1. p \notin Owners
    BY <1>3, Places DEF Owning, Holding
  <2>2. idx0'[p] = a /\ a # None /\ \A q \in Procs : q # p => idx0'[q] = idx0[q]
    <3>1. None \notin D
      BY Places
    <3>2. a # None
      BY <1>2, <3>1
    <3>3. idx0'[p] = a /\ \A q \in Procs : q # p => idx0'[q] = idx0[q]
      BY SMT, <1>0, <1>3
    <3> QED
      BY <3>2, <3>3
  <2> QED
    BY <2>1, <2>2 DEF Owners
<1>10. Allocated(p, a, b, c)
  BY <1>1, <1>2, <1>3, <1>4, <1>5, <1>6, <1>8, <1>9 DEF Allocated
<1> QED
  BY <1>1, <1>10

\* What the end of virtio_disk_rw, with free_chain, changes.
LEMMA FinishFacts ==
  ASSUME CountFacts, IInv, NEW p \in Procs, finish(p)
  PROVE  /\ p \in Owners /\ Owners' = Owners \ {p} /\ ~disk[p] /\ ChainOK(p)
         /\ free' = free \cup Chain(idx0[p])
         /\ \A d \in D \ Chain(idx0[p]) : desc'[d] = desc[d]
         /\ \A d \in D : d # idx0[p] => info'[d] = info[d]
         /\ \A q \in Procs : q # p => idx0'[q] = idx0[q]
<1>0. /\ desc \in [D -> [next : D \cup {None}, buf : Procs \cup {None}]]
      /\ info \in [D -> [b : Procs \cup {None}, status : {0, 255}]]
      /\ idx0 \in [Procs -> D \cup {None}]
  BY TypeParts DEF IInv, DataType
<1>1. /\ pc[p] = "woken" /\ ~disk[p]
      /\ free' = free \cup Chain(idx0[p])
      /\ desc' = [d \in D |-> IF d \in Chain(idx0[p]) THEN Clear ELSE desc[d]]
      /\ info' = [info EXCEPT ![idx0[p]].b = None]
      /\ idx0' = [idx0 EXCEPT ![p] = None]
  BY DEF finish
<1>2. p \in Owners /\ ChainOK(p)
  BY <1>1, Places DEF Owning, IInv, ChainInv
<1>3. Owners' = Owners \ {p} /\ \A q \in Procs : q # p => idx0'[q] = idx0[q]
  BY <1>0, <1>1 DEF Owners
<1>4. \A d \in D : d # idx0[p] => info'[d] = info[d]
  BY <1>0, <1>1
<1>5. \A d \in D \ Chain(idx0[p]) : desc'[d] = desc[d]
  BY <1>1
<1> QED
  BY <1>1, <1>2, <1>3, <1>4, <1>5

\* Nothing else changes a chain.
LEMMA ChainKept ==
  ASSUME ChainInv, UNCHANGED <<free, desc, idx0>>,
         \A d \in D : info'[d].b = info[d].b
  PROVE  ChainInv'
<1>1. Owners' = Owners
  BY DEF Owners
<1>2. ASSUME NEW p \in Owners PROVE ChainOK(p)' /\ Chain(idx0[p])' = Chain(idx0[p])
  BY <1>2 DEF ChainInv, ChainOK, Chain
<1> QED
  BY <1>1, <1>2 DEF ChainInv, Chain

\* The kinds of steps.
LEMMA Steps ==
  ASSUME [Next]_vars
  PROVE  \/ Still \/ device_take \/ intr_entry
         \/ \E p \in Procs : alloc3_desc(p) \/ publish(p) \/ finish(p)
         \/ \E a \in D : device_done(a)
  BY DEF Next, Still, Quiet

\* A chain whose descriptors a step leaves alone.
LEMMA ChainSame ==
  ASSUME NEW q \in Procs, ChainOK(q), idx0'[q] = idx0[q],
         \A d \in Chain(idx0[q]) : desc'[d] = desc[d],
         info'[idx0[q]].b = info[idx0[q]].b
  PROVE  ChainOK(q)' /\ Chain(idx0[q])' = Chain(idx0[q])
<1>1. desc'[idx0[q]] = desc[idx0[q]] /\ desc'[desc[idx0[q]].next] = desc[desc[idx0[q]].next]
  BY DEF Chain
<1> QED
  BY <1>1 DEF ChainOK, Chain

\* alloc3_desc makes a chain of free descriptors.
LEMMA ChainAlloc ==
  ASSUME CountFacts, IInv, NEW p \in Procs, alloc3_desc(p)
  PROVE  ChainInv'
<1>0. PICK a \in free, b \in free, c \in free : Allocated(p, a, b, c)
  BY AllocFacts
<1>1. /\ a # b /\ a # c /\ b # c /\ a \in D /\ b \in D /\ c \in D
      /\ free' = free \ {a, b, c}
      /\ desc'[a].next = b /\ desc'[b] = [next |-> c, buf |-> p]
      /\ \A d \in D \ {a, b, c} : desc'[d] = desc[d]
      /\ info' = [info EXCEPT ![a] = [b |-> p, status |-> 255]] /\ info'[a].b = p
      /\ idx0' = [idx0 EXCEPT ![p] = a]
      /\ p \notin Owners /\ Owners' = Owners \cup {p}
  BY <1>0 DEF Allocated
<1>2. /\ idx0 \in [Procs -> D \cup {None}] /\ DOMAIN info = D
      /\ ChainInv
  BY TypeParts, Types DEF IInv, DataType
<1>3. idx0'[p] = a /\ \A q \in Procs : q # p => idx0'[q] = idx0[q]
  BY <1>1, <1>2
<1>4. desc'[b].next = c /\ desc'[b].buf = p
  BY SMT, <1>1
<1>5. ChainOK(p)' /\ Chain(idx0[p])' = {a, b, c}
  BY <1>1, <1>3, <1>4 DEF ChainOK, Chain
<1>6. ASSUME NEW q \in Owners
      PROVE  /\ q \in Procs /\ q # p /\ Chain(idx0[q]) \cap free = {} /\ ChainOK(q)
             /\ ChainOK(q)' /\ Chain(idx0[q])' = Chain(idx0[q])
  <2>1. q \in Procs /\ q # p /\ Chain(idx0[q]) \cap free = {} /\ ChainOK(q)
    BY <1>1, <1>2 DEF Owners, ChainInv
  <2>2. Chain(idx0[q]) \subseteq D /\ idx0[q] \in Chain(idx0[q])
    BY <2>1 DEF ChainOK, Chain
  <2>3. \A d \in Chain(idx0[q]) : d \in D \ {a, b, c}
    BY <1>1, <2>1, <2>2
  <2>4. \A d \in Chain(idx0[q]) : desc'[d] = desc[d]
    BY <1>1, <2>3
  <2>5. info'[idx0[q]] = info[idx0[q]]
    <3>1. idx0[q] \in D /\ idx0[q] # a
      BY <2>2, <2>3
    <3>2. info' = [info EXCEPT ![a] = [b |-> p, status |-> 255]]
      BY <1>1
    <3> QED
      BY <1>2, <3>1, <3>2
  <2>6. idx0'[q] = idx0[q]
    BY <1>3, <2>1
  <2>7. ChainOK(q)' /\ Chain(idx0[q])' = Chain(idx0[q])
    BY <2>1, <2>4, <2>5, <2>6, ChainSame
  <2> QED
    BY <2>1, <2>7
<1>a. free' \subseteq free /\ {a, b, c} \cap free' = {} /\ {a, b, c} \subseteq free
  BY <1>1
<1>7. ASSUME NEW q \in Owners' PROVE ChainOK(q)' /\ Chain(idx0[q])' \cap free' = {}
  <2>1. CASE q = p
    BY <1>5, <1>a, <2>1
  <2>2. CASE q \in Owners
    BY <1>6, <1>a, <2>2
  <2> QED
    BY <1>1, <2>1, <2>2
<1>8. ASSUME NEW q \in Owners', NEW r \in Owners', q # r
      PROVE  Chain(idx0[q])' \cap Chain(idx0[r])' = {}
  <2>1. CASE q = p
    <3>1. r \in Owners
      BY <1>1, <1>8, <2>1
    <3> QED
      BY <1>5, <1>6, <1>a, <2>1, <3>1
  <2>2. CASE r = p
    <3>1. q \in Owners
      BY <1>1, <1>8, <2>2
    <3> QED
      BY <1>5, <1>6, <1>a, <2>2, <3>1
  <2>3. CASE q \in Owners /\ r \in Owners
    BY <1>2, <1>6, <1>8, <2>3 DEF ChainInv
  <2> QED
    BY <1>1, <2>1, <2>2, <2>3
<1> QED
  BY <1>7, <1>8 DEF ChainInv, Chain

\* free_chain gives a chain back, and leaves the others alone.
LEMMA ChainFinish ==
  ASSUME CountFacts, IInv, NEW p \in Procs, finish(p)
  PROVE  ChainInv'
<1>1. /\ p \in Owners /\ Owners' = Owners \ {p} /\ ChainOK(p)
      /\ free' = free \cup Chain(idx0[p])
      /\ \A d \in D \ Chain(idx0[p]) : desc'[d] = desc[d]
      /\ \A d \in D : d # idx0[p] => info'[d] = info[d]
      /\ \A q \in Procs : q # p => idx0'[q] = idx0[q]
  BY FinishFacts
<1>2. ChainInv
  BY DEF IInv
<1>3. ASSUME NEW q \in Owners, q # p
      PROVE  /\ ChainOK(q)' /\ Chain(idx0[q])' = Chain(idx0[q])
             /\ Chain(idx0[q]) \cap Chain(idx0[p]) = {} /\ Chain(idx0[q]) \cap free = {}
  <2>1. /\ q \in Procs /\ ChainOK(q)
        /\ Chain(idx0[q]) \cap Chain(idx0[p]) = {} /\ Chain(idx0[q]) \cap free = {}
    BY <1>1, <1>2, <1>3 DEF Owners, ChainInv
  <2>2. Chain(idx0[q]) \subseteq D /\ idx0[q] \in Chain(idx0[q]) /\ idx0[p] \in Chain(idx0[p])
    BY <2>1 DEF ChainOK, Chain
  <2>3. \A d \in Chain(idx0[q]) : d \in D \ Chain(idx0[p]) /\ d # idx0[p]
    BY <2>1, <2>2
  <2>4. \A d \in Chain(idx0[q]) : desc'[d] = desc[d]
    BY <1>1, <2>3
  <2>5. info'[idx0[q]] = info[idx0[q]] /\ idx0'[q] = idx0[q]
    BY <1>1, <1>3, <2>1, <2>2, <2>3
  <2>6. ChainOK(q)' /\ Chain(idx0[q])' = Chain(idx0[q])
    BY <2>1, <2>4, <2>5, ChainSame
  <2> QED
    BY <2>1, <2>6
<1>4. ASSUME NEW q \in Owners' PROVE ChainOK(q)' /\ Chain(idx0[q])' \cap free' = {}
  BY <1>1, <1>3
<1>5. ASSUME NEW q \in Owners', NEW r \in Owners', q # r
      PROVE  Chain(idx0[q])' \cap Chain(idx0[r])' = {}
  BY <1>1, <1>2, <1>3, <1>5 DEF ChainInv
<1> QED
  BY <1>4, <1>5 DEF ChainInv, Chain

\* No step breaks a chain.
LEMMA ChainStep == ASSUME CountFacts, IInv, [Next]_vars PROVE ChainInv'
<1>1. ChainInv /\ info \in [D -> [b : Procs \cup {None}, status : {0, 255}]]
  BY TypeParts DEF IInv, DataType
<1>2. CASE Still
  BY <1>1, <1>2, StillFacts, ChainKept
<1>3. ASSUME NEW p \in Procs, publish(p) PROVE ChainInv'
  BY <1>1, <1>3, ChainKept DEF publish
<1>4. CASE device_take
  BY <1>1, <1>4, ChainKept DEF device_take
<1>5. CASE intr_entry
  BY <1>1, <1>5, ChainKept DEF intr_entry
<1>6. ASSUME NEW a \in D, device_done(a) PROVE ChainInv'
  <2>1. \A d \in D : info'[d].b = info[d].b
    BY SMT, <1>1, <1>6 DEF device_done
  <2> QED
    BY <1>1, <1>6, <2>1, ChainKept DEF device_done
<1> QED
  BY <1>2, <1>3, <1>4, <1>5, <1>6, ChainAlloc, ChainFinish, Steps

\* alloc3_desc takes three descriptors from the free ones.
LEMMA CountAlloc ==
  ASSUME CountFacts, IInv, NEW p \in Procs, alloc3_desc(p)
  PROVE  CountInv'
<1>0. PICK a \in free, b \in free, c \in free : Allocated(p, a, b, c)
  BY AllocFacts
<1>1. /\ a # b /\ a # c /\ b # c /\ free' = free \ {a, b, c}
      /\ p \notin Owners /\ Owners' = Owners \cup {p}
  BY <1>0 DEF Allocated
<1>2. /\ IsFiniteSet(free) /\ Cardinality(free) \in Nat
      /\ IsFiniteSet(Owners) /\ Cardinality(Owners) \in Nat
      /\ Cardinality(free) + 3 * Cardinality(Owners) = NUM
  BY Types DEF IInv, CountInv
<1>3. Cardinality(free') = Cardinality(free) - 3
  <2>1. Cardinality(free \ {a, b, c}) = Cardinality(free) - 3
    BY <1>1, <1>2, RemoveThree
  <2> QED
    BY <1>1, <2>1
<1>4. Cardinality(Owners') = Cardinality(Owners) + 1
  BY <1>1, <1>2, Add
<1>5. Cardinality(free') + 3 * Cardinality(Owners') = NUM
  BY SMT, <1>2, <1>3, <1>4
<1>6. ASSUME NEW q \in Procs, pc'[q] = "nodesc" PROVE FALSE
  <2>1. /\ Cardinality(free) >= 3 /\ pc' = [pc EXCEPT ![p] = "publish"]
    BY DEF alloc3_desc
  <2>2. /\ pc \in [Procs -> {"idle", "alloc", "nodesc", "publish", "test", "wait", "woken"}]
        /\ pc[q] = "nodesc" => Cardinality(free) < 3
    BY TypeParts DEF IInv, DataType, CountInv
  <2>3. pc[q] = "nodesc"
    BY <1>6, <2>1, <2>2
  <2> QED
    BY SMT, <1>2, <2>1, <2>2, <2>3
<1> QED
  BY <1>5, <1>6 DEF CountInv

\* free_chain gives three back, and wakes everybody who sleeps for them.
LEMMA CountFinish ==
  ASSUME CountFacts, IInv, NEW p \in Procs, finish(p)
  PROVE  CountInv'
<1> DEFINE a == idx0[p]
           b == desc[a].next
           c == desc[b].next
<1>1. /\ p \in Owners /\ Owners' = Owners \ {p} /\ ChainOK(p)
      /\ free' = free \cup Chain(idx0[p])
  BY FinishFacts
<1>2. /\ IsFiniteSet(free) /\ Cardinality(free) \in Nat
      /\ IsFiniteSet(Owners) /\ Cardinality(Owners) \in Nat
      /\ Cardinality(free) + 3 * Cardinality(Owners) = NUM
  BY Types DEF IInv, CountInv
<1>3. a # b /\ a # c /\ b # c /\ Chain(idx0[p]) = {a, b, c}
  BY <1>1 DEF ChainOK, Chain
<1>4. Chain(idx0[p]) \cap free = {}
  BY <1>1 DEF IInv, ChainInv
<1> HIDE DEF a, b, c
<1>5. a \notin free /\ b \notin free /\ c \notin free /\ free' = free \cup {a, b, c}
  BY <1>1, <1>3, <1>4
<1>6. Cardinality(free') = Cardinality(free) + 3
  <2>1. Cardinality(free \cup {a, b, c}) = Cardinality(free) + 3
    BY <1>2, <1>3, <1>5, AddThree
  <2> QED
    BY <1>5, <2>1
<1>7. Cardinality(Owners') = Cardinality(Owners) - 1
  BY <1>1, <1>2, Remove
<1>8. Cardinality(free') + 3 * Cardinality(Owners') = NUM
  BY SMT, <1>2, <1>6, <1>7
<1>9. \A q \in Procs : pc'[q] # "nodesc"
  BY DEF finish, WakeAlloc
<1> QED
  BY <1>8, <1>9 DEF CountInv

\* Descriptors are counted, and nobody sleeps for them in vain.
LEMMA CountStep == ASSUME CountFacts, IInv, [Next]_vars PROVE CountInv'
<1>0. /\ pc \in [Procs -> {"idle", "alloc", "nodesc", "publish", "test", "wait", "woken"}]
      /\ CountInv
  BY TypeParts DEF IInv, DataType
<1>1. ASSUME UNCHANGED <<free, idx0>>,
             \A q \in Procs : pc'[q] = "nodesc" => pc[q] = "nodesc" \/ Cardinality(free) < 3
      PROVE  CountInv'
  <2>1. Owners' = Owners
    BY <1>1 DEF Owners
  <2> QED
    BY <1>0, <1>1, <2>1 DEF CountInv
<1>2. CASE Still
  <2>1. UNCHANGED <<free, idx0>>
    BY <1>2, StillFacts
  <2>2. ASSUME NEW p \in Procs, Quiet(p), NEW q \in Procs, pc'[q] = "nodesc"
        PROVE  pc[q] = "nodesc" \/ Cardinality(free) < 3
    <3>1. CASE q = p
      BY <1>0, <2>2, <3>1 DEF Quiet, rw, alloc3_desc_fail, wait, kill
    <3>2. CASE q # p
      BY <1>0, <2>2, <3>2 DEF Quiet, rw, alloc3_desc_fail, WakeAlloc, wait, kill
    <3> QED
      BY <3>1, <3>2
  <2>3. ASSUME intr \/ intr_end \/ UNCHANGED vars PROVE pc' = pc
    BY <2>3 DEF intr, intr_end, vars, driver
  <2> QED
    BY <1>1, <1>2, <2>1, <2>2, <2>3 DEF Still
<1>3. ASSUME NEW p \in Procs, publish(p) PROVE CountInv'
  <2>1. UNCHANGED <<free, idx0>> /\ pc' = [pc EXCEPT ![p] = "test"]
    BY <1>3 DEF publish
  <2>2. \A q \in Procs : pc'[q] = "nodesc" => pc[q] = "nodesc"
    BY <1>0, <2>1
  <2> QED
    BY <1>1, <2>1, <2>2
<1>4. CASE device_take \/ \E a \in D : device_done(a)
  <2>1. UNCHANGED <<free, idx0, pc>>
    BY <1>4 DEF device_take, device_done
  <2> QED
    BY <1>1, <2>1
<1>5. CASE intr_entry
  <2>1. UNCHANGED <<free, idx0>> /\ pc' = [pc EXCEPT ![info[Entry].b] = IF @ = "wait" THEN "woken" ELSE @]
    BY <1>5 DEF intr_entry
  <2>2. \A q \in Procs : pc'[q] = "nodesc" => pc[q] = "nodesc"
    BY <1>0, <2>1
  <2> QED
    BY <1>1, <2>1, <2>2
<1> QED
  BY <1>2, <1>3, <1>4, <1>5, CountAlloc, CountFinish, Steps

----------------------------------------------------------------------------
(* The requests and their places.                                           *)

\* A buffer stays transferred until its process asks again.
LEMMA DoneStep == ASSUME CountFacts, IInv, [Next]_vars PROVE DoneInv'
<1>0. /\ disk \in [Procs -> BOOLEAN] /\ done \in [Procs -> BOOLEAN] /\ Owners \subseteq Procs
      /\ \A q \in Owners : disk[q] \/ done[q]
  BY TypeParts DEF IInv, DataType, DoneInv, Owners
<1>1. ASSUME \A q \in Owners' : q \in Owners /\ disk'[q] = disk[q] /\ (done[q] => done'[q])
      PROVE  DoneInv'
  BY <1>0, <1>1 DEF DoneInv
<1>2. CASE Still
  <2>1. /\ Owners' = Owners /\ disk' = disk
        /\ \A q \in Procs : done'[q] = done[q] \/ pc[q] = "idle"
    BY <1>2, StillFacts
  <2>2. \A q \in Owners : pc[q] # "idle"
    BY <1>0, Places DEF Owning, Holding
  <2> QED
    BY <1>0, <1>1, <2>1, <2>2
<1>3. ASSUME NEW p \in Procs, alloc3_desc(p) PROVE DoneInv'
  <2>1. Owners' = Owners \cup {p} /\ p \notin Owners
    <3>1. \E a, b, c \in free : Allocated(p, a, b, c)
      BY <1>3, AllocFacts
    <3> QED
      BY <3>1 DEF Allocated
  <2>2. disk' = [disk EXCEPT ![p] = TRUE] /\ done' = done
    BY <1>3 DEF alloc3_desc, device
  <2> QED
    BY <1>0, <2>1, <2>2 DEF DoneInv
<1>4. ASSUME NEW p \in Procs, publish(p) PROVE DoneInv'
  <2>1. UNCHANGED <<idx0, disk, done>>
    BY <1>4 DEF publish, device
  <2> QED
    BY <1>1, <2>1 DEF Owners
<1>5. ASSUME NEW p \in Procs, finish(p) PROVE DoneInv'
  <2>1. Owners' = Owners \ {p} /\ UNCHANGED <<disk, done>>
    BY <1>5, FinishFacts DEF finish, device
  <2> QED
    BY <1>1, <2>1
<1>6. CASE device_take
  <2>1. UNCHANGED <<idx0, disk, done>>
    BY <1>6 DEF device_take
  <2> QED
    BY <1>1, <2>1 DEF Owners
<1>7. ASSUME NEW a \in D, device_done(a) PROVE DoneInv'
  <2>1. /\ UNCHANGED <<idx0, disk>>
        /\ done' = [q \in Procs |-> done[q] \/ q = desc[desc[a].next].buf]
    BY <1>7 DEF device_done
  <2>2. Owners' = Owners /\ \A q \in Procs : done[q] => done'[q]
    BY <2>1 DEF Owners
  <2> QED
    BY <1>0, <1>1, <2>1, <2>2
<1>8. CASE intr_entry
  <2> DEFINE b == info[Entry].b
  <2>1. /\ UNCHANGED <<idx0, done>> /\ disk' = [disk EXCEPT ![b] = FALSE]
        /\ done[b]
    BY <1>8, FrontEntry DEF intr_entry
  <2> HIDE DEF b
  <2>2. Owners' = Owners
    BY <2>1 DEF Owners
  <2>3. ASSUME NEW q \in Owners PROVE disk'[q] \/ done'[q]
    <3>1. CASE q = b
      BY <2>1, <3>1
    <3>2. CASE q # b
      BY <1>0, <2>1, <3>2
    <3> QED
      BY <3>1, <3>2
  <2> QED
    BY <2>2, <2>3 DEF DoneInv
<1> QED
  BY <1>2, <1>3, <1>4, <1>5, <1>6, <1>7, <1>8, Steps

\* A request stays what it is until the handler has looked at it.
Kept(x) ==
  /\ Live(x)' /\ info'[x].b = info[x].b
  /\ info[x].status = 0 => info'[x].status = 0
  /\ done[info[x].b] => done'[info[x].b]

\* Every step keeps a request but the one the handler looks at.
LEMMA LiveStep ==
  ASSUME CountFacts, IInv, [Next]_vars, NEW x, Live(x), intr_entry => x # Entry
  PROVE  Kept(x)
<1> DEFINE b == info[x].b
<1>0. /\ info \in [D -> [b : Procs \cup {None}, status : {0, 255}]]
      /\ idx0 \in [Procs -> D \cup {None}]
      /\ disk \in [Procs -> BOOLEAN] /\ done \in [Procs -> BOOLEAN]
  BY TypeParts DEF IInv, DataType
<1>1. /\ x \in D /\ b \in Procs /\ b \in Owners /\ disk[b] /\ x = idx0[b] /\ x \notin free
      /\ \A p \in Owners : x = idx0[p] => b = p
  BY LiveWaits DEF Owners
<1>2. ASSUME info'[x] = info[x], idx0'[b] = idx0[b], disk'[b], done'[b] = done[b]
      PROVE  Kept(x)
  <2>1. Live(x)'
    BY <1>2, LiveKept
  <2> QED
    BY <1>2, <2>1 DEF Kept
<1> HIDE DEF b
<1>3. CASE Still
  <2>1. /\ UNCHANGED <<info, idx0, disk>>
        /\ \A q \in Procs : done'[q] = done[q] \/ pc[q] = "idle"
    BY <1>3, StillFacts
  <2>2. pc[b] # "idle"
    BY <1>1, Places DEF Owning, Holding
  <2> QED
    BY <1>1, <1>2, <2>1, <2>2
<1>4. ASSUME NEW p \in Procs, alloc3_desc(p) PROVE Kept(x)
  <2>1. PICK a1 \in free, b1 \in free, c1 \in free : Allocated(p, a1, b1, c1)
    BY <1>4, AllocFacts
  <2>2. /\ info' = [info EXCEPT ![a1] = [b |-> p, status |-> 255]]
        /\ idx0' = [idx0 EXCEPT ![p] = a1] /\ p \notin Owners
    BY <2>1 DEF Allocated
  <2>3. disk' = [disk EXCEPT ![p] = TRUE] /\ done' = done
    BY <1>4 DEF alloc3_desc, device
  <2>4. x # a1 /\ b # p
    BY <1>1, <2>2
  <2>5. info'[x] = info[x]
    BY <1>0, <1>1, <2>2, <2>4
  <2>6. idx0'[b] = idx0[b] /\ disk'[b]
    BY <1>0, <1>1, <2>2, <2>3, <2>4
  <2> QED
    BY <1>2, <2>3, <2>5, <2>6
<1>5. ASSUME NEW p \in Procs, publish(p) PROVE Kept(x)
  <2>1. UNCHANGED <<info, idx0, disk, done>>
    BY <1>5 DEF publish, device
  <2> QED
    BY <1>1, <1>2, <2>1
<1>6. ASSUME NEW p \in Procs, finish(p) PROVE Kept(x)
  <2>1. /\ p \in Owners /\ ~disk[p] /\ UNCHANGED <<disk, done>>
        /\ \A d \in D : d # idx0[p] => info'[d] = info[d]
        /\ \A q \in Procs : q # p => idx0'[q] = idx0[q]
    BY <1>6, FinishFacts DEF finish, device
  <2>2. b # p /\ x # idx0[p]
    BY <1>1, <2>1
  <2> QED
    BY <1>1, <1>2, <2>1, <2>2
<1>7. CASE device_take
  <2>1. UNCHANGED <<info, idx0, disk, done>>
    BY <1>7 DEF device_take
  <2> QED
    BY <1>1, <1>2, <2>1
<1>8. ASSUME NEW a \in D, device_done(a) PROVE Kept(x)
  <2>1. /\ UNCHANGED <<idx0, disk>>
        /\ done' = [q \in Procs |-> done[q] \/ q = desc[desc[a].next].buf]
        /\ info' = [info EXCEPT ![a].status = 0]
    BY <1>8 DEF device_done
  <2>2. info'[x].b = info[x].b /\ (info[x].status = 0 => info'[x].status = 0)
    BY SMT, <1>0, <1>1, <2>1
  <2>3. done[b] => done'[b]
    BY <1>1, <2>1
  <2>4. Live(x)'
    BY <1>1, <2>1, <2>2, LiveKept DEF b
  <2> QED
    BY <2>2, <2>3, <2>4 DEF Kept, b
<1>9. CASE intr_entry
  <2>1. /\ UNCHANGED <<info, idx0, done>> /\ disk' = [disk EXCEPT ![info[Entry].b] = FALSE]
        /\ idx0[info[Entry].b] = Entry
    BY <1>9, FrontEntry DEF intr_entry, Live
  <2>2. b # info[Entry].b
    BY <1>1, <1>9, <2>1
  <2>3. disk'[b]
    BY <1>0, <1>1, <2>1, <2>2
  <2> QED
    BY <1>2, <2>1, <2>3
<1> QED
  BY <1>3, <1>4, <1>5, <1>6, <1>7, <1>8, <1>9, Steps

\* device_take is no step of the handler.
LEMMA TakeAlone ==
  ASSUME CountFacts, IInv, device_take
  PROVE  ~intr_entry
<1>1. taken' # taken
  <2>1. taken \in 0 .. IdxMod - 1 /\ taken' = (taken + 1) % IdxMod
    BY Types DEF device_take, IInv
  <2>2. taken' = IF taken + 1 = IdxMod THEN 0 ELSE taken + 1
    BY <2>1, Advance
  <2> QED
    BY SMT, <2>1, <2>2, Sizes
<1> QED
  BY <1>1 DEF intr_entry

\* The requests that the device works on.
LEMMA WorkStep == ASSUME CountFacts, IInv, [Next]_vars PROVE WorkInv'
<1> SUFFICES ASSUME NEW x \in working' PROVE Live(x)'
  BY DEF WorkInv
<1>0. \A y \in working : Live(y)
  BY DEF IInv, WorkInv
<1>1. Live(x) /\ (intr_entry => x # Entry)
  <2>1. CASE device_take
    <3>1. /\ working' = working \cup {avail[taken % NUM]} /\ Live(avail[taken % NUM])
          /\ used_idx' = used_idx
      BY <2>1, FrontEntry DEF device_take
    <3>2. ~intr_entry
      BY <2>1, TakeAlone
    <3> QED
      BY <1>0, <3>1, <3>2
  <2>2. CASE intr_entry
    <3>1. working' = working /\ Entry \notin working
      BY <2>2, FrontEntry DEF intr_entry
    <3> QED
      BY <1>0, <3>1
  <2>3. CASE ~device_take /\ ~intr_entry
    <3>1. working' \subseteq working
      <4>1. CASE Still
        BY <4>1, StillFacts
      <4>2. CASE ~Still
        BY <2>3, <4>2, Steps DEF alloc3_desc, publish, finish, device_done, device
      <4> QED
        BY <4>1, <4>2
    <3> QED
      BY <1>0, <2>3, <3>1
  <2> QED
    BY <2>1, <2>2, <2>3
<1> QED
  BY <1>1, LiveStep DEF Kept

\* How a step moves the queue of the available ring: not at all, by an entry
\* at its end, by the entry at its front.
QSame   == Queued' = Queued /\ \A k \in 0 .. Queued - 1 : QEntry(k)' = QEntry(k)
QPut(a) == /\ Queued' = Queued + 1
           /\ \A k \in 0 .. Queued : QEntry(k)' = IF k = Queued THEN a ELSE QEntry(k)
QTake   == /\ Queued >= 1 /\ Queued' = Queued - 1
           /\ \A k \in 0 .. Queued - 2 : QEntry(k)' = QEntry(k + 1)

\* The same for the used ring.
USame   == Finished' = Finished /\ \A k \in 0 .. Finished - 1 : UEntry(k)' = UEntry(k)
UPut(a) == /\ Finished' = Finished + 1
           /\ \A k \in 0 .. Finished : UEntry(k)' = IF k = Finished THEN a ELSE UEntry(k)
UTake   == /\ Finished >= 1 /\ Finished' = Finished - 1
           /\ \A k \in 0 .. Finished - 2 : UEntry(k)' = UEntry(k + 1)

\* Lengths of the queues.
LEMMA Lengths ==
  ASSUME CountFacts, IInv
  PROVE  /\ Queued \in Nat /\ Finished \in Nat
         /\ Queued + 1 < NUM /\ Finished + 1 < NUM
         /\ Dist(taken, availIdx) \in Nat /\ Dist(taken, availIdx) <= Queued
         /\ Publishing => Queued = Dist(taken, availIdx) + 1
         /\ ~Publishing => Queued = Dist(taken, availIdx)
         /\ Finished = Dist(used_idx, usedIdx)
<1>1. Cardinality(Owners) \in Nat
  BY Types DEF IInv
<1>2. Queued + 1 < NUM /\ Finished + 1 < NUM
  BY SMT, <1>1, Sizes, RoomInRings
<1>3. Dist(taken, availIdx) \in 0 .. IdxMod - 1
  BY Types, DistFacts DEF IInv
<1>4. /\ Dist(taken, availIdx) \in Nat /\ Dist(taken, availIdx) <= Queued
      /\ Publishing => Queued = Dist(taken, availIdx) + 1
      /\ ~Publishing => Queued = Dist(taken, availIdx)
  BY SMT, <1>3, Sizes DEF Queued
<1> QED
  BY <1>2, <1>4, RoomInRings DEF Finished

\* An index near the front of a queue has a slot.
LEMMA SlotOf ==
  ASSUME NEW i \in 0 .. IdxMod - 1, NEW k \in 0 .. NUM - 1
  PROVE  At(i, k) % NUM \in D
<1>1. k \in 0 .. IdxMod - 1
  BY SMT, Sizes
<1>2. At(i, k) \in 0 .. IdxMod - 1
  BY <1>1, DistFacts
<1>3. At(i, k) \in Nat
  BY SMT, <1>2, Sizes
<1> QED
  BY <1>3, SlotType

\* The slot behind the last entry is none of the queue.
LEMMA RingPut ==
  ASSUME NEW i \in 0 .. IdxMod - 1, NEW j \in 0 .. IdxMod - 1, Dist(i, j) < NUM,
         NEW k \in 0 .. Dist(i, j)
  PROVE  /\ At(i, k) % NUM \in D
         /\ k = Dist(i, j) => At(i, k) = j
         /\ k # Dist(i, j) => At(i, k) % NUM # j % NUM
<1>0. Dist(i, j) \in 0 .. IdxMod - 1 /\ At(i, Dist(i, j)) = j
  BY DistFacts
<1>1. k \in 0 .. NUM - 1
  BY SMT, <1>0, Sizes
<1>2. At(i, k) % NUM \in D
  BY <1>1, SlotOf
<1>3. ASSUME k # Dist(i, j) PROVE At(i, k) % NUM # j % NUM
  <2>1. k \in 0 .. Dist(i, j) - 1
    BY SMT, <1>0, <1>3
  <2> QED
    BY <2>1, PutSlot
<1> QED
  BY <1>0, <1>2, <1>3

\* The entries behind the first have slots of their own, and move up.
LEMMA RingTake ==
  ASSUME NEW i \in 0 .. IdxMod - 1, NEW k \in 0 .. NUM - 2
  PROVE  /\ At((i + 1) % IdxMod, k) = At(i, k + 1)
         /\ At(i, k + 1) % NUM \in D /\ At(i, k + 1) % NUM # i % NUM
<1>1. k + 1 \in 1 .. NUM - 1 /\ k + 1 \in 0 .. NUM - 1 /\ k \in 0 .. IdxMod - 2
  BY SMT, Sizes
<1>2. At((i + 1) % IdxMod, k) = At(i, k + 1)
  BY <1>1, PutTake
<1> QED
  BY <1>1, <1>2, SlotOf, TakeSlot

\* Steps that neither write nor read an entry of the available ring.
LEMMA QueueSame ==
  ASSUME CountFacts, IInv,
         Still \/ intr_entry \/ (\E p \in Procs : publish(p) \/ finish(p)) \/ \E a \in D : device_done(a)
  PROVE  QSame
<1>0. pc \in [Procs -> {"idle", "alloc", "nodesc", "publish", "test", "wait", "woken"}]
  BY TypeParts DEF IInv, DataType
<1>1. ASSUME UNCHANGED <<avail, availIdx, taken>>, Publishing' = Publishing PROVE QSame
  BY <1>1 DEF QSame, Queued, QEntry
<1>2. CASE Still
  BY <1>1, <1>2, StillFacts
<1>3. CASE intr_entry
  <2>1. /\ UNCHANGED <<avail, availIdx, taken>>
        /\ pc' = [pc EXCEPT ![info[Entry].b] = IF @ = "wait" THEN "woken" ELSE @]
    BY <1>3 DEF intr_entry
  <2>2. \A q \in Procs : pc'[q] = "publish" <=> pc[q] = "publish"
    BY <1>0, <2>1
  <2> QED
    BY <1>1, <2>1, <2>2 DEF Publishing
<1>4. ASSUME NEW p \in Procs, publish(p) PROVE QSame
  <2>1. /\ pc[p] = "publish" /\ pc' = [pc EXCEPT ![p] = "test"]
        /\ availIdx' = (availIdx + 1) % IdxMod /\ UNCHANGED <<avail, taken>>
    BY <1>4 DEF publish, device
  <2>2. Publishing /\ ~Publishing'
    <3>1. \A q \in Procs : q # p => pc[q] # "publish"
      BY <2>1, PublishAlone DEF Holding
    <3> QED
      BY <1>0, <2>1, <3>1 DEF Publishing
  <2>3. Queued = Dist(taken, availIdx) + 1
    BY <2>2, Lengths
  <2>4. Dist(taken, availIdx) + 1 < IdxMod
    BY SMT, <2>3, Lengths, Sizes
  <2>5. Dist(taken, availIdx') = Dist(taken, availIdx) + 1
    BY <2>1, <2>4, PutTake, Types DEF IInv
  <2>6. Queued' = Dist(taken, availIdx')
    <3>1. Queued' = Dist(taken, availIdx') + 0
      BY <2>1, <2>2 DEF Queued
    <3> QED
      BY SMT, <2>3, <2>5, <3>1, Lengths
  <2>7. Queued' = Queued
    BY <2>3, <2>5, <2>6
  <2> QED
    BY <2>1, <2>7 DEF QSame, QEntry
<1>5. ASSUME NEW p \in Procs, finish(p) PROVE QSame
  <2>1. UNCHANGED <<avail, availIdx, taken>>
    BY <1>5 DEF finish, device
  <2>2. \A q \in Procs : pc'[q] = "publish" <=> pc[q] = "publish"
    BY <1>0, <1>5 DEF finish, WakeAlloc
  <2> QED
    BY <1>1, <2>1, <2>2 DEF Publishing
<1>6. ASSUME NEW a \in D, device_done(a) PROVE QSame
  <2>1. UNCHANGED <<avail, availIdx, taken, pc>>
    BY <1>6 DEF device_done
  <2> QED
    BY <1>1, <2>1 DEF Publishing
<1> QED
  BY <1>2, <1>3, <1>4, <1>5, <1>6

\* The set-up of a request puts it at the end of the available ring.
LEMMA QueuePut ==
  ASSUME CountFacts, IInv, NEW p \in Procs, NEW a, NEW b, NEW c, alloc3_desc(p), Allocated(p, a, b, c)
  PROVE  QPut(a)
<1>0. /\ pc \in [Procs -> {"idle", "alloc", "nodesc", "publish", "test", "wait", "woken"}]
      /\ avail \in [D -> D \cup {None}] /\ TypeOK
  BY TypeParts DEF IInv, DataType
<1>a. taken \in 0 .. IdxMod - 1 /\ availIdx \in 0 .. IdxMod - 1
  BY <1>0, Types
<1>1. /\ lock = None /\ pc' = [pc EXCEPT ![p] = "publish"] /\ UNCHANGED <<taken, availIdx>>
      /\ avail' = [avail EXCEPT ![availIdx % NUM] = a]
  BY DEF alloc3_desc, device, Allocated
<1>2. ~Publishing /\ Publishing'
  <2>1. None \notin Procs
    BY VirtioAssumption
  <2> QED
    BY <1>0, <1>1, <2>1, NotPublishing DEF Publishing
<1>3. Queued = Dist(taken, availIdx) /\ Dist(taken, availIdx) < NUM
  BY SMT, <1>2, Lengths, Sizes
<1>4. Queued' = Queued + 1
  BY <1>1, <1>2, <1>3 DEF Queued
<1>b. avail'[availIdx % NUM] = a /\ \A d \in D : d # availIdx % NUM => avail'[d] = avail[d]
  <2>1. availIdx \in Nat
    BY SMT, <1>a, Sizes
  <2>2. availIdx % NUM \in D
    BY <2>1, SlotType
  <2> QED
    BY <1>0, <1>1, <2>2
<1>5. ASSUME NEW k \in 0 .. Queued PROVE QEntry(k)' = IF k = Queued THEN a ELSE QEntry(k)
  <2>0. k \in 0 .. Dist(taken, availIdx) /\ Dist(taken, availIdx) < NUM
    BY <1>3
  <2>1. /\ At(taken, k) % NUM \in D
        /\ k = Dist(taken, availIdx) => At(taken, k) = availIdx
        /\ k # Dist(taken, availIdx) => At(taken, k) % NUM # availIdx % NUM
    BY <1>a, <2>0, RingPut
  <2> QED
    BY <1>1, <1>3, <1>b, <2>1 DEF QEntry
<1> QED
  BY <1>4, <1>5 DEF QPut

\* The device takes the first entry.
LEMMA QueueTake ==
  ASSUME CountFacts, IInv, device_take
  PROVE  QTake
<1>0. avail \in [D -> D \cup {None}] /\ TypeOK
  BY TypeParts DEF IInv, DataType
<1>a. taken \in 0 .. IdxMod - 1 /\ availIdx \in 0 .. IdxMod - 1
  BY <1>0, Types
<1>1. /\ taken # availIdx /\ taken' = (taken + 1) % IdxMod /\ UNCHANGED <<availIdx, pc>>
      /\ avail' = [avail EXCEPT ![taken % NUM] = None]
  BY DEF device_take
<1>2. Dist(taken', availIdx) = Dist(taken, availIdx) - 1
  BY <1>0, <1>1, PutTake, Types
<1>3. Publishing' = Publishing
  BY <1>1 DEF Publishing
<1>4. Queued >= 1
  BY <1>1, FrontEntry
<1>5. Queued' = Queued - 1
  <2>1. CASE Publishing
    <3>1. Queued' = (Dist(taken, availIdx) - 1) + 1
      BY <1>1, <1>2, <1>3, <2>1 DEF Queued
    <3> QED
      BY SMT, <2>1, <3>1, Lengths
  <2>2. CASE ~Publishing
    <3>1. Queued' = (Dist(taken, availIdx) - 1) + 0
      BY <1>1, <1>2, <1>3, <2>2 DEF Queued
    <3> QED
      BY SMT, <2>2, <3>1, Lengths
  <2> QED
    BY <2>1, <2>2
<1>b. \A d \in D : d # taken % NUM => avail'[d] = avail[d]
  BY <1>0, <1>1
<1>6. ASSUME NEW k \in 0 .. Queued - 2 PROVE QEntry(k)' = QEntry(k + 1)
  <2>1. k \in 0 .. NUM - 2
    BY SMT, <1>4, Lengths, Sizes
  <2>2. /\ At((taken + 1) % IdxMod, k) = At(taken, k + 1)
        /\ At(taken, k + 1) % NUM \in D /\ At(taken, k + 1) % NUM # taken % NUM
    BY <1>a, <2>1, RingTake
  <2>3. avail'[At(taken, k + 1) % NUM] = avail[At(taken, k + 1) % NUM]
    BY <1>b, <2>2
  <2> QED
    BY <1>1, <2>2, <2>3 DEF QEntry
<1> QED
  BY <1>4, <1>5, <1>6 DEF QTake

\* Steps that neither write nor read an entry of the used ring.
LEMMA UsedSame ==
  ASSUME CountFacts, IInv,
         Still \/ device_take \/ \E p \in Procs : alloc3_desc(p) \/ publish(p) \/ finish(p)
  PROVE  USame
<1>1. UNCHANGED <<used, usedIdx, used_idx>>
  <2>1. CASE Still
    BY <2>1, StillFacts
  <2>2. CASE ~Still
    BY <2>2 DEF device_take, alloc3_desc, publish, finish, device
  <2> QED
    BY <2>1, <2>2
<1> QED
  BY <1>1 DEF USame, Finished, UEntry

\* A chain that the device has finished is the last entry.
LEMMA UsedPut ==
  ASSUME CountFacts, IInv, NEW a \in D, device_done(a)
  PROVE  UPut(a)
<1>0. used \in [D -> D \cup {None}] /\ TypeOK
  BY TypeParts DEF IInv, DataType
<1>a. used_idx \in 0 .. IdxMod - 1 /\ usedIdx \in 0 .. IdxMod - 1
  BY <1>0, Types
<1>1. /\ usedIdx' = (usedIdx + 1) % IdxMod /\ UNCHANGED used_idx
      /\ used' = [used EXCEPT ![usedIdx % NUM] = a]
  BY DEF device_done
<1>2. /\ Finished = Dist(used_idx, usedIdx) /\ Dist(used_idx, usedIdx) < NUM
      /\ Dist(used_idx, usedIdx) + 1 < IdxMod
  BY SMT, Lengths, Sizes
<1>3. Finished' = Finished + 1
  <2>1. Dist(used_idx, usedIdx') = Dist(used_idx, usedIdx) + 1
    BY <1>0, <1>1, <1>2, PutTake, Types
  <2> QED
    BY <1>1, <1>2, <2>1 DEF Finished
<1>b. used'[usedIdx % NUM] = a /\ \A d \in D : d # usedIdx % NUM => used'[d] = used[d]
  <2>1. usedIdx \in Nat
    BY SMT, <1>a, Sizes
  <2>2. usedIdx % NUM \in D
    BY <2>1, SlotType
  <2> QED
    BY <1>0, <1>1, <2>2
<1>4. ASSUME NEW k \in 0 .. Finished PROVE UEntry(k)' = IF k = Finished THEN a ELSE UEntry(k)
  <2>0. k \in 0 .. Dist(used_idx, usedIdx) /\ Dist(used_idx, usedIdx) < NUM
    BY <1>2
  <2>1. /\ At(used_idx, k) % NUM \in D
        /\ k = Dist(used_idx, usedIdx) => At(used_idx, k) = usedIdx
        /\ k # Dist(used_idx, usedIdx) => At(used_idx, k) % NUM # usedIdx % NUM
    BY <1>a, <2>0, RingPut
  <2> QED
    BY <1>1, <1>2, <1>b, <2>1 DEF UEntry
<1> QED
  BY <1>3, <1>4 DEF UPut

\* The handler takes the first entry.
LEMMA UsedTake ==
  ASSUME CountFacts, IInv, intr_entry
  PROVE  UTake
<1>0. used \in [D -> D \cup {None}] /\ TypeOK
  BY TypeParts DEF IInv, DataType
<1>a. used_idx \in 0 .. IdxMod - 1 /\ usedIdx \in 0 .. IdxMod - 1
  BY <1>0, Types
<1>1. /\ used_idx # usedIdx /\ used_idx' = (used_idx + 1) % IdxMod /\ UNCHANGED usedIdx
      /\ used' = [used EXCEPT ![used_idx % NUM] = None]
  BY DEF intr_entry
<1>2. Finished >= 1
  BY <1>1, FrontEntry
<1>3. Finished' = Finished - 1
  <2>1. Dist(used_idx', usedIdx) = Dist(used_idx, usedIdx) - 1
    BY <1>0, <1>1, PutTake, Types
  <2> QED
    BY <1>1, <2>1 DEF Finished
<1>b. \A d \in D : d # used_idx % NUM => used'[d] = used[d]
  BY <1>0, <1>1
<1>4. ASSUME NEW k \in 0 .. Finished - 2 PROVE UEntry(k)' = UEntry(k + 1)
  <2>1. k \in 0 .. NUM - 2
    BY SMT, <1>2, Lengths, Sizes
  <2>2. /\ At((used_idx + 1) % IdxMod, k) = At(used_idx, k + 1)
        /\ At(used_idx, k + 1) % NUM \in D /\ At(used_idx, k + 1) % NUM # used_idx % NUM
    BY <1>a, <2>1, RingTake
  <2>3. used'[At(used_idx, k + 1) % NUM] = used[At(used_idx, k + 1) % NUM]
    BY <1>b, <2>2
  <2> QED
    BY <1>1, <2>2, <2>3 DEF UEntry
<1> QED
  BY <1>2, <1>3, <1>4 DEF UTake

\* A request that a step leaves or puts in the available ring.
LEMMA QLive ==
  ASSUME NEW k, NEW x, QEntry(k)' = x, Live(x)'
  PROVE  Live(QEntry(k))'
  BY DEF Live

\* A request that a step leaves or puts in the used ring.
LEMMA ULive ==
  ASSUME NEW k, NEW x, UEntry(k)' = x, Live(x)', info'[x].status = 0, done'[info'[x].b]
  PROVE  /\ Live(UEntry(k))' /\ info'[UEntry(k)'].status = 0
         /\ done'[info'[UEntry(k)'].b]
  BY DEF Live

\* A queued request is with nobody else.
LEMMA QueuedOnly ==
  ASSUME CountFacts, IInv, NEW k \in 0 .. Queued - 1
  PROVE  /\ Live(QEntry(k)) /\ QEntry(k) \notin working /\ QEntry(k) \notin free
         /\ intr_entry => QEntry(k) # Entry
<1>1. Live(QEntry(k)) /\ QEntry(k) \notin working
  BY DEF IInv, QueueInv
<1>2. QEntry(k) \notin free
  BY <1>1, LiveWaits
<1>3. ASSUME intr_entry PROVE QEntry(k) # Entry
  <2>1. Finished >= 1 /\ Entry = UEntry(0)
    BY <1>3, FrontEntry DEF intr_entry
  <2>2. 0 \in 0 .. Finished - 1
    BY SMT, <2>1, Lengths
  <2>3. QEntry(k) # UEntry(0)
    BY <2>2 DEF IInv, ApartInv
  <2> QED
    BY <2>1, <2>3
<1> QED
  BY <1>1, <1>2, <1>3

\* A finished request is with nobody else, and the handler looks at it once.
LEMMA FinishedOnly ==
  ASSUME CountFacts, IInv, NEW k \in 0 .. Finished - 1
  PROVE  /\ Live(UEntry(k)) /\ UEntry(k) \notin working /\ UEntry(k) \notin free
         /\ info[UEntry(k)].status = 0 /\ done[info[UEntry(k)].b]
         /\ intr_entry /\ k # 0 => UEntry(k) # Entry
<1>1. /\ Live(UEntry(k)) /\ UEntry(k) \notin working
      /\ info[UEntry(k)].status = 0 /\ done[info[UEntry(k)].b]
  BY DEF IInv, UsedInv
<1>2. UEntry(k) \notin free
  BY <1>1, LiveWaits
<1>3. ASSUME intr_entry, k # 0 PROVE UEntry(k) # Entry
  <2>1. Finished >= 1 /\ Entry = UEntry(0)
    BY <1>3, FrontEntry DEF intr_entry
  <2>2. 0 \in 0 .. Finished - 1
    BY SMT, <2>1, Lengths
  <2>3. UEntry(k) # UEntry(0)
    BY <1>3, <2>2 DEF IInv, UsedInv
  <2> QED
    BY <2>1, <2>3
<1> QED
  BY <1>1, <1>2, <1>3

\* Of the steps, only device_take adds to what the device works on.
LEMMA WorkFacts ==
  ASSUME CountFacts, IInv, [Next]_vars
  PROVE  /\ device_take => working' = working \cup {QEntry(0)} /\ Queued >= 1
         /\ ~device_take => working' \subseteq working
<1>1. ASSUME device_take PROVE working' = working \cup {QEntry(0)} /\ Queued >= 1
  BY <1>1, FrontEntry DEF device_take
<1>2. ASSUME ~device_take PROVE working' \subseteq working
  <2>1. CASE Still
    BY <2>1, StillFacts
  <2>2. CASE ~Still
    BY <1>2, <2>2, Steps DEF intr_entry, alloc3_desc, publish, finish, device_done, device
  <2> QED
    BY <2>1, <2>2
<1> QED
  BY <1>1, <1>2

\* The requests that the device has not taken.
LEMMA QueueStep == ASSUME CountFacts, IInv, [Next]_vars PROVE QueueInv'
<1>0. Queued \in Nat /\ \A k, l \in 0 .. Queued - 1 : QEntry(k) = QEntry(l) => k = l
  BY Lengths DEF IInv, QueueInv
<1>1. ASSUME QSame, ~device_take PROVE QueueInv'
  <2>1. Queued' = Queued /\ \A k \in 0 .. Queued - 1 : QEntry(k)' = QEntry(k)
    BY <1>1 DEF QSame
  <2>2. ASSUME NEW k \in 0 .. Queued - 1 PROVE Live(QEntry(k))' /\ QEntry(k)' \notin working'
    <3>1. Live(QEntry(k)) /\ QEntry(k) \notin working /\ (intr_entry => QEntry(k) # Entry)
      BY QueuedOnly
    <3>2. Live(QEntry(k))'
      <4>1. ASSUME NEW x, x = QEntry(k) PROVE Live(x)'
        BY <3>1, <4>1, LiveStep DEF Kept
      <4> QED
        BY <2>1, <4>1, QLive
    <3> QED
      BY <1>1, <2>1, <3>1, <3>2, WorkFacts
  <2>3. \A k, l \in 0 .. Queued - 1 : QEntry(k)' = QEntry(l)' => k = l
    BY <1>0, <2>1
  <2>4. Queued' - 1 = Queued - 1
    BY <2>1
  <2> QED
    BY <2>2, <2>3, <2>4 DEF QueueInv
<1>2. ASSUME NEW p \in Procs, alloc3_desc(p) PROVE QueueInv'
  <2>1. PICK a \in free, b \in free, c \in free : Allocated(p, a, b, c)
    BY <1>2, AllocFacts
  <2>2. QPut(a)
    BY <1>2, <2>1, QueuePut
  <2>3. /\ Queued' = Queued + 1
        /\ \A k \in 0 .. Queued : QEntry(k)' = IF k = Queued THEN a ELSE QEntry(k)
    BY <2>2 DEF QPut
  <2>4. working' = working
    BY <1>2 DEF alloc3_desc, device
  <2>5. a \notin working
    <3>1. ASSUME a \in working PROVE a \notin free
      BY <3>1, LiveWaits DEF IInv, WorkInv
    <3> QED
      BY <3>1
  <2>6. Live(a)'
    <3>1. disk \in [Procs -> BOOLEAN] /\ idx0 \in [Procs -> D \cup {None}]
      BY TypeParts DEF IInv, DataType
    <3>2. disk'[p] /\ idx0'[p] = a /\ info'[a].b = p /\ a \in D
      BY <1>2, <2>1, <3>1 DEF alloc3_desc, Allocated
    <3> QED
      BY <3>2 DEF Live
  <2>7. ASSUME NEW k \in 0 .. Queued
        PROVE  /\ Live(QEntry(k))' /\ QEntry(k)' \notin working'
               /\ k # Queued => QEntry(k)' = QEntry(k) /\ QEntry(k) # a /\ k \in 0 .. Queued - 1
    <3>1. CASE k = Queued
      <4>1. QEntry(k)' = a
        BY <2>3, <3>1
      <4>2. Live(QEntry(k))'
        BY <2>6, <4>1, QLive
      <4> QED
        BY <2>4, <2>5, <3>1, <4>1, <4>2
    <3>2. CASE k # Queued
      <4>1. k \in 0 .. Queued - 1
        BY SMT, <1>0, <3>2
      <4>2. QEntry(k)' = QEntry(k)
        BY <2>3, <3>2
      <4>3. /\ Live(QEntry(k)) /\ QEntry(k) \notin working /\ QEntry(k) \notin free
            /\ intr_entry => QEntry(k) # Entry
        BY <4>1, QueuedOnly
      <4>4. ASSUME NEW x, x = QEntry(k) PROVE Live(x)'
        BY <4>3, <4>4, LiveStep DEF Kept
      <4>5. Live(QEntry(k))'
        BY <4>2, <4>4, QLive
      <4> QED
        BY <2>4, <4>1, <4>2, <4>3, <4>5
    <3> QED
      BY <3>1, <3>2
  <2>8. Queued' - 1 = Queued
    BY SMT, <1>0, <2>3
  <2>9. ASSUME NEW k \in 0 .. Queued, NEW l \in 0 .. Queued, QEntry(k)' = QEntry(l)' PROVE k = l
    <3>1. CASE k = Queued /\ l = Queued
      BY <3>1
    <3>2. CASE k = Queued /\ l # Queued
      BY <2>3, <2>7, <2>9, <3>2
    <3>3. CASE k # Queued /\ l = Queued
      BY <2>3, <2>7, <2>9, <3>3
    <3>4. CASE k # Queued /\ l # Queued
      BY <1>0, <2>7, <2>9, <3>4
    <3> QED
      BY <3>1, <3>2, <3>3, <3>4
  <2> QED
    BY <2>7, <2>8, <2>9 DEF QueueInv
<1>3. CASE device_take
  <2>1. /\ Queued >= 1 /\ Queued' = Queued - 1
        /\ \A k \in 0 .. Queued - 2 : QEntry(k)' = QEntry(k + 1)
    BY <1>3, QueueTake DEF QTake
  <2>2. /\ Queued' - 1 = Queued - 2 /\ 0 \in 0 .. Queued - 1
        /\ \A k \in 0 .. Queued - 2 : k + 1 \in 0 .. Queued - 1 /\ k + 1 # 0
    BY SMT, <1>0, <2>1
  <2>3. working' = working \cup {QEntry(0)}
    BY <1>3, WorkFacts
  <2>4. ASSUME NEW k \in 0 .. Queued - 2 PROVE Live(QEntry(k))' /\ QEntry(k)' \notin working'
    <3>1. k + 1 \in 0 .. Queued - 1
      BY <2>2
    <3>2. /\ Live(QEntry(k + 1)) /\ QEntry(k + 1) \notin working
          /\ intr_entry => QEntry(k + 1) # Entry
      BY <3>1, QueuedOnly
    <3>3. QEntry(k + 1) # QEntry(0)
      BY <1>0, <2>2, <3>1
    <3>4. ASSUME NEW x, x = QEntry(k + 1) PROVE Live(x)'
      BY <3>2, <3>4, LiveStep DEF Kept
    <3>5. Live(QEntry(k))'
      BY <2>1, <3>4, QLive
    <3> QED
      BY <2>1, <2>3, <3>2, <3>3, <3>5
  <2>5. ASSUME NEW k \in 0 .. Queued - 2, NEW l \in 0 .. Queued - 2, QEntry(k)' = QEntry(l)' PROVE k = l
    <3>1. k + 1 = l + 1
      BY <1>0, <2>1, <2>2, <2>5
    <3> QED
      BY SMT, <3>1, <1>0
  <2> QED
    BY <2>2, <2>4, <2>5 DEF QueueInv
<1>4. ASSUME ~device_take, \A p \in Procs : ~alloc3_desc(p) PROVE QueueInv'
  BY <1>1, <1>4, QueueSame, Steps
<1> QED
  BY <1>2, <1>3, <1>4

\* The requests that the device has finished.
LEMMA UsedStep == ASSUME CountFacts, IInv, [Next]_vars PROVE UsedInv'
<1> DEFINE Good(k) == /\ Live(UEntry(k))' /\ UEntry(k)' \notin working'
                      /\ info'[UEntry(k)'].status = 0 /\ done'[info'[UEntry(k)'].b]
<1>0. Finished \in Nat /\ \A k, l \in 0 .. Finished - 1 : UEntry(k) = UEntry(l) => k = l
  BY Lengths DEF IInv, UsedInv
<1>1. ASSUME NEW k, NEW j \in 0 .. Finished - 1, UEntry(k)' = UEntry(j),
             intr_entry => j # 0
      PROVE  Good(k)
  <2>1. /\ Live(UEntry(j)) /\ UEntry(j) \notin working
        /\ info[UEntry(j)].status = 0 /\ done[info[UEntry(j)].b]
        /\ intr_entry => UEntry(j) # Entry
    BY <1>1, FinishedOnly
  <2>2. ASSUME NEW x, x = UEntry(j) PROVE Live(x)' /\ info'[x].status = 0 /\ done'[info'[x].b]
    <3>1. Kept(x)
      BY <2>1, <2>2, LiveStep
    <3> QED
      BY <2>1, <2>2, <3>1 DEF Kept
  <2>3. /\ Live(UEntry(k))' /\ info'[UEntry(k)'].status = 0
        /\ done'[info'[UEntry(k)'].b]
    BY <1>1, <2>2, ULive
  <2>4. UEntry(j) \notin working'
    <3>1. CASE device_take
      <4>1. working' = working \cup {QEntry(0)} /\ Queued >= 1
        BY <3>1, WorkFacts
      <4>2. 0 \in 0 .. Queued - 1
        BY SMT, <4>1, Lengths
      <4>3. QEntry(0) # UEntry(j)
        BY <4>2 DEF IInv, ApartInv
      <4> QED
        BY <2>1, <4>1, <4>3
    <3>2. CASE ~device_take
      BY <2>1, <3>2, WorkFacts
    <3> QED
      BY <3>1, <3>2
  <2> QED
    BY <1>1, <2>3, <2>4
<1>2. ASSUME USame, ~intr_entry PROVE UsedInv'
  <2>1. Finished' = Finished /\ \A k \in 0 .. Finished - 1 : UEntry(k)' = UEntry(k)
    BY <1>2 DEF USame
  <2>2. \A k \in 0 .. Finished - 1 : Good(k)
    BY <1>1, <1>2, <2>1
  <2>3. \A k, l \in 0 .. Finished - 1 : UEntry(k)' = UEntry(l)' => k = l
    BY <1>0, <2>1
  <2>4. Finished' - 1 = Finished - 1
    BY <2>1
  <2> QED
    BY <2>2, <2>3, <2>4 DEF UsedInv
<1>3. ASSUME NEW a \in D, device_done(a), ~intr_entry PROVE UsedInv'
  <2>1. /\ Finished' = Finished + 1
        /\ \A k \in 0 .. Finished : UEntry(k)' = IF k = Finished THEN a ELSE UEntry(k)
    BY <1>3, UsedPut DEF UPut
  <2>2. /\ a \in working /\ working' = working \ {a}
        /\ done' = [p \in Procs |-> done[p] \/ p = desc[desc[a].next].buf]
        /\ info' = [info EXCEPT ![a].status = 0]
    BY <1>3 DEF device_done
  <2>3. Live(a) /\ ~intr_entry
    BY <1>3, <2>2 DEF IInv, WorkInv
  <2>4. Kept(a)
    BY <2>3, LiveStep
  <2>5. info'[a].status = 0
    <3>1. info \in [D -> [b : Procs \cup {None}, status : {0, 255}]]
      BY TypeParts DEF IInv, DataType
    <3> QED
      BY SMT, <2>2, <3>1
  <2>6. done'[info'[a].b]
    <3>1. info[a].b \in Owners /\ info[a].b \in Procs /\ a = idx0[info[a].b]
      BY <2>3, LiveWaits DEF Owners
    <3>2. desc[desc[a].next].buf = info[a].b
      BY <3>1 DEF IInv, ChainInv, ChainOK
    <3>3. done'[info[a].b]
      BY <2>2, <3>1, <3>2
    <3> QED
      BY <2>4, <3>3 DEF Kept
  <2>7. ASSUME NEW k \in 0 .. Finished
        PROVE  /\ Good(k)
               /\ k # Finished => UEntry(k)' = UEntry(k) /\ UEntry(k) # a /\ k \in 0 .. Finished - 1
    <3>1. CASE k = Finished
      <4>1. UEntry(k)' = a
        BY <2>1, <3>1
      <4>2. Live(a)'
        BY <2>4 DEF Kept
      <4>3. /\ Live(UEntry(k))' /\ info'[UEntry(k)'].status = 0
            /\ done'[info'[UEntry(k)'].b]
        BY <2>5, <2>6, <4>1, <4>2, ULive
      <4> QED
        BY <2>2, <3>1, <4>1, <4>3
    <3>2. CASE k # Finished
      <4>1. k \in 0 .. Finished - 1
        BY SMT, <1>0, <3>2
      <4>2. UEntry(k)' = UEntry(k)
        BY <2>1, <3>2
      <4>3. UEntry(k) \notin working
        BY <4>1, FinishedOnly
      <4>4. Good(k)
        BY <1>1, <2>3, <4>1, <4>2
      <4> QED
        BY <2>2, <4>1, <4>2, <4>3, <4>4
    <3> QED
      BY <3>1, <3>2
  <2>8. Finished' - 1 = Finished
    BY SMT, <1>0, <2>1
  <2>9. ASSUME NEW k \in 0 .. Finished, NEW l \in 0 .. Finished, UEntry(k)' = UEntry(l)' PROVE k = l
    <3>1. CASE k = Finished /\ l = Finished
      BY <3>1
    <3>2. CASE k = Finished /\ l # Finished
      BY <2>1, <2>7, <2>9, <3>2
    <3>3. CASE k # Finished /\ l = Finished
      BY <2>1, <2>7, <2>9, <3>3
    <3>4. CASE k # Finished /\ l # Finished
      BY <1>0, <2>7, <2>9, <3>4
    <3> QED
      BY <3>1, <3>2, <3>3, <3>4
  <2> QED
    BY <2>7, <2>8, <2>9 DEF UsedInv
<1>4. CASE intr_entry
  <2>1. /\ Finished >= 1 /\ Finished' = Finished - 1
        /\ \A k \in 0 .. Finished - 2 : UEntry(k)' = UEntry(k + 1)
    BY <1>4, UsedTake DEF UTake
  <2>2. /\ Finished' - 1 = Finished - 2
        /\ \A k \in 0 .. Finished - 2 : k + 1 \in 0 .. Finished - 1 /\ k + 1 # 0
    BY SMT, <1>0, <2>1
  <2>3. \A k \in 0 .. Finished - 2 : Good(k)
    BY <1>1, <2>1, <2>2
  <2>4. ASSUME NEW k \in 0 .. Finished - 2, NEW l \in 0 .. Finished - 2, UEntry(k)' = UEntry(l)' PROVE k = l
    <3>1. k + 1 = l + 1
      BY <1>0, <2>1, <2>2, <2>4
    <3> QED
      BY SMT, <3>1, <1>0
  <2> QED
    BY <2>2, <2>3, <2>4 DEF UsedInv
<1>5. ASSUME ~intr_entry, \A a \in D : ~device_done(a) PROVE UsedInv'
  BY <1>2, <1>5, UsedSame, Steps
<1> QED
  BY <1>3, <1>4, <1>5

\* What is queued was queued before, or its chain was free.
LEMMA QueueFrom ==
  ASSUME CountFacts, IInv, [Next]_vars, NEW k \in 0 .. Queued' - 1
  PROVE  QEntry(k)' \in free \/ \E j \in 0 .. Queued - 1 : QEntry(k)' = QEntry(j)
<1>0. Queued \in Nat
  BY Lengths
<1>1. CASE QSame
  BY <1>1 DEF QSame
<1>2. ASSUME NEW p \in Procs, alloc3_desc(p)
      PROVE  QEntry(k)' \in free \/ \E j \in 0 .. Queued - 1 : QEntry(k)' = QEntry(j)
  <2>1. PICK a \in free, b \in free, c \in free : Allocated(p, a, b, c)
    BY <1>2, AllocFacts
  <2>2. QPut(a)
    BY <1>2, <2>1, QueuePut
  <2>3. k \in 0 .. Queued /\ (k # Queued => k \in 0 .. Queued - 1)
    BY SMT, <1>0, <2>2 DEF QPut
  <2> QED
    BY <2>2, <2>3 DEF QPut
<1>3. CASE device_take
  <2>1. QTake
    BY <1>3, QueueTake
  <2>2. k \in 0 .. Queued - 2 /\ k + 1 \in 0 .. Queued - 1
    BY SMT, <1>0, <2>1 DEF QTake
  <2> QED
    BY <2>1, <2>2 DEF QTake
<1> QED
  BY <1>1, <1>2, <1>3, QueueSame, Steps

\* What is finished was finished before, or the device worked on it.
LEMMA UsedFrom ==
  ASSUME CountFacts, IInv, [Next]_vars, NEW k \in 0 .. Finished' - 1
  PROVE  UEntry(k)' \in working \/ \E j \in 0 .. Finished - 1 : UEntry(k)' = UEntry(j)
<1>0. Finished \in Nat
  BY Lengths
<1>1. CASE USame
  BY <1>1 DEF USame
<1>2. ASSUME NEW a \in D, device_done(a)
      PROVE  UEntry(k)' \in working \/ \E j \in 0 .. Finished - 1 : UEntry(k)' = UEntry(j)
  <2>1. UPut(a) /\ a \in working
    BY <1>2, UsedPut DEF device_done
  <2>2. k \in 0 .. Finished /\ (k # Finished => k \in 0 .. Finished - 1)
    BY SMT, <1>0, <2>1 DEF UPut
  <2> QED
    BY <2>1, <2>2 DEF UPut
<1>3. CASE intr_entry
  <2>1. UTake
    BY <1>3, UsedTake
  <2>2. k \in 0 .. Finished - 2 /\ k + 1 \in 0 .. Finished - 1
    BY SMT, <1>0, <2>1 DEF UTake
  <2> QED
    BY <2>1, <2>2 DEF UTake
<1> QED
  BY <1>1, <1>2, <1>3, UsedSame, Steps

\* No request is in both rings.
LEMMA ApartStep == ASSUME CountFacts, IInv, [Next]_vars PROVE ApartInv'
<1> SUFFICES ASSUME NEW k \in 0 .. Queued' - 1, NEW l \in 0 .. Finished' - 1, QEntry(k)' = UEntry(l)'
             PROVE  FALSE
  BY DEF ApartInv
<1>1. QEntry(k)' \in free \/ \E j \in 0 .. Queued - 1 : QEntry(k)' = QEntry(j)
  BY QueueFrom
<1>2. UEntry(l)' \in working \/ \E j \in 0 .. Finished - 1 : UEntry(l)' = UEntry(j)
  BY UsedFrom
<1>3. \A x \in working : x \notin free
  BY LiveWaits DEF IInv, WorkInv
<1>4. \A j \in 0 .. Queued - 1 : QEntry(j) \notin working
  BY QueuedOnly
<1>5. \A j \in 0 .. Finished - 1 : UEntry(j) \notin free
  BY FinishedOnly
<1>6. \A i \in 0 .. Queued - 1, j \in 0 .. Finished - 1 : QEntry(i) # UEntry(j)
  BY DEF IInv, ApartInv
<1> QED
  BY <1>1, <1>2, <1>3, <1>4, <1>5, <1>6

----------------------------------------------------------------------------
(* The invariant.                                                           *)

\* The driver as virtio_disk_init leaves it.
LEMMA InvInit == ASSUME CountFacts, Init PROVE IInv
<1>1. 0 \in 0 .. IdxMod - 1 /\ 0 .. -1 = {} /\ Dist(0, 0) = 0
  BY SMT, Sizes DEF Dist
<1>2. IdxType /\ DataType
  BY <1>1 DEF Init, IdxType, DataType, Clear
<1>3. TypeOK
  BY <1>2, TypeParts
<1>4. Owners = {} /\ ~Publishing
  BY DEF Init, Owners, Publishing
<1>5. LockInv
  <2>1. None \notin Procs
    BY VirtioAssumption
  <2> QED
    BY <2>1 DEF Init, LockInv, Announced, Place, Holding, Owning
<1>6. ChainInv /\ DoneInv /\ WorkInv
  BY <1>4 DEF Init, ChainInv, DoneInv, WorkInv
<1>7. CountInv
  <2>1. Cardinality(free) = NUM
    <3>1. Cardinality(0 .. NUM - 1) = NUM
      BY SMT, FromTo, Sizes
    <3> QED
      BY <3>1 DEF Init, D
  <2>2. Cardinality(Owners) = 0
    BY <1>4, Empty
  <2>3. Cardinality(free) + 3 * Cardinality(Owners) = NUM
    BY SMT, <2>1, <2>2, Sizes
  <2> QED
    BY <2>3 DEF Init, CountInv
<1>8. Queued = 0 /\ Finished = 0
  <2>1. taken = 0 /\ availIdx = 0 /\ used_idx = 0 /\ usedIdx = 0
    BY DEF Init
  <2> QED
    BY SMT, <1>1, <1>4, <2>1 DEF Queued, Finished
<1>9. 0 .. Queued - 1 = {} /\ 0 .. Finished - 1 = {}
  BY SMT, <1>8
<1>10. QueueInv /\ UsedInv /\ ApartInv
  BY <1>9 DEF QueueInv, UsedInv, ApartInv
<1> QED
  BY <1>3, <1>5, <1>6, <1>7, <1>10 DEF IInv

\* Every step keeps it.
LEMMA InvNext == ASSUME CountFacts, IInv, [Next]_vars PROVE IInv'
  BY TypeStep, LockStep, ChainStep, CountStep, DoneStep, QueueStep, WorkStep, UsedStep, ApartStep
  DEF IInv

\* It says that descriptors are owned by one request.
LEMMA InvDescs == ASSUME CountFacts, IInv PROVE DescsOwned
<1>1. TypeOK /\ ChainInv /\ CountInv
  BY DEF IInv
<1>2. ASSUME NEW p \in Procs, idx0[p] # None
      PROVE  Cardinality(Chain(idx0[p])) = 3 /\ Chain(idx0[p]) \cap free = {}
  <2> DEFINE a == idx0[p]
             b == desc[a].next
             c == desc[b].next
  <2>1. p \in Owners
    BY <1>2 DEF Owners
  <2>2. ChainOK(p) /\ Chain(idx0[p]) \cap free = {}
    BY <1>1, <2>1 DEF ChainInv
  <2>3. a # b /\ a # c /\ b # c /\ Chain(idx0[p]) = {} \cup {a, b, c}
    BY <2>2 DEF ChainOK, Chain
  <2> HIDE DEF a, b, c
  <2>4. Cardinality({} \cup {a, b, c}) = Cardinality({}) + 3
    BY <2>3, Empty, AddThree
  <2>5. Cardinality({} \cup {a, b, c}) = 3
    BY SMT, <2>4, Empty
  <2> QED
    BY <2>2, <2>3, <2>5
<1>3. \A p, q \in Procs : p # q /\ idx0[p] # None /\ idx0[q] # None =>
        Chain(idx0[p]) \cap Chain(idx0[q]) = {}
  BY <1>1 DEF ChainInv, Owners
<1>4. /\ Cardinality(free) + 3 * Cardinality({p \in Procs : idx0[p] # None}) = NUM
      /\ \A p \in Procs : pc[p] = "nodesc" => Cardinality(free) < 3
  BY <1>1 DEF CountInv, Owners
<1> QED
  BY <1>1, <1>2, <1>3, <1>4 DEF DescsOwned

\* It says that the handler meets live requests only.
LEMMA InvEntries == ASSUME CountFacts, IInv PROVE EntriesLive
<1>1. used_idx \in 0 .. IdxMod - 1 /\ usedIdx \in 0 .. IdxMod - 1
  BY Types DEF IInv
<1>2. (usedIdx + IdxMod - used_idx) % IdxMod = Finished
  BY <1>1, DistFacts DEF Finished
<1>3. ASSUME NEW i \in Unseen
      PROVE  /\ used[i % NUM] # None /\ info[used[i % NUM]].status = 0
             /\ info[used[i % NUM]].b # None /\ idx0[info[used[i % NUM]].b] = used[i % NUM]
             /\ disk[info[used[i % NUM]].b]
  <2>1. PICK k \in 0 .. Finished - 1 : i = (used_idx + k) % IdxMod
    BY <1>2, <1>3 DEF Unseen
  <2>2. k \in 0 .. IdxMod - 1
    BY SMT, Lengths, Sizes
  <2>3. i = At(used_idx, k)
    BY <1>1, <2>1, <2>2, DistFacts
  <2>4. used[i % NUM] = UEntry(k)
    BY <2>3 DEF UEntry
  <2>5. Live(UEntry(k)) /\ info[UEntry(k)].status = 0
    BY FinishedOnly
  <2>6. None \notin D /\ None \notin Procs
    BY SMT, Sizes, VirtioAssumption DEF D
  <2> QED
    BY <2>4, <2>5, <2>6 DEF Live
<1> QED
  BY <1>3 DEF EntriesLive, IInv, LockInv, Announced

\* virtio_disk_rw returns only where its buffer has been transferred.
LEMMA InvReturns ==
  ASSUME CountFacts, IInv, [Next]_vars, NEW p \in Procs, pc[p] # "idle", pc'[p] = "idle"
  PROVE  done[p]
<1>0. pc \in [Procs -> {"idle", "alloc", "nodesc", "publish", "test", "wait", "woken"}]
  BY TypeParts DEF IInv, DataType
<1>1. finish(p)
  <2>1. CASE Still
    <3>1. ASSUME NEW q \in Procs, Quiet(q) PROVE FALSE
      <4>1. CASE q = p
        BY <1>0, <3>1, <4>1 DEF Quiet, rw, alloc3_desc_fail, WakeAlloc, wait, kill
      <4>2. CASE q # p
        BY <1>0, <3>1, <4>2 DEF Quiet, rw, alloc3_desc_fail, WakeAlloc, wait, kill
      <4> QED
        BY <4>1, <4>2
    <3>2. ASSUME intr \/ intr_end \/ UNCHANGED vars PROVE FALSE
      BY <3>2 DEF intr, intr_end, vars, driver
    <3> QED
      BY <2>1, <3>1, <3>2 DEF Still
  <2>2. ASSUME NEW q \in Procs, alloc3_desc(q) \/ publish(q) PROVE FALSE
    <3>1. pc' = [pc EXCEPT ![q] = "publish"] \/ pc' = [pc EXCEPT ![q] = "test"]
      BY <2>2 DEF alloc3_desc, publish
    <3> QED
      BY SMT, <1>0, <3>1
  <2>3. ASSUME NEW q \in Procs, finish(q) PROVE q = p
    BY <1>0, <2>3 DEF finish, WakeAlloc
  <2>4. CASE device_take \/ \E a \in D : device_done(a)
    BY <2>4 DEF device_take, device_done
  <2>5. CASE intr_entry
    BY <1>0, <2>5 DEF intr_entry
  <2> QED
    BY <2>1, <2>2, <2>3, <2>4, <2>5, Steps
<1>2. p \in Owners /\ ~disk[p]
  BY <1>1, FinishFacts
<1> QED
  BY <1>2 DEF IInv, DoneInv

----------------------------------------------------------------------------
(* The conclusions.                                                         *)

INSTANCE FiniteSetTheorems

\* The library has what was assumed of finite sets.
LEMMA Counted == CountFacts
<1>1. ASSUME NEW S, IsFiniteSet(S), NEW x
      PROVE  /\ IsFiniteSet(S \cup {x}) /\ IsFiniteSet(S \ {x})
             /\ x \notin S => Cardinality(S \cup {x}) = Cardinality(S) + 1
             /\ x \in S => Cardinality(S \ {x}) = Cardinality(S) - 1
  BY <1>1, FS_AddElement, FS_RemoveElement
<1>2. ASSUME NEW m \in Int, NEW n \in Int
      PROVE  IsFiniteSet(m .. n) /\ (m <= n + 1 => Cardinality(m .. n) = n - m + 1)
  BY SMT, FS_Interval
<1>3. ASSUME NEW S, NEW T, NEW f \in [S -> T], IsFiniteSet(T),
             \A x, y \in S : f[x] = f[y] => x = y
      PROVE  IsFiniteSet(S) /\ Cardinality(S) <= Cardinality(T)
  <2>1. f \in Injection(S, T)
    BY <1>3 DEF Injection, IsInjective
  <2> QED
    BY <1>3, <2>1, FS_Injection
<1>4. \A S : IsFiniteSet(S) => \A T \in SUBSET S :
        IsFiniteSet(T) /\ Cardinality(T) <= Cardinality(S)
  BY FS_Subset
<1>5. \A S, T : IsFiniteSet(S) /\ IsFiniteSet(T) =>
        /\ IsFiniteSet(S \X T)
        /\ Cardinality(S \X T) = Cardinality(S) * Cardinality(T)
  BY FS_Product
<1>6. \A S : IsFiniteSet(S) => Cardinality(S) \in Nat /\ (Cardinality(S) = 0 <=> S = {})
  BY FS_CardinalityType, FS_EmptySet
<1>7. IsFiniteSet({}) /\ Cardinality({}) = 0
  BY FS_EmptySet
<1>8. ASSUME NEW S \in SUBSET Nat, S # {}
      PROVE  \E m \in S : \A e \in S : m <= e
  <2>1. PICK m \in S : \A e \in S : ~(<<e, m>> \in OpToRel(<, Nat))
    BY <1>8, NatLessThanWellFounded, WFMin
  <2>2. \A e \in S : e \in Nat /\ m \in Nat /\ ~(e < m)
    BY <2>1 DEF OpToRel
  <2> QED
    BY SMT, <2>2
<1> QED
  BY <1>1, <1>2, <1>3, <1>4, <1>5, <1>6, <1>7, <1>8 DEF CountFacts


\* virtio_disk.c keeps its invariant whatever the processes, the device and
\* the interrupts do.
THEOREM Invariance == Spec => []IInv
<1>1. CountFacts
  BY Counted
<1>2. Init => IInv
  BY <1>1, InvInit
<1>3. IInv /\ [Next]_vars => IInv'
  BY <1>1, InvNext
<1> QED
  BY <1>2, <1>3, PTL DEF Spec

\* alloc3_desc, free_chain: a descriptor is free or in the chain of one
\* request, none is lost or freed twice, and nobody sleeps for descriptors
\* while there are enough.
THEOREM DescriptorsOwned == Spec => []DescsOwned
<1>1. CountFacts
  BY Counted
<1>2. IInv => DescsOwned
  BY <1>1, InvDescs
<1> QED
  BY <1>2, Invariance, PTL

\* virtio_disk_intr: what the handler has not looked at is a finished request
\* whose process still waits, across every wrap of the 16-bit indices, and an
\* interrupt announces it.
THEOREM HandlerEntriesLive == Spec => []EntriesLive
<1>1. CountFacts
  BY Counted
<1>2. IInv => EntriesLive
  BY <1>1, InvEntries
<1> QED
  BY <1>2, Invariance, PTL

\* virtio_disk_rw: a process leaves only after the device has transferred its
\* buffer, also when kill() woke it before.
THEOREM TransferBeforeReturn == Spec => ReturnsAfterTransfer
<1>1. CountFacts
  BY Counted
<1>2. ASSUME IInv, [Next]_vars, NEW p \in Procs, pc[p] # "idle", pc'[p] = "idle" PROVE done[p]
  BY <1>1, <1>2, InvReturns
<1>3. IInv /\ [Next]_vars =>
        [\A p \in Procs : pc[p] # "idle" /\ pc'[p] = "idle" => done[p]]_vars
  BY <1>2
<1> QED
  BY <1>3, Invariance, PTL DEF Spec, ReturnsAfterTransfer
=============================================================================
