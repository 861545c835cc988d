---------------------------- MODULE BcacheTheorems --------------------------
(***************************************************************************)
(* The inductive invariant of Bcache, and its properties for any number of *)
(* processes, buffers and blocks: the counts are exact, and the cache      *)
(* implements Blocks.  That it behaves as a store of blocks rests on the   *)
(* counts: what is counted is not recycled, what is not counted is the     *)
(* disk's content or not read at all.                                      *)
(***************************************************************************)
EXTENDS Bcache, FiniteSetTheorems, TLAPS

\* A process has a buffer from bget to the end of brelse, and its block.
AtInv ==
  \A p \in Procs :
    /\ at[p] # None <=> pc[p] \in {"lock", "read", "use", "drop"}
    /\ at[p] # None => blockno[at[p]] \in Block

\* Who reads or uses a buffer has its sleep lock, and nobody else has one.
OwnerInv ==
  /\ \A p \in Procs : pc[p] \in {"read", "use"} => owner[at[p]] = p
  /\ \A u \in Bufs : owner[u] # None =>
       pc[owner[u]] \in {"read", "use"} /\ at[owner[u]] = u

\* A buffer's count is what bget, brelse, bpin and bunpin leave together.
Users(u) == {p \in Procs : at[p] = u}
Pins(u) == IF blockno[u] \in pinned THEN 1 ELSE 0
CountInv == \A u \in Bufs : refcnt[u] = Cardinality(Users(u)) + Pins(u)

\* A block is in one buffer at most, and a pinned one is in a buffer.
CopyInv ==
  /\ \A u, w \in Bufs : blockno[u] # None /\ blockno[u] = blockno[w] => u = w
  /\ \A b \in pinned : \E u \in Bufs : blockno[u] = b
  /\ IsFiniteSet(pinned)

\* What is used has been read; what is read holds a block; and what nobody has
\* locked is as the disk has it or pinned.
DataInv ==
  /\ \A p \in Procs : (pc[p] = "use" => valid[at[p]]) /\ (pc[p] = "read" => ~valid[at[p]])
  /\ \A u \in Bufs : valid[u] =>
       /\ blockno[u] \in Block
       /\ owner[u] = None => Clean(u) \/ blockno[u] \in pinned

BInv == TypeOK /\ AtInv /\ OwnerInv /\ CountInv /\ CopyInv /\ DataInv

-----------------------------------------------------------------------------
\* The users of a buffer are finitely many.
LEMMA UsersFinite ==
  ASSUME NEW u
  PROVE  IsFiniteSet(Users(u)) /\ Cardinality(Users(u)) \in Nat
<1>1. Users(u) \in SUBSET Procs
  BY DEF Users
<1> QED
  BY <1>1, FS_Subset, FS_CardinalityType, BcacheAssumption DEF BcacheAssumption

\* bget's "refcnt == 0" means what it should: no user, no pin, no lock.
LEMMA Unreferenced ==
  ASSUME BInv, NEW u \in Bufs, refcnt[u] = 0
  PROVE  Users(u) = {} /\ blockno[u] \notin pinned /\ owner[u] = None
<1>1. Cardinality(Users(u)) = 0 /\ Pins(u) = 0
  BY UsersFinite DEF BInv, CountInv, Pins
<1>2. Users(u) = {}
  BY <1>1, UsersFinite, FS_EmptySet
<1>3. owner[u] = None
  BY <1>2 DEF BInv, TypeOK, OwnerInv, Users
<1> QED
  BY <1>1, <1>2, <1>3 DEF Pins

\* A buffer that a process has is counted.
LEMMA Referenced ==
  ASSUME BInv, NEW p \in Procs, at[p] \in Bufs
  PROVE  refcnt[at[p]] > 0
<1>1. Users(at[p]) # {}
  BY DEF Users
<1>2. Cardinality(Users(at[p])) # 0
  BY <1>1, UsersFinite, FS_EmptySet
<1> QED
  BY <1>2, UsersFinite DEF BInv, TypeOK, CountInv, Pins

\* To move a buffer to the head of the list neither loses nor doubles one.
LEMMA FrontOrder ==
  ASSUME NEW s \in Orders, NEW u \in Bufs
  PROVE  ToFront(s, u) \in Orders
<1> DEFINE N == Cardinality(Bufs)
<1>1. N \in Nat /\ s \in [1 .. N -> Bufs]
  BY FS_CardinalityType, BcacheAssumption DEF BcacheAssumption, Orders
<1>2. PICK k \in 1 .. N : s[k] = u /\ k = CHOOSE i \in DOMAIN s : s[i] = u
  BY <1>1 DEF Orders
<1> HIDE DEF N
<1> DEFINE t == [i \in 1 .. N |-> IF i = 1 THEN u ELSE IF i <= k THEN s[i - 1] ELSE s[i]]
<1>3. t = ToFront(s, u)
  BY <1>1, <1>2 DEF ToFront
<1>4. t \in [1 .. N -> Bufs]
  BY <1>1, <1>2
<1>5. ASSUME NEW w \in Bufs
      PROVE  \E i \in 1 .. N : t[i] = w
  <2>1. PICK j \in 1 .. N : s[j] = w
    BY Zenon, <1>1 DEF Orders
  <2>2. CASE j < k
    <3>1. j + 1 \in 1 .. N /\ t[j + 1] = w
      BY <1>1, <1>2, <2>1, <2>2
    <3> QED
      BY <3>1
  <2>3. CASE j = k
    <3>1. 1 \in 1 .. N /\ t[1] = w
      BY <1>1, <1>2, <2>1, <2>3
    <3> QED
      BY <3>1
  <2>4. CASE j > k
    <3>1. t[j] = w
      BY <1>1, <1>2, <2>1, <2>4
    <3> QED
      BY <2>1, <3>1
  <2> QED
    BY <1>1, <2>2, <2>3, <2>4
<1> QED
  BY Zenon, <1>3, <1>4, <1>5 DEF Orders, N

-----------------------------------------------------------------------------

\* bget finds the block: one more user of its buffer.
LEMMA Step_bget_hit ==
  ASSUME BInv, NEW p \in Procs, NEW b \in Block, bget_hit(p, b)
  PROVE  BInv'
<1>1. TypeOK'
  BY BcacheAssumption DEF BcacheAssumption, BInv, TypeOK, AtInv, bget_hit
<1>2. AtInv'
  BY BcacheAssumption DEF BcacheAssumption, BInv, TypeOK, AtInv, bget_hit
<1>3. OwnerInv'
  BY BcacheAssumption DEF BcacheAssumption, BInv, TypeOK, AtInv, OwnerInv, bget_hit
<1>4. CountInv'
  <2>1. PICK u \in Bufs : refcnt' = [refcnt EXCEPT ![u] = @ + 1] /\ at' = [at EXCEPT ![p] = u]
    BY Zenon DEF bget_hit
  <2>2. at[p] = None
    BY DEF BInv, AtInv, bget_hit
  <2>3. Users(u)' = Users(u) \cup {p} /\ p \notin Users(u)
    BY <2>1, <2>2, BcacheAssumption DEF BcacheAssumption, BInv, TypeOK, Users
  <2>4. \A w \in Bufs \ {u} : Users(w)' = Users(w)
    BY <2>1, <2>2, BcacheAssumption DEF BcacheAssumption, BInv, TypeOK, Users
  <2>5. \A w \in Bufs : Pins(w)' = Pins(w)
    BY DEF bget_hit, Pins
  <2>6. Cardinality(Users(u)') = Cardinality(Users(u)) + 1
    BY Zenon, <2>3, UsersFinite, FS_AddElement
  <2> QED
    BY <2>1, <2>4, <2>5, <2>6, UsersFinite DEF BInv, TypeOK, CountInv, Pins
<1>5. DataInv'
  BY BcacheAssumption DEF BcacheAssumption, BInv, TypeOK, AtInv, OwnerInv, CopyInv,
     DataInv, Clean, bget_hit
<1>6. CopyInv'
  BY DEF BInv, CopyInv, bget_hit
<1> QED BY <1>1, <1>2, <1>3, <1>4, <1>5, <1>6 DEF BInv

\* bget recycles a buffer that nothing refers to, for a block that no buffer has.
LEMMA Step_bget_miss ==
  ASSUME BInv, NEW p \in Procs, NEW b \in Block, bget_miss(p, b)
  PROVE  BInv'
<1>1. PICK u \in Bufs :
        /\ refcnt[u] = 0
        /\ blockno' = [blockno EXCEPT ![u] = b] /\ valid' = [valid EXCEPT ![u] = FALSE]
        /\ refcnt' = [refcnt EXCEPT ![u] = 1] /\ at' = [at EXCEPT ![p] = u]
  BY Zenon DEF BInv, TypeOK, Orders, Unused, bget_miss
<1>2. Users(u) = {} /\ blockno[u] \notin pinned /\ owner[u] = None
  BY <1>1, Unreferenced
<1>3. at[p] = None /\ \A q \in Procs : at[q] # u
  BY <1>2 DEF BInv, AtInv, Users, bget_miss
<1>4. TypeOK'
  BY <1>1, <1>2, <1>3, BcacheAssumption DEF BcacheAssumption, BInv, TypeOK, AtInv,
     bget_miss, Cached
<1>5. AtInv'
  BY <1>1, <1>2, <1>3, BcacheAssumption DEF BcacheAssumption, BInv, TypeOK, AtInv,
     bget_miss, Cached
<1>6. OwnerInv'
  BY <1>1, <1>2, <1>3, BcacheAssumption DEF BcacheAssumption, BInv, TypeOK, AtInv,
     OwnerInv, bget_miss, Cached
<1>7. CountInv'
  <2>1. Users(u)' = {p} /\ \A w \in Bufs \ {u} : Users(w)' = Users(w)
    BY <1>1, <1>2, <1>3, BcacheAssumption DEF BcacheAssumption, BInv, TypeOK, Users
  <2>2. Pins(u)' = 0
    BY <1>1, <1>2 DEF BInv, TypeOK, CopyInv, Pins, Cached, bget_miss
  <2>3. \A w \in Bufs \ {u} : Pins(w)' = Pins(w)
    BY <1>1 DEF BInv, TypeOK, Pins, bget_miss
  <2>4. Cardinality(Users(u)') = 1
    BY Zenon, <2>1, FS_Singleton
  <2>5. refcnt'[u] = Cardinality(Users(u)') + Pins(u)'
    BY <1>1, <2>2, <2>4 DEF BInv, TypeOK
  <2>6. ASSUME NEW w \in Bufs, w # u
        PROVE  refcnt'[w] = Cardinality(Users(w)') + Pins(w)'
    BY <1>1, <2>1, <2>3, <2>6 DEF BInv, TypeOK, CountInv
  <2> QED
    BY <2>5, <2>6 DEF CountInv
<1>8. CopyInv'
  BY <1>1, <1>2, <1>3, BcacheAssumption DEF BcacheAssumption, BInv, TypeOK, AtInv,
     CopyInv, bget_miss, Cached
<1>9. DataInv'
  BY <1>1, <1>2, <1>3, BcacheAssumption DEF BcacheAssumption, BInv, TypeOK, AtInv,
     OwnerInv, CopyInv, DataInv, Clean, bget_miss, Cached
<1> QED BY <1>4, <1>5, <1>6, <1>7, <1>8, <1>9 DEF BInv

\* bget's panic leaves the cache as it is.
LEMMA Step_bget_panic ==
  ASSUME BInv, NEW p \in Procs, NEW b \in Block, bget_panic(p, b)
  PROVE  BInv'
<1>1. TypeOK'
  BY BcacheAssumption DEF BcacheAssumption, BInv, TypeOK, AtInv, bget_panic
<1>2. AtInv'
  BY BcacheAssumption DEF BcacheAssumption, BInv, TypeOK, AtInv, bget_panic
<1>3. OwnerInv'
  BY BcacheAssumption DEF BcacheAssumption, BInv, TypeOK, AtInv, OwnerInv,
     bget_panic
<1>4. DataInv'
  BY BcacheAssumption DEF BcacheAssumption, BInv, TypeOK, AtInv, OwnerInv, CopyInv,
     DataInv, Clean, bget_panic
<1>5. CountInv' /\ CopyInv'
  BY DEF BInv, CountInv, CopyInv, Users, Pins, bget_panic
<1> QED BY <1>1, <1>2, <1>3, <1>4, <1>5 DEF BInv

\* acquiresleep: the lock was free, so nobody reads or uses the buffer.
LEMMA Step_acquiresleep ==
  ASSUME BInv, NEW p \in Procs, acquiresleep(p)
  PROVE  BInv'
<1>1. TypeOK'
  BY BcacheAssumption DEF BcacheAssumption, BInv, TypeOK, AtInv, acquiresleep
<1>2. AtInv'
  BY BcacheAssumption DEF BcacheAssumption, BInv, TypeOK, AtInv, acquiresleep
<1>3. OwnerInv'
  BY BcacheAssumption DEF BcacheAssumption, BInv, TypeOK, AtInv, OwnerInv,
     acquiresleep
<1>4. DataInv'
  BY BcacheAssumption DEF BcacheAssumption, BInv, TypeOK, AtInv, OwnerInv, CopyInv,
     DataInv, Clean, acquiresleep
<1>5. CountInv' /\ CopyInv'
  BY DEF BInv, CountInv, CopyInv, Users, Pins, acquiresleep
<1> QED BY <1>1, <1>2, <1>3, <1>4, <1>5 DEF BInv

\* bread fills the buffer from the disk.
LEMMA Step_bread_done ==
  ASSUME BInv, NEW p \in Procs, bread_done(p)
  PROVE  BInv'
<1>1. TypeOK'
  BY BcacheAssumption DEF BcacheAssumption, BInv, TypeOK, AtInv, bread_done
<1>2. AtInv'
  BY BcacheAssumption DEF BcacheAssumption, BInv, TypeOK, AtInv, bread_done
<1>3. OwnerInv'
  BY BcacheAssumption DEF BcacheAssumption, BInv, TypeOK, AtInv, OwnerInv,
     bread_done
<1>4. DataInv'
  BY BcacheAssumption DEF BcacheAssumption, BInv, TypeOK, AtInv, OwnerInv, CopyInv,
     DataInv, Clean, bread_done
<1>5. CountInv' /\ CopyInv'
  BY DEF BInv, CountInv, CopyInv, Users, Pins, bread_done
<1> QED BY <1>1, <1>2, <1>3, <1>4, <1>5 DEF BInv

\* The user of a buffer changes it while it has the lock.
LEMMA Step_modify ==
  ASSUME BInv, NEW p \in Procs, NEW v \in Vals, modify(p, v)
  PROVE  BInv'
<1>1. TypeOK'
  BY BcacheAssumption DEF BcacheAssumption, BInv, TypeOK, AtInv, modify
<1>2. DataInv'
  BY BcacheAssumption DEF BcacheAssumption, BInv, TypeOK, AtInv, OwnerInv, CopyInv,
     DataInv, Clean, modify
<1>3. AtInv' /\ OwnerInv' /\ CountInv' /\ CopyInv'
  BY DEF BInv, AtInv, OwnerInv, CountInv, CopyInv, Users, Pins, modify
<1> QED BY <1>1, <1>2, <1>3 DEF BInv

\* bwrite makes the block that of its only buffer.
LEMMA Step_bwrite ==
  ASSUME BInv, NEW p \in Procs, bwrite(p)
  PROVE  BInv'
<1>1. TypeOK'
  BY BcacheAssumption DEF BcacheAssumption, BInv, TypeOK, AtInv, bwrite
<1>2. DataInv'
  BY BcacheAssumption DEF BcacheAssumption, BInv, TypeOK, AtInv, OwnerInv, CopyInv,
     DataInv, Clean, bwrite
<1>3. AtInv' /\ OwnerInv' /\ CountInv' /\ CopyInv'
  BY DEF BInv, AtInv, OwnerInv, CountInv, CopyInv, Users, Pins, bwrite
<1> QED BY <1>1, <1>2, <1>3 DEF BInv

\* bpin counts the block's pin.
LEMMA Step_bpin ==
  ASSUME BInv, NEW p \in Procs, bpin(p)
  PROVE  BInv'
<1>1. TypeOK'
  BY BcacheAssumption DEF BcacheAssumption, BInv, TypeOK, AtInv, bpin
<1>2. CountInv'
  <2>1. \A w \in Bufs : Users(w)' = Users(w)
    BY DEF bpin, Users
  <2>2. at[p] \in Bufs /\ Pins(at[p]) = 0 /\ Pins(at[p])' = 1
    BY BcacheAssumption DEF BcacheAssumption, BInv, TypeOK, AtInv, bpin, Pins
  <2>3. \A w \in Bufs \ {at[p]} : Pins(w)' = Pins(w)
    BY <2>2, BcacheAssumption DEF BcacheAssumption, BInv, TypeOK, AtInv, CopyInv, bpin, Pins
  <2> QED
    BY <2>1, <2>2, <2>3, UsersFinite DEF BInv, TypeOK, CountInv, bpin
<1>3. CopyInv'
  BY FS_AddElement, BcacheAssumption
     DEF BcacheAssumption, BInv, TypeOK, AtInv, CopyInv, bpin
<1>4. DataInv'
  BY BcacheAssumption DEF BcacheAssumption, BInv, TypeOK, AtInv, OwnerInv, CopyInv,
     DataInv, Clean, bpin
<1>5. AtInv' /\ OwnerInv'
  BY SMTT(60) DEF BInv, AtInv, OwnerInv, bpin
<1> QED BY <1>1, <1>2, <1>3, <1>4, <1>5 DEF BInv

\* bunpin takes the pin of a clean buffer back.
LEMMA Step_bunpin ==
  ASSUME BInv, NEW p \in Procs, bunpin(p)
  PROVE  BInv'
<1>1. at[p] \in Bufs /\ refcnt[at[p]] > 0
  BY Referenced, BcacheAssumption DEF BcacheAssumption, BInv, TypeOK, AtInv, bunpin
<1>2. TypeOK'
  BY <1>1, BcacheAssumption DEF BcacheAssumption, BInv, TypeOK, AtInv, bunpin
<1>3. CountInv'
  <2>1. \A w \in Bufs : Users(w)' = Users(w)
    BY DEF bunpin, Users
  <2>2. at[p] \in Bufs /\ Pins(at[p]) = 1 /\ Pins(at[p])' = 0
    BY BcacheAssumption DEF BcacheAssumption, BInv, TypeOK, AtInv, bunpin, Pins
  <2>3. \A w \in Bufs \ {at[p]} : Pins(w)' = Pins(w)
    BY <2>2, BcacheAssumption DEF BcacheAssumption, BInv, TypeOK, AtInv, CopyInv, bunpin, Pins
  <2> QED
    BY <2>1, <2>2, <2>3, UsersFinite DEF BInv, TypeOK, CountInv, bunpin
<1>4. CopyInv'
  BY FS_RemoveElement DEF BInv, CopyInv, bunpin
<1>5. DataInv'
  BY <1>1, BcacheAssumption DEF BcacheAssumption, BInv, TypeOK, AtInv, OwnerInv,
     CopyInv, DataInv, Clean, bunpin
<1>6. AtInv' /\ OwnerInv'
  BY SMTT(60) DEF BInv, AtInv, OwnerInv, bunpin
<1> QED BY <1>2, <1>3, <1>4, <1>5, <1>6 DEF BInv

\* brelse gives up the sleep lock of a buffer that is clean or pinned.
LEMMA Step_brelse ==
  ASSUME BInv, NEW p \in Procs, brelse(p)
  PROVE  BInv'
<1>1. TypeOK'
  BY BcacheAssumption DEF BcacheAssumption, BInv, TypeOK, AtInv, brelse,
     releasesleep
<1>2. AtInv'
  BY BcacheAssumption DEF BcacheAssumption, BInv, TypeOK, AtInv, brelse,
     releasesleep
<1>3. OwnerInv'
  BY BcacheAssumption DEF BcacheAssumption, BInv, TypeOK, AtInv, OwnerInv, brelse,
     releasesleep
<1>4. DataInv'
  BY BcacheAssumption DEF BcacheAssumption, BInv, TypeOK, AtInv, OwnerInv, CopyInv,
     DataInv, Clean, brelse, releasesleep
<1>5. CountInv' /\ CopyInv'
  BY SMTT(60) DEF BInv, CountInv, CopyInv, Users, Pins, brelse, releasesleep
<1> QED BY <1>1, <1>2, <1>3, <1>4, <1>5 DEF BInv

\* brelse drops its reference; the buffer goes to the head of the list.
LEMMA Step_brelse_drop ==
  ASSUME BInv, NEW p \in Procs, brelse_drop(p)
  PROVE  BInv'
<1>1. at[p] \in Bufs /\ refcnt[at[p]] > 0
  BY Zenon, Referenced, BcacheAssumption DEF BcacheAssumption, BInv, TypeOK, AtInv, brelse_drop
<1>2. lru' \in Orders
  BY <1>1, FrontOrder DEF BInv, TypeOK, brelse_drop
<1>3. TypeOK'
  BY <1>1, <1>2, BcacheAssumption DEF BcacheAssumption, BInv, TypeOK, AtInv,
     brelse_drop
<1>4. AtInv'
  BY <1>1, <1>2, BcacheAssumption DEF BcacheAssumption, BInv, TypeOK, AtInv,
     brelse_drop
<1>5. OwnerInv'
  BY <1>1, <1>2, BcacheAssumption DEF BcacheAssumption, BInv, TypeOK, AtInv,
     OwnerInv, brelse_drop
<1>6. CountInv'
  <2>1. PICK u \in Bufs : u = at[p]
    BY <1>1
  <2>2. Users(u)' = Users(u) \ {p} /\ p \in Users(u)
    BY <2>1, BcacheAssumption DEF BcacheAssumption, BInv, TypeOK, Users, brelse_drop
  <2>3. \A w \in Bufs \ {u} : Users(w)' = Users(w)
    BY <2>1, BcacheAssumption DEF BcacheAssumption, BInv, TypeOK, Users, brelse_drop
  <2>4. \A w \in Bufs : Pins(w)' = Pins(w)
    BY DEF brelse_drop, Pins
  <2>5. Cardinality(Users(u)') = Cardinality(Users(u)) - 1
    BY SMTT(60), <2>2, UsersFinite, FS_RemoveElement
  <2> QED
    BY <2>1, <2>3, <2>4, <2>5, UsersFinite DEF BInv, TypeOK, CountInv, Pins, brelse_drop
<1>7. DataInv'
  BY <1>1, <1>2, BcacheAssumption DEF BcacheAssumption, BInv, TypeOK, AtInv,
     OwnerInv, CopyInv, DataInv, Clean, brelse_drop
<1>8. CopyInv'
  BY DEF BInv, CopyInv, brelse_drop
<1> QED BY <1>3, <1>4, <1>5, <1>6, <1>7, <1>8 DEF BInv

-----------------------------------------------------------------------------
\* After binit every buffer is unused and holds no block.
LEMMA InitInv == Init => BInv
<1> SUFFICES ASSUME Init PROVE BInv
  OBVIOUS
<1>1. TypeOK /\ AtInv /\ OwnerInv /\ DataInv
  BY BcacheAssumption DEF BcacheAssumption, Init, TypeOK, AtInv, OwnerInv, DataInv
<1>2. CountInv
  <2>1. \A u \in Bufs : Users(u) = {} /\ Pins(u) = 0
    BY BcacheAssumption DEF BcacheAssumption, Init, Users, Pins
  <2> QED
    BY <2>1, FS_EmptySet DEF Init, CountInv
<1>3. CopyInv
  BY FS_EmptySet DEF Init, CopyInv
<1> QED
  BY <1>1, <1>2, <1>3 DEF BInv

\* Every step of the cache's users keeps the invariant.
LEMMA NextInv ==
  ASSUME BInv, [Next]_vars
  PROVE  BInv'
<1>1. CASE UNCHANGED vars
  BY <1>1 DEF vars, BInv, TypeOK, AtInv, OwnerInv, CountInv, Users, Pins, CopyInv,
     DataInv, Clean
<1>2. CASE Next
  BY <1>2, Step_bget_hit, Step_bget_miss, Step_bget_panic, Step_acquiresleep,
     Step_bread_done, Step_modify, Step_bwrite, Step_bpin, Step_bunpin, Step_brelse,
     Step_brelse_drop DEF Next
<1> QED BY <1>1, <1>2

\* BInv holds in every reachable state, for any processes, buffers and blocks.
THEOREM CacheInvariant == Spec => []BInv
<1> QED BY InitInv, NextInv, PTL DEF Spec

----------------------------------------------------------------------------

\* bget finds a buffer unless users and pins are as many as the buffers.
LEMMA BufferLeft ==
  ASSUME BInv,
         Cardinality({p \in Procs : at[p] # None}) + Cardinality(pinned) < Cardinality(Bufs)
  PROVE  Unused # {}
<1> SUFFICES ASSUME Unused = {} PROVE FALSE
  OBVIOUS
<1> DEFINE users == {p \in Procs : at[p] # None}
           used == {u \in Bufs : Users(u) # {}}
           kept == {u \in Bufs : blockno[u] \in pinned}
<1>1. Bufs = used \cup kept
  <2>1. \A u \in Bufs : refcnt[u] # 0
    BY Zenon DEF BInv, TypeOK, Orders, Unused
  <2>2. ASSUME NEW u \in Bufs, Users(u) = {} PROVE blockno[u] \in pinned
    BY <2>1, <2>2, FS_EmptySet DEF BInv, CountInv, Pins
  <2> QED
    BY <2>2
<1>2. IsFiniteSet(users) /\ IsFiniteSet(used) /\ IsFiniteSet(kept) /\ IsFiniteSet(pinned)
  <2>1. users \in SUBSET Procs /\ used \in SUBSET Bufs /\ kept \in SUBSET Bufs
    OBVIOUS
  <2> QED
    BY Zenon, <2>1, FS_Subset, BcacheAssumption DEF BcacheAssumption, BInv, CopyInv
<1>3. Cardinality(used) <= Cardinality(users)
  <2> DEFINE f == [p \in users |-> at[p]]
  <2>1. f \in Surjection(users, used)
    BY Zenon, BcacheAssumption DEF BcacheAssumption, BInv, TypeOK, Users, Surjection
  <2> QED
    BY Zenon, <1>2, <2>1, FS_Surjection
<1>4. Cardinality(kept) <= Cardinality(pinned)
  <2> DEFINE g == [u \in kept |-> blockno[u]]
  <2>1. g \in Injection(kept, pinned)
    BY BcacheAssumption
       DEF BcacheAssumption, BInv, TypeOK, CopyInv, Injection, IsInjective
  <2> QED
    BY Zenon, <1>2, <2>1, FS_Injection
<1>5. Cardinality(Bufs) <= Cardinality(used) + Cardinality(kept)
  <2>1. Cardinality(used \cup kept)
          = Cardinality(used) + Cardinality(kept) - Cardinality(used \cap kept)
    BY Zenon, <1>2, FS_Union
  <2>2. Cardinality(used \cap kept) \in Nat
    BY Zenon, <1>2, FS_Intersection, FS_CardinalityType
  <2>3. Cardinality(used) \in Nat /\ Cardinality(kept) \in Nat
    BY <1>2, FS_CardinalityType
  <2> HIDE DEF used, kept
  <2> QED
    BY <1>1, <2>1, <2>2, <2>3
<1> QED
  BY <1>2, <1>3, <1>4, <1>5, FS_CardinalityType, BcacheAssumption DEF BcacheAssumption

\* A count is that of the users and pins, a block has one copy, and bget finds
\* a buffer while there is one.
THEOREM CountsExact == Spec => []RefsExact
<1>1. BInv => RefsExact
  BY Zenon, BufferLeft DEF BInv, CountInv, Users, Pins, CopyInv, RefsExact
<1> QED
  BY <1>1, CacheInvariant, PTL

----------------------------------------------------------------------------
(* The refinement of Blocks                                                 *)

\* Content and User without their choices
ContentFact ==
  \A b \in Block :
    /\ \A u \in Bufs : blockno[u] = b /\ valid[u] => Content(b) = data[u]
    /\ (\A u \in Bufs : blockno[u] = b => ~valid[u]) => Content(b) = disk[b]
UserFact ==
  \A b \in Block :
    /\ \A p \in Procs : pc[p] = "use" /\ blockno[at[p]] = b => User(b) = p
    /\ (\A p \in Procs : pc[p] = "use" => blockno[at[p]] # b) => User(b) = None

\* A block has one copy, and one process at most uses it.
LEMMA Chosen == BInv => ContentFact /\ UserFact
<1> SUFFICES ASSUME BInv, NEW b \in Block
             PROVE  /\ \A u \in Bufs : blockno[u] = b /\ valid[u] => Content(b) = data[u]
                    /\ (\A u \in Bufs : blockno[u] = b => ~valid[u]) => Content(b) = disk[b]
                    /\ \A p \in Procs : pc[p] = "use" /\ blockno[at[p]] = b => User(b) = p
                    /\ (\A p \in Procs : pc[p] = "use" => blockno[at[p]] # b) => User(b) = None
  BY Zenon DEF ContentFact, UserFact
<1>1. ASSUME NEW u \in Bufs, blockno[u] = b, valid[u] PROVE Content(b) = data[u]
  <2>1. \A w \in Bufs : blockno[w] = b /\ valid[w] => w = u
    BY Zenon, <1>1, BcacheAssumption DEF BcacheAssumption, BInv, CopyInv
  <2> QED
    BY Zenon, <1>1, <2>1 DEF Content
<1>2. (\A u \in Bufs : blockno[u] = b => ~valid[u]) => Content(b) = disk[b]
  BY DEF Content
<1>3. ASSUME NEW p \in Procs, pc[p] = "use", blockno[at[p]] = b PROVE User(b) = p
  <2>1. {q \in Procs : pc[q] = "use" /\ blockno[at[q]] = b} = {p}
    BY <1>3, BcacheAssumption
       DEF BcacheAssumption, BInv, TypeOK, AtInv, OwnerInv, CopyInv
  <2> QED
    BY <2>1 DEF User
<1>4. (\A p \in Procs : pc[p] = "use" => blockno[at[p]] # b) => User(b) = None
  BY DEF User
<1> QED
  BY Zenon, <1>1, <1>2, <1>3, <1>4

Same == \A b \in Block : Content(b)' = Content(b) /\ User(b)' = User(b)

\* Lookup, pins, writes to the disk, and the end of brelse do not show.
LEMMA SilentStep ==
  ASSUME BInv, BInv', ContentFact, UserFact, ContentFact', UserFact', NEW p \in Procs
  PROVE  \/ \E b \in Block : bget_hit(p, b) \/ bget_panic(p, b)
         \/ bpin(p) \/ bunpin(p) \/ brelse_drop(p) \/ bwrite(p)
         => Same
<1> DEFINE Kept == /\ UNCHANGED <<blockno, valid, data, disk>>
                   /\ \A q \in Procs : /\ pc'[q] = "use" <=> pc[q] = "use"
                                       /\ pc[q] = "use" => at'[q] = at[q]
<1>1. ASSUME Kept PROVE Same
  <2>1. \A b \in Block : Content(b)' = Content(b)
    BY Zenon, <1>1 DEF Content
  <2>2. \A q \in Procs : pc[q] = "use" => blockno'[at'[q]] = blockno[at[q]]
    BY <1>1
  <2>3. \A b \in Block : User(b)' = User(b)
    BY <1>1, <2>2 DEF UserFact
  <2> QED
    BY <2>1, <2>3 DEF Same
<1>2. ASSUME bwrite(p) PROVE Same
  <2>1. \A b \in Block : User(b)' = User(b)
    BY <1>2 DEF User, bwrite
  <2>2. at[p] \in Bufs /\ valid[at[p]] /\ blockno[at[p]] \in Block
    BY Zenon, <1>2, BcacheAssumption DEF BcacheAssumption, BInv, TypeOK, AtInv, DataInv, bwrite
  <2>3. \A b \in Block : Content(b)' = Content(b)
    BY <1>2, <2>2 DEF BInv, TypeOK, ContentFact, bwrite
  <2> QED
    BY <2>1, <2>3 DEF Same
<1>3. pc = [q \in Procs |-> pc[q]] /\ at \in [Procs -> Bufs \cup {None}]
  BY Zenon DEF BInv, TypeOK
<1>4. ASSUME NEW b \in Block, bget_hit(p, b) PROVE Kept
  BY <1>3, <1>4 DEF bget_hit
<1>5. ASSUME NEW b \in Block, bget_panic(p, b) PROVE Kept
  BY <1>3, <1>5 DEF bget_panic
<1>6. ASSUME bpin(p) \/ bunpin(p) PROVE Kept
  BY Zenon, <1>6 DEF bpin, bunpin
<1>7. ASSUME brelse_drop(p) PROVE Kept
  BY <1>3, <1>7 DEF brelse_drop
<1> HIDE DEF Kept
<1> QED
  BY Zenon, <1>1, <1>2, <1>4, <1>5, <1>6, <1>7

\* A recycled buffer held what the disk holds, or nothing.
LEMMA RecycleStep ==
  ASSUME BInv, BInv', ContentFact, UserFact, ContentFact', UserFact',
         NEW p \in Procs, NEW b \in Block, bget_miss(p, b)
  PROVE  Same
<1>1. PICK u \in Bufs :
        /\ refcnt[u] = 0
        /\ blockno' = [blockno EXCEPT ![u] = b] /\ valid' = [valid EXCEPT ![u] = FALSE]
        /\ at' = [at EXCEPT ![p] = u]
  BY Zenon DEF BInv, TypeOK, Orders, Unused, bget_miss
<1>2. \A q \in Procs : at[q] # u
  BY Zenon, <1>1, Unreferenced DEF Users
<1>3. valid[u] => data[u] = disk[blockno[u]]
  BY Zenon, <1>1, Unreferenced DEF BInv, DataInv, Clean
<1>4. \A w \in Bufs : blockno[w] # b
  BY DEF Cached, bget_miss
<1>5. ASSUME NEW a \in Block PROVE Content(a)' = Content(a)
  <2>1. CASE \E w \in Bufs \ {u} : blockno[w] = a /\ valid[w]
    BY <1>1, <2>1 DEF BInv, TypeOK, ContentFact, bget_miss
  <2>2. CASE \A w \in Bufs \ {u} : ~(blockno[w] = a /\ valid[w])
    <3>1. Content(a) = disk[a]
      BY Zenon, <1>3, <2>2 DEF ContentFact
    <3>2. Content(a)' = disk[a]
      BY Zenon, <1>1, <1>4, <2>2 DEF BInv, TypeOK, ContentFact, bget_miss
    <3> QED
      BY <3>1, <3>2
  <2> QED
    BY Zenon, <2>1, <2>2
<1>6. \A q \in Procs : /\ pc'[q] = "use" <=> pc[q] = "use"
                       /\ pc[q] = "use" => blockno'[at'[q]] = blockno[at[q]]
  BY <1>1, <1>2 DEF BInv, TypeOK, bget_miss
<1>7. ASSUME NEW a \in Block PROVE User(a)' = User(a)
  <2>1. CASE \E q \in Procs : pc[q] = "use" /\ blockno[at[q]] = a
    BY <1>6, <2>1 DEF UserFact
  <2>2. CASE \A q \in Procs : pc[q] = "use" => blockno[at[q]] # a
    BY <1>6, <2>2 DEF UserFact
  <2> QED
    BY Zenon, <2>1, <2>2
<1> QED
  BY <1>5, <1>7 DEF Same

\* The sleep lock of a block's one buffer has one holder.
LEMMA SoleUser ==
  ASSUME BInv, NEW p \in Procs, NEW q \in Procs, pc[p] \in {"read", "use"},
         pc[q] \in {"read", "use"}, blockno[at[q]] = blockno[at[p]]
  PROVE  q = p
<1>1. /\ at[p] # None /\ at[q] # None /\ blockno[at[p]] \in Block
      /\ owner[at[p]] = p /\ owner[at[q]] = q
  BY Zenon DEF BInv, AtInv, OwnerInv
<1>2. at[p] \in Bufs /\ at[q] \in Bufs /\ blockno[at[p]] # None
  BY Zenon, <1>1, BcacheAssumption DEF BcacheAssumption, BInv, TypeOK
<1>3. at[p] = at[q]
  BY Zenon, <1>2 DEF BInv, CopyInv
<1> QED
  BY Zenon, <1>1, <1>3

\* The same after a step.
LEMMA SoleUserNext ==
  ASSUME BInv', NEW p \in Procs, NEW q \in Procs, pc'[p] \in {"read", "use"},
         pc'[q] \in {"read", "use"}, blockno'[at'[q]] = blockno'[at'[p]]
  PROVE  q = p
<1>1. /\ at'[p] # None /\ at'[q] # None /\ blockno'[at'[p]] \in Block
      /\ owner'[at'[p]] = p /\ owner'[at'[q]] = q
  BY Zenon DEF BInv, AtInv, OwnerInv
<1>2. at'[p] \in Bufs /\ at'[q] \in Bufs /\ blockno'[at'[p]] # None
  BY Zenon, <1>1, BcacheAssumption DEF BcacheAssumption, BInv, TypeOK
<1>3. at'[p] = at'[q]
  BY Zenon, <1>2 DEF BInv, CopyInv
<1> QED
  BY Zenon, <1>1, <1>3

\* bread hands a block out when it has the sleep lock and the content: at once
\* if the buffer was read before, else with the transfer.
LEMMA TakeStep ==
  ASSUME BInv, BInv', ContentFact, UserFact, ContentFact', UserFact', NEW p \in Procs,
         (acquiresleep(p) /\ valid[at[p]]) \/ bread_done(p)
  PROVE  Store!Next
<1>1. PICK u \in Bufs : u = at[p]
  BY Zenon, BcacheAssumption DEF BcacheAssumption, BInv, TypeOK, AtInv, acquiresleep, bread_done
<1>2. PICK b \in Block : b = blockno[u]
  BY SMTT(60), <1>1, BcacheAssumption DEF BcacheAssumption, BInv, AtInv
<1>3. pc' = [pc EXCEPT ![p] = "use"] /\ at' = at /\ blockno' = blockno /\ disk' = disk
  BY Zenon DEF acquiresleep, bread_done
<1>4. User(b) = None
  <2>1. pc'[p] = "use" /\ \A q \in Procs \ {p} : pc'[q] = pc[q]
    BY Zenon, <1>3 DEF BInv, TypeOK
  <2>2. pc[p] # "use"
    BY Zenon DEF acquiresleep, bread_done
  <2>3. \A q \in Procs : pc'[q] = "use" /\ blockno'[at'[q]] = b => q = p
    BY SoleUserNext, <1>1, <1>2, <1>3, <2>1
  <2>4. \A q \in Procs : pc[q] = "use" => blockno[at[q]] # b
    BY Zenon, <1>3, <2>1, <2>2, <2>3
  <2> QED
    BY Zenon, <2>4 DEF UserFact
<1>5. User(b)' = p
  BY Zenon, <1>1, <1>2, <1>3 DEF BInv, TypeOK, UserFact
<1>6. \A a \in Block \ {b} : User(a)' = User(a)
  BY <1>1, <1>2, <1>3 DEF BInv, TypeOK, UserFact
<1>7. \A a \in Block : Content(a)' = Content(a)
  <2>1. CASE acquiresleep(p)
    BY Zenon, <2>1 DEF Content, acquiresleep
  <2>2. CASE bread_done(p)
    <3>1. /\ valid' = [valid EXCEPT ![u] = TRUE] /\ data' = [data EXCEPT ![u] = disk[b]]
          /\ pc[p] = "read" /\ ~valid[u]
      BY Zenon, <1>1, <1>2, <2>2 DEF BInv, DataInv, bread_done
    <3>2. /\ valid'[u] /\ data'[u] = disk[b] /\ blockno'[u] = b
          /\ \A w \in Bufs : w # u => valid'[w] = valid[w] /\ data'[w] = data[w]
      BY Zenon, <1>2, <1>3, <3>1 DEF BInv, TypeOK
    <3>3. \A w \in Bufs : blockno[w] = b => w = u
      BY Zenon, <1>2, BcacheAssumption DEF BcacheAssumption, BInv, CopyInv
    <3>4. Content(b)' = disk[b] /\ Content(b) = disk[b]
      BY Zenon, <3>1, <3>2, <3>3 DEF ContentFact
    <3>5. ASSUME NEW a \in Block, a # b PROVE Content(a)' = Content(a)
      <4>1. CASE \E w \in Bufs : blockno[w] = a /\ valid[w]
        BY <1>2, <1>3, <3>2, <3>5, <4>1 DEF ContentFact
      <4>2. CASE \A w \in Bufs : blockno[w] = a => ~valid[w]
        BY <1>2, <1>3, <3>2, <3>5, <4>2 DEF ContentFact
      <4> QED
        BY Zenon, <4>1, <4>2
    <3> QED
      BY Zenon, <3>4, <3>5
  <2> QED
    BY <2>1, <2>2
<1>8. Store!Take(p, b)
  BY Zenon, <1>2, <1>4, <1>5, <1>6, <1>7 DEF Store!Take
<1> QED
  BY Zenon, <1>8 DEF Store!Next

\* A content changes by its user.
LEMMA ChangeStep ==
  ASSUME BInv, BInv', ContentFact, UserFact, ContentFact', UserFact',
         NEW p \in Procs, NEW v \in Vals, modify(p, v)
  PROVE  Store!Next
<1>1. PICK u \in Bufs : u = at[p] /\ valid[u]
  BY BcacheAssumption DEF BcacheAssumption, BInv, TypeOK, AtInv, DataInv, modify
<1>2. PICK b \in Block : b = blockno[u]
  BY SMTT(60), <1>1, BcacheAssumption DEF BcacheAssumption, BInv, AtInv
<1>3. User(b) = p /\ \A a \in Block : User(a)' = User(a)
  <2>1. pc' = pc /\ at' = at /\ blockno' = blockno /\ pc[p] = "use"
    BY Zenon DEF modify
  <2>2. User(b) = p
    BY Zenon, <1>1, <1>2, <2>1 DEF UserFact
  <2>3. \A a \in Block : User(a)' = User(a)
    BY <2>1 DEF User
  <2> QED
    BY Zenon, <2>2, <2>3
<1>4. Content(b)' = v
  BY Zenon, <1>1, <1>2 DEF BInv, TypeOK, ContentFact, modify
<1>5. \A a \in Block \ {b} : Content(a)' = Content(a)
  BY <1>1, <1>2 DEF BInv, TypeOK, ContentFact, modify
<1>6. Store!Change(p, b, v)
  BY Zenon, <1>2, <1>3, <1>4, <1>5 DEF Store!Change
<1> QED
  BY <1>6 DEF Store!Next

\* brelse gives the block back as it is.
LEMMA GiveStep ==
  ASSUME BInv, BInv', ContentFact, UserFact, ContentFact', UserFact', NEW p \in Procs,
         brelse(p)
  PROVE  Store!Next
<1>1. PICK b \in Block : b = blockno[at[p]]
  BY Zenon, BcacheAssumption DEF BcacheAssumption, BInv, AtInv, brelse
<1>2. User(b) = p
  BY Zenon, <1>1 DEF UserFact, brelse
<1>3. \A q \in Procs \ {p} : pc[q] = "use" => blockno[at[q]] # b
  BY Zenon, <1>1, SoleUser DEF brelse
<1>4. User(b)' = None
  BY Zenon, <1>1, <1>3 DEF BInv, TypeOK, UserFact, brelse
<1>5. \A a \in Block \ {b} : User(a)' = User(a)
  BY <1>1 DEF BInv, TypeOK, UserFact, brelse
<1>6. \A a \in Block : Content(a)' = Content(a)
  BY Zenon DEF Content, brelse
<1>7. Store!Give(p, b)
  BY Zenon, <1>1, <1>2, <1>4, <1>5, <1>6 DEF Store!Give
<1> QED
  BY <1>7 DEF Store!Next

\* The sleep lock of a buffer that has to be read first: not in use yet.
LEMMA LockStep ==
  ASSUME BInv, BInv', UserFact, UserFact', NEW p \in Procs, acquiresleep(p), ~valid[at[p]]
  PROVE  Same
<1>1. \A b \in Block : Content(b)' = Content(b)
  BY Zenon DEF Content, acquiresleep
<1>2. \A q \in Procs : pc'[q] = "use" <=> pc[q] = "use"
  BY Zenon DEF BInv, TypeOK, acquiresleep
<1>3. at' = at /\ blockno' = blockno
  BY Zenon DEF acquiresleep
<1>4. \A b \in Block : User(b)' = User(b)
  BY Zenon, <1>2, <1>3 DEF UserFact
<1> QED
  BY Zenon, <1>1, <1>4 DEF Same

\* The buffer cache implements the store of blocks.
THEOREM CacheRefinesBlocks == Spec => ImplementsBlocks
<1>1. Init => Store!Init
  <2> SUFFICES ASSUME Init, NEW b \in Block PROVE Content(b) = zero /\ User(b) = None
    BY DEF Store!Init
  <2> QED
    BY DEF Init, Content, User
<1>2. BInv' => ContentFact' /\ UserFact'
  BY Chosen, PTL
<1>3. BInv /\ BInv' /\ [Next]_vars => [Store!Next]_(Store!vars)
  <2> SUFFICES ASSUME BInv, BInv', [Next]_vars
               PROVE  Store!Next \/ UNCHANGED Store!vars
    OBVIOUS
  <2>1. ContentFact /\ UserFact /\ ContentFact' /\ UserFact'
    BY <1>2, Chosen
  <2>2. Same => UNCHANGED Store!vars
    BY DEF Same, Store!vars
  <2>3. CASE UNCHANGED vars
    <3>1. \A b \in Block : Content(b)' = Content(b) /\ User(b)' = User(b)
      <4>1. /\ pc' = pc /\ at' = at /\ blockno' = blockno /\ valid' = valid /\ data' = data
            /\ disk' = disk
        BY Zenon, <2>3 DEF vars
      <4>2. \A b \in Block : User(b)' = User(b)
        BY <4>1 DEF User
      <4>3. \A b \in Block : Content(b)' = Content(b)
        BY <4>1 DEF Content
      <4> QED
        BY Zenon, <4>2, <4>3
    <3> QED
      BY Zenon, <2>2, <3>1 DEF Same
  <2>4. CASE Next
    <3>1. PICK p \in Procs :
            \/ \E b \in Block : bget_hit(p, b) \/ bget_miss(p, b) \/ bget_panic(p, b)
            \/ acquiresleep(p) \/ bread_done(p)
            \/ \E v \in Vals : modify(p, v)
            \/ bwrite(p) \/ bpin(p) \/ bunpin(p)
            \/ brelse(p) \/ brelse_drop(p)
      BY Zenon, <2>4 DEF Next
    <3>2. ASSUME \/ \E b \in Block : bget_hit(p, b) \/ bget_panic(p, b)
                 \/ bpin(p) \/ bunpin(p) \/ brelse_drop(p) \/ bwrite(p)
          PROVE  Same
      BY Zenon, <2>1, <3>2, SilentStep
    <3>3. ASSUME NEW b \in Block, bget_miss(p, b) PROVE Same
      BY Zenon, <2>1, <3>3, RecycleStep
    <3>4. ASSUME acquiresleep(p) \/ bread_done(p) PROVE Store!Next \/ Same
      BY Zenon, <2>1, <3>4, TakeStep, LockStep
    <3>5. ASSUME NEW v \in Vals, modify(p, v) PROVE Store!Next
      BY Zenon, <2>1, <3>5, ChangeStep
    <3>6. ASSUME brelse(p) PROVE Store!Next
      BY Zenon, <2>1, <3>6, GiveStep
    <3> QED
      BY Zenon, <2>2, <3>1, <3>2, <3>3, <3>4, <3>5, <3>6
  <2> QED
    BY <2>3, <2>4
<1> QED
  BY <1>1, <1>3, CacheInvariant, PTL DEF Spec, ImplementsBlocks, Store!Spec
=============================================================================
