------------------------------- MODULE Bcache -------------------------------
(***************************************************************************)
(* The buffer cache of kernel/bio.c: bget's lookup and recycling, bread,   *)
(* bwrite, brelse, bpin and bunpin, with the sleep lock of each buffer.    *)
(*                                                                         *)
(* What bcache.lock protects is one step.  A sleep lock is free or has an  *)
(* owner; a transfer by virtio_disk_rw is the step in which it completes,  *)
(* as the buffer is locked meanwhile.  A thread that uses two buffers at a *)
(* time counts as two processes.                                           *)
(***************************************************************************)
EXTENDS Naturals, FiniteSets

CONSTANTS
  Procs, Bufs, Block,
  Vals, zero,       \* contents of a block; what the disk holds at first
  None,
  MaxPins           \* most blocks the log keeps pinned at a time

ASSUME BcacheAssumption ==
  /\ IsFiniteSet(Procs) /\ IsFiniteSet(Bufs) /\ Bufs # {}
  /\ zero \in Vals /\ MaxPins \in Nat
  /\ None \notin Procs \cup Bufs \cup Block

VARIABLES
  lru,      \* bcache.head's list, the most recently used buffer first
  blockno,  \* of each buffer; None before its first use
  valid, refcnt, data,
  owner,    \* of the buffer's sleep lock
  disk,
  pinned,   \* the blocks the log has pinned
  pc,       \* idle, lock (in acquiresleep), read (in virtio_disk_rw), use,
            \* drop (in brelse, the sleep lock released), panic
  at        \* the buffer bget returned

vars == <<lru, blockno, valid, refcnt, data, owner, disk, pinned, pc, at>>

\* The orders of all the buffers
Orders == {s \in [1 .. Cardinality(Bufs) -> Bufs] : \A u \in Bufs : \E i \in DOMAIN s : s[i] = u}

\* binit chains all the buffers, in whatever order.
Init ==
  /\ lru \in Orders
  /\ blockno = [u \in Bufs |-> None]
  /\ valid = [u \in Bufs |-> FALSE]
  /\ refcnt = [u \in Bufs |-> 0]
  /\ data = [u \in Bufs |-> zero]
  /\ owner = [u \in Bufs |-> None]
  /\ disk = [b \in Block |-> zero]
  /\ pinned = {}
  /\ pc = [p \in Procs |-> "idle"]
  /\ at = [p \in Procs |-> None]

----------------------------------------------------------------------------
(* bread: bget, acquiresleep and the transfer                               *)

Cached(b) == \E u \in Bufs : blockno[u] = b

bget_hit(p, b) ==
  /\ pc[p] = "idle"
  /\ \E u \in Bufs :
       /\ blockno[u] = b
       /\ refcnt' = [refcnt EXCEPT ![u] = @ + 1]
       /\ at' = [at EXCEPT ![p] = u]
  /\ pc' = [pc EXCEPT ![p] = "lock"]
  /\ UNCHANGED <<lru, blockno, valid, data, owner, disk, pinned>>

Unused == {i \in DOMAIN lru : refcnt[lru[i]] = 0}

\* Mutant: another process may have cached the block in the meantime.
bget_miss_NoLookup(p, b) ==
  /\ pc[p] = "idle"
  /\ \E i \in Unused :
     /\ \A j \in Unused : j <= i
     /\ blockno' = [blockno EXCEPT ![lru[i]] = b]
     /\ valid' = [valid EXCEPT ![lru[i]] = FALSE]
     /\ refcnt' = [refcnt EXCEPT ![lru[i]] = 1]
     /\ at' = [at EXCEPT ![p] = lru[i]]
  /\ pc' = [pc EXCEPT ![p] = "lock"]
  /\ UNCHANGED <<lru, data, owner, disk, pinned>>

\* Mutant: the recycled buffer still counts as read.
bget_miss_StaysValid(p, b) ==
  /\ pc[p] = "idle" /\ ~Cached(b)
  /\ \E i \in Unused :
     /\ \A j \in Unused : j <= i
     /\ blockno' = [blockno EXCEPT ![lru[i]] = b]
     /\ refcnt' = [refcnt EXCEPT ![lru[i]] = 1]
     /\ at' = [at EXCEPT ![p] = lru[i]]
  /\ pc' = [pc EXCEPT ![p] = "lock"]
  /\ UNCHANGED <<lru, valid, data, owner, disk, pinned>>

\* Recycle the least recently used buffer that is unused.
bget_miss(p, b) ==
  /\ pc[p] = "idle" /\ ~Cached(b)
  /\ \E i \in Unused :
     /\ \A j \in Unused : j <= i
     /\ blockno' = [blockno EXCEPT ![lru[i]] = b]
     /\ valid' = [valid EXCEPT ![lru[i]] = FALSE]
     /\ refcnt' = [refcnt EXCEPT ![lru[i]] = 1]
     /\ at' = [at EXCEPT ![p] = lru[i]]
  /\ pc' = [pc EXCEPT ![p] = "lock"]
  /\ UNCHANGED <<lru, data, owner, disk, pinned>>

\* panic("bget: no buffers")
bget_panic(p, b) ==
  /\ pc[p] = "idle" /\ ~Cached(b) /\ Unused = {}
  /\ pc' = [pc EXCEPT ![p] = "panic"]
  /\ UNCHANGED <<lru, blockno, valid, refcnt, data, owner, disk, pinned, at>>

acquiresleep(p) ==
  /\ pc[p] = "lock" /\ owner[at[p]] = None
  /\ owner' = [owner EXCEPT ![at[p]] = p]
  /\ pc' = [pc EXCEPT ![p] = IF valid[at[p]] THEN "use" ELSE "read"]
  /\ UNCHANGED <<lru, blockno, valid, refcnt, data, disk, pinned, at>>

bread_done(p) ==
  /\ pc[p] = "read"
  /\ data' = [data EXCEPT ![at[p]] = disk[blockno[at[p]]]]
  /\ valid' = [valid EXCEPT ![at[p]] = TRUE]
  /\ pc' = [pc EXCEPT ![p] = "use"]
  /\ UNCHANGED <<lru, blockno, refcnt, owner, disk, pinned, at>>

----------------------------------------------------------------------------
(* What the holder of a buffer does with it                                 *)

Clean(u) == data[u] = disk[blockno[u]]

modify(p, v) ==
  /\ pc[p] = "use"
  /\ data' = [data EXCEPT ![at[p]] = v]
  /\ UNCHANGED <<lru, blockno, valid, refcnt, owner, disk, pinned, pc, at>>

bwrite(p) ==
  /\ pc[p] = "use"
  /\ disk' = [disk EXCEPT ![blockno[at[p]]] = data[at[p]]]
  /\ UNCHANGED <<lru, blockno, valid, refcnt, data, owner, pinned, pc, at>>

\* log_write pins a block once for each transaction.
bpin(p) ==
  /\ pc[p] = "use" /\ blockno[at[p]] \notin pinned /\ Cardinality(pinned) < MaxPins
  /\ pinned' = pinned \cup {blockno[at[p]]}
  /\ refcnt' = [refcnt EXCEPT ![at[p]] = @ + 1]
  /\ UNCHANGED <<lru, blockno, valid, data, owner, disk, pc, at>>

\* install_trans unpins a block it has just written to its place.
bunpin(p) ==
  /\ pc[p] = "use" /\ blockno[at[p]] \in pinned /\ Clean(at[p])
  /\ pinned' = pinned \ {blockno[at[p]]}
  /\ refcnt' = [refcnt EXCEPT ![at[p]] = @ - 1]
  /\ UNCHANGED <<lru, blockno, valid, data, owner, disk, pc, at>>

releasesleep(u) == owner' = [owner EXCEPT ![u] = None]

\* A modified buffer is written or pinned before it is released.
brelse(p) ==
  /\ pc[p] = "use" /\ (Clean(at[p]) \/ blockno[at[p]] \in pinned)
  /\ releasesleep(at[p])
  /\ pc' = [pc EXCEPT ![p] = "drop"]
  /\ UNCHANGED <<lru, blockno, valid, refcnt, data, disk, pinned, at>>

\* The list s with u taken out and put at its head
ToFront(s, u) ==
  LET k == CHOOSE i \in DOMAIN s : s[i] = u IN
  [i \in DOMAIN s |-> IF i = 1 THEN u ELSE IF i <= k THEN s[i - 1] ELSE s[i]]

\* The rest of brelse, under bcache.lock.
brelse_drop(p) ==
  LET u == at[p] IN
  /\ pc[p] = "drop"
  /\ refcnt' = [refcnt EXCEPT ![u] = @ - 1]
  /\ lru' = IF refcnt[u] = 1 THEN ToFront(lru, u) ELSE lru
  /\ pc' = [pc EXCEPT ![p] = "idle"]
  /\ at' = [at EXCEPT ![p] = None]
  /\ UNCHANGED <<blockno, valid, data, owner, disk, pinned>>

Next ==
  \E p \in Procs :
    \/ \E b \in Block : bget_hit(p, b) \/ bget_miss(p, b) \/ bget_panic(p, b)
    \/ acquiresleep(p) \/ bread_done(p)
    \/ \E v \in Vals : modify(p, v)
    \/ bwrite(p) \/ bpin(p) \/ bunpin(p)
    \/ brelse(p) \/ brelse_drop(p)

Spec == Init /\ [][Next]_vars

----------------------------------------------------------------------------
(* Properties                                                               *)

TypeOK ==
  /\ lru \in Orders
  /\ blockno \in [Bufs -> Block \cup {None}]
  /\ valid \in [Bufs -> BOOLEAN]
  /\ refcnt \in [Bufs -> Nat]
  /\ data \in [Bufs -> Vals]
  /\ owner \in [Bufs -> Procs \cup {None}]
  /\ disk \in [Block -> Vals]
  /\ pinned \subseteq Block
  /\ pc \in [Procs -> {"idle", "lock", "read", "use", "drop", "panic"}]
  /\ at \in [Procs -> Bufs \cup {None}]

\* A reference count is the number of processes between bget and the end of
\* brelse, and of pins: a buffer that is waited for, or whose sleep lock brelse
\* has already released, is never taken for unused.  A block is never in two
\* buffers, however bget's misses interleave.  bget finds a buffer as long as
\* users, waiters and pins are fewer than the buffers: panic("bget: no
\* buffers") means that they really are all taken.
RefsExact ==
  /\ TypeOK
  /\ \A u \in Bufs :
       refcnt[u] = Cardinality({p \in Procs : at[p] = u})
                   + (IF blockno[u] \in pinned THEN 1 ELSE 0)
  /\ \A u, w \in Bufs : blockno[u] # None /\ blockno[u] = blockno[w] => u = w
  /\ Cardinality({p \in Procs : at[p] # None}) + Cardinality(pinned) < Cardinality(Bufs)
       => Unused # {}

\* The cache implements the store of Blocks: the user of a block is the
\* process bread has returned it to, its content that of its buffer if it has
\* been read and that of the disk otherwise.
Content(b) ==
  IF \E u \in Bufs : blockno[u] = b /\ valid[u]
  THEN data[CHOOSE u \in Bufs : blockno[u] = b /\ valid[u]] ELSE disk[b]

User(b) ==
  LET us == {p \in Procs : pc[p] = "use" /\ blockno[at[p]] = b} IN
  IF us = {} THEN None ELSE CHOOSE p \in us : TRUE

Store == INSTANCE Blocks WITH
  content <- [b \in Block |-> Content(b)],
  user <- [b \in Block |-> User(b)]

\* One user at a time, and no content changes but by its user: not by
\* recycling a buffer, reading it again, or another's release.
ImplementsBlocks == Store!Spec
=============================================================================
