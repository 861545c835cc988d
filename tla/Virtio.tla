------------------------------- MODULE Virtio -------------------------------
(***************************************************************************)
(* The disk driver of kernel/virtio_disk.c: virtio_disk_rw, its allocation *)
(* of descriptors, the rings it shares with the device, and                *)
(* virtio_disk_intr.                                                       *)
(*                                                                         *)
(* Every process transfers a buffer of its own, which it has locked.  The  *)
(* device takes requests from the available ring in order, finishes them   *)
(* in any order, and does not hold vdisk_lock: it interleaves with every   *)
(* step of the driver.  The 16-bit indices of the rings wrap at IdxMod.  A *)
(* slot of a ring that has been read is cleared, as nobody may read it     *)
(* again before it is written.                                             *)
(***************************************************************************)
EXTENDS Integers, FiniteSets

CONSTANTS
  Procs, None,
  NUM,       \* descriptors, and entries of each ring
  IdxMod     \* 2^16 in the code: a multiple of NUM

ASSUME VirtioAssumption ==
  /\ IsFiniteSet(Procs) /\ "intr" \notin Procs
  /\ None \notin Procs \cup Int \cup {"intr"}
  /\ NUM \in Nat /\ NUM >= 3 /\ IdxMod \in Nat \ {0} /\ IdxMod % NUM = 0

VARIABLES
  free, desc, info,   \* disk.free, disk.desc (next, buf), disk.info (b, status)
  avail, availIdx,    \* the available ring and its index
  used, usedIdx,      \* the used ring and the device's index
  used_idx,           \* how far the driver has looked
  lock,               \* vdisk_lock: a process, "intr" or None
  pc,                 \* idle, alloc (may look for descriptors), nodesc
                      \* (asleep on disk.free), publish, test (about to
                      \* sleep), wait (asleep on b), woken
  idx0,               \* idx[0] of each process
  disk,               \* b->disk
  taken, working,     \* the device: its index into avail, chains it works on
  done,               \* whether the device has transferred the buffer
  irq                 \* the interrupt is pending

driver == <<free, desc, info, avail, availIdx, used_idx, lock, pc, idx0, disk>>
device == <<used, usedIdx, taken, working, done>>
vars == <<driver, device, irq>>

D == 0 .. (NUM - 1)
Clear == [next |-> None, buf |-> None]

Init ==
  /\ free = D
  /\ desc = [d \in D |-> Clear]
  /\ info = [d \in D |-> [b |-> None, status |-> 0]]
  /\ avail = [d \in D |-> None] /\ availIdx = 0
  /\ used = [d \in D |-> None] /\ usedIdx = 0 /\ used_idx = 0
  /\ lock = None
  /\ pc = [p \in Procs |-> "idle"]
  /\ idx0 = [p \in Procs |-> None]
  /\ disk = [p \in Procs |-> FALSE]
  /\ taken = 0 /\ working = {}
  /\ done = [p \in Procs |-> FALSE]
  /\ irq = FALSE

----------------------------------------------------------------------------
(* virtio_disk_rw                                                           *)

\* wakeup(&disk.free[0]), with a change of p's own place
WakeAlloc(p, l) ==
  pc' = [q \in Procs |-> IF q = p THEN l ELSE IF pc[q] = "nodesc" THEN "alloc" ELSE pc[q]]

rw(p) ==
  /\ pc[p] = "idle"
  /\ pc' = [pc EXCEPT ![p] = "alloc"]
  /\ done' = [done EXCEPT ![p] = FALSE]
  /\ UNCHANGED <<free, desc, info, avail, availIdx, used_idx, lock, idx0, disk,
                 used, usedIdx, taken, working, irq>>

\* alloc3_desc fails: what it got is given back, which wakes the others, and
\* the process sleeps.
alloc3_desc_fail(p) ==
  /\ pc[p] = "alloc" /\ lock = None /\ Cardinality(free) < 3
  /\ IF free = {} THEN pc' = [pc EXCEPT ![p] = "nodesc"] ELSE WakeAlloc(p, "nodesc")
  /\ UNCHANGED <<free, desc, info, avail, availIdx, used_idx, lock, idx0, disk, device, irq>>

Nth(n) == CHOOSE d \in free : Cardinality({e \in free : e < d}) = n

\* alloc3_desc takes the three lowest; the request is set up behind the first
\* barrier.
alloc3_desc(p) ==
  LET a == Nth(0)
      b == Nth(1)
      c == Nth(2)
  IN
  /\ pc[p] = "alloc" /\ lock = None /\ Cardinality(free) >= 3
  /\ free' = free \ {a, b, c}
  /\ desc' = [desc EXCEPT ![a] = [next |-> b, buf |-> None],
                          ![b] = [next |-> c, buf |-> p], ![c] = Clear]
  /\ info' = [info EXCEPT ![a] = [b |-> p, status |-> 255]]
  /\ disk' = [disk EXCEPT ![p] = TRUE]
  /\ avail' = [avail EXCEPT ![availIdx % NUM] = a]
  /\ idx0' = [idx0 EXCEPT ![p] = a]
  /\ lock' = p
  /\ pc' = [pc EXCEPT ![p] = "publish"]
  /\ UNCHANGED <<availIdx, used_idx, device, irq>>

\* The index behind its barrier, and the notification.  The device may start,
\* and even finish, before the process sleeps.
publish(p) ==
  /\ pc[p] = "publish"
  /\ availIdx' = (availIdx + 1) % IdxMod
  /\ pc' = [pc EXCEPT ![p] = "test"]
  /\ UNCHANGED <<free, desc, info, avail, used_idx, lock, idx0, disk, device, irq>>

\* while(b->disk == 1) sleep(b, &disk.vdisk_lock), the first time with the
\* lock held and, after a wakeup, with the lock taken again.
wait(p) ==
  /\ \/ pc[p] = "test"
     \/ pc[p] = "woken" /\ lock = None
  /\ disk[p]
  /\ lock' = None
  /\ pc' = [pc EXCEPT ![p] = "wait"]
  /\ UNCHANGED <<free, desc, info, avail, availIdx, used_idx, idx0, disk, device, irq>>

\* kill() of proc.c makes a process runnable wherever it sleeps.
kill(p) ==
  /\ pc[p] \in {"wait", "nodesc"}
  /\ pc' = [pc EXCEPT ![p] = IF @ = "wait" THEN "woken" ELSE "alloc"]
  /\ UNCHANGED <<free, desc, info, avail, availIdx, used_idx, lock, idx0, disk, device, irq>>

Chain(a) == {a, desc[a].next, desc[desc[a].next].next}

\* Mutant: woken is taken for finished.
finish_NoTest(p) ==
  /\ pc[p] = "woken" /\ lock = None
  /\ info' = [info EXCEPT ![idx0[p]].b = None]
  /\ free' = free \cup Chain(idx0[p])
  /\ desc' = [d \in D |-> IF d \in Chain(idx0[p]) THEN Clear ELSE desc[d]]
  /\ idx0' = [idx0 EXCEPT ![p] = None]
  /\ WakeAlloc(p, "idle")
  /\ UNCHANGED <<avail, availIdx, used_idx, lock, disk, device, irq>>

\* Mutant: nobody is told of the free descriptors.
finish_NoWakeup(p) ==
  /\ pc[p] = "woken" /\ lock = None /\ ~disk[p]
  /\ info' = [info EXCEPT ![idx0[p]].b = None]
  /\ free' = free \cup Chain(idx0[p])
  /\ desc' = [d \in D |-> IF d \in Chain(idx0[p]) THEN Clear ELSE desc[d]]
  /\ idx0' = [idx0 EXCEPT ![p] = None]
  /\ pc' = [pc EXCEPT ![p] = "idle"]
  /\ UNCHANGED <<avail, availIdx, used_idx, lock, disk, device, irq>>

\* b->disk is 0: free_chain.
finish(p) ==
  /\ pc[p] = "woken" /\ lock = None /\ ~disk[p]
  /\ info' = [info EXCEPT ![idx0[p]].b = None]
  /\ free' = free \cup Chain(idx0[p])
  /\ desc' = [d \in D |-> IF d \in Chain(idx0[p]) THEN Clear ELSE desc[d]]
  /\ idx0' = [idx0 EXCEPT ![p] = None]
  /\ WakeAlloc(p, "idle")
  /\ UNCHANGED <<avail, availIdx, used_idx, lock, disk, device, irq>>

----------------------------------------------------------------------------
(* The device                                                               *)

device_take ==
  /\ taken # availIdx
  /\ working' = working \cup {avail[taken % NUM]}
  /\ avail' = [avail EXCEPT ![taken % NUM] = None]
  /\ taken' = (taken + 1) % IdxMod
  /\ UNCHANGED <<free, desc, info, availIdx, used_idx, lock, pc, idx0, disk,
                 used, usedIdx, done, irq>>

\* Transfer the buffer of a chain, set its status, and tell the driver.
device_done(a) ==
  /\ a \in working
  /\ working' = working \ {a}
  /\ done' = [p \in Procs |-> done[p] \/ p = desc[desc[a].next].buf]
  /\ info' = [info EXCEPT ![a].status = 0]
  /\ used' = [used EXCEPT ![usedIdx % NUM] = a]
  /\ usedIdx' = (usedIdx + 1) % IdxMod
  /\ irq' = TRUE
  /\ UNCHANGED <<free, desc, avail, availIdx, used_idx, lock, pc, idx0, disk, taken>>

----------------------------------------------------------------------------
(* virtio_disk_intr                                                         *)

intr ==
  /\ irq /\ lock = None
  /\ irq' = FALSE
  /\ lock' = "intr"
  /\ UNCHANGED <<free, desc, info, avail, availIdx, used_idx, pc, idx0, disk, device>>

Entry == used[used_idx % NUM]

\* Mutant: the driver's index stays.
intr_entry_NoAdvance ==
  LET b == info[Entry].b IN
  /\ lock = "intr" /\ used_idx # usedIdx
  /\ disk' = [disk EXCEPT ![b] = FALSE]
  /\ pc' = [pc EXCEPT ![b] = IF @ = "wait" THEN "woken" ELSE @]
  /\ UNCHANGED <<free, desc, info, avail, availIdx, lock, idx0, used_idx, device, irq>>

\* Mutant: the process of the buffer is not woken.
intr_entry_NoWakeup ==
  LET b == info[Entry].b IN
  /\ lock = "intr" /\ used_idx # usedIdx
  /\ disk' = [disk EXCEPT ![b] = FALSE]
  /\ used' = [used EXCEPT ![used_idx % NUM] = None]
  /\ used_idx' = (used_idx + 1) % IdxMod
  /\ UNCHANGED <<free, desc, info, avail, availIdx, lock, pc, idx0, usedIdx, taken, working, done, irq>>

\* One turn of the loop: the buffer of the entry is done.
intr_entry ==
  LET b == info[Entry].b IN
  /\ lock = "intr" /\ used_idx # usedIdx
  /\ disk' = [disk EXCEPT ![b] = FALSE]
  /\ pc' = [pc EXCEPT ![b] = IF @ = "wait" THEN "woken" ELSE @]
  /\ used' = [used EXCEPT ![used_idx % NUM] = None]
  /\ used_idx' = (used_idx + 1) % IdxMod
  /\ UNCHANGED <<free, desc, info, avail, availIdx, lock, idx0, usedIdx, taken, working, done, irq>>

intr_end ==
  /\ lock = "intr" /\ used_idx = usedIdx
  /\ lock' = None
  /\ UNCHANGED <<free, desc, info, avail, availIdx, used_idx, pc, idx0, disk, device, irq>>

----------------------------------------------------------------------------
Next ==
  \/ \E p \in Procs : rw(p) \/ alloc3_desc_fail(p) \/ alloc3_desc(p)
                     \/ publish(p) \/ wait(p) \/ kill(p) \/ finish(p)
  \/ device_take \/ \E a \in D : device_done(a)
  \/ intr \/ intr_entry \/ intr_end

Spec == Init /\ [][Next]_vars

\* The device works, the interrupt is delivered, and nobody loses the race for
\* vdisk_lock for ever; processes may stay idle.
FairSpec ==
  /\ Spec
  /\ WF_vars(device_take) /\ \A a \in D : WF_vars(device_done(a))
  /\ SF_vars(intr) /\ WF_vars(intr_entry \/ intr_end)
  /\ \A p \in Procs : WF_vars(publish(p)) /\ WF_vars(wait(p)) /\ SF_vars(finish(p))

----------------------------------------------------------------------------
(* Properties                                                               *)

TypeOK ==
  /\ free \subseteq D
  /\ desc \in [D -> [next : D \cup {None}, buf : Procs \cup {None}]]
  /\ info \in [D -> [b : Procs \cup {None}, status : {0, 255}]]
  /\ avail \in [D -> D \cup {None}] /\ used \in [D -> D \cup {None}]
  /\ {availIdx, usedIdx, used_idx, taken} \subseteq 0 .. (IdxMod - 1)
  /\ lock \in Procs \cup {"intr", None}
  /\ pc \in [Procs -> {"idle", "alloc", "nodesc", "publish", "test", "wait", "woken"}]
  /\ idx0 \in [Procs -> D \cup {None}]
  /\ disk \in [Procs -> BOOLEAN] /\ done \in [Procs -> BOOLEAN]
  /\ working \subseteq D /\ irq \in BOOLEAN

\* A descriptor is free or in the chain of exactly one process, and chains
\* have three: none is lost, shared or freed twice (panic "free_desc 2").  A
\* process sleeps for descriptors only while there are too few.
DescsOwned ==
  /\ TypeOK
  /\ \A p \in Procs : idx0[p] # None => Cardinality(Chain(idx0[p])) = 3 /\ Chain(idx0[p]) \cap free = {}
  /\ \A p, q \in Procs : p # q /\ idx0[p] # None /\ idx0[q] # None =>
       Chain(idx0[p]) \cap Chain(idx0[q]) = {}
  /\ Cardinality(free) + 3 * Cardinality({p \in Procs : idx0[p] # None}) = NUM
  /\ \A p \in Procs : pc[p] = "nodesc" => Cardinality(free) < 3

Unseen == {(used_idx + k) % IdxMod : k \in 0 .. ((usedIdx + IdxMod - used_idx) % IdxMod) - 1}

\* What the handler has not yet looked at is a finished request whose process
\* still waits for it, across the wrap of the indices: b is never null and
\* panic("virtio_disk_intr status") is out of reach.  The comment at
\* virtio_disk.c:287 is right too: acknowledging before reading the ring is
\* harmless, an entry that the handler leaves is announced by an interrupt.
EntriesLive ==
  /\ \A k \in Unseen :
       LET a == used[k % NUM] IN
       /\ a # None
       /\ info[a].status = 0
       /\ info[a].b # None /\ idx0[info[a].b] = a /\ disk[info[a].b]
  /\ used_idx # usedIdx => irq \/ lock = "intr"

\* virtio_disk_rw returns only after the device has transferred its buffer,
\* also when kill() woke the process before (the loop at virtio_disk.c:272).
ReturnsAfterTransfer ==
  [][\A p \in Procs : pc[p] # "idle" /\ pc'[p] = "idle" => done[p]]_vars

\* A request that the device was told of is finished, and its process leaves.
RequestsFinish == \A p \in Procs : pc[p] = "test" ~> pc[p] = "idle"
=============================================================================
