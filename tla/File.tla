-------------------------------- MODULE File --------------------------------
(***************************************************************************)
(* The content of files: balloc, bfree, bmap, itrunc, readi and writei of  *)
(* kernel/fs.c under fileread and filewrite of file.c and sys_open's       *)
(* O_TRUNC, cut into transactions, with crashes.                           *)
(*                                                                         *)
(* Blocks are told apart by what they are used for; their bytes are not    *)
(* kept, only whether a block is zeroed, data, or an indirect block.  The  *)
(* log is what Log shows it to be: a group of operations reaches the disk  *)
(* when the last of them ends, and a crash goes back to that.              *)
(***************************************************************************)
EXTENDS Integers, FiniteSets, SequencesExt

CONSTANTS
  Procs, None,
  Inodes,             \* each with one struct file, which all processes share
  NBLOCKS,            \* data blocks
  BSIZE, NDIRECT, NINDIRECT, MAXOPBLOCKS,
  Counts,             \* the byte counts asked of read and write
  MaxCalls            \* bound: writes, truncations and crashes

ASSUME FileAssumption ==
  /\ None \notin Procs \cup Inodes
  /\ {NBLOCKS, BSIZE, NDIRECT, NINDIRECT, MaxCalls} \subseteq Nat /\ BSIZE > 0
  /\ MAXOPBLOCKS \in Nat /\ MAXOPBLOCKS >= 6      \* filewrite's max is not 0
  /\ Counts \subseteq Nat

VARIABLES
  off,        \* f->off of the file open on each inode
  lock,       \* ip->lock
  addrs, size,    \* of the inode in memory: block numbers, 0 for none
  dinode,     \* the same in the inode's block
  bitmap,     \* blocks in use
  content,    \* of each block, as an indirect block: zeroes, junk or numbers
  disk,       \* dinode, bitmap and content at the last commit
  pc, ip, n,  \* of each process; what it works on and what is left to do
  n1, at, tot,    \* filewrite's n1, writei's off and tot
  wrote,      \* blocks the operation has logged
  calls       \* against MaxCalls

inode == <<addrs, size>>
fs    == <<dinode, bitmap, content>>
local == <<ip, n, n1, at, tot, wrote>>
vars == <<off, lock, inode, fs, disk, pc, local, calls>>

Blocks  == 1 .. NBLOCKS
Slots   == 0 .. (NINDIRECT - 1)
MAXFILE == NDIRECT + NINDIRECT
Junk    == NBLOCKS + 1                   \* an entry of a block that holds data, or did when it was freed
BBLOCK  == NBLOCKS + 2                   \* the bitmap's block: BPB > FSSIZE
IBLOCK  == NBLOCKS + 3                   \* an inode's block
Zeroed  == [k \in Slots |-> 0]
AllJunk == [k \in Slots |-> Junk]
NoAddrs == [k \in 0 .. NDIRECT |-> 0]

Init ==
  /\ off = [i \in Inodes |-> 0]
  /\ lock = [i \in Inodes |-> None]
  /\ addrs = [i \in Inodes |-> NoAddrs] /\ size = [i \in Inodes |-> 0]
  /\ dinode = [i \in Inodes |-> [addrs |-> NoAddrs, size |-> 0]]
  /\ bitmap = {} /\ content = [b \in Blocks |-> AllJunk]
  /\ disk = [dinode |-> dinode, bitmap |-> bitmap, content |-> content]
  /\ pc = [p \in Procs |-> "user"] /\ ip = [p \in Procs |-> None]
  /\ n = [p \in Procs |-> 0] /\ n1 = [p \in Procs |-> 0]
  /\ at = [p \in Procs |-> 0] /\ tot = [p \in Procs |-> 0]
  /\ wrote = [p \in Procs |-> {}]
  /\ calls = 0

Call == calls < MaxCalls /\ calls' = calls + 1
Goto(p, l) == pc' = [pc EXCEPT ![p] = l]
SmallerOf(a, b) == IF a < b THEN a ELSE b

ilock(i) == lock[i] = None           \* may be taken

----------------------------------------------------------------------------
(* Blocks                                                                   *)

\* Functions below work on m: the inode's block numbers, the bitmap, the
\* content of blocks, and what was logged.
Free(m) == Blocks \ m.bitmap

\* The first free block, marked and zeroed; out of blocks, the kernel stops.
balloc(m) ==
  LET b == CHOOSE x \in Free(m) : \A y \in Free(m) : x <= y IN
  [m EXCEPT !.b = b, !.bitmap = @ \cup {b}, !.content[b] = Zeroed,
            !.log = @ \cup {BBLOCK, b}]

\* The bnth block, allocated if there is none, in b.
bmap(m, bn) ==
  LET slot == IF bn < NDIRECT THEN bn ELSE NDIRECT
      m1 == IF m.addrs[slot] # 0 THEN [m EXCEPT !.b = m.addrs[slot]]
            ELSE LET a == balloc(m) IN [a EXCEPT !.addrs[slot] = a.b]
      a1 == m1.b                                             \* the indirect block
      k  == bn - NDIRECT
      m2 == IF m1.content[a1][k] # 0 THEN [m1 EXCEPT !.b = m1.content[a1][k]]
            ELSE LET a == balloc(m1) IN [a EXCEPT !.content[a1][k] = a.b, !.log = @ \cup {a1}]
  IN IF bn < NDIRECT THEN m1 ELSE m2

\* How many blocks bmap must allocate
Missing(m, bn) ==
  LET a1 == m.addrs[IF bn < NDIRECT THEN bn ELSE NDIRECT] IN
  IF bn < NDIRECT THEN (IF a1 = 0 THEN 1 ELSE 0)
  ELSE IF a1 = 0 THEN 2 ELSE IF m.content[a1][bn - NDIRECT] = 0 THEN 1 ELSE 0

OfInode(i) == [addrs |-> addrs[i], bitmap |-> bitmap, content |-> content, log |-> {}, b |-> 0]

\* The blocks an inode with these numbers uses, its indirect block's among them
Entries(a, c) == IF a[NDIRECT] = 0 THEN <<>> ELSE [k \in 1 .. NINDIRECT |-> c[a[NDIRECT]][k - 1]]
BlocksOf(a, c) ==
  SelectSeq([k \in 1 .. (NDIRECT + 1) |-> a[k - 1]] \o Entries(a, c), LAMBDA b : b # 0)

----------------------------------------------------------------------------
(* filewrite                                                                *)

filewrite(p, i, k) ==
  /\ pc[p] = "user" /\ k > 0 /\ Call
  /\ ip' = [ip EXCEPT ![p] = i] /\ n' = [n EXCEPT ![p] = k]
  /\ Goto(p, "chunk")
  /\ UNCHANGED <<off, lock, inode, fs, disk, n1, at, tot, wrote>>

\* Mutant: no slop for writes that are not aligned.
ChunkMax_NoSlop == ((MAXOPBLOCKS - 1 - 1) \div 1) * BSIZE

ChunkMax == ((MAXOPBLOCKS - 1 - 1 - 2) \div 2) * BSIZE

\* begin_op of the next chunk
filewrite_chunk(p) ==
  /\ pc[p] = "chunk" /\ n[p] > 0
  /\ n1' = [n1 EXCEPT ![p] = SmallerOf(n[p], ChunkMax)]
  /\ Goto(p, "ilock")
  /\ UNCHANGED <<off, lock, inode, fs, disk, ip, n, at, tot, wrote, calls>>

\* ilock, and writei up to its loop, which it may refuse to enter
filewrite_ilock(p) ==
  LET i == ip[p]
      o == off[i]
      refused == o > size[i] \/ o + n1[p] > MAXFILE * BSIZE
  IN
  /\ pc[p] = "ilock" /\ ilock(i)
  /\ IF refused
     THEN Goto(p, "failed") /\ UNCHANGED <<lock, at>>
     ELSE Goto(p, "writei") /\ lock' = [lock EXCEPT ![i] = p] /\ at' = [at EXCEPT ![p] = o]
  /\ UNCHANGED <<off, inode, fs, disk, ip, n, n1, tot, wrote, calls>>

\* A turn of writei's loop.  Where the copy fails bmap's work is done already.
writei(p) ==
  LET i == ip[p]
      m == bmap(OfInode(i), at[p] \div BSIZE)
      k == SmallerOf(n1[p] - tot[p], BSIZE - (at[p] % BSIZE))
  IN
  /\ pc[p] = "writei" /\ tot[p] < n1[p]
  /\ Missing(OfInode(i), at[p] \div BSIZE) <= Cardinality(Blocks \ bitmap)
  /\ addrs' = [addrs EXCEPT ![i] = m.addrs] /\ bitmap' = m.bitmap
  /\ \/ /\ content' = [m.content EXCEPT ![m.b] = AllJunk]
        /\ wrote' = [wrote EXCEPT ![p] = @ \cup m.log \cup {m.b}]
        /\ at' = [at EXCEPT ![p] = @ + k] /\ tot' = [tot EXCEPT ![p] = @ + k]
        /\ UNCHANGED pc
     \/ /\ content' = m.content
        /\ wrote' = [wrote EXCEPT ![p] = @ \cup m.log]
        /\ Goto(p, "fault")
        /\ UNCHANGED <<at, tot>>
  /\ UNCHANGED <<off, lock, size, dinode, disk, ip, n, n1, calls>>

\* Mutant: the inode is written back only if its size changes.
iupdate_OnlySize(i, a, s) ==
  dinode' = IF s = size[i] THEN dinode ELSE [dinode EXCEPT ![i] = [addrs |-> a, size |-> s]]

iupdate(i, a, s) == dinode' = [dinode EXCEPT ![i] = [addrs |-> a, size |-> s]]

\* The end of writei, iupdate included; f->off, iunlock
writei_end(p) ==
  LET i == ip[p]
      s == IF at[p] > size[i] THEN at[p] ELSE size[i]
      ok == tot[p] = n1[p]
  IN
  /\ pc[p] = "fault" \/ (pc[p] = "writei" /\ ok)
  /\ size' = [size EXCEPT ![i] = s]
  /\ iupdate(i, addrs[i], s)
  /\ wrote' = [wrote EXCEPT ![p] = @ \cup {IBLOCK}]
  /\ off' = [off EXCEPT ![i] = @ + tot[p]]
  /\ n' = [n EXCEPT ![p] = @ - tot[p]]
  /\ lock' = [lock EXCEPT ![i] = None]
  /\ Goto(p, IF ok THEN "written" ELSE "failed")
  /\ UNCHANGED <<addrs, bitmap, content, disk, ip, n1, at, tot, calls>>

----------------------------------------------------------------------------
(* Transactions, truncation, reading, crashes                               *)

InOp(p) == pc[p] \in {"ilock", "writei", "fault", "written", "failed", "trunc", "truncated"}

\* The last operation of a group commits it.  filewrite goes on with its next
\* chunk unless it failed or is done.
end_op(p) ==
  LET more == pc[p] = "written" /\ n[p] > 0 IN
  /\ pc[p] \in {"written", "failed", "truncated"}
  /\ disk' = IF \E q \in Procs \ {p} : InOp(q) THEN disk
             ELSE [dinode |-> dinode, bitmap |-> bitmap, content |-> content]
  /\ n1' = [n1 EXCEPT ![p] = 0] /\ at' = [at EXCEPT ![p] = 0]
  /\ tot' = [tot EXCEPT ![p] = 0] /\ wrote' = [wrote EXCEPT ![p] = {}]
  /\ IF more THEN UNCHANGED <<ip, n>>
             ELSE ip' = [ip EXCEPT ![p] = None] /\ n' = [n EXCEPT ![p] = 0]
  /\ Goto(p, IF more THEN "chunk" ELSE "user")
  /\ UNCHANGED <<off, lock, inode, fs, calls>>

\* sys_open with O_TRUNC: begin_op; then itrunc with the lock.  Each bfree finds
\* its block in use, or panics.
open_trunc(p, i) ==
  /\ pc[p] = "user" /\ Call
  /\ ip' = [ip EXCEPT ![p] = i]
  /\ Goto(p, "trunc")
  /\ UNCHANGED <<off, lock, inode, fs, disk, n, n1, at, tot, wrote>>

itrunc(p) ==
  LET i == ip[p]
      gone == BlocksOf(addrs[i], content)
  IN
  /\ pc[p] = "trunc" /\ ilock(i)
  /\ bitmap' = bitmap \ ToSet(gone)
  /\ addrs' = [addrs EXCEPT ![i] = NoAddrs] /\ size' = [size EXCEPT ![i] = 0]
  /\ iupdate(i, NoAddrs, 0)
  /\ wrote' = [wrote EXCEPT ![p] = {IBLOCK} \cup IF gone = <<>> THEN {} ELSE {BBLOCK}]
  /\ content' = [b \in Blocks |-> IF b \in ToSet(gone) THEN AllJunk ELSE content[b]]
  /\ Goto(p, "truncated")
  /\ UNCHANGED <<off, lock, disk, ip, n, n1, at, tot, calls>>

\* Mutant: the inode is not locked.
fileread_Unlocked(p, i, k) ==
  LET r == IF off[i] > size[i] THEN 0 ELSE SmallerOf(k, size[i] - off[i]) IN
  /\ pc[p] = "user"
  /\ off' = [off EXCEPT ![i] = @ + r]
  /\ UNCHANGED <<lock, inode, fs, disk, pc, local, calls>>

\* fileread takes no transaction: readi must find every block.  A copy that
\* fails returns -1.
fileread(p, i, k) ==
  LET r == IF off[i] > size[i] THEN 0 ELSE SmallerOf(k, size[i] - off[i]) IN
  /\ pc[p] = "user" /\ ilock(i)
  /\ \/ off' = [off EXCEPT ![i] = @ + r]
     \/ UNCHANGED off
  /\ UNCHANGED <<lock, inode, fs, disk, pc, local, calls>>

\* What was not committed is gone, and so is everything in memory.
crash ==
  /\ Call
  /\ dinode' = disk.dinode /\ bitmap' = disk.bitmap /\ content' = disk.content
  /\ addrs' = [i \in Inodes |-> disk.dinode[i].addrs]
  /\ size' = [i \in Inodes |-> disk.dinode[i].size]
  /\ off' = [i \in Inodes |-> 0] /\ lock' = [i \in Inodes |-> None]
  /\ pc' = [p \in Procs |-> "user"] /\ ip' = [p \in Procs |-> None]
  /\ n' = [p \in Procs |-> 0] /\ n1' = [p \in Procs |-> 0]
  /\ at' = [p \in Procs |-> 0] /\ tot' = [p \in Procs |-> 0]
  /\ wrote' = [p \in Procs |-> {}]
  /\ UNCHANGED disk

Next ==
  \/ \E p \in Procs :
       \/ filewrite_chunk(p) \/ filewrite_ilock(p) \/ writei(p) \/ writei_end(p)
       \/ end_op(p) \/ itrunc(p)
       \/ \E i \in Inodes :
            \/ open_trunc(p, i)
            \/ \E k \in Counts : filewrite(p, i, k) \/ fileread(p, i, k)
  \/ crash

Spec == Init /\ [][Next]_vars

----------------------------------------------------------------------------
(* Properties                                                               *)

TypeOK ==
  LET Addrs    == [0 .. NDIRECT -> 0 .. NBLOCKS]
      Dinodes  == [Inodes -> [addrs : Addrs, size : 0 .. MAXFILE * BSIZE]]
      Contents == [Blocks -> [Slots -> 0 .. Junk]]
  IN
  /\ off \in [Inodes -> Nat] /\ lock \in [Inodes -> Procs \cup {None}]
  /\ addrs \in [Inodes -> Addrs] /\ size \in [Inodes -> 0 .. MAXFILE * BSIZE]
  /\ dinode \in Dinodes /\ bitmap \subseteq Blocks /\ content \in Contents
  /\ disk \in [dinode : Dinodes, bitmap : SUBSET Blocks, content : Contents]
  /\ pc \in [Procs -> {"user", "chunk", "ilock", "writei", "fault", "written", "failed",
                       "trunc", "truncated"}]
  /\ ip \in [Procs -> Inodes \cup {None}]
  /\ {n, n1, at, tot} \subseteq [Procs -> Nat]
  /\ wrote \in [Procs -> SUBSET (Blocks \cup {BBLOCK, IBLOCK})] /\ calls \in 0 .. MaxCalls

\* Bitmap b marks just the blocks that inodes with numbers a use, each used
\* once, and every block below the size is there.
Exact(a, s, b, c) ==
  /\ b = UNION {ToSet(BlocksOf(a[i], c)) : i \in Inodes}
  /\ \A i \in Inodes :
       /\ IsInjective(BlocksOf(a[i], c))
       /\ \A j \in Inodes \ {i} : ToSet(BlocksOf(a[i], c)) \cap ToSet(BlocksOf(a[j], c)) = {}
       /\ \A bn \in 0 .. (MAXFILE - 1) : bn * BSIZE < s[i] =>
            IF bn < NDIRECT THEN a[i][bn] # 0
            ELSE a[i][NDIRECT] # 0 /\ c[a[i][NDIRECT]][bn - NDIRECT] # 0

\* No block is lost or used twice, in memory and on the disk a crash leaves, at
\* any point of any mix of writes, faults, truncations and commits: balloc,
\* bfree, bmap, itrunc and writei with its closing iupdate keep bitmap, inode
\* and indirect block in step.  readi, which runs outside a transaction, never
\* meets a missing block, for which bmap would have to allocate one.
BlocksExact ==
  /\ TypeOK
  /\ Exact(addrs, size, bitmap, content)
  /\ Exact([i \in Inodes |-> disk.dinode[i].addrs], [i \in Inodes |-> disk.dinode[i].size],
           disk.bitmap, disk.content)

\* Every operation logs fewer blocks than begin_op set aside for it, for every
\* offset a write can start at: filewrite's max leaves room for the inode, the
\* indirect block, the bitmap and the extra block of an unaligned write.  One
\* less than MAXOPBLOCKS is what Log's ReservationSuffices asks of operations.
OperationFits == \A p \in Procs : Cardinality(wrote[p]) < MAXOPBLOCKS

\* While writei is writing through an open file, nobody moves the file's offset
\* under it: f->off is read and advanced under the inode's lock, so what two
\* processes write through one struct file never overlaps.
OffsetHeld == \A p \in Procs : pc[p] \in {"writei", "fault"} => at[p] = off[ip[p]] + tot[p]
=============================================================================
