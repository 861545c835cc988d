------------------------------- MODULE Inode --------------------------------
(***************************************************************************)
(* The inode table of kernel/fs.c under the system calls that create,      *)
(* link, unlink, open and close files: iget, ilock, iunlock, iput with its *)
(* freeing of unlinked inodes, ialloc, dirlookup and dirlink, in one       *)
(* directory.                                                              *)
(*                                                                         *)
(* What itable.lock protects, and what a process does to an inode or to    *)
(* the directory while it has it locked, is one step as long as it takes   *)
(* no further lock.  The disk is written through the log: a crash takes it *)
(* back to the last moment when no operation was under way, which is what  *)
(* module Log shows of transactions.                                       *)
(***************************************************************************)
EXTENDS Naturals, FiniteSets, FiniteSetsExt

CONSTANTS
  Procs, Names, None,
  Inums,       \* inode numbers on the disk
  NINODE,      \* entries of itable
  NOFILE,      \* files a process may have open
  MaxCrashes   \* bound on crashes

ASSUME InodeAssumption ==
  /\ IsFiniteSet(Procs) /\ IsFiniteSet(Names) /\ IsFiniteSet(Inums)
  /\ NINODE \in Nat /\ NOFILE \in Nat /\ MaxCrashes \in Nat
  /\ None \notin Procs \cup Names \cup Inums \cup Nat

VARIABLES
  inum, ref, valid, type, nlink,   \* of each entry of itable
  owner,                           \* of the entry's sleep lock
  dirlock,                         \* owner of the directory's
  ondisk,                          \* the disk: [type, nlink, dir], as the log
  committed,                       \* will have it, and as it has it
  pc, at, name, num,   \* of each process: where it is, the entry, the name
                       \* and the fresh inode number it works with
  files,               \* how many open files of each process are which entry
  crashes

table == <<inum, ref, valid, type, nlink, owner>>
vars == <<table, dirlock, ondisk, committed, pc, at, name, num, files, crashes>>

Entries == 1 .. NINODE
Disk    == [type : [Inums -> {0, 1}], nlink : [Inums -> Nat], dir : [Names -> Inums \cup {None}]]

Each(S, x) == [s \in S |-> x]

\* A fresh file system
Init ==
  /\ inum = Each(Entries, None) /\ ref = Each(Entries, 0) /\ valid = Each(Entries, FALSE)
  /\ type = Each(Entries, 0) /\ nlink = Each(Entries, 0) /\ owner = Each(Entries, None)
  /\ dirlock = None
  /\ ondisk = [type |-> Each(Inums, 0), nlink |-> Each(Inums, 0), dir |-> Each(Names, None)]
  /\ committed = ondisk
  /\ pc = Each(Procs, "idle") /\ at = Each(Procs, None)
  /\ name = Each(Procs, None) /\ num = Each(Procs, None)
  /\ files = Each(Procs, Each(Entries, 0))
  /\ crashes = 0

----------------------------------------------------------------------------
(* The inode layer                                                          *)

Find(i) == {e \in Entries : ref[e] > 0 /\ inum[e] = i}
Empty   == {e \in Entries : ref[e] = 0}

\* iget of inode i by p: the entry that has it, or the first empty one.
iget(p, i) ==
  \/ \E e \in Find(i) :
       /\ ref' = [ref EXCEPT ![e] = @ + 1]
       /\ at' = [at EXCEPT ![p] = e]
       /\ UNCHANGED <<inum, valid>>
  \/ /\ Find(i) = {} /\ Empty # {}
     /\ LET e == Min(Empty) IN
        /\ inum' = [inum EXCEPT ![e] = i]
        /\ ref' = [ref EXCEPT ![e] = 1]
        /\ valid' = [valid EXCEPT ![e] = FALSE]
        /\ at' = [at EXCEPT ![p] = e]

\* ilock by p of the entry it is at, which it then changes to have n links and
\* writes to the disk (iupdate) unless n is None; it stays locked or not.
Nlink(e) == IF valid[e] THEN nlink[e] ELSE ondisk.nlink[inum[e]]
ilock(p, n, stays) ==
  LET e == at[p] IN
  /\ owner[e] = None
  /\ valid' = [valid EXCEPT ![e] = TRUE]
  /\ type' = [type EXCEPT ![e] = IF valid[e] THEN @ ELSE ondisk.type[inum[e]]]
  /\ nlink' = [nlink EXCEPT ![e] = IF n = None THEN Nlink(e) ELSE n]
  /\ owner' = [owner EXCEPT ![e] = IF stays THEN p ELSE None]

Written(e, n) == [ondisk EXCEPT !.nlink[inum[e]] = n]

\* end_op of the last operation commits what the disk has become.
End(p) ==
  /\ pc' = [pc EXCEPT ![p] = "idle"]
  /\ name' = [name EXCEPT ![p] = None]
  /\ num' = [num EXCEPT ![p] = None]
  /\ committed' = IF \A q \in Procs \ {p} : pc[q] = "idle" THEN ondisk' ELSE committed
  /\ UNCHANGED crashes

Goto(p, l) == pc' = [pc EXCEPT ![p] = l] /\ UNCHANGED <<committed, crashes>>

\* Mutant: links do not matter.
Frees_AnyLinks(e) == ref[e] = 1 /\ valid[e]

\* Mutant: the reference is taken for dropped already.
Frees_AfterDrop(e) == ref[e] = 0 /\ valid[e] /\ nlink[e] = 0

\* iput's test for the last reference to an inode without links
Frees(e) == ref[e] = 1 /\ valid[e] /\ nlink[e] = 0

iput(p) ==
  /\ pc[p] = "iput" /\ ~Frees(at[p])
  /\ ref' = [ref EXCEPT ![at[p]] = @ - 1]
  /\ at' = [at EXCEPT ![p] = None]
  /\ UNCHANGED <<inum, valid, type, nlink, owner, dirlock, ondisk, files>>
  /\ End(p)

iput_lock(p) ==
  /\ pc[p] = "iput" /\ Frees(at[p])
  /\ owner[at[p]] = None
  /\ owner' = [owner EXCEPT ![at[p]] = p]
  /\ Goto(p, "free")
  /\ UNCHANGED <<inum, ref, valid, type, nlink, dirlock, ondisk, at, name, num, files>>

\* itrunc, type = 0, iupdate: from here on ialloc may hand the inode out.
iput_free(p) ==
  /\ pc[p] = "free"
  /\ type' = [type EXCEPT ![at[p]] = 0]
  /\ ondisk' = [ondisk EXCEPT !.type[inum[at[p]]] = 0]
  /\ Goto(p, "unlock")
  /\ UNCHANGED <<inum, ref, valid, nlink, owner, dirlock, at, name, num, files>>

\* Mutant: the entry still counts as read.
iput_unlock_StaysValid(p) ==
  /\ pc[p] = "unlock"
  /\ owner' = [owner EXCEPT ![at[p]] = None]
  /\ Goto(p, "drop")
  /\ UNCHANGED <<inum, ref, valid, type, nlink, dirlock, ondisk, at, name, num, files>>

iput_unlock(p) ==
  /\ pc[p] = "unlock"
  /\ valid' = [valid EXCEPT ![at[p]] = FALSE]
  /\ owner' = [owner EXCEPT ![at[p]] = None]
  /\ Goto(p, "drop")
  /\ UNCHANGED <<inum, ref, type, nlink, dirlock, ondisk, at, name, num, files>>

iput_drop(p) ==
  /\ pc[p] = "drop"
  /\ ref' = [ref EXCEPT ![at[p]] = @ - 1]
  /\ at' = [at EXCEPT ![p] = None]
  /\ UNCHANGED <<inum, valid, type, nlink, owner, dirlock, ondisk, files>>
  /\ End(p)

----------------------------------------------------------------------------
(* open, with and without O_CREATE, and close                               *)

Opened(p) == MapThenSumSet(LAMBDA e : files[p][e], Entries)

\* namei, with the reference it returns; l is where the system call goes on,
\* with the name m.  A name that is not there changes nothing.
namei(p, n, l, m) ==
  /\ pc[p] = "idle" /\ dirlock = None /\ ondisk.dir[n] # None
  /\ iget(p, ondisk.dir[n])
  /\ name' = [name EXCEPT ![p] = m]
  /\ Goto(p, l)
  /\ UNCHANGED <<type, nlink, owner, dirlock, ondisk, num, files>>

open(p, n) == Opened(p) < NOFILE /\ namei(p, n, "open", None)

\* ilock of an inode that was there
open_lock(p) ==
  /\ pc[p] = "open"
  /\ ilock(p, None, TRUE)
  /\ Goto(p, "opened")
  /\ UNCHANGED <<inum, ref, dirlock, ondisk, at, name, num, files>>

\* The file takes over the reference.
open_done(p) ==
  /\ pc[p] = "opened"
  /\ owner' = [owner EXCEPT ![at[p]] = None]
  /\ files' = [files EXCEPT ![p][at[p]] = @ + 1]
  /\ at' = [at EXCEPT ![p] = None]
  /\ UNCHANGED <<inum, ref, valid, type, nlink, dirlock, ondisk>>
  /\ End(p)

\* No file or descriptor is left, or the caller is mknod: iunlockput.
open_fail(p) ==
  /\ pc[p] = "opened"
  /\ owner' = [owner EXCEPT ![at[p]] = None]
  /\ Goto(p, "iput")
  /\ UNCHANGED <<inum, ref, valid, type, nlink, dirlock, ondisk, at, name, num, files>>

\* create takes a free inode and keeps the directory locked; a name that is
\* there is opened.
create(p, n) ==
  /\ pc[p] = "idle" /\ Opened(p) < NOFILE
  /\ dirlock = None /\ ondisk.dir[n] = None
  /\ dirlock' = p
  /\ \E i \in Inums :
       /\ ondisk.type[i] = 0
       /\ ondisk' = [ondisk EXCEPT !.type[i] = 1, !.nlink[i] = 0]
       /\ num' = [num EXCEPT ![p] = i]
  /\ name' = [name EXCEPT ![p] = n]
  /\ Goto(p, "iget")
  /\ UNCHANGED <<table, at, files>>

create_iget(p) ==
  /\ pc[p] = "iget"
  /\ iget(p, num[p])
  /\ num' = [num EXCEPT ![p] = None]
  /\ Goto(p, "fresh")
  /\ UNCHANGED <<type, nlink, owner, dirlock, ondisk, name, files>>

create_ilock(p) ==
  /\ pc[p] = "fresh"
  /\ ilock(p, 1, TRUE)
  /\ ondisk' = Written(at[p], 1)
  /\ Goto(p, "dirlink")
  /\ UNCHANGED <<inum, ref, dirlock, at, name, num, files>>

create_dirlink(p) ==
  /\ pc[p] = "dirlink"
  /\ ondisk' = [ondisk EXCEPT !.dir[name[p]] = inum[at[p]]]
  /\ dirlock' = None
  /\ Goto(p, "opened")
  /\ UNCHANGED <<table, at, name, num, files>>

\* fileclose of a file's last reference
close(p, e) ==
  /\ pc[p] = "idle" /\ files[p][e] > 0
  /\ files' = [files EXCEPT ![p][e] = @ - 1]
  /\ at' = [at EXCEPT ![p] = e]
  /\ Goto(p, "iput")
  /\ UNCHANGED <<table, dirlock, ondisk, name, num>>

----------------------------------------------------------------------------
(* link and unlink                                                          *)

link(p, n, m) == namei(p, n, "link", m)

\* Mutant: the inode stays locked while the directory is taken.
link_count_StaysLocked(p) ==
  /\ pc[p] = "link"
  /\ ilock(p, Nlink(at[p]) + 1, TRUE)
  /\ ondisk' = Written(at[p], Nlink(at[p]) + 1)
  /\ Goto(p, "linkdir")
  /\ UNCHANGED <<inum, ref, dirlock, at, name, num, files>>

link_count(p) ==
  /\ pc[p] = "link"
  /\ ilock(p, Nlink(at[p]) + 1, FALSE)
  /\ ondisk' = Written(at[p], Nlink(at[p]) + 1)
  /\ Goto(p, "linkdir")
  /\ UNCHANGED <<inum, ref, dirlock, at, name, num, files>>

link_dirlink(p) ==
  /\ pc[p] = "linkdir" /\ dirlock = None /\ ondisk.dir[name[p]] = None
  /\ ondisk' = [ondisk EXCEPT !.dir[name[p]] = inum[at[p]]]
  /\ Goto(p, "iput")
  /\ UNCHANGED <<table, dirlock, at, name, num, files>>

\* The new name is taken, or its directory is not found.
link_fail(p) ==
  /\ pc[p] = "linkdir" /\ dirlock = None
  /\ Goto(p, "linkbad")
  /\ UNCHANGED <<table, dirlock, ondisk, at, name, num, files>>

link_bad(p) ==
  /\ pc[p] = "linkbad"
  /\ ilock(p, Nlink(at[p]) - 1, FALSE)
  /\ ondisk' = Written(at[p], Nlink(at[p]) - 1)
  /\ Goto(p, "iput")
  /\ UNCHANGED <<inum, ref, dirlock, at, name, num, files>>

\* unlink finds the name and keeps the directory locked.
unlink(p, n) ==
  /\ pc[p] = "idle" /\ dirlock = None /\ ondisk.dir[n] # None
  /\ dirlock' = p
  /\ iget(p, ondisk.dir[n])
  /\ name' = [name EXCEPT ![p] = n]
  /\ Goto(p, "unlink")
  /\ UNCHANGED <<type, nlink, owner, ondisk, num, files>>

\* ilock the inode, clear the entry, unlock the directory.
unlink_clear(p) ==
  /\ pc[p] = "unlink"
  /\ ilock(p, None, TRUE)
  /\ ondisk' = [ondisk EXCEPT !.dir[name[p]] = None]
  /\ dirlock' = None
  /\ Goto(p, "cleared")
  /\ UNCHANGED <<inum, ref, at, name, num, files>>

unlink_count(p) ==
  LET e == at[p] IN
  /\ pc[p] = "cleared"
  /\ nlink' = [nlink EXCEPT ![e] = @ - 1]
  /\ ondisk' = Written(e, nlink[e] - 1)
  /\ owner' = [owner EXCEPT ![e] = None]
  /\ Goto(p, "iput")
  /\ UNCHANGED <<inum, ref, valid, type, dirlock, at, name, num, files>>

----------------------------------------------------------------------------
\* Memory is lost; recovery brings the disk back to the last commit.
crash ==
  /\ crashes < MaxCrashes
  /\ crashes' = crashes + 1
  /\ ondisk' = committed /\ UNCHANGED committed
  /\ inum' = Each(Entries, None) /\ ref' = Each(Entries, 0) /\ valid' = Each(Entries, FALSE)
  /\ type' = Each(Entries, 0) /\ nlink' = Each(Entries, 0) /\ owner' = Each(Entries, None)
  /\ dirlock' = None
  /\ pc' = Each(Procs, "idle") /\ at' = Each(Procs, None)
  /\ name' = Each(Procs, None) /\ num' = Each(Procs, None)
  /\ files' = Each(Procs, Each(Entries, 0))

Next ==
  \/ \E p \in Procs :
       \/ \E n \in Names : open(p, n) \/ create(p, n) \/ unlink(p, n)
       \/ \E n, m \in Names : link(p, n, m)
       \/ \E e \in Entries : close(p, e)
       \/ open_lock(p) \/ open_done(p) \/ open_fail(p)
       \/ create_iget(p) \/ create_ilock(p) \/ create_dirlink(p)
       \/ link_count(p) \/ link_dirlink(p) \/ link_fail(p) \/ link_bad(p)
       \/ unlink_clear(p) \/ unlink_count(p)
       \/ iput(p) \/ iput_lock(p) \/ iput_free(p) \/ iput_unlock(p) \/ iput_drop(p)
  \/ crash

Spec == Init /\ [][Next]_vars

----------------------------------------------------------------------------
(* Properties                                                               *)

TypeOK ==
  /\ inum \in [Entries -> Inums \cup {None}]
  /\ ref \in [Entries -> Nat]
  /\ valid \in [Entries -> BOOLEAN]
  /\ type \in [Entries -> {0, 1}]
  /\ nlink \in [Entries -> Nat]
  /\ owner \in [Entries -> Procs \cup {None}]
  /\ dirlock \in Procs \cup {None}
  /\ ondisk \in Disk /\ committed \in Disk
  /\ pc \in [Procs -> {"idle", "open", "opened", "iget", "fresh", "dirlink", "link", "linkdir",
                       "linkbad", "unlink", "cleared", "iput", "free", "unlock", "drop"}]
  /\ at \in [Procs -> Entries \cup {None}]
  /\ name \in [Procs -> Names \cup {None}]
  /\ num \in [Procs -> Inums \cup {None}]
  /\ files \in [Procs -> [Entries -> 0 .. NOFILE]]

\* An inode is in the table once: all its users lock the same entry.  An
\* entry's count is the number of open files and of system calls that point to
\* it: it is never recycled under one of them, and is recycled after.  ilock's
\* panic("ilock: no type") is out of reach: a locked inode is allocated, even
\* when ialloc reuses one whose freeing iput has not quite ended.
RefsExact ==
  /\ TypeOK
  /\ \A e, f \in Entries : ref[e] > 0 /\ ref[f] > 0 /\ inum[e] = inum[f] => e = f
  /\ \A e \in Entries :
       ref[e] = Cardinality({p \in Procs : at[p] = e})
                + MapThenSumSet(LAMBDA p : files[p][e], Procs)
  /\ \A p \in Procs : pc[p] \in {"opened", "dirlink", "cleared"} =>
       type[at[p]] # 0 /\ ondisk.type[inum[at[p]]] # 0

Counting(p) == pc[p] \in {"dirlink", "linkdir", "linkbad", "cleared"}

\* The link count on the disk is the number of names, but for an operation
\* between its two writes: link and create count first, unlink last.  When
\* no operation is under way, and so after any crash, it is exact.  An inode is
\* free only when no name and no open file is left: unlink of an open file
\* frees nothing before the last close.
LinksExact ==
  \A i \in Inums :
    IF ondisk.type[i] # 0
    THEN ondisk.nlink[i] = Cardinality({n \in Names : ondisk.dir[n] = i})
                           + Cardinality({p \in Procs : Counting(p) /\ inum[at[p]] = i})
    ELSE /\ \A n \in Names : ondisk.dir[n] # i
         /\ \A p \in Procs, e \in Entries : files[p][e] > 0 => inum[e] # i

\* Allocated, and nobody will ever free it: without a name, without an entry
\* whose last iput would, and not about to get one from ialloc.
Lost(i) ==
  /\ ondisk.type[i] # 0
  /\ \A n \in Names : ondisk.dir[n] # i
  /\ Find(i) = {}
  /\ \A p \in Procs : num[p] # i

\* iput, fs.c:328: "If that was the last reference and the inode has no links to
\* it, free the inode".  An inode is lost only by a crash (xv6 does not look for
\* orphans at boot) or at iput's last step (fs.c:356), when the inode was handed
\* out again, unlinked and put by others while iput was between freeing it and
\* dropping its reference; by nothing else.
OnlyDropLoses ==
  [][\A i \in Inums : ~Lost(i) /\ Lost(i)' =>
       \/ crashes' > crashes
       \/ \E p \in Procs : pc[p] = "drop" /\ pc'[p] = "idle" /\ inum[at[p]] = i]_vars

Waits(p) ==
  \/ pc[p] \in {"open", "fresh", "link", "linkbad", "unlink"} /\ owner[at[p]] # None
  \/ pc[p] = "linkdir" /\ dirlock # None

\* Inode and directory locks make no cycle: unlink and create hold the
\* directory while they wait for an inode, so link may not do the reverse.  And
\* fs.c:340: "ip->ref == 1 means no other process can have ip locked, so this
\* acquiresleep() won't block": iput would sleep with itable.lock held.
NoCycle ==
  /\ (\E p \in Procs : Waits(p)) => \E p \in Procs : pc[p] # "idle" /\ ~Waits(p)
  /\ \A p \in Procs : pc[p] = "iput" /\ Frees(at[p]) => owner[at[p]] = None
=============================================================================
