-------------------------------- MODULE Tree --------------------------------
(***************************************************************************)
(* The tree of directories: namex, dirlookup, dirlink, create, isdirempty  *)
(* and the system calls mkdir, mknod, open with O_CREATE, unlink, link and *)
(* chdir of kernel/fs.c and sysfile.c, by several processes at once.       *)
(*                                                                         *)
(* What a process does while it has one inode locked is one step; unlink   *)
(* alone waits for a second lock with one in hand.  References are not     *)
(* counted: module Inode shows that the counts are those of the variables  *)
(* that hold inodes, and that the last iput frees an inode without links.  *)
(* A panic is a step that cannot be taken.                                 *)
(***************************************************************************)
EXTENDS Integers, FiniteSets, FiniteSetsExt

CONSTANTS
  Procs, None,
  Names,           \* names other than the two below
  Dot, DotDot,
  NINODES,         \* inodes on the disk; number 1 is the root
  MaxPath,         \* bound on the elements of a path
  MaxLinks         \* bound on the links to a file

ASSUME TreeAssumption ==
  /\ NINODES \in Nat \ {0} /\ MaxPath \in Nat \ {0} /\ MaxLinks \in Nat
  /\ IsFiniteSet(Procs) /\ IsFiniteSet(Names)
  /\ Cardinality({None, Dot, DotDot}) = 3
  /\ {None, Dot, DotDot} \cap (Procs \cup Names) = {}

VARIABLES
  type, nlink,     \* of each inode: "free", "file" or "dir"; link count
  dir, up,         \* of a directory: its entries, 0 for none, and its ".."
  lock,            \* owner of the inode's lock
  cwd,             \* of each process
  pc, op, left,    \* of each process: where it is; which path it follows, how
                   \* many elements that may still have
  at, ip, dp, name,    \* namex's ip; the call's ip, dp and name
  late, lost       \* history: entries made in a directory that had been
                   \* removed; how many names an inode lost with one

inodes == <<type, nlink, dir, up>>
call == <<op, left, at, ip, dp, name>>
vars == <<inodes, lock, cwd, pc, call, late, lost>>

Inodes  == 1 .. NINODES
ROOTINO == 1
Elems   == Names \cup {Dot, DotDot}
Empty   == [n \in Names |-> 0]

Init ==
  /\ type = [i \in Inodes |-> IF i = ROOTINO THEN "dir" ELSE "free"]
  /\ nlink = [i \in Inodes |-> IF i = ROOTINO THEN 1 ELSE 0]
  /\ dir = [i \in Inodes |-> Empty] /\ up = [i \in Inodes |-> ROOTINO]
  /\ lock = [i \in Inodes |-> None]
  /\ cwd = [p \in Procs |-> ROOTINO]
  /\ pc = [p \in Procs |-> "user"] /\ op = [p \in Procs |-> None]
  /\ left = [p \in Procs |-> 0] /\ at = [p \in Procs |-> 0]
  /\ ip = [p \in Procs |-> 0] /\ dp = [p \in Procs |-> 0]
  /\ name = [p \in Procs |-> None]
  /\ late = [i \in Inodes |-> [n \in Names |-> FALSE]] /\ lost = [i \in Inodes |-> 0]

----------------------------------------------------------------------------
(* Inodes                                                                   *)

\* ilock panics on an inode without a type.
ilock(i) == lock[i] = None /\ type[i] # "free"

dirlookup(i, n) == CASE n = Dot -> i [] n = DotDot -> up[i] [] OTHER -> dir[i][n]

NamesOf(i) == {x \in Inodes \X Names : dir[x[1]][x[2]] = i}
Named(i)   == i = ROOTINO \/ NamesOf(i) # {}

\* The end of a step that leaves these types, link counts and entries: every
\* iput in it frees its inode if that has no link and nobody holds it any more.
\* An inode named in a removed directory that goes loses the name, not the link.
Settle(t, k, e) ==
  LET held == UNION {{cwd'[q], at'[q], ip'[q], dp'[q]} : q \in Procs}
      dead == {i \in Inodes \ held : t[i] # "free" /\ k[i] = 0}
      Late(i, n) == e[i][n] # 0 /\ (late[i][n] \/ (dir[i][n] = 0 /\ ~Named(i)))
  IN
  /\ type' = [i \in Inodes |-> IF i \in dead THEN "free" ELSE t[i]]
  /\ nlink' = k
  /\ dir' = [i \in Inodes |-> IF i \in dead THEN Empty ELSE e[i]]
  /\ late' = [i \in Inodes |-> [n \in Names |-> i \notin dead /\ Late(i, n)]]
  /\ lost' = [i \in Inodes |-> lost[i] +
               Cardinality({x \in dead \X Names : Late(x[1], x[2]) /\ e[x[1]][x[2]] = i})]

Stays == Settle(type, nlink, dir)

\* The call returns, with all it held put back.
Return(p) ==
  /\ pc' = [pc EXCEPT ![p] = "user"] /\ op' = [op EXCEPT ![p] = None]
  /\ left' = [left EXCEPT ![p] = 0] /\ at' = [at EXCEPT ![p] = 0]
  /\ ip' = [ip EXCEPT ![p] = 0] /\ dp' = [dp EXCEPT ![p] = 0]
  /\ name' = [name EXCEPT ![p] = None]

Goto(p, l) == pc' = [pc EXCEPT ![p] = l]

----------------------------------------------------------------------------
(* Paths                                                                    *)

\* Which path: namei's for chdir and link's old; nameiparent's for create and
\* unlink, and for link's new.  Which of the calls it is for shows at its end.
Parent(o) == o \in {"parent", "new"}

\* A system call with a path from the root or from the current directory.  Its
\* elements are chosen when skipelem gets to them.
Enter(p, o) ==
  /\ op' = [op EXCEPT ![p] = o]
  /\ \E k \in {MaxPath} \cup (IF Parent(o) THEN {} ELSE {0}) : left' = [left EXCEPT ![p] = k]
  /\ \E i \in {ROOTINO, cwd[p]} : at' = [at EXCEPT ![p] = i]
  /\ Goto(p, "namex")

sys(p, o) ==
  /\ pc[p] = "user" /\ Enter(p, o)
  /\ UNCHANGED <<cwd, ip, dp, name, lock, up>> /\ Stays

\* A path that leads nowhere: link goes to bad, the others return.
Nowhere(p) ==
  IF op[p] = "new"
  THEN Goto(p, "bad") /\ at' = [at EXCEPT ![p] = 0] /\ UNCHANGED <<op, left, ip, dp, name>>
  ELSE Return(p)

\* A turn of namex's loop, with the next element n, which may be the last: one
\* lock, let go before the next is taken.
namex(p, n, last) ==
  LET i == at[p]
      next == dirlookup(i, n)
      stop == Parent(op[p]) /\ last
  IN
  /\ pc[p] = "namex" /\ left[p] > 0 /\ (left[p] = 1 => last)
  /\ ilock(i)
  /\ \/ type[i] # "dir" /\ Nowhere(p)
     \/ /\ type[i] = "dir" /\ stop
        /\ dp' = [dp EXCEPT ![p] = i] /\ name' = [name EXCEPT ![p] = n]
        /\ at' = [at EXCEPT ![p] = 0] /\ left' = [left EXCEPT ![p] = 0]
        /\ Goto(p, "parent") /\ UNCHANGED <<op, ip>>
     \/ type[i] = "dir" /\ ~stop /\ next = 0 /\ Nowhere(p)
     \/ /\ type[i] = "dir" /\ ~stop /\ next # 0
        /\ at' = [at EXCEPT ![p] = next]
        /\ left' = [left EXCEPT ![p] = IF last THEN 0 ELSE @ - 1]
        /\ UNCHANGED <<pc, op, ip, dp, name>>
  /\ UNCHANGED <<cwd, lock, up>> /\ Stays

\* namei's end
namei(p) ==
  /\ pc[p] = "namex" /\ left[p] = 0
  /\ ip' = [ip EXCEPT ![p] = at[p]] /\ at' = [at EXCEPT ![p] = 0]
  /\ Goto(p, "found")
  /\ UNCHANGED <<op, left, dp, name, cwd, lock, up>> /\ Stays

----------------------------------------------------------------------------
(* chdir, create                                                            *)

sys_chdir(p) ==
  /\ pc[p] = "found" /\ ilock(ip[p])
  /\ cwd' = IF type[ip[p]] = "dir" THEN [cwd EXCEPT ![p] = ip[p]] ELSE cwd
  /\ Return(p)
  /\ UNCHANGED <<lock, up>> /\ Stays

\* The name is there: the directory is let go, then that inode is locked.
create_exists(p) ==
  LET i == dirlookup(dp[p], name[p]) IN
  /\ pc[p] = "parent" /\ op[p] = "parent" /\ ilock(dp[p]) /\ i # 0
  /\ ip' = [ip EXCEPT ![p] = i] /\ dp' = [dp EXCEPT ![p] = 0]
  /\ Goto(p, "exists")
  /\ UNCHANGED <<op, left, at, name, cwd, lock, up>> /\ Stays

create_done(p) ==
  /\ pc[p] = "exists" /\ ilock(ip[p])
  /\ Return(p)
  /\ UNCHANGED <<cwd, lock, up>> /\ Stays

\* ialloc takes the first free inode; nobody else knows it.  A new directory's
\* ".." is a link to the directory it is in.
create(p, isdir) ==
  LET d == dp[p]
      free == {i \in Inodes : type[i] = "free"}
      i == Min(free)
      k == [nlink EXCEPT ![i] = 1]
  IN
  /\ pc[p] = "parent" /\ op[p] = "parent"
  /\ ilock(d) /\ dirlookup(d, name[p]) = 0 /\ free # {}
  /\ up' = IF isdir THEN [up EXCEPT ![i] = d] ELSE up
  /\ Return(p)
  /\ UNCHANGED <<cwd, lock>>
  /\ Settle([type EXCEPT ![i] = IF isdir THEN "dir" ELSE "file"],
            IF isdir THEN [k EXCEPT ![d] = @ + 1] ELSE k,
            [dir EXCEPT ![d][name[p]] = i])

----------------------------------------------------------------------------
(* unlink                                                                   *)

\* Mutant: only "." is refused.
IsDot_One(n) == n = Dot

IsDot(n) == n \in {Dot, DotDot}

\* With the directory locked, find the name.
unlink_find(p) ==
  LET i == dirlookup(dp[p], name[p]) IN
  /\ pc[p] = "parent" /\ op[p] = "parent" /\ ilock(dp[p])
  /\ IF IsDot(name[p]) \/ i = 0 THEN Return(p) /\ UNCHANGED lock
     ELSE /\ lock' = [lock EXCEPT ![dp[p]] = p]
          /\ ip' = [ip EXCEPT ![p] = i]
          /\ Goto(p, "unlink")
          /\ UNCHANGED <<op, left, at, dp, name>>
  /\ UNCHANGED <<cwd, up>> /\ Stays

\* Mutant: only directories count.
isdirempty_NoFiles(i) == \A n \in Names : dir[i][n] = 0 \/ type[dir[i][n]] # "dir"

isdirempty(i) == dir[i] = Empty

\* With both locked, clear the entry and count down the links.
sys_unlink(p) ==
  LET d == dp[p]
      i == ip[p]
      isdir == type[i] = "dir"
      k == [nlink EXCEPT ![i] = @ - 1]
  IN
  /\ pc[p] = "unlink" /\ ilock(i)
  /\ lock' = [lock EXCEPT ![d] = None]
  /\ Return(p)
  /\ UNCHANGED <<cwd, up>>
  /\ IF isdir /\ ~isdirempty(i) THEN Stays
     ELSE Settle(type, IF isdir THEN [k EXCEPT ![d] = @ - 1] ELSE k,
                 [dir EXCEPT ![d][name[p]] = 0])

----------------------------------------------------------------------------
(* link                                                                     *)

\* The link is counted before there is a name for it.
link_old(p) ==
  LET i == ip[p] IN
  /\ pc[p] = "found" /\ ilock(i)
  /\ UNCHANGED <<cwd, lock, up>>
  /\ \/ type[i] = "dir" /\ Return(p) /\ Stays
     \/ /\ type[i] # "dir" /\ nlink[i] < MaxLinks /\ Enter(p, "new")
        /\ UNCHANGED <<ip, dp, name>>
        /\ Settle(type, [nlink EXCEPT ![i] = @ + 1], dir)

sys_link(p) ==
  LET d == dp[p]
      there == dirlookup(d, name[p]) # 0
  IN
  /\ pc[p] = "parent" /\ op[p] = "new" /\ ilock(d)
  /\ UNCHANGED <<cwd, lock, up>>
  /\ \/ /\ there /\ Goto(p, "bad") /\ dp' = [dp EXCEPT ![p] = 0]
        /\ UNCHANGED <<op, left, at, ip, name>> /\ Stays
     \/ /\ ~there /\ Return(p)
        /\ Settle(type, nlink, [dir EXCEPT ![d][name[p]] = ip[p]])

link_bad(p) ==
  /\ pc[p] = "bad" /\ ilock(ip[p])
  /\ Return(p)
  /\ UNCHANGED <<cwd, lock, up>>
  /\ Settle(type, [nlink EXCEPT ![ip[p]] = @ - 1], dir)

----------------------------------------------------------------------------
Next ==
  \E p \in Procs :
    \/ \E o \in {"namei", "parent"} : sys(p, o)
    \/ \E n \in Elems, last \in BOOLEAN : namex(p, n, last)
    \/ namei(p) \/ sys_chdir(p)
    \/ create_exists(p) \/ create_done(p) \/ \E isdir \in BOOLEAN : create(p, isdir)
    \/ unlink_find(p) \/ sys_unlink(p)
    \/ link_old(p) \/ sys_link(p) \/ link_bad(p)

Spec == Init /\ [][Next]_vars

----------------------------------------------------------------------------
(* Properties                                                               *)

TypeOK ==
  /\ type \in [Inodes -> {"free", "file", "dir"}] /\ nlink \in [Inodes -> Nat]
  /\ dir \in [Inodes -> [Names -> 0 .. NINODES]] /\ up \in [Inodes -> Inodes]
  /\ lock \in [Inodes -> Procs \cup {None}] /\ cwd \in [Procs -> Inodes]
  /\ pc \in [Procs -> {"user", "namex", "parent", "found", "exists", "unlink", "bad"}]
  /\ left \in [Procs -> 0 .. MaxPath]
  /\ {at, ip, dp} \subseteq [Procs -> 0 .. NINODES]
  /\ name \in [Procs -> Elems \cup {None}]
  /\ late \in [Inodes -> [Names -> BOOLEAN]] /\ lost \in [Inodes -> Nat]

\* Links to i: its names, one for each directory in it, one if it is the root,
\* those that link has counted ahead of a name, and those that were lost.
Links(i) ==
  Cardinality(NamesOf(i))
  + Cardinality({n \in Names : dir[i][n] # 0 /\ type[dir[i][n]] = "dir"})
  + Cardinality({p \in Procs : ip[p] = i /\ op[p] = "new"})
  + (IF i = ROOTINO THEN 1 ELSE 0) + lost[i]

\* Whatever create, mkdir, link, unlink and chdir do at the same time, link
\* counts are exact, so no name outlives its inode; ".." of a directory that has
\* a name leads to the directory that names it.  The one way to lose an inode is
\* to make a name in a directory that unlink has removed already: create and
\* link do not look at dp->nlink after they lock what nameiparent returned.
TreeExact ==
  /\ TypeOK
  /\ \A i \in Inodes :
       /\ nlink[i] = Links(i)
       /\ type[i] = "dir" /\ Named(i) /\ i # ROOTINO => \E n \in Names : dir[up[i]][n] = i

\* The inode a process is about to lock
Wants(p) ==
  CASE pc[p] = "namex" /\ left[p] > 0 -> at[p]
    [] pc[p] = "parent" -> dp[p]
    [] pc[p] \in {"found", "exists", "unlink", "bad"} -> ip[p]
    [] OTHER -> 0

\* Processes never wait for each other, or for themselves, in a circle: namex
\* lets go of a directory before it locks what it found there, "." and ".."
\* included, and unlink, which does hold two locks, goes down the tree and
\* refuses the two names that do not.
NoWaitCycle ==
  \A S \in SUBSET Procs \ {{}} : \E p \in S : Wants(p) = 0 \/ lock[Wants(p)] \notin S
=============================================================================
