---------------------------- MODULE LogTheorems ----------------------------
(***************************************************************************)
(* What holds of log.c in every behaviour: that the operations of          *)
(* processes, the steps of commit() and of recovery, and a crash keep the  *)
(* inductive invariant IInv; that Log implements Txn; and that begin_op    *)
(* reserves enough.  The conclusions are at the end.                       *)
(***************************************************************************)
EXTENDS Log, Counting, TLAPS

Distinct(s) == \A i, j \in 1 .. Len(s) : s[i] = s[j] => i = j

Replaying == {"recover_install", "recover_clear", "install_trans", "clear_head"}
Looping   == {"write_log", "install_trans", "recover_install"}

\* While the first process recovers it is alone.
BootInv ==
  \A p \in Procs : pc[p] \in Booting =>
    /\ p = initproc
    /\ ~committing /\ ~panicked
    /\ \A q \in Procs : q # p => pc[q] = "idle"

\* What the two headers hold at each point, and where tail stands.
HeadInv ==
  /\ Distinct(lh)
  /\ Distinct(dhead)
  /\ \A p \in Procs :
       /\ pc[p] \in Replaying => dhead = lh
       /\ pc[p] \in {"read_head", "end_commit"} => lh = << >>
       /\ pc[p] \in Looping \cup {"write_head"} => tail[p] <= Len(lh)
       /\ pc[p] \notin Looping => tail[p] = 1
  /\ (\A p \in Procs : pc[p] \notin Replaying \cup {"read_head"}) => dhead = << >>
  /\ up /\ ~committing /\ outstanding = 0 => lh = << >>

\* What has been copied, from the cache to the log and from the log home.
CopyInv ==
  \A p \in Procs, i \in 1 .. Len(lh) :
    /\ pc[p] = "write_log" /\ i < tail[p] => dlog[i] = cache[lh[i]]
    /\ pc[p] = "write_head" => dlog[i] = cache[lh[i]]
    /\ pc[p] = "install_trans" /\ i >= tail[p] => dlog[i] = cache[lh[i]]
    /\ pc[p] \in {"install_trans", "recover_install"} /\ i < tail[p]
         => home[lh[i]] = dlog[i]
    /\ pc[p] \in {"clear_head", "recover_clear"} => home[lh[i]] = dlog[i]

\* A buffer that may be recycled agrees with the disk; a dirty one is cached.
CacheInv ==
  /\ \A b \in Blocks : refcnt[b] = 0 /\ cache[b] # None => cache[b] = home[b]
  /\ \A b \in Blocks : Dirty(b) => refcnt[b] > 0 /\ cache[b] # None

\* A panicking process never leaves its operation, so nobody commits again.
PanicInv == panicked => Active # {}

\* What counting a set of processes needs of Cardinality.
CardFacts ==
  \A S \in SUBSET Procs :
    /\ Cardinality(S) \in Nat
    /\ Cardinality(S) = 0 <=> S = {}
    /\ \A p \in Procs \ S : Cardinality(S \cup {p}) = Cardinality(S) + 1
    /\ \A p \in S : Cardinality(S \ {p}) = Cardinality(S) - 1

IInv ==
  /\ CardFacts
  /\ TypeOK
  /\ CommitExclusive
  /\ BootInv
  /\ HeadInv
  /\ CopyInv
  /\ CacheInv
  /\ PinsMatchLog
  /\ PanicInv

----------------------------------------------------------------------------
USE Zenon, ProcsAssumption, SpaceAssumption, ValuesAssumption

\* Counting the operations under way, as begin_op and end_op do.
LEMMA CardActive ==
  ASSUME CardFacts
  PROVE  /\ Cardinality(Active) \in Nat
         /\ Cardinality(Active) = 0 <=> Active = {}
         /\ \A p \in Procs \ Active : Cardinality(Active \cup {p}) = Cardinality(Active) + 1
         /\ \A p \in Active : Cardinality(Active \ {p}) = Cardinality(Active) - 1
<1>1. Active \in SUBSET Procs
  BY DEF Active
<1> QED
  BY <1>1 DEF CardFacts

\* end_op: the count is zero exactly when the last operation has ended.
LEMMA CardAfter ==
  ASSUME CardFacts, NEW p \in Procs
  PROVE  Cardinality(Active \ {p}) = 0 <=> Active \ {p} = {}
<1>1. Active \ {p} \in SUBSET Procs
  BY DEF Active
<1> QED
  BY <1>1 DEF CardFacts

\* No operation is under way at boot (initlog).
LEMMA CardEmpty == ASSUME CardFacts PROVE Cardinality({}) = 0
  BY DEF CardFacts

\* The invariant holds at boot, before initlog recovers.
LEMMA InitInv == CardFacts /\ Init => IInv
<1> SUFFICES ASSUME CardFacts, Init PROVE IInv
  OBVIOUS
<1>1. dlog \in [LogSlots -> Contents]
  <2>1. (CHOOSE v \in Values : TRUE) \in Values
    OBVIOUS
  <2> QED
    BY <2>1 DEF Init, Contents
<1>2. TypeOK
  <2>1. home \in [Blocks -> Contents] /\ cache \in [Blocks -> Contents \cup {None}]
    BY DEF Init, Contents
  <2>2. tail \in [Procs -> LogSlots]
    BY SMT DEF Init, LogSlots
  <2>3. /\ dhead \in Seq(Blocks) /\ Len(dhead) < size
        /\ lh \in Seq(Blocks) /\ Len(lh) < size
    BY SMT DEF Init
  <2> QED
    BY <1>1, <2>1, <2>2, <2>3 DEF Init, TypeOK, Labels, Booting
<1>3. Active = {}
  BY DEF Init, Active
<1>4. CommitExclusive
  BY <1>3, CardActive DEF Init, CommitExclusive, Commit
<1>5. BootInv /\ HeadInv /\ CopyInv
  BY SMT DEF Init, BootInv, HeadInv, CopyInv, Booting, up, Replaying, Looping, Distinct
<1>6. CacheInv /\ PinsMatchLog /\ PanicInv
  BY DEF Init, CacheInv, PinsMatchLog, Dirty, Pending, up, Booting, PanicInv
<1> QED
  BY <1>2, <1>4, <1>5, <1>6 DEF IInv

\* A committing process is the only one that is not at rest in begin_op or
\* outside the file system.
LEMMA CommitterAlone ==
  ASSUME IInv, NEW p \in Procs, pc[p] \in Commit
  PROVE  /\ up /\ committing /\ ~panicked /\ outstanding = 0 /\ Active = {}
         /\ \A q \in Procs : q # p => pc[q] \in {"idle", "sleeping", "woken"}
<1>1. Active = {} /\ committing /\ outstanding = 0
  BY CardActive DEF IInv, CommitExclusive
<1>2. up
  BY <1>1 DEF IInv, BootInv, up
<1>3. ASSUME NEW q \in Procs, q # p PROVE pc[q] \in {"idle", "sleeping", "woken"}
  <2>1. pc[q] # "op" /\ pc[q] \notin Commit
    BY <1>1, <1>3 DEF Active, IInv, CommitExclusive
  <2>2. pc[q] \notin Booting
    BY <1>1, <1>3 DEF IInv, BootInv
  <2> QED
    BY <2>1, <2>2 DEF IInv, TypeOK, Labels
<1> QED
  BY <1>1, <1>2, <1>3 DEF IInv, PanicInv

\* A recovering process is alone.
LEMMA BootAlone ==
  ASSUME IInv, NEW p \in Procs, pc[p] \in Booting
  PROVE  /\ p = initproc /\ ~up /\ ~committing /\ ~panicked
         /\ outstanding = 0 /\ Active = {}
         /\ \A q \in Procs : q # p => pc[q] = "idle"
<1>1. Active = {}
  BY DEF IInv, BootInv, Active, Booting
<1> QED
  BY <1>1, CardActive DEF IInv, BootInv, up, CommitExclusive

Calm == {"idle", "sleeping", "woken", "op", "commit"}

\* What Append makes of a header.
LEMMA AppendFacts ==
  ASSUME NEW S, NEW s \in Seq(S), NEW e \in S
  PROVE  /\ Append(s, e) \in Seq(S) /\ Len(Append(s, e)) = Len(s) + 1
         /\ \A i \in 1 .. Len(Append(s, e)) :
              Append(s, e)[i] = IF i = Len(s) + 1 THEN e ELSE s[i]
  BY SMT

\* Steps that move processes only between the labels outside commit's disk
\* writes, and leave the log and the cache alone.
LEMMA CalmStep ==
  ASSUME IInv, TypeOK', CommitExclusive', PanicInv', up,
         UNCHANGED <<home, dhead, dlog, cache, refcnt, lh, tail, panicked>>,
         \A q \in Procs : \/ pc'[q] = pc[q]
                          \/ pc[q] \in Calm \cup {"end_commit"} /\ pc'[q] \in Calm,
         ~committing' /\ outstanding' = 0 => lh = << >>
  PROVE  IInv'
<1>1. up' /\ \A q \in Procs : pc[q] \notin Booting /\ pc'[q] \notin Booting
  BY DEF up, IInv, BootInv, Booting, Calm
<1>2. BootInv'
  BY <1>1 DEF BootInv
<1>3. HeadInv'
  BY SMT, <1>1 DEF HeadInv, IInv, Distinct, Replaying, Looping, Calm, Booting
<1>4. CopyInv'
  BY SMT, <1>1 DEF CopyInv, IInv, Calm, Booting
<1>5. \A b \in Blocks : Dirty(b)' <=> Dirty(b)
  BY SMT, <1>1 DEF Dirty, Pending, Calm
<1>6. CacheInv' /\ PinsMatchLog'
  <2>1. CacheInv'
    BY <1>5 DEF CacheInv, IInv
  <2>2. PinsMatchLog'
    BY <1>5 DEF PinsMatchLog, IInv
  <2> QED
    BY <2>1, <2>2
<1> QED
  BY <1>2, <1>3, <1>4, <1>6 DEF IInv

\* begin_op keeps the invariant, whether it sleeps or starts an operation.
LEMMA BeginInv == ASSUME IInv, NEW p \in Procs, begin_op(p) PROVE IInv'
<1>1. TypeOK'
  <2>1. "sleeping" \in Labels /\ "op" \in Labels
    BY DEF Labels
  <2>2. pc' \in [Procs -> Labels]
    BY <2>1 DEF IInv, TypeOK, begin_op
  <2>3. outstanding' \in Nat
    BY SMT DEF IInv, TypeOK, begin_op
  <2> QED
    BY <2>2, <2>3 DEF IInv, TypeOK, begin_op, disk
<1>2. CASE committing \/ LogFull
  <2>0. pc' = [pc EXCEPT ![p] = "sleeping"] /\ outstanding' = outstanding
    BY <1>2 DEF begin_op
  <2>1. Active' = Active
    BY <2>0 DEF IInv, TypeOK, begin_op, Active
  <2>2. CommitExclusive' /\ PanicInv'
    BY <2>0, <2>1 DEF IInv, TypeOK, CommitExclusive, PanicInv, begin_op, Commit
  <2> QED
    BY <1>1, <2>0, <2>2, CalmStep DEF IInv, TypeOK, begin_op, disk, HeadInv, Calm
<1>3. CASE ~(committing \/ LogFull)
  <2>1. /\ pc[p] \in {"idle", "woken"} /\ ~committing /\ UNCHANGED committing
        /\ outstanding' = outstanding + 1 /\ pc' = [pc EXCEPT ![p] = "op"]
    BY <1>3 DEF begin_op
  <2>2. Active' = Active \cup {p} /\ p \notin Active
    BY <2>1 DEF IInv, TypeOK, Active
  <2>3. outstanding' = Cardinality(Active')
    BY <2>1, <2>2, CardActive DEF IInv, CommitExclusive
  <2>4. CommitExclusive' /\ PanicInv'
    BY <2>1, <2>2, <2>3 DEF IInv, TypeOK, CommitExclusive, PanicInv, Commit
  <2>5. up
    BY DEF begin_op
  <2>6. UNCHANGED <<home, dhead, dlog, cache, refcnt, lh, tail, panicked>>
    BY DEF begin_op, disk
  <2>7. \A q \in Procs : \/ pc'[q] = pc[q]
                         \/ pc[q] \in Calm \cup {"end_commit"} /\ pc'[q] \in Calm
    BY <2>1 DEF IInv, TypeOK, Calm
  <2>8. ~committing' /\ outstanding' = 0 => lh = << >>
    BY SMT, <2>1 DEF IInv, TypeOK
  <2> QED
    BY <1>1, <2>4, <2>5, <2>6, <2>7, <2>8, CalmStep
<1> QED
  BY <1>2, <1>3

\* end_op keeps the invariant: it starts a commit, or wakes the sleepers.
LEMMA EndInv == ASSUME IInv, NEW p \in Procs, end_op(p) PROVE IInv'
<1>0. pc[p] = "op" /\ ~panicked /\ outstanding' = outstanding - 1
  BY DEF end_op
<1>1. p \in Active /\ ~committing /\ up
  <2>1. p \in Active
    BY <1>0 DEF Active
  <2>2. ~committing
    BY <2>1 DEF IInv, CommitExclusive
  <2>3. up
    BY <1>0 DEF IInv, BootInv, up, Booting
  <2> QED
    BY <2>1, <2>2, <2>3
<1>2. outstanding \in Nat /\ outstanding > 0
  BY SMT, <1>1, CardActive DEF IInv, TypeOK, CommitExclusive
<1>3. /\ UNCHANGED <<home, dhead, dlog, cache, refcnt, lh, tail, panicked>>
      /\ pc' \in [Procs -> Labels]
      /\ pc'[p] = IF outstanding = 1 THEN "commit" ELSE "idle"
      /\ \A q \in Procs : q # p =>
           \/ pc'[q] = pc[q]
           \/ pc[q] = "sleeping" /\ pc'[q] = "woken"
      /\ committing' <=> outstanding = 1
  <2>1. CASE outstanding = 1
    <3>1. outstanding' = 0
      BY SMT, <1>0, <2>1
    <3>2. pc' = [pc EXCEPT ![p] = "commit"] /\ committing' = TRUE
      BY <1>1, <3>1 DEF end_op
    <3>3. pc' \in [Procs -> Labels]
      BY <3>2 DEF IInv, TypeOK, Labels, Commit
    <3> QED
      BY <1>1, <2>1, <3>1, <3>2, <3>3 DEF end_op, disk, IInv, TypeOK
  <2>2. CASE outstanding # 1
    <3>1. outstanding' # 0
      BY SMT, <1>0, <1>2, <2>2
    <3>2. pc' = Woken([pc EXCEPT ![p] = "idle"]) /\ committing' = committing
      BY <1>1, <3>1 DEF end_op
    <3>3. pc' \in [Procs -> Labels]
      BY <3>2 DEF Woken, IInv, TypeOK, Labels
    <3> QED
      BY <1>1, <2>2, <3>1, <3>2, <3>3 DEF end_op, disk, IInv, TypeOK, Woken
  <2> QED
    BY <2>1, <2>2
<1>4. TypeOK'
  <2>1. outstanding' \in Nat
    BY SMT, <1>0, <1>2
  <2> QED
    BY <1>3, <2>1 DEF IInv, TypeOK, end_op, disk
<1>5. Active' = Active \ {p}
  BY <1>3 DEF Active
<1>6. outstanding' = Cardinality(Active')
  BY <1>0, <1>1, <1>5, CardActive DEF IInv, CommitExclusive
<1>7. \A q \in Procs : pc[q] \notin Commit
  BY <1>1 DEF IInv, CommitExclusive
<1>8. \A q \in Procs : pc'[q] \in Commit => q = p /\ outstanding = 1
  BY <1>3, <1>7 DEF Commit
<1>9. CommitExclusive'
  <2>1. outstanding = 1 => Active' = {}
    BY SMT, <1>0, <1>5, <1>6, CardAfter DEF IInv
  <2>2. committing' <=> \E q \in Procs : pc'[q] \in Commit
    BY <1>3, <1>8 DEF Commit
  <2> QED
    BY <1>6, <1>8, <2>1, <2>2 DEF CommitExclusive
<1>10. PanicInv'
  BY <1>0, <1>3 DEF PanicInv
<1>11. \A q \in Procs : \/ pc'[q] = pc[q]
                        \/ pc[q] \in Calm \cup {"end_commit"} /\ pc'[q] \in Calm
  BY <1>0, <1>3 DEF Calm
<1> QED
  BY SMT, <1>0, <1>1, <1>2, <1>3, <1>4, <1>9, <1>10, <1>11, CalmStep

\* kill of a process asleep in begin_op keeps the invariant.
LEMMA KillInv == ASSUME IInv, NEW p \in Procs, kill(p) PROVE IInv'
<1>1. TypeOK'
  BY DEF kill, IInv, TypeOK, Labels, disk, logv
<1>2. Active' = Active /\ up
  BY DEF kill, IInv, TypeOK, Active, BootInv, up, Booting
<1>3. CommitExclusive' /\ PanicInv'
  BY <1>2 DEF kill, IInv, TypeOK, CommitExclusive, PanicInv, Commit, logv
<1> QED
  BY <1>1, <1>2, <1>3, CalmStep DEF kill, IInv, TypeOK, HeadInv, Calm, disk, logv

\* The end of end_op, after commit(), keeps the invariant.
LEMMA EndCommitInv == ASSUME IInv, NEW p \in Procs, end_commit(p) PROVE IInv'
<1>0. pc[p] = "end_commit" /\ pc[p] \in Commit /\ ~committing'
  BY DEF end_commit, Commit
<1>1. /\ up /\ ~panicked /\ outstanding = 0 /\ Active = {}
      /\ \A q \in Procs : q # p => pc[q] \in {"idle", "sleeping", "woken"}
  BY <1>0, CommitterAlone
<1>2. /\ pc' \in [Procs -> Labels]
      /\ pc'[p] = "idle"
      /\ \A q \in Procs : q # p => pc'[q] \in {"idle", "woken"}
  BY <1>1 DEF end_commit, IInv, TypeOK, Woken, Labels
<1>3. TypeOK'
  BY <1>2 DEF IInv, TypeOK, end_commit, disk
<1>4. Active' = {} /\ \A q \in Procs : pc'[q] \notin Commit
  BY <1>2 DEF Active, Commit
<1>5. CommitExclusive' /\ PanicInv'
  BY <1>0, <1>1, <1>4 DEF CommitExclusive, PanicInv, end_commit, IInv
<1>6. lh = << >>
  BY <1>0 DEF IInv, HeadInv
<1> QED
  BY <1>0, <1>1, <1>2, <1>3, <1>5, <1>6, CalmStep DEF end_commit, disk, Calm

\* While the log is written every logged block is dirty; while it is
\* installed, the ones from tail on are, and only those.
LEMMA DirtyInCommit ==
  ASSUME IInv, NEW p \in Procs, pc[p] \in Commit, NEW i \in 1 .. Len(lh)
  PROVE  /\ pc[p] \in {"commit", "write_log", "write_head"} => Dirty(lh[i])
         /\ pc[p] = "install_trans" => (Dirty(lh[i]) <=> i >= tail[p])
         /\ pc[p] = "clear_head" => ~Dirty(lh[i])
<1>1. up /\ \A q \in Procs : q # p => pc[q] \in {"idle", "sleeping", "woken"}
  BY CommitterAlone
<1>2. \A j \in 1 .. Len(lh) : lh[j] = lh[i] => j = i
  BY DEF IInv, HeadInv, Distinct
<1> QED
  BY <1>1, <1>2 DEF Dirty, Pending

\* Filling or recycling the buffer of a clean block.
LEMMA CleanCacheStep ==
  ASSUME IInv, NEW b \in Blocks, ~Dirty(b), NEW x \in {None, home[b]},
         cache' = [cache EXCEPT ![b] = x],
         UNCHANGED <<disk, refcnt, logv, pc, tail, wrote>>
  PROVE  IInv'
<1> USE DEF disk, logv
<1>1. TypeOK'
  <2>1. cache' \in [Blocks -> Contents \cup {None}]
    BY DEF IInv, TypeOK
  <2> QED
    BY <2>1 DEF IInv, TypeOK
<1>2. CommitExclusive' /\ PanicInv' /\ BootInv' /\ HeadInv'
  BY SMT DEF IInv, CommitExclusive, PanicInv, Active, BootInv, HeadInv, up, Distinct
<1>3. CopyInv'
  <2> SUFFICES ASSUME NEW p \in Procs, NEW i \in 1 .. Len(lh),
                      \/ pc[p] \in {"write_log", "write_head"}
                      \/ pc[p] = "install_trans" /\ i >= tail[p]
               PROVE  cache'[lh[i]] = cache[lh[i]]
    BY SMT DEF IInv, CopyInv
  <2>1. Dirty(lh[i])
    BY DirtyInCommit DEF Commit
  <2> QED
    BY SMT, <2>1 DEF IInv, TypeOK
<1>4. \A c \in Blocks : Dirty(c)' <=> Dirty(c)
  BY DEF Dirty, Pending, up
<1>5. CacheInv'
  BY <1>4 DEF IInv, TypeOK, CacheInv
<1>6. PinsMatchLog'
  BY <1>4 DEF IInv, PinsMatchLog
<1> QED
  BY <1>1, <1>2, <1>3, <1>5, <1>6 DEF IInv

\* bread of a block that is not cached keeps the invariant.
LEMMA BreadInv == ASSUME IInv, NEW b \in Blocks, bread(b) PROVE IInv'
<1>1. ~Dirty(b)
  BY DEF bread, IInv, CacheInv
<1> QED
  BY <1>1, CleanCacheStep DEF bread

\* bget recycles only buffers that agree with the disk, and keeps the invariant.
LEMMA RecycleInv == ASSUME IInv, NEW b \in Blocks, bget_recycle(b) PROVE IInv'
<1>1. ~Dirty(b)
  BY SMT DEF bget_recycle, IInv, CacheInv
<1> QED
  BY <1>1, CleanCacheStep DEF bget_recycle

\* During an operation nothing is being committed or recovered.
LEMMA InOperation ==
  ASSUME IInv, NEW p \in Procs, pc[p] = "op"
  PROVE  /\ up /\ ~committing /\ p \in Active /\ outstanding >= 1
         /\ \A q \in Procs : pc[q] \in {"idle", "sleeping", "woken", "op"}
         /\ \A b \in Blocks : Dirty(b) <=> b \in Elems(lh)
<1>1. p \in Active
  BY DEF Active
<1>2. ~committing /\ outstanding >= 1
  BY SMT, <1>1, CardActive DEF IInv, CommitExclusive
<1>3. up
  BY DEF IInv, BootInv, up, Booting
<1>4. \A q \in Procs : pc[q] \in {"idle", "sleeping", "woken", "op"}
  <2> SUFFICES ASSUME NEW q \in Procs PROVE pc[q] \notin Commit \cup Booting
    BY DEF IInv, TypeOK, Labels
  <2>1. pc[q] \notin Commit
    BY <1>2 DEF IInv, CommitExclusive
  <2>2. pc[q] \notin Booting
    BY DEF IInv, BootInv, Booting
  <2> QED
    BY <2>1, <2>2
<1> QED
  BY <1>1, <1>2, <1>3, <1>4 DEF Dirty, Pending, Elems

\* log_write keeps the invariant: it pins a new block and absorbs a logged one.
LEMMA LogWriteInv ==
  ASSUME IInv, NEW p \in Procs, NEW b \in Blocks, NEW v \in Values, log_write(p, b, v)
  PROVE  IInv'
<1>0. /\ pc[p] = "op" /\ ~panicked /\ UNCHANGED <<disk, outstanding, committing, pc, tail>>
      /\ cache' = [cache EXCEPT ![b] = v]
  BY DEF log_write
<1>1. /\ up /\ ~committing /\ p \in Active /\ outstanding >= 1
      /\ \A q \in Procs : pc[q] \in {"idle", "sleeping", "woken", "op"}
      /\ \A c \in Blocks : Dirty(c) <=> c \in Elems(lh)
  BY <1>0, InOperation
<1>2. CASE /\ lh' = lh
           /\ \/ panicked' = TRUE /\ refcnt' = [refcnt EXCEPT ![b] = refcnt[b] + 1]
              \/ b \in Elems(lh) /\ panicked' = panicked /\ refcnt' = refcnt
  <2>1. TypeOK'
    <3>1. cache' \in [Blocks -> Contents \cup {None}]
      BY <1>0 DEF IInv, TypeOK, Contents
    <3>2. refcnt' \in [Blocks -> Nat]
      <4>1. [refcnt EXCEPT ![b] = refcnt[b] + 1] \in [Blocks -> Nat]
        BY SMT DEF IInv, TypeOK
      <4> QED
        BY <1>2, <4>1 DEF IInv, TypeOK
    <3>4. panicked' \in BOOLEAN /\ lh' = lh
      BY <1>2 DEF IInv, TypeOK
    <3>3. wrote' \in [Procs -> SUBSET Blocks]
      BY DEF log_write, IInv, TypeOK
    <3> QED
      BY <1>0, <3>1, <3>2, <3>3, <3>4 DEF IInv, TypeOK, disk
  <2>2. CommitExclusive' /\ PanicInv' /\ BootInv'
    BY <1>0, <1>1, <1>2 DEF IInv, CommitExclusive, PanicInv, BootInv, Active, Booting
  <2>3. HeadInv'
    BY SMT, <1>0, <1>2 DEF IInv, HeadInv, up, Distinct, disk
  <2>4. CopyInv'
    BY <1>0, <1>1 DEF CopyInv
  <2>5. \A c \in Blocks : Dirty(c)' <=> Dirty(c)
    BY <1>0, <1>2 DEF Dirty, Pending, up
  <2>6. CacheInv'
    BY SMT, <1>0, <1>1, <1>2, <2>5 DEF IInv, TypeOK, CacheInv, disk
  <2>7. PinsMatchLog'
    BY <1>0, <1>2, <2>5 DEF IInv, PinsMatchLog
  <2> QED
    BY <2>1, <2>2, <2>3, <2>4, <2>6, <2>7 DEF IInv
<1>3. CASE /\ ~TooBig /\ b \notin Elems(lh) /\ refcnt' = [refcnt EXCEPT ![b] = refcnt[b] + 1]
           /\ lh' = Append(lh, b) /\ UNCHANGED panicked
  <2>0. lh' \in Seq(Blocks) /\ Len(lh') = Len(lh) + 1 /\ Len(lh') < size
        /\ \A i \in 1 .. Len(lh') : lh'[i] = IF i = Len(lh) + 1 THEN b ELSE lh[i]
    <3>1. lh \in Seq(Blocks) /\ Len(lh) \in Nat /\ b \in Blocks
      BY SMT DEF IInv, TypeOK
    <3>2. Len(lh) + 1 < size
      BY SMT, <1>3, <3>1 DEF TooBig
    <3>3. /\ Append(lh, b) \in Seq(Blocks) /\ Len(Append(lh, b)) = Len(lh) + 1
          /\ \A i \in 1 .. Len(Append(lh, b)) :
               Append(lh, b)[i] = IF i = Len(lh) + 1 THEN b ELSE lh[i]
      BY SMT, <3>1, AppendFacts
    <3>4. lh' = Append(lh, b)
      BY <1>3
    <3> QED
      BY <3>2, <3>3, <3>4
  <2>1. TypeOK'
    <3>1. cache' \in [Blocks -> Contents \cup {None}]
      BY <1>0 DEF IInv, TypeOK, Contents
    <3>2. refcnt' \in [Blocks -> Nat]
      BY SMT, <1>3 DEF IInv, TypeOK
    <3>3. wrote' \in [Procs -> SUBSET Blocks]
      BY DEF log_write, IInv, TypeOK
    <3> QED
      BY <1>0, <1>3, <2>0, <3>1, <3>2, <3>3 DEF IInv, TypeOK, disk
  <2>2. CommitExclusive' /\ PanicInv' /\ BootInv'
    BY <1>0, <1>1, <1>3 DEF IInv, CommitExclusive, PanicInv, BootInv, Active, Booting
  <2>3. HeadInv'
    <3>1. Distinct(lh)'
      BY SMT, <1>3, <2>0 DEF IInv, TypeOK, HeadInv, Distinct, Elems
    <3> QED
      BY SMTT(40), <1>0, <1>1, <3>1 DEF IInv, HeadInv, up, Distinct, disk, Replaying, Looping
  <2>4. CopyInv'
    BY <1>0, <1>1 DEF CopyInv
  <2>5. \A c \in Blocks : Dirty(c)' <=> c \in Elems(lh) \cup {b}
    <3>1. \A i : Pending(i)'
      BY <1>0, <1>1 DEF Pending, up
    <3>2. \A c \in Blocks : Dirty(c)' <=> \E i \in 1 .. Len(lh') : lh'[i] = c
      BY <3>1 DEF Dirty
    <3>3. Elems(lh') = Elems(lh) \cup {b}
      <4>0. Len(lh) \in Nat
        BY SMT DEF IInv, TypeOK
      <4>1. b \in Elems(lh')
        BY SMT, <2>0, <4>0 DEF Elems
      <4>2. ASSUME NEW i \in 1 .. Len(lh) PROVE lh[i] \in Elems(lh')
        BY SMT, <2>0, <4>0 DEF Elems
      <4>3. ASSUME NEW i \in 1 .. Len(lh') PROVE lh'[i] \in Elems(lh) \cup {b}
        BY SMT, <2>0, <4>0 DEF Elems
      <4> QED
        BY <4>1, <4>2, <4>3 DEF Elems
    <3> QED
      BY <3>2, <3>3 DEF Elems
  <2>6. CacheInv'
    BY SMT, <1>0, <1>1, <1>3, <2>5 DEF IInv, TypeOK, CacheInv, disk
  <2>7. PinsMatchLog'
    BY SMT, <1>0, <1>1, <1>3, <2>5 DEF IInv, TypeOK, PinsMatchLog
  <2> QED
    BY <2>1, <2>2, <2>3, <2>4, <2>6, <2>7 DEF IInv
<1>4. \/ panicked' = TRUE /\ refcnt' = [refcnt EXCEPT ![b] = refcnt[b] + 1] /\ lh' = lh
      \/ b \in Elems(lh) /\ panicked' = panicked /\ refcnt' = refcnt /\ lh' = lh
      \/ /\ ~TooBig /\ b \notin Elems(lh) /\ refcnt' = [refcnt EXCEPT ![b] = refcnt[b] + 1]
         /\ lh' = Append(lh, b) /\ panicked' = panicked
  BY DEF log_write
<1> QED
  BY <1>2, <1>3, <1>4



\* Slot t of the log in use belongs to one block, which no other slot names.
LEMMA HeadSlot ==
  ASSUME IInv, NEW t \in 1 .. Len(lh)
  PROVE  /\ lh[t] \in Blocks /\ t \in LogSlots /\ dlog[t] \in Contents
         /\ \A i \in 1 .. Len(lh) : lh[i] = lh[t] => i = t
<1>1. /\ lh \in Seq(Blocks) /\ Len(lh) < size
      /\ dlog \in [LogSlots -> Contents]
  BY DEF IInv, TypeOK
<1>2. Distinct(lh)
  BY DEF IInv, HeadInv
<1>3. lh[t] \in Blocks /\ t \in LogSlots
  BY SMT, <1>1, SpaceAssumption DEF LogSlots
<1> QED
  BY <1>1, <1>2, <1>3 DEF Distinct

\* A step of the committer that stays inside commit().
LEMMA CommitterStep ==
  ASSUME IInv, NEW p \in Procs, pc[p] \in Commit, NEW l \in Commit,
         pc' = [pc EXCEPT ![p] = l], UNCHANGED <<outstanding, committing, panicked>>
  PROVE  /\ CommitExclusive' /\ BootInv' /\ PanicInv' /\ up' /\ ~panicked' /\ committing'
         /\ pc' \in [Procs -> Labels] /\ pc'[p] = l
         /\ \A q \in Procs : q # p => pc'[q] \in {"idle", "sleeping", "woken"}
<1>1. /\ up /\ committing /\ ~panicked /\ outstanding = 0 /\ Active = {}
      /\ \A q \in Procs : q # p => pc[q] \in {"idle", "sleeping", "woken"}
  BY CommitterAlone
<1>2. /\ pc' \in [Procs -> Labels] /\ pc'[p] = l
      /\ \A q \in Procs : q # p => pc'[q] = pc[q]
  BY DEF IInv, TypeOK, Labels
<1>3. Active' = {}
  BY <1>1, <1>2 DEF Active, Commit
<1>4. \A q \in Procs : pc'[q] \in Commit <=> q = p
  BY <1>1, <1>2 DEF Commit
<1>5. CommitExclusive'
  BY <1>1, <1>3, <1>4 DEF CommitExclusive, IInv
<1>6. \A q \in Procs : pc'[q] \notin Booting
  BY <1>1, <1>2 DEF Booting, Commit
<1> QED
  BY <1>1, <1>2, <1>5, <1>6 DEF BootInv, PanicInv, up

\* The entry of commit() keeps the invariant.
LEMMA CommitInv == ASSUME IInv, NEW p \in Procs, commit(p) PROVE IInv'
<1> DEFINE l == IF Len(lh) > 0 THEN "write_log" ELSE "end_commit"
<1>0. /\ pc[p] = "commit" /\ pc[p] \in Commit /\ l \in Commit
      /\ pc' = [pc EXCEPT ![p] = l]
      /\ UNCHANGED <<home, dhead, dlog, cache, refcnt, lh, outstanding, committing,
                     panicked, tail, wrote>>
  BY DEF commit, Goto, Commit, disk, logv
<1> HIDE DEF l
<1>1. /\ up /\ committing /\ ~panicked
      /\ \A q \in Procs : q # p => pc[q] \in {"idle", "sleeping", "woken"}
  BY <1>0, CommitterAlone
<1>2. /\ CommitExclusive' /\ BootInv' /\ PanicInv' /\ up' /\ committing'
      /\ pc' \in [Procs -> Labels] /\ pc'[p] = l
      /\ \A q \in Procs : q # p => pc'[q] \in {"idle", "sleeping", "woken"}
  BY <1>0, CommitterStep
<1>3. TypeOK'
  BY <1>0, <1>2 DEF IInv, TypeOK
<1>4. tail[p] = 1 /\ (l = "write_log" => 1 <= Len(lh)) /\ (l = "end_commit" => lh = << >>)
      /\ l \in {"write_log", "end_commit"}
  <2>1. tail[p] = 1
    BY <1>0 DEF IInv, HeadInv, Looping
  <2>2. lh \in Seq(Blocks)
    BY DEF IInv, TypeOK
  <2> QED
    BY SMT, <2>1, <2>2 DEF l
<1>5. dhead = << >>
  BY <1>0, <1>1 DEF IInv, HeadInv, Replaying
<1>6. HeadInv'
  BY SMT, <1>0, <1>2, <1>4, <1>5 DEF HeadInv, IInv, Distinct, Replaying, Looping
<1>7. CopyInv'
  BY SMT, <1>0, <1>2, <1>4 DEF CopyInv
<1>8. \A b \in Blocks : Dirty(b)' <=> Dirty(b)
  BY <1>0, <1>1, <1>2, <1>4 DEF Dirty, Pending
<1>9. CacheInv'
  BY <1>0, <1>8 DEF CacheInv, IInv
<1>10. PinsMatchLog'
  BY <1>0, <1>8 DEF PinsMatchLog, IInv
<1> QED
  BY <1>2, <1>3, <1>6, <1>7, <1>9, <1>10 DEF IInv

\* The loops of write_log and install_trans.
LEMMA LoopStep ==
  ASSUME IInv, NEW p \in Procs, NEW l, pc[p] \in Looping, Loop(p, l)
  PROVE  /\ tail[p] \in 1 .. Len(lh)
         /\ tail' \in [Procs -> LogSlots]
         /\ \A q \in Procs : q # p => tail'[q] = tail[q]
         /\ \/ tail[p] < Len(lh) /\ tail'[p] = tail[p] + 1 /\ pc' = [pc EXCEPT ![p] = pc[p]]
            \/ tail[p] = Len(lh) /\ tail'[p] = 1 /\ pc' = [pc EXCEPT ![p] = l]
<1>1. tail[p] \in LogSlots /\ Len(lh) \in Nat /\ Len(lh) < size /\ tail[p] <= Len(lh)
  BY SMT DEF IInv, TypeOK, HeadInv
<1>2. CASE tail[p] < Len(lh)
  <2>1. tail' = [tail EXCEPT ![p] = tail[p] + 1] /\ pc' = pc
    BY <1>2 DEF Loop
  <2>2. tail[p] + 1 \in LogSlots
    BY SMT, <1>1, <1>2 DEF LogSlots
  <2> QED
    BY SMT, <1>1, <1>2, <2>1, <2>2 DEF IInv, TypeOK, LogSlots
<1>3. CASE ~(tail[p] < Len(lh))
  <2>1. tail' = [tail EXCEPT ![p] = 1] /\ pc' = [pc EXCEPT ![p] = l]
    BY <1>3 DEF Loop, Goto
  <2>2. 1 \in LogSlots
    BY SMT DEF LogSlots
  <2> QED
    BY SMT, <1>1, <1>3, <2>1, <2>2 DEF IInv, TypeOK, LogSlots
<1> QED
  BY <1>2, <1>3

\* write_log, one block of it, keeps the invariant.
LEMMA WriteLogInv == ASSUME IInv, NEW p \in Procs, write_log(p) PROVE IInv'
<1> DEFINE t == tail[p]
<1>0. /\ pc[p] = "write_log" /\ pc[p] \in Commit /\ pc[p] \in Looping
      /\ Loop(p, "write_head")
      /\ UNCHANGED <<home, dhead, refcnt, lh, outstanding, committing, panicked, wrote>>
  BY DEF write_log, logv, Commit, Looping
<1>1. /\ up /\ committing /\ ~panicked
      /\ \A q \in Procs : q # p => pc[q] \in {"idle", "sleeping", "woken"}
  BY <1>0, CommitterAlone
<1>2. /\ t \in 1 .. Len(lh) /\ tail' \in [Procs -> LogSlots]
      /\ \A q \in Procs : q # p => tail'[q] = tail[q]
      /\ \/ t < Len(lh) /\ tail'[p] = t + 1 /\ pc' = [pc EXCEPT ![p] = "write_log"]
         \/ t = Len(lh) /\ tail'[p] = 1 /\ pc' = [pc EXCEPT ![p] = "write_head"]
  BY <1>0, LoopStep
<1>3. lh[t] \in Blocks /\ t \in LogSlots
  BY SMT, <1>2 DEF IInv, TypeOK
<1>4. cache[lh[t]] # None
  BY <1>0, <1>2, <1>3, DirtyInCommit DEF IInv, CacheInv
<1>5. cache' = cache /\ dlog' = [dlog EXCEPT ![t] = cache[lh[t]]]
  BY <1>3, <1>4 DEF write_log, Read, IInv, TypeOK
<1>6. PICK l \in {"write_log", "write_head"} : pc' = [pc EXCEPT ![p] = l]
  BY <1>2
<1>7. /\ CommitExclusive' /\ BootInv' /\ PanicInv' /\ up' /\ committing'
      /\ pc' \in [Procs -> Labels] /\ pc'[p] = l
      /\ \A q \in Procs : q # p => pc'[q] \in {"idle", "sleeping", "woken"}
  BY <1>0, <1>6, CommitterStep DEF Commit
<1>8. TypeOK'
  <2>1. dlog' \in [LogSlots -> Contents]
    BY <1>3, <1>4, <1>5 DEF IInv, TypeOK
  <2> QED
    BY <1>0, <1>2, <1>5, <1>7, <2>1 DEF IInv, TypeOK
<1>9. dhead = << >>
  BY <1>0, <1>1 DEF IInv, HeadInv, Replaying
<1>10. HeadInv'
  BY SMT, <1>0, <1>1, <1>2, <1>7, <1>9 DEF HeadInv, IInv, TypeOK, Distinct, Replaying, Looping
<1>11. CopyInv'
  <2> SUFFICES ASSUME NEW i \in 1 .. Len(lh),
                      pc'[p] = "write_log" => i < tail'[p]
               PROVE  dlog'[i] = cache[lh[i]]
    BY <1>0, <1>5, <1>6, <1>7 DEF CopyInv
  <2>1. i \in LogSlots
    BY SMT DEF IInv, TypeOK, LogSlots
  <2>2. i = t \/ i < t
    BY SMTT(40), <1>2, <1>6, <1>7 DEF IInv, TypeOK
  <2>3. CASE i = t
    BY <2>1, <2>3, <1>5 DEF IInv, TypeOK
  <2>4. CASE i < t
    <3>1. dlog[i] = cache[lh[i]]
      BY <2>4, <1>0 DEF IInv, CopyInv
    <3> QED
      BY <3>1, <2>1, <2>4, <1>2, <1>3, <1>5 DEF IInv, TypeOK
  <2> QED
    BY <2>2, <2>3, <2>4
<1>12. \A b \in Blocks : Dirty(b)' <=> Dirty(b)
  BY <1>0, <1>1, <1>6, <1>7 DEF Dirty, Pending
<1>13. CacheInv'
  BY <1>0, <1>5, <1>12 DEF CacheInv, IInv
<1>14. PinsMatchLog'
  BY <1>0, <1>12 DEF PinsMatchLog, IInv
<1> QED
  BY <1>7, <1>8, <1>10, <1>11, <1>13, <1>14 DEF IInv

\* write_head, the commit point, keeps the invariant.
LEMMA WriteHeadInv == ASSUME IInv, NEW p \in Procs, write_head(p) PROVE IInv'
<1>0. /\ pc[p] = "write_head" /\ pc[p] \in Commit
      /\ pc' = [pc EXCEPT ![p] = "install_trans"] /\ dhead' = lh
      /\ UNCHANGED <<home, dlog, cache, refcnt, lh, outstanding, committing, panicked, tail, wrote>>
  BY DEF write_head, Goto, logv, Commit
<1>1. /\ up /\ committing /\ ~panicked
      /\ \A q \in Procs : q # p => pc[q] \in {"idle", "sleeping", "woken"}
  BY <1>0, CommitterAlone
<1>2. /\ CommitExclusive' /\ BootInv' /\ PanicInv' /\ up' /\ committing'
      /\ pc' \in [Procs -> Labels] /\ pc'[p] = "install_trans"
      /\ \A q \in Procs : q # p => pc'[q] \in {"idle", "sleeping", "woken"}
  BY <1>0, CommitterStep DEF Commit
<1>3. TypeOK'
  BY <1>0, <1>2 DEF IInv, TypeOK
<1>4. tail[p] = 1 /\ tail[p] <= Len(lh)
  BY <1>0 DEF IInv, HeadInv, Looping
<1>5. HeadInv'
  BY SMT, <1>0, <1>2, <1>4 DEF HeadInv, IInv, Distinct, Replaying, Looping
<1>10. CopyInv /\ Len(lh) \in Nat /\ tail[p] \in Nat
  BY SMT, <1>4 DEF IInv, TypeOK
<1>6. CopyInv'
  BY SMT, <1>0, <1>2, <1>4, <1>10 DEF CopyInv
<1>7. \A b \in Blocks : Dirty(b)' <=> Dirty(b)
  BY SMT, <1>0, <1>1, <1>2, <1>4, <1>10 DEF Dirty, Pending
<1>8. CacheInv'
  BY <1>0, <1>7 DEF CacheInv, IInv
<1>9. PinsMatchLog'
  BY <1>0, <1>7 DEF PinsMatchLog, IInv
<1> QED
  BY <1>2, <1>3, <1>5, <1>6, <1>8, <1>9 DEF IInv

\* install_trans after a commit, one block of it, keeps the invariant.
LEMMA InstallInv == ASSUME IInv, NEW p \in Procs, install_trans(p, FALSE) PROVE IInv'
<1> DEFINE t == tail[p]
           b == lh[t]
<1>0. /\ pc[p] = "install_trans" /\ pc[p] \in Commit /\ pc[p] \in Looping
      /\ Loop(p, "clear_head")
      /\ cache' = [cache EXCEPT ![b] = dlog[t]]
      /\ home' = [home EXCEPT ![b] = dlog[t]]
      /\ refcnt' = [refcnt EXCEPT ![b] = refcnt[b] - 1]
      /\ UNCHANGED <<dhead, dlog, lh, outstanding, committing, panicked, wrote>>
  BY DEF install_trans, logv, Commit, Looping
<1>1. /\ up /\ committing /\ ~panicked
      /\ \A q \in Procs : q # p => pc[q] \in {"idle", "sleeping", "woken"}
  BY <1>0, CommitterAlone
<1>2. /\ t \in 1 .. Len(lh) /\ tail' \in [Procs -> LogSlots]
      /\ \A q \in Procs : q # p => tail'[q] = tail[q]
      /\ \/ t < Len(lh) /\ tail'[p] = t + 1 /\ pc' = [pc EXCEPT ![p] = "install_trans"]
         \/ t = Len(lh) /\ tail'[p] = 1 /\ pc' = [pc EXCEPT ![p] = "clear_head"]
  BY <1>0, LoopStep
<1>3. /\ b \in Blocks /\ t \in LogSlots /\ dlog[t] \in Contents
      /\ \A i \in 1 .. Len(lh) : lh[i] = b => i = t
  BY <1>2, HeadSlot
<1>4. Dirty(b) /\ refcnt[b] = 1
  BY SMT, <1>0, <1>1, <1>2, <1>3, DirtyInCommit DEF IInv, TypeOK, PinsMatchLog
<1>5. PICK l \in {"install_trans", "clear_head"} : pc' = [pc EXCEPT ![p] = l]
  BY <1>2
<1>6. /\ CommitExclusive' /\ BootInv' /\ PanicInv' /\ up' /\ ~panicked' /\ committing'
      /\ pc' \in [Procs -> Labels] /\ pc'[p] = l
      /\ \A q \in Procs : q # p => pc'[q] \in {"idle", "sleeping", "woken"}
  BY <1>0, <1>5, CommitterStep DEF Commit
<1>7. TypeOK'
  <2>1. /\ cache' \in [Blocks -> Contents \cup {None}]
        /\ home' \in [Blocks -> Contents]
    BY <1>0, <1>3 DEF IInv, TypeOK
  <2>2. refcnt' \in [Blocks -> Nat]
    BY SMT, <1>0, <1>3, <1>4 DEF IInv, TypeOK
  <2>3. TypeOK
    BY DEF IInv
  <2> QED
    BY <1>0, <1>2, <1>6, <2>1, <2>2, <2>3 DEF TypeOK
<1>8. dhead = lh
  BY <1>0 DEF IInv, HeadInv, Replaying
<1>9. HeadInv'
  <2>1. \A q \in Procs : q # p => tail[q] = 1
    BY <1>1 DEF IInv, HeadInv, Looping
  <2>2. pc'[p] \in Replaying
    BY <1>5, <1>6 DEF Replaying
  <2>3. Distinct(lh)
    BY DEF IInv, HeadInv
  <2>4. pc \in [Procs -> Labels] /\ Len(lh) \in Nat
    BY SMT DEF IInv, TypeOK
  <2>5. tail'[p] <= Len(lh) /\ (l = "clear_head" => tail'[p] = 1)
    BY SMT, <1>2, <1>5, <2>4
  <2> QED
    BY SMT, <1>0, <1>2, <1>5, <1>6, <1>8, <2>1, <2>2, <2>3, <2>5 DEF HeadInv, Distinct, Replaying, Looping
<1>10. \A i \in 1 .. Len(lh) : i # t => home'[lh[i]] = home[lh[i]] /\ cache'[lh[i]] = cache[lh[i]]
  BY SMT, <1>0, <1>3 DEF IInv, TypeOK
<1>11. home'[b] = dlog[t] /\ cache'[b] = dlog[t]
  BY <1>0, <1>3 DEF IInv, TypeOK
<1>12. CopyInv'
  <2> SUFFICES ASSUME NEW i \in 1 .. Len(lh)
               PROVE  /\ l = "install_trans" /\ i >= tail'[p] => dlog[i] = cache'[lh[i]]
                      /\ l = "install_trans" /\ i < tail'[p] => home'[lh[i]] = dlog[i]
                      /\ l = "clear_head" => home'[lh[i]] = dlog[i]
    <3>1. pc'[p] = l /\ l # "write_log" /\ UNCHANGED <<lh, dlog>>
      BY <1>0, <1>5, <1>6
    <3> QED
      BY <1>6, <3>1 DEF CopyInv
  <2>0. /\ i >= t => dlog[i] = cache[lh[i]]
        /\ i < t => home[lh[i]] = dlog[i]
    BY <1>0 DEF IInv, CopyInv
  <2>1. i > t => dlog[i] = cache'[lh[i]]
    BY SMT, <1>2, <1>10, <2>0
  <2>2. i <= t => home'[lh[i]] = dlog[i]
    BY SMT, <1>2, <1>10, <1>11, <2>0
  <2> QED
    BY SMT, <1>2, <1>5, <1>6, <2>1, <2>2 DEF IInv, TypeOK
<1>13. \A c \in Blocks : Dirty(c)' <=> Dirty(c) /\ c # b
  <2>1. \A i \in 1 .. Len(lh) : Pending(i) <=> i >= t
    BY <1>0, <1>1 DEF Pending
  <2>2. \A i \in 1 .. Len(lh) : Pending(i)' <=> i > t
    <3>1. \A i \in 1 .. Len(lh) :
            Pending(i)' <=> l = "install_trans" /\ i >= tail'[p]
      BY <1>5, <1>6 DEF Pending
    <3>2. \/ l = "install_trans" /\ tail'[p] = t + 1
          \/ l = "clear_head" /\ t = Len(lh)
      BY <1>2, <1>5, <1>6 DEF IInv, TypeOK
    <3> QED
      BY SMT, <1>2, <3>1, <3>2
  <2>3. \A i \in 1 .. Len(lh) : i > t <=> i >= t /\ i # t
    BY SMT, <1>2 DEF IInv, TypeOK
  <2> QED
    BY <1>0, <1>2, <1>3, <2>1, <2>2, <2>3 DEF Dirty
<1>14. CacheInv'
  BY <1>0, <1>3, <1>4, <1>11, <1>13 DEF CacheInv, IInv, TypeOK
<1>15. PinsMatchLog'
  BY SMT, <1>0, <1>1, <1>3, <1>4, <1>13 DEF PinsMatchLog, IInv, TypeOK
<1> QED
  BY <1>6, <1>7, <1>9, <1>12, <1>14, <1>15 DEF IInv

\* Erasing the header after a commit keeps the invariant.
LEMMA ClearInv == ASSUME IInv, NEW p \in Procs, clear_head(p, FALSE) PROVE IInv'
<1>0. /\ pc[p] = "clear_head" /\ pc[p] \in Commit
      /\ pc' = [pc EXCEPT ![p] = "end_commit"] /\ lh' = << >> /\ dhead' = << >>
      /\ UNCHANGED <<home, dlog, cache, refcnt, outstanding, committing, panicked, tail, wrote>>
  BY DEF clear_head, Goto, Commit
<1>1. /\ CommitExclusive' /\ BootInv' /\ PanicInv' /\ up' /\ committing'
      /\ pc' \in [Procs -> Labels] /\ pc'[p] = "end_commit"
      /\ \A q \in Procs : q # p => pc'[q] \in {"idle", "sleeping", "woken"}
  BY <1>0, CommitterStep DEF Commit
<1>2. TypeOK'
  <2>1. /\ lh' \in Seq(Blocks) /\ Len(lh') < size
        /\ dhead' \in Seq(Blocks) /\ Len(dhead') < size
    BY SMT, <1>0
  <2> QED
    BY <1>0, <1>1, <2>1 DEF IInv, TypeOK
<1>3. HeadInv'
  BY SMT, <1>0, <1>1 DEF HeadInv, IInv, Distinct, Replaying, Looping
<1>4. CopyInv'
  BY SMTT(40), <1>0 DEF CopyInv
<1>5. \A b \in Blocks : ~Dirty(b)'
  BY SMT, <1>0 DEF Dirty
<1>6. \A b \in Blocks : ~Dirty(b)
  BY <1>0 DEF Dirty, Pending
<1>7. CacheInv'
  BY <1>0, <1>5 DEF CacheInv, IInv
<1>8. PinsMatchLog'
  BY <1>0, <1>5, <1>6 DEF PinsMatchLog, IInv
<1> QED
  BY <1>1, <1>2, <1>3, <1>4, <1>7, <1>8 DEF IInv

\* A step of recovery.
LEMMA BootStep ==
  ASSUME IInv, NEW p \in Procs, pc[p] \in Booting, NEW l \in Booting \cup {"idle"},
         pc' = [pc EXCEPT ![p] = l], UNCHANGED <<outstanding, committing, panicked>>
  PROVE  /\ CommitExclusive' /\ BootInv' /\ PanicInv' /\ ~panicked'
         /\ up' <=> l = "idle"
         /\ pc' \in [Procs -> Labels] /\ pc'[p] = l
         /\ \A q \in Procs : q # p => pc'[q] = "idle"
<1>1. /\ p = initproc /\ ~up /\ ~committing /\ ~panicked
      /\ outstanding = 0 /\ Active = {}
      /\ \A q \in Procs : q # p => pc[q] = "idle"
  BY BootAlone
<1>2. /\ pc' \in [Procs -> Labels] /\ pc'[p] = l
      /\ \A q \in Procs : q # p => pc'[q] = "idle"
  BY <1>1 DEF IInv, TypeOK, Labels
<1>3. Active' = {} /\ \A q \in Procs : pc'[q] \notin Commit
  BY <1>2 DEF Active, Commit, Booting
<1>4. CommitExclusive'
  BY <1>1, <1>3 DEF CommitExclusive, IInv
<1>5. up' <=> l = "idle"
  BY <1>1, <1>2 DEF up, Booting
<1> QED
  BY <1>1, <1>2, <1>4, <1>5 DEF BootInv, PanicInv, Booting

\* No buffer is pinned before the system is up, or just after.
LEMMA BootRefs ==
  ASSUME IInv, NEW p \in Procs, pc[p] \in Booting
  PROVE  \A b \in Blocks : refcnt[b] = 0 /\ (cache[b] # None => cache[b] = home[b])
<1>1. ~up /\ ~panicked
  BY BootAlone
<1> QED
  BY <1>1 DEF IInv, PinsMatchLog, CacheInv, Dirty, Pending

\* read_head at boot keeps the invariant.
LEMMA ReadHeadInv == ASSUME IInv, NEW p \in Procs, read_head(p) PROVE IInv'
<1>0. /\ pc[p] = "read_head" /\ pc[p] \in Booting /\ lh' = dhead
      /\ UNCHANGED <<home, dhead, dlog, cache, refcnt, outstanding, committing, panicked, tail, wrote>>
  BY DEF read_head, disk, Booting
<1>1. PICK l \in {"recover_install", "recover_clear"} :
        pc' = [pc EXCEPT ![p] = l] /\ (l = "recover_clear" <=> dhead = << >>)
  BY DEF read_head, Goto
<1>2. /\ CommitExclusive' /\ BootInv' /\ PanicInv' /\ ~up'
      /\ pc' \in [Procs -> Labels] /\ pc'[p] = l
      /\ \A q \in Procs : q # p => pc'[q] = "idle"
  BY <1>0, <1>1, BootStep DEF Booting
<1>3. TypeOK'
  BY <1>0, <1>2 DEF IInv, TypeOK
<1>4. tail[p] = 1 /\ (l = "recover_install" => 1 <= Len(dhead))
  BY SMT, <1>0, <1>1 DEF IInv, TypeOK, HeadInv, Looping
<1>5. HeadInv'
  <2>1. \A q \in Procs : tail[q] = 1
    BY <1>0, BootAlone DEF IInv, HeadInv, Looping
  <2>2. pc'[p] \in Replaying /\ pc'[p] # "write_log"
    BY <1>1, <1>2 DEF Replaying
  <2>3. Distinct(dhead)
    BY DEF IInv, HeadInv
  <2> QED
    BY SMT, <1>0, <1>1, <1>2, <1>4, <2>1, <2>2, <2>3 DEF HeadInv, Distinct, Replaying, Looping
<1>6. CopyInv'
  <2>1. \A i \in 1 .. Len(dhead) : ~(i < 1) /\ dhead # << >>
    BY SMT DEF IInv, TypeOK
  <2> QED
    BY <1>0, <1>1, <1>2, <1>4, <2>1 DEF CopyInv
<1>7. \A b \in Blocks : ~Dirty(b)'
  BY <1>2 DEF Dirty, Pending
<1>8. CacheInv' /\ PinsMatchLog'
  BY <1>0, <1>7, BootRefs DEF CacheInv, PinsMatchLog
<1> QED
  BY <1>2, <1>3, <1>5, <1>6, <1>8 DEF IInv

\* install_trans in recovery, one block of it, keeps the invariant.
LEMMA RecoverInstallInv == ASSUME IInv, NEW p \in Procs, install_trans(p, TRUE) PROVE IInv'
<1> DEFINE t == tail[p]
           b == lh[t]
<1>0. /\ pc[p] = "recover_install" /\ pc[p] \in Booting /\ pc[p] \in Looping
      /\ Loop(p, "recover_clear")
      /\ cache' = [cache EXCEPT ![b] = dlog[t]]
      /\ home' = [home EXCEPT ![b] = dlog[t]]
      /\ UNCHANGED <<refcnt, dhead, dlog, lh, outstanding, committing, panicked, wrote>>
  BY DEF install_trans, logv, Booting, Looping
<1>2. /\ t \in 1 .. Len(lh) /\ tail' \in [Procs -> LogSlots]
      /\ \A q \in Procs : q # p => tail'[q] = tail[q]
      /\ \/ t < Len(lh) /\ tail'[p] = t + 1 /\ pc' = [pc EXCEPT ![p] = "recover_install"]
         \/ t = Len(lh) /\ tail'[p] = 1 /\ pc' = [pc EXCEPT ![p] = "recover_clear"]
  BY <1>0, LoopStep
<1>3. /\ b \in Blocks /\ t \in LogSlots /\ dlog[t] \in Contents
      /\ \A i \in 1 .. Len(lh) : lh[i] = b => i = t
  BY <1>2, HeadSlot
<1>5. PICK l \in {"recover_install", "recover_clear"} : pc' = [pc EXCEPT ![p] = l]
  BY <1>2
<1>6. /\ CommitExclusive' /\ BootInv' /\ PanicInv' /\ ~up'
      /\ pc' \in [Procs -> Labels] /\ pc'[p] = l
      /\ \A q \in Procs : q # p => pc'[q] = "idle"
  BY <1>0, <1>5, BootStep DEF Booting
<1>7. TypeOK'
  <2>1. /\ cache' \in [Blocks -> Contents \cup {None}]
        /\ home' \in [Blocks -> Contents]
    BY <1>0, <1>3 DEF IInv, TypeOK
  <2> QED
    BY <1>0, <1>2, <1>6, <2>1 DEF IInv, TypeOK
<1>8. dhead = lh
  BY <1>0 DEF IInv, HeadInv, Replaying
<1>9. HeadInv'
  <2>1. \A q \in Procs : q # p => tail[q] = 1
    BY <1>0, BootAlone DEF IInv, HeadInv, Looping
  <2>2. pc'[p] \in Replaying
    BY <1>5, <1>6 DEF Replaying
  <2>3. Distinct(lh)
    BY DEF IInv, HeadInv
  <2>4. pc \in [Procs -> Labels] /\ Len(lh) \in Nat
    BY SMT DEF IInv, TypeOK
  <2>5. tail'[p] <= Len(lh) /\ (l = "recover_clear" => tail'[p] = 1)
    BY SMT, <1>2, <1>5, <2>4
  <2> QED
    BY SMT, <1>0, <1>2, <1>5, <1>6, <1>8, <2>1, <2>2, <2>3, <2>5 DEF HeadInv, Distinct, Replaying, Looping
<1>12. CopyInv'
  <2> SUFFICES ASSUME NEW i \in 1 .. Len(lh),
                      l = "recover_install" => i < tail'[p]
               PROVE  home'[lh[i]] = dlog[i]
    BY <1>0, <1>5, <1>6 DEF CopyInv
  <2>0. pc \in [Procs -> Labels] /\ Len(lh) \in Nat
    BY SMT DEF IInv, TypeOK
  <2>1. i <= t
    BY SMT, <1>2, <1>5, <2>0
  <2>2. i < t => home[lh[i]] = dlog[i]
    BY <1>0 DEF IInv, CopyInv
  <2> QED
    BY SMT, <1>0, <1>2, <1>3, <2>1, <2>2 DEF IInv, TypeOK
<1>13. \A c \in Blocks : ~Dirty(c)'
  BY <1>6 DEF Dirty, Pending
<1>14. CacheInv'
  BY <1>0, <1>3, <1>13, BootRefs DEF CacheInv, IInv, TypeOK
<1>15. PinsMatchLog'
  BY <1>0, <1>13, BootRefs DEF PinsMatchLog
<1> QED
  BY <1>6, <1>7, <1>9, <1>12, <1>14, <1>15 DEF IInv

\* Erasing the header after recovery keeps the invariant.
LEMMA RecoverClearInv == ASSUME IInv, NEW p \in Procs, clear_head(p, TRUE) PROVE IInv'
<1>0. /\ pc[p] = "recover_clear" /\ pc[p] \in Booting
      /\ pc' = [pc EXCEPT ![p] = "idle"] /\ lh' = << >> /\ dhead' = << >>
      /\ UNCHANGED <<home, dlog, cache, refcnt, outstanding, committing, panicked, tail, wrote>>
  BY DEF clear_head, Goto, Booting
<1>1. /\ CommitExclusive' /\ BootInv' /\ PanicInv'
      /\ pc' \in [Procs -> Labels] /\ pc'[p] = "idle"
      /\ \A q \in Procs : q # p => pc'[q] = "idle"
  BY <1>0, BootStep
<1>2. TypeOK'
  <2>1. /\ lh' \in Seq(Blocks) /\ Len(lh') < size
        /\ dhead' \in Seq(Blocks) /\ Len(dhead') < size
    BY SMT, <1>0
  <2> QED
    BY <1>0, <1>1, <2>1 DEF IInv, TypeOK
<1>3. HeadInv'
  <2>1. \A q \in Procs : tail[q] = 1
    BY <1>0, BootAlone DEF IInv, HeadInv, Looping
  <2> QED
    BY SMT, <1>0, <1>1, <2>1 DEF HeadInv, Distinct, Replaying, Looping
<1>4. CopyInv'
  BY SMT, <1>0 DEF CopyInv
<1>5. \A b \in Blocks : ~Dirty(b)'
  BY SMT, <1>0 DEF Dirty
<1>6. CacheInv' /\ PinsMatchLog'
  BY <1>0, <1>5, BootRefs DEF CacheInv, PinsMatchLog
<1> QED
  BY <1>1, <1>2, <1>3, <1>4, <1>6 DEF IInv

\* A crash tears at most the block being written: in the log while the header
\* is empty, at home while the header covers it.
LEMMA CrashDisk ==
  ASSUME IInv, Crash
  PROVE  /\ home' \in [Blocks -> Contents] /\ dlog' \in [LogSlots -> Contents]
         /\ dhead' = dhead
         /\ \A b \in Blocks : b \notin Elems(dhead) => home'[b] = home[b]
         /\ \A i \in 1 .. Len(dhead) : dlog'[i] = dlog[i]
<1>1. Torn \in Contents
  BY DEF Contents
<1>2. dlog' \in [LogSlots -> Contents] /\ \A i \in 1 .. Len(dhead) : dlog'[i] = dlog[i]
  <2>1. CASE dlog' = dlog
    BY <2>1 DEF IInv, TypeOK
  <2>2. CASE dlog' # dlog
    <3>1. PICK p \in Procs : pc[p] = "write_log" /\ dlog' = [dlog EXCEPT ![tail[p]] = Torn]
      BY <2>2 DEF Crash
    <3>2. \A q \in Procs : pc[q] \notin Replaying \cup {"read_head"}
      BY <3>1, CommitterAlone DEF Replaying, Commit
    <3>3. dhead = << >>
      BY <3>2 DEF IInv, HeadInv
    <3> QED
      BY SMT, <1>1, <3>1, <3>3 DEF IInv, TypeOK
  <2> QED
    BY <2>1, <2>2
<1>3. /\ home' \in [Blocks -> Contents]
      /\ \A b \in Blocks : b \notin Elems(dhead) => home'[b] = home[b]
  <2>1. CASE home' = home
    BY <2>1 DEF IInv, TypeOK
  <2>2. CASE home' # home
    <3>1. PICK p \in Procs : /\ pc[p] \in {"install_trans", "recover_install"}
                             /\ home' = [home EXCEPT ![lh[tail[p]]] = Torn]
      BY <2>2 DEF Crash
    <3>2. dhead = lh /\ tail[p] \in 1 .. Len(lh)
      BY SMT, <3>1 DEF IInv, TypeOK, HeadInv, Replaying, Looping, LogSlots
    <3>3. lh[tail[p]] \in Elems(dhead)
      BY <3>2 DEF Elems
    <3> QED
      BY <1>1, <3>1, <3>3 DEF IInv, TypeOK
  <2> QED
    BY <2>1, <2>2
<1> QED
  BY <1>2, <1>3 DEF Crash

\* A crash at any step, a torn block included, keeps the invariant.
LEMMA CrashInv == ASSUME IInv, Crash PROVE IInv'
<1>1. /\ home' \in [Blocks -> Contents] /\ dlog' \in [LogSlots -> Contents]
      /\ dhead' = dhead
  BY CrashDisk
<1>2. /\ pc' \in [Procs -> Labels] /\ pc'[initproc] = "read_head"
      /\ \A q \in Procs : q # initproc => pc'[q] = "idle"
  BY DEF Crash, Labels, Booting
<1>3. TypeOK'
  <2>0. lh' = << >> /\ outstanding' = 0 /\ committing' = FALSE /\ panicked' = FALSE
    BY DEF Crash
  <2>1. lh' \in Seq(Blocks) /\ Len(lh') < size /\ outstanding' \in Nat
    BY SMT, <2>0
  <2>4. committing' \in BOOLEAN /\ panicked' \in BOOLEAN
    BY <2>0
  <2>2. /\ cache' \in [Blocks -> Contents \cup {None}] /\ refcnt' \in [Blocks -> Nat]
        /\ tail' \in [Procs -> LogSlots] /\ wrote' \in [Procs -> SUBSET Blocks]
    BY SMT DEF Crash, LogSlots
  <2>3. dhead' \in Seq(Blocks) /\ Len(dhead') < size
    BY <1>1 DEF IInv, TypeOK
  <2> QED
    BY <1>1, <1>2, <2>1, <2>2, <2>3, <2>4 DEF TypeOK
<1>4. Active' = {} /\ \A q \in Procs : pc'[q] \notin Commit
  BY <1>2 DEF Active, Commit
<1>5. CommitExclusive' /\ PanicInv'
  BY <1>4, CardEmpty DEF Crash, CommitExclusive, PanicInv, IInv
<1>6. BootInv'
  BY <1>2 DEF BootInv, Booting, Crash
<1>7. HeadInv'
  <2>1. Distinct(dhead)
    BY DEF IInv, HeadInv
  <2>2. ~up'
    BY <1>2 DEF up, Booting
  <2>3. lh' = << >> /\ Distinct(lh') /\ \A q \in Procs : tail'[q] = 1
    BY SMT DEF Crash, Distinct
  <2> QED
    BY <1>1, <1>2, <2>1, <2>2, <2>3 DEF HeadInv, Replaying, Looping, Distinct
<1>8. CopyInv' /\ CacheInv' /\ PinsMatchLog'
  BY SMT DEF Crash, CopyInv, CacheInv, PinsMatchLog, Dirty
<1> QED
  BY <1>3, <1>5, <1>6, <1>7, <1>8 DEF IInv

\* Every step of log.c and every crash keeps the invariant.
LEMMA NextInv == IInv /\ [Next]_vars => IInv'
<1> SUFFICES ASSUME IInv, [Next]_vars PROVE IInv'
  OBVIOUS
<1>1. CASE UNCHANGED vars
  <2>0. TypeOK'
    BY <1>1 DEF vars, IInv, TypeOK
  <2>1. CommitExclusive' /\ PanicInv'
    <3>1. Active' = Active
      BY <1>1 DEF vars, Active
    <3> QED
      BY <1>1, <3>1 DEF vars, IInv, CommitExclusive, PanicInv
  <2>3. BootInv' /\ HeadInv'
    BY SMT, <1>1 DEF vars, IInv, BootInv, HeadInv, up, Distinct
  <2>4. CopyInv'
    BY <1>1 DEF vars, IInv, CopyInv
  <2>2. CacheInv' /\ PinsMatchLog'
    BY <1>1 DEF vars, IInv, CacheInv, PinsMatchLog, Dirty, Pending, up
  <2> QED
    BY <2>0, <2>1, <2>2, <2>3, <2>4 DEF IInv
<1>2. ASSUME NEW p \in Procs, Committer(p) PROVE IInv'
  BY <1>2, CommitInv, WriteLogInv, WriteHeadInv, InstallInv, ClearInv, EndCommitInv DEF Committer
<1>3. ASSUME NEW p \in Procs, Recovery(p) PROVE IInv'
  BY <1>3, ReadHeadInv, RecoverInstallInv, RecoverClearInv DEF Recovery
<1> QED
  BY <1>1, <1>2, <1>3, BeginInv, EndInv, KillInv, LogWriteInv, BreadInv, RecycleInv, CrashInv DEF Next
----------------------------------------------------------------------------
(* Log implements Txn.                                                      *)

\* A block that a header names has a slot in it.
LEMMA SlotFact ==
  ASSUME NEW h, NEW b \in Elems(h)
  PROVE  SlotOf(h, b) \in 1 .. Len(h) /\ h[SlotOf(h, b)] = b
  BY DEF Elems, SlotOf

\* What recovery would find depends only on the header, the log blocks it
\* covers and the home blocks it does not cover.
LEMMA StableSame ==
  ASSUME dhead' = dhead,
         \A b \in Blocks : b \notin Elems(dhead) => home'[b] = home[b],
         \A i \in 1 .. Len(dhead) : dlog'[i] = dlog[i]
  PROVE  Stable' = Stable
<1> SUFFICES ASSUME NEW b \in Blocks, b \in Elems(dhead)
             PROVE  dlog'[SlotOf(dhead, b)] = dlog[SlotOf(dhead, b)]
  BY DEF Stable
<1> QED
  BY SlotFact

\* An empty header, or one whose blocks are all installed, changes nothing.
LEMMA StableIsHome ==
  ASSUME IInv, \A i \in 1 .. Len(dhead) : home[dhead[i]] = dlog[i]
  PROVE  Stable = home
<1> SUFFICES ASSUME NEW b \in Blocks, b \in Elems(dhead)
             PROVE  dlog[SlotOf(dhead, b)] = home[b]
  BY DEF Stable, IInv, TypeOK
<1> QED
  BY SlotFact

\* While the system is up, Txn's cur is what bread returns.
LEMMA CurSame ==
  ASSUME up, up', \A b \in Blocks : Read(b)' = Read(b)
  PROVE  Cur' = Cur
  BY DEF Cur

\* A machine before its first recovery is an initial state of Txn.
LEMMA InitRefines == Init => Atomic!Init
<1> SUFFICES ASSUME Init PROVE Atomic!Init
  OBVIOUS
<1>1. ~up /\ Active = {}
  BY DEF Init, up, Booting, Active
<1>2. Stable = home
  BY SMT DEF Init, Stable, Elems
<1>3. Cur = Stable
  BY <1>1 DEF Cur
<1> QED
  BY <1>1, <1>2, <1>3 DEF Init, Atomic!Init

\* begin_op is a Begin of Txn, or shows nothing when it sleeps.
LEMMA BeginRefines ==
  ASSUME IInv, IInv', NEW p \in Procs, begin_op(p)
  PROVE  Atomic!Begin(p) \/ UNCHANGED Atomic!vars
<1>0. up /\ pc[p] \in {"idle", "woken"} /\ UNCHANGED <<home, dhead, dlog, cache>>
  BY DEF begin_op, disk
<1>1. pc' = [pc EXCEPT ![p] = "sleeping"] \/ pc' = [pc EXCEPT ![p] = "op"]
  BY DEF begin_op
<1>2. up'
  BY <1>0, <1>1 DEF up, IInv, TypeOK, Booting
<1>3. Stable' = Stable
  BY <1>0, StableSame
<1>4. Cur' = Cur
  BY <1>0, <1>2, CurSame DEF Read
<1>5. \/ Active' = Active
      \/ Active' = Active \cup {p} /\ p \notin Active
  BY <1>0, <1>1 DEF Active, IInv, TypeOK
<1> QED
  BY <1>3, <1>4, <1>5 DEF Atomic!Begin, Atomic!vars

\* end_op is an End of Txn.
LEMMA EndRefines ==
  ASSUME IInv, IInv', NEW p \in Procs, end_op(p)
  PROVE  Atomic!End(p)
<1>0. pc[p] = "op" /\ UNCHANGED <<home, dhead, dlog, cache>>
  BY DEF end_op, disk
<1>1. up /\ p \in Active /\ ~committing
  BY <1>0, InOperation
<1>2. pc' = [pc EXCEPT ![p] = "commit"] \/ pc' = Woken([pc EXCEPT ![p] = "idle"])
  BY <1>1 DEF end_op
<1>3. up' /\ Active' = Active \ {p}
  BY <1>1, <1>2 DEF up, Booting, Active, Woken, IInv, TypeOK
<1>4. Stable' = Stable
  BY <1>0, StableSame
<1>5. Cur' = Cur
  BY <1>0, <1>1, <1>3, CurSame DEF Read
<1> QED
  BY <1>1, <1>3, <1>4, <1>5 DEF Atomic!End

\* log_write is a Write of Txn.
LEMMA LogWriteRefines ==
  ASSUME IInv, NEW p \in Procs, NEW b \in Blocks, NEW v \in Values, log_write(p, b, v)
  PROVE  Atomic!Write(p, b, v)
<1>0. /\ pc[p] = "op" /\ UNCHANGED <<home, dhead, dlog, pc>>
      /\ cache' = [cache EXCEPT ![b] = v]
  BY DEF log_write, disk
<1>1. up /\ p \in Active
  BY <1>0, InOperation
<1>2. up' /\ Active' = Active
  BY <1>0, <1>1 DEF up, Active
<1>3. Stable' = Stable
  BY <1>0, StableSame
<1>4. Cur' = [Cur EXCEPT ![b] = v]
  BY <1>0, <1>1, <1>2 DEF Cur, Read, IInv, TypeOK
<1> QED
  BY <1>1, <1>2, <1>3, <1>4 DEF Atomic!Write

\* Steps of the committer: only the header write shows, and it is the commit.
LEMMA CommitterRefines ==
  ASSUME IInv, IInv', NEW p \in Procs, Committer(p)
  PROVE  Atomic!Commit \/ UNCHANGED Atomic!vars
<1>1. CASE commit(p) \/ end_commit(p)
  <2>0. pc[p] \in Commit /\ UNCHANGED <<home, dhead, dlog, cache>>
    BY <1>1 DEF commit, end_commit, Commit, disk
  <2>1. /\ up /\ Active = {}
        /\ \A q \in Procs : q # p => pc[q] \in {"idle", "sleeping", "woken"}
    BY <2>0, CommitterAlone
  <2>2. \A q \in Procs : pc'[q] \in {"idle", "sleeping", "woken", "write_log", "end_commit"}
    BY <1>1, <2>1 DEF commit, end_commit, Goto, Woken, IInv, TypeOK
  <2>3. up' /\ Active' = Active
    BY <2>1, <2>2 DEF up, Booting, Active
  <2>4. Stable' = Stable /\ Cur' = Cur
    BY <2>0, <2>1, <2>3, StableSame, CurSame DEF Read
  <2> QED
    BY <2>3, <2>4 DEF Atomic!vars
<1>2. CASE write_log(p) \/ write_head(p) \/ install_trans(p, FALSE) \/ clear_head(p, FALSE)
  <2>a. pc \in [Procs -> Labels] /\ dlog \in [LogSlots -> Contents] /\ lh \in Seq(Blocks)
        /\ home \in [Blocks -> Contents] /\ cache \in [Blocks -> Contents \cup {None}]
    BY DEF IInv, TypeOK
  <2>0. pc[p] \in Commit
    BY <1>2 DEF write_log, write_head, install_trans, clear_head, Commit
  <2>1. /\ up /\ Active = {} /\ ~panicked
        /\ \A q \in Procs : q # p => pc[q] \in {"idle", "sleeping", "woken"}
    BY <2>0, CommitterAlone
  <2>2. up' /\ Active' = {}
    <3>1. PICK l \in Commit : pc' = [pc EXCEPT ![p] = l]
      BY SMT, <1>2, <2>a DEF write_log, write_head, install_trans, clear_head, Loop, Goto, Commit
    <3>2. \A q \in Procs : pc'[q] \in Commit \cup {"idle", "sleeping", "woken"}
      BY <2>1, <2>a, <3>1
    <3> QED
      BY <3>2 DEF up, Booting, Active, Commit
  <2>3. CASE write_log(p)
    <3>1. pc[p] = "write_log" /\ pc[p] \in Looping /\ Loop(p, "write_head")
          /\ UNCHANGED <<home, dhead>>
      BY <2>3 DEF write_log, Looping
    <3>2. \A q \in Procs : pc[q] \notin Replaying \cup {"read_head"}
      BY <2>1, <3>1 DEF Replaying
    <3>3. dhead = << >>
      BY <3>2 DEF IInv, HeadInv
    <3>4. Stable' = Stable
      BY SMT, <3>1, <3>3, StableSame
    <3>5. lh[tail[p]] \in Blocks
      BY SMT, <2>a, <3>1, LoopStep
    <3>6. \A b \in Blocks : Read(b)' = Read(b)
      BY <2>3, <2>a, <3>1, <3>5 DEF write_log, Read
    <3> QED
      BY <2>1, <2>2, <3>4, <3>6, CurSame DEF Atomic!vars
  <2>4. CASE write_head(p)
    <3>1. /\ pc[p] = "write_head" /\ dhead' = lh
          /\ UNCHANGED <<home, dlog, cache, lh>>
      BY <2>4 DEF write_head, logv
    <3>2. ASSUME NEW b \in Blocks PROVE Stable'[b] = Read(b)
      <4>1. CASE b \in Elems(lh)
        <5>1. PICK i \in 1 .. Len(lh) : i = SlotOf(lh, b) /\ lh[i] = b
          BY <4>1, SlotFact
        <5>2. dlog[i] = cache[b]
          <6>1. CopyInv
            BY DEF IInv
          <6> QED
            BY <3>1, <5>1, <6>1 DEF CopyInv
        <5>3. cache[b] # None
          BY <2>0, <3>1, <4>1, <5>1, DirtyInCommit DEF IInv, CacheInv
        <5> QED
          BY <3>1, <4>1, <5>1, <5>2, <5>3 DEF Stable, Read
      <4>2. CASE b \notin Elems(lh)
        <5>1. ~Dirty(b)
          BY <4>2 DEF Dirty, Elems
        <5>2. Read(b) = home[b]
          BY <2>1, <5>1 DEF Read, IInv, PinsMatchLog, CacheInv
        <5> QED
          BY <3>1, <4>2, <5>2 DEF Stable
      <4> QED
        BY <4>1, <4>2
    <3>3. Stable' = Cur
      BY <2>1, <3>2 DEF Stable, Cur
    <3>4. Cur' = Cur
      BY <2>1, <2>2, <3>1, CurSame DEF Read
    <3> QED
      BY <2>1, <2>2, <3>3, <3>4 DEF Atomic!Commit
  <2>5. CASE install_trans(p, FALSE)
    <3> DEFINE t == tail[p]
               b == lh[t]
    <3>1. /\ pc[p] = "install_trans" /\ pc[p] \in Looping /\ Loop(p, "clear_head")
          /\ cache' = [cache EXCEPT ![b] = dlog[t]]
          /\ home' = [home EXCEPT ![b] = dlog[t]]
          /\ UNCHANGED <<dhead, dlog, lh>>
      <4>1. pc[p] = "install_trans" /\ Loop(p, "clear_head")
        BY <2>5 DEF install_trans
      <4>2. /\ cache' = [cache EXCEPT ![b] = dlog[t]]
            /\ home' = [home EXCEPT ![b] = dlog[t]]
            /\ UNCHANGED <<dhead, dlog, lh>>
        BY <2>5 DEF install_trans, logv
      <4> QED
        BY <4>1, <4>2 DEF Looping
    <3>2. t \in 1 .. Len(lh) /\ b \in Blocks /\ dlog[t] \in Contents /\ dhead = lh
      <4>1. t \in 1 .. Len(lh) /\ t \in LogSlots
        BY <3>1, LoopStep DEF IInv, TypeOK
      <4>2. dhead = lh
        BY <3>1 DEF IInv, HeadInv, Replaying
      <4> QED
        BY SMT, <2>a, <4>1, <4>2
    <3>3. cache[b] = dlog[t] /\ dlog[t] # None
      <4>1. t >= t
        BY SMT, <3>2
      <4>2. cache[b] = dlog[t]
        BY <3>1, <3>2, <4>1 DEF IInv, CopyInv
      <4>3. dlog[t] # None
        BY <3>2 DEF Contents
      <4> QED
        BY <4>2, <4>3
    <3>4. Stable' = Stable
      BY <2>a, <3>1, <3>2, StableSame DEF Elems
    <3>5. \A c \in Blocks : Read(c)' = Read(c)
      BY <2>a, <3>1, <3>2, <3>3 DEF Read
    <3> QED
      BY <2>1, <2>2, <3>4, <3>5, CurSame DEF Atomic!vars
  <2>6. CASE clear_head(p, FALSE)
    <3>1. /\ pc[p] = "clear_head" /\ dhead' = << >>
          /\ UNCHANGED <<home, dlog, cache>>
      BY <2>6 DEF clear_head
    <3>2. dhead = lh /\ \A i \in 1 .. Len(lh) : home[lh[i]] = dlog[i]
      BY <3>1 DEF IInv, HeadInv, Replaying, CopyInv
    <3>3. Stable = home
      BY <3>2, StableIsHome
    <3>4. Stable' = home
      BY SMT, <2>a, <3>1 DEF Stable, Elems
    <3>5. Cur' = Cur
      BY <2>1, <2>2, <3>1, CurSame DEF Read
    <3> QED
      BY <2>1, <2>2, <3>3, <3>4, <3>5 DEF Atomic!vars
  <2> QED
    BY <1>2, <2>3, <2>4, <2>5, <2>6
<1> QED
  BY <1>1, <1>2 DEF Committer

\* Recovery shows nothing: it makes the disk what it already stood for.
LEMMA RecoveryRefines ==
  ASSUME IInv, IInv', NEW p \in Procs, Recovery(p)
  PROVE  UNCHANGED Atomic!vars
<1>0. pc[p] \in Booting
  BY DEF Recovery, read_head, install_trans, clear_head, Booting
<1>1. /\ p = initproc /\ ~up /\ Active = {}
      /\ \A q \in Procs : q # p => pc[q] = "idle"
  BY <1>0, BootAlone
<1>2. /\ \A q \in Procs : q # p => pc'[q] = "idle"
      /\ pc'[p] \in Booting \cup {"idle"}
  <2>1. pc \in [Procs -> Labels]
    BY DEF IInv, TypeOK
  <2>2. PICK l \in Booting \cup {"idle"} : pc' = [pc EXCEPT ![p] = l]
    BY <1>0, <2>1 DEF Recovery, read_head, install_trans, clear_head, Loop, Goto, Booting
  <2> QED
    BY <1>1, <2>1, <2>2
<1>3. Active' = Active
  BY <1>1, <1>2 DEF Active, Booting
<1>4. CASE read_head(p)
  <2>1. UNCHANGED <<home, dhead, dlog>> /\ pc'[p] # "idle"
    <3>1. pc \in [Procs -> Labels]
      BY DEF IInv, TypeOK
    <3> QED
      BY <1>4, <3>1 DEF read_head, disk, Goto
  <2>2. Stable' = Stable
    BY <2>1, StableSame
  <2>3. ~up'
    BY <1>1, <1>2, <2>1 DEF up
  <2> QED
    BY <1>1, <1>3, <2>2, <2>3 DEF Atomic!vars, Cur
<1>5. CASE install_trans(p, TRUE)
  <2> DEFINE t == tail[p]
             b == lh[t]
  <2>1. /\ pc[p] = "recover_install" /\ pc[p] \in Looping /\ Loop(p, "recover_clear")
        /\ home' = [home EXCEPT ![b] = dlog[t]]
        /\ UNCHANGED <<dhead, dlog>>
    BY <1>5 DEF install_trans, Looping
  <2>a. dhead = lh /\ lh \in Seq(Blocks)
    BY <2>1 DEF IInv, TypeOK, HeadInv, Replaying
  <2>b. t \in 1 .. Len(lh) /\ pc'[p] # "idle"
    <3>1. pc \in [Procs -> Labels] /\ pc[p] # "idle"
      BY <2>1 DEF IInv, TypeOK
    <3>2. /\ t \in 1 .. Len(lh)
          /\ pc' = [pc EXCEPT ![p] = pc[p]] \/ pc' = [pc EXCEPT ![p] = "recover_clear"]
      BY <2>1, LoopStep
    <3> QED
      BY <3>1, <3>2
  <2>2. t \in 1 .. Len(lh) /\ b \in Blocks /\ dhead = lh /\ pc'[p] # "idle"
    BY SMT, <2>a, <2>b
  <2>3. Stable' = Stable
    BY <2>1, <2>2, StableSame DEF Elems, IInv, TypeOK
  <2>4. ~up'
    BY <1>1, <1>2, <2>2 DEF up
  <2> QED
    BY <1>1, <1>3, <2>3, <2>4 DEF Atomic!vars, Cur
<1>6. CASE clear_head(p, TRUE)
  <2>0. pc \in [Procs -> Labels]
    BY DEF IInv, TypeOK
  <2>1. /\ pc[p] = "recover_clear" /\ dhead' = << >> /\ pc'[p] = "idle"
        /\ UNCHANGED <<home, dlog, cache>>
    BY <1>6, <2>0 DEF clear_head, Goto
  <2>2. dhead = lh /\ \A i \in 1 .. Len(lh) : home[lh[i]] = dlog[i]
    BY <2>1 DEF IInv, HeadInv, Replaying, CopyInv
  <2>3. Stable = home
    BY <2>2, StableIsHome
  <2>4. Stable' = home
    BY SMT, <2>1 DEF Stable, Elems, IInv, TypeOK
  <2>5. up'
    BY <1>1, <2>1 DEF up, Booting
  <2>6. \A b \in Blocks : Read(b)' = home[b]
    BY <1>0, <2>1, BootRefs DEF Read
  <2>7. Cur' = home
    BY <2>5, <2>6 DEF Cur, IInv, TypeOK
  <2> QED
    BY <1>1, <1>3, <2>3, <2>4, <2>7 DEF Atomic!vars, Cur
<1> QED
  BY <1>4, <1>5, <1>6 DEF Recovery

\* Reading a block and recycling a clean buffer show nothing.
LEMMA CacheRefines ==
  ASSUME IInv, NEW b \in Blocks, bread(b) \/ bget_recycle(b)
  PROVE  UNCHANGED Atomic!vars
<1>1. UNCHANGED <<home, dhead, dlog, pc>>
  BY DEF bread, bget_recycle, disk
<1>2. up' = up /\ Active' = Active
  BY <1>1 DEF up, Active
<1>3. Stable' = Stable
  BY <1>1, StableSame
<1>4. \A c \in Blocks : Read(c)' = Read(c)
  <2>1. CASE bread(b)
    BY <1>1, <2>1 DEF bread, Read, IInv, TypeOK
  <2>2. CASE bget_recycle(b)
    BY <1>1, <2>2 DEF bget_recycle, Read, IInv, TypeOK, CacheInv
  <2> QED
    BY <2>1, <2>2
<1> QED
  BY <1>2, <1>3, <1>4 DEF Atomic!vars, Cur

\* A crash of the machine is a Crash of Txn: memory goes, the commits stay.
LEMMA CrashRefines == ASSUME IInv, Crash PROVE Atomic!Crash
<1>1. Stable' = Stable
  BY CrashDisk, StableSame
<1>2. ~up' /\ Active' = {}
  BY DEF Crash, up, Active, Booting
<1> QED
  BY <1>1, <1>2 DEF Atomic!Crash, Cur

\* kill shows nothing to Txn.
LEMMA KillRefines == ASSUME IInv, NEW p \in Procs, kill(p) PROVE UNCHANGED Atomic!vars
<1>1. UNCHANGED <<home, dhead, dlog, cache>> /\ Stable' = Stable
  BY StableSame DEF kill, disk
<1>2. up /\ up' /\ Active' = Active
  BY DEF kill, up, Active, Booting, IInv, TypeOK, BootInv
<1> QED
  BY <1>1, <1>2, CurSame DEF Atomic!vars, Read

\* Every step of log.c is a step of Txn or shows nothing.
LEMMA NextRefines == IInv /\ IInv' /\ [Next]_vars => [Atomic!Next]_(Atomic!vars)
<1> SUFFICES ASSUME IInv, IInv', [Next]_vars
             PROVE  Atomic!Next \/ UNCHANGED Atomic!vars
  OBVIOUS
<1>1. CASE UNCHANGED vars
  BY <1>1 DEF vars, Atomic!vars, Stable, Cur, up, Read, Active
<1>2. ASSUME NEW p \in Procs, begin_op(p) \/ end_op(p) \/ Committer(p) \/ Recovery(p) \/ kill(p)
      PROVE  Atomic!Next \/ UNCHANGED Atomic!vars
  BY <1>2, BeginRefines, EndRefines, CommitterRefines, RecoveryRefines, KillRefines DEF Atomic!Next
<1>3. ASSUME NEW p \in Procs, NEW b \in Blocks, NEW v \in Values, log_write(p, b, v)
      PROVE  Atomic!Next
  BY <1>3, LogWriteRefines DEF Atomic!Next
<1> QED
  BY <1>1, <1>2, <1>3, CacheRefines, CrashRefines DEF Next, Atomic!Next

----------------------------------------------------------------------------
(* Counting.                                                                *)

\* The facts one at a time.
LEMMA Empty ==
  ASSUME CountFacts
  PROVE  IsFiniteSet({}) /\ Cardinality({}) = 0
  BY DEF CountFacts

\* Counting gives a natural number.
LEMMA Count ==
  ASSUME CountFacts, NEW S, IsFiniteSet(S)
  PROVE  Cardinality(S) \in Nat /\ (Cardinality(S) = 0 <=> S = {})
  BY DEF CountFacts

\* One element more.
LEMMA Add ==
  ASSUME CountFacts, NEW S, IsFiniteSet(S), NEW x
  PROVE  /\ IsFiniteSet(S \cup {x})
         /\ x \notin S => Cardinality(S \cup {x}) = Cardinality(S) + 1
  BY DEF CountFacts

\* One element less.
LEMMA Remove ==
  ASSUME CountFacts, NEW S, IsFiniteSet(S), NEW x
  PROVE  /\ IsFiniteSet(S \ {x})
         /\ x \in S => Cardinality(S \ {x}) = Cardinality(S) - 1
  BY DEF CountFacts

\* A part is no larger than the whole.
LEMMA Part ==
  ASSUME CountFacts, NEW S, IsFiniteSet(S), NEW T \in SUBSET S
  PROVE  IsFiniteSet(T) /\ Cardinality(T) <= Cardinality(S)
  BY DEF CountFacts

\* The numbers up to n.
LEMMA UpTo ==
  ASSUME CountFacts, NEW n \in Nat
  PROVE  IsFiniteSet(1 .. n) /\ Cardinality(1 .. n) = n
<1>1. \A m, k \in Int :
        /\ IsFiniteSet(m .. k)
        /\ m <= k + 1 => Cardinality(m .. k) = k - m + 1
  BY DEF CountFacts
<1> QED
  BY SMT, <1>1

\* The pairs of two sets.
LEMMA Pairs ==
  ASSUME CountFacts, NEW S, NEW T, IsFiniteSet(S), IsFiniteSet(T)
  PROVE  IsFiniteSet(S \X T) /\ Cardinality(S \X T) = Cardinality(S) * Cardinality(T)
  BY DEF CountFacts

\* What maps one to one into a set is no larger.
LEMMA Inject ==
  ASSUME CountFacts, NEW S, NEW T, NEW f \in [S -> T], IsFiniteSet(T),
         \A x, y \in S : f[x] = f[y] => x = y
  PROVE  IsFiniteSet(S) /\ Cardinality(S) <= Cardinality(T)
  BY DEF CountFacts

\* Any set of processes can be counted.
LEMMA Countable == ASSUME CountFacts PROVE CardFacts
<1> SUFFICES ASSUME NEW S \in SUBSET Procs
             PROVE  /\ Cardinality(S) \in Nat
                    /\ Cardinality(S) = 0 <=> S = {}
                    /\ \A p \in Procs \ S : Cardinality(S \cup {p}) = Cardinality(S) + 1
                    /\ \A p \in S : Cardinality(S \ {p}) = Cardinality(S) - 1
  BY DEF CardFacts
<1>1. IsFiniteSet(S)
  BY ProcsAssumption, Part
<1> QED
  BY <1>1, Count, Add, Remove

----------------------------------------------------------------------------
(* begin_op's reservation.                                                  *)

\* What is left of the reservations of the operations under way: a pair for
\* each block an operation may still write.
Slack == {x \in Procs \X (1 .. MAXOPBLOCKS) :
            pc[x[1]] = "op" /\ x[2] > Cardinality(wrote[x[1]])}

\* The blocks an operation has written are in the log, and within its bound.
WroteInv ==
  \A p \in Procs :
    /\ IsFiniteSet(wrote[p]) /\ Cardinality(wrote[p]) <= OpBlocks
    /\ wrote[p] \subseteq Elems(lh)
    /\ pc[p] # "op" => wrote[p] = {}

\* The log has room for all that is reserved; and for one block more when the
\* last operation left is not the only one that wrote.
RoomInv ==
  /\ Active # {} => Len(lh) + Cardinality(Slack) <= LOGSIZE
  /\ \A p \in Procs : Active = {p} =>
       Len(lh) + Cardinality(Slack) < LOGSIZE \/ Elems(lh) \subseteq wrote[p]

\* Whoever sleeps in begin_op would sleep again.
WaitInv == \A p \in Procs : pc[p] = "sleeping" => committing \/ LogFull

ResInv == ~panicked /\ WroteInv /\ RoomInv /\ WaitInv

\* What the proof asks of the parameters. MAXOPBLOCKS, LOGSIZE and size are 10,
\* 30 and 30 (param.h, mkfs.c); that an operation writes fewer blocks than it
\* reserves is the file system's part of the bargain.
Fits == OpBlocks < MAXOPBLOCKS /\ MAXOPBLOCKS < LOGSIZE /\ LOGSIZE <= size

\* Reservations can be counted, and are at most MAXOPBLOCKS an operation.
LEMMA CountSlack ==
  ASSUME CountFacts, NEW A \in SUBSET Procs, NEW S \in SUBSET (A \X (1 .. MAXOPBLOCKS))
  PROVE  /\ IsFiniteSet(S) /\ Cardinality(S) \in Nat
         /\ Cardinality(S) <= Cardinality(A) * MAXOPBLOCKS
<1>1. IsFiniteSet(A)
  BY ProcsAssumption, Part
<1>2. IsFiniteSet(1 .. MAXOPBLOCKS) /\ Cardinality(1 .. MAXOPBLOCKS) = MAXOPBLOCKS
  BY UpTo
<1>3. /\ IsFiniteSet(A \X (1 .. MAXOPBLOCKS))
      /\ Cardinality(A \X (1 .. MAXOPBLOCKS)) = Cardinality(A) * MAXOPBLOCKS
  BY <1>1, <1>2, Pairs
<1>4. IsFiniteSet(S) /\ Cardinality(S) <= Cardinality(A \X (1 .. MAXOPBLOCKS))
  BY <1>3, Part
<1> QED
  BY <1>3, <1>4, Count

\* The reservations before a step, and after it.
LEMMA SlackFacts ==
  ASSUME CountFacts
  PROVE  /\ IsFiniteSet(Slack) /\ Cardinality(Slack) \in Nat
         /\ Cardinality(Slack') \in Nat
         /\ Cardinality(Slack') <= Cardinality(Active') * MAXOPBLOCKS
<1>1. Active \in SUBSET Procs /\ Active' \in SUBSET Procs
  BY DEF Active
<1>2. Slack \in SUBSET (Active \X (1 .. MAXOPBLOCKS))
  BY DEF Slack, Active
<1>3. Slack' \in SUBSET (Active' \X (1 .. MAXOPBLOCKS))
  BY DEF Slack, Active
<1> QED
  BY <1>1, <1>2, <1>3, CountSlack

\* A step with no operation before or after it has nothing to keep.
LEMMA RestStep ==
  ASSUME CountFacts, Active' = {}, \A p \in Procs : wrote'[p] = {}
  PROVE  WroteInv' /\ RoomInv'
<1>1. WroteInv'
  BY SMT, Empty, Count DEF WroteInv
<1>2. RoomInv'
  BY DEF RoomInv
<1> QED
  BY <1>1, <1>2

\* A step that starts and ends no operation and writes nothing.
LEMMA SameStep ==
  ASSUME CountFacts, WroteInv, RoomInv, UNCHANGED <<lh, wrote>>,
         \A q \in Procs : pc'[q] = "op" <=> pc[q] = "op"
  PROVE  WroteInv' /\ RoomInv'
<1>1. Active' = Active
  BY DEF Active
<1>2. Slack' = Slack
  BY DEF Slack
<1>3. WroteInv'
  BY DEF WroteInv, Elems
<1>4. RoomInv'
  BY <1>1, <1>2 DEF RoomInv, Elems
<1> QED
  BY <1>3, <1>4

\* Operations that have not begun or have ended have written nothing.
LEMMA NothingWritten ==
  ASSUME WroteInv, Active = {}
  PROVE  \A p \in Procs : wrote[p] = {}
  BY DEF WroteInv, Active

\* begin_op reserves, or finds no room and sleeps.
LEMMA BeginRes ==
  ASSUME CountFacts, IInv, IInv', ResInv, Fits, NEW p \in Procs, begin_op(p)
  PROVE  ResInv'
<1>1. /\ up /\ pc[p] \in {"idle", "woken"} /\ pc \in [Procs -> Labels]
      /\ UNCHANGED <<lh, committing, panicked, wrote>>
      /\ outstanding \in Nat /\ Len(lh) \in Nat
  BY SMT DEF begin_op, IInv, TypeOK
<1>2. CASE committing \/ LogFull
  <2>1. pc' = [pc EXCEPT ![p] = "sleeping"] /\ outstanding' = outstanding
    BY <1>2 DEF begin_op
  <2>2. \A q \in Procs : pc'[q] = "op" <=> pc[q] = "op"
    BY <1>1, <2>1
  <2>3. LogFull' <=> LogFull
    BY <1>1, <2>1 DEF LogFull
  <2>4. WaitInv'
    BY <1>1, <1>2, <2>1, <2>3 DEF ResInv, WaitInv
  <2> QED
    BY <1>1, <2>2, <2>4, SameStep DEF ResInv
<1>3. CASE ~committing /\ ~LogFull
  <2>1. pc' = [pc EXCEPT ![p] = "op"] /\ outstanding' = outstanding + 1
    BY <1>3 DEF begin_op
  <2>2. Active' = Active \cup {p} /\ p \notin Active
    BY <1>1, <2>1 DEF Active
  <2>3. WroteInv'
    <3>1. Elems(lh)' = Elems(lh) /\ wrote' = wrote
      BY <1>1 DEF Elems
    <3>2. \A q \in Procs : pc'[q] # "op" => pc[q] # "op"
      BY <1>1, <2>1
    <3> QED
      BY <3>1, <3>2 DEF ResInv, WroteInv
  <2>4. Len(lh) + Cardinality(Slack') <= LOGSIZE
    <3>1. outstanding' = Cardinality(Active')
      BY DEF IInv, CommitExclusive
    <3>2. Len(lh) + Cardinality(Active') * MAXOPBLOCKS <= LOGSIZE
      BY SMT, <1>1, <1>3, <2>1, <3>1 DEF LogFull
    <3>3. Cardinality(Active') * MAXOPBLOCKS \in Nat
      BY SMT, <1>1, <2>1, <3>1
    <3> QED
      BY SMT, <1>1, <3>2, <3>3, SlackFacts
  <2>5. ASSUME NEW q \in Procs, Active' = {q} PROVE Elems(lh) = {}
    <3>1. Active = {}
      BY <2>2, <2>5
    <3>2. outstanding = 0
      BY <3>1, CardActive DEF IInv, CommitExclusive
    <3>3. lh = << >>
      BY <1>1, <1>3, <3>2 DEF IInv, HeadInv
    <3> QED
      BY SMT, <3>3 DEF Elems
  <2>6. RoomInv'
    <3>1. lh' = lh /\ Elems(lh)' = Elems(lh)
      BY <1>1 DEF Elems
    <3> QED
      BY <2>4, <2>5, <3>1 DEF RoomInv
  <2>7. WaitInv'
    BY <1>1, <1>3, <2>1 DEF ResInv, WaitInv
  <2> QED
    BY <1>1, <2>3, <2>6, <2>7 DEF ResInv
<1> QED
  BY <1>2, <1>3

\* The slots of a log can be counted.
LEMMA CountUpTo == ASSUME CountFacts, NEW n \in Nat PROVE Cardinality(1 .. n) = n
  BY UpTo

\* A log whose blocks one operation wrote is no longer than that operation.
LEMMA LogWithin ==
  ASSUME CountFacts, IInv, NEW S, IsFiniteSet(S), Elems(lh) \subseteq S
  PROVE  Len(lh) <= Cardinality(S)
<1>1. lh \in Seq(Blocks) /\ Distinct(lh) /\ Len(lh) \in Nat
  BY SMT DEF IInv, TypeOK, HeadInv
<1>2. lh \in [1 .. Len(lh) -> S]
  <2>1. lh \in [1 .. Len(lh) -> Blocks]
    BY SMT, <1>1
  <2>2. \A i \in 1 .. Len(lh) : lh[i] \in S
    BY DEF Elems
  <2> QED
    BY <2>1, <2>2
<1>3. \A i, j \in 1 .. Len(lh) : lh[i] = lh[j] => i = j
  BY <1>1 DEF Distinct
<1>4. Cardinality(1 .. Len(lh)) = Len(lh)
  BY <1>1, CountUpTo
<1>5. Cardinality(1 .. Len(lh)) <= Cardinality(S)
  BY <1>2, <1>3, Inject
<1> QED
  BY <1>4, <1>5

\* An operation under way has not used up its reservation.
LEMMA LastReserved ==
  ASSUME CountFacts, WroteInv, Fits, NEW p \in Active
  PROVE  <<p, MAXOPBLOCKS>> \in Slack
<1>1. p \in Procs /\ pc[p] = "op"
  BY DEF Active
<1>2. Cardinality(wrote[p]) \in Nat /\ Cardinality(wrote[p]) <= OpBlocks
  BY <1>1, Count DEF WroteInv
<1> QED
  BY SMT, <1>1, <1>2 DEF Slack, Fits

\* Two operations under way have two blocks left to write.
LEMMA TwoReserved ==
  ASSUME CountFacts, WroteInv, Fits, NEW p \in Active, NEW q \in Active, p # q
  PROVE  Cardinality(Slack) >= 2
<1>1. <<p, MAXOPBLOCKS>> \in Slack /\ <<q, MAXOPBLOCKS>> \in Slack
  BY LastReserved
<1>2. <<p, MAXOPBLOCKS>> # <<q, MAXOPBLOCKS>>
  OBVIOUS
<1>3. IsFiniteSet(Slack \ {<<p, MAXOPBLOCKS>>})
      /\ Cardinality(Slack \ {<<p, MAXOPBLOCKS>>}) = Cardinality(Slack) - 1
  BY <1>1, SlackFacts, Remove
<1>4. Cardinality(Slack \ {<<p, MAXOPBLOCKS>>}) # 0
  <2>1. <<q, MAXOPBLOCKS>> \in Slack \ {<<p, MAXOPBLOCKS>>}
    BY <1>1, <1>2
  <2>2. Slack \ {<<p, MAXOPBLOCKS>>} # {}
    BY <2>1
  <2> QED
    BY <1>3, <2>2, Empty, Count
<1>5. Cardinality(Slack \ {<<p, MAXOPBLOCKS>>}) \in Nat
  BY <1>3, Count
<1> QED
  BY SMT, <1>3, <1>4, <1>5, SlackFacts

\* log_write never finds the log too small, for a new block or an old one.
LEMMA EnoughLog ==
  ASSUME CountFacts, IInv, WroteInv, RoomInv, Fits, NEW p \in Procs, pc[p] = "op"
  PROVE  ~TooBig
<1>1. p \in Active
  BY DEF Active
<1>2. Len(lh) \in Nat /\ Cardinality(Slack) \in Nat /\ Len(lh) + Cardinality(Slack) <= LOGSIZE
  BY SMT, <1>1, SlackFacts DEF IInv, TypeOK, RoomInv
<1>3. CASE \E q \in Active : q # p
  <2>1. Cardinality(Slack) >= 2
    BY <1>1, <1>3, TwoReserved
  <2> QED
    BY SMT, <1>2, <2>1 DEF TooBig, Fits
<1>4. CASE Active = {p}
  <2>1. CASE Len(lh) + Cardinality(Slack) < LOGSIZE
    <3>1. Cardinality(Slack) # 0
      BY <1>1, LastReserved, SlackFacts, Empty, Count
    <3> QED
      BY SMT, <1>2, <2>1, <3>1 DEF TooBig, Fits
  <2>2. CASE Elems(lh) \subseteq wrote[p]
    <3>1. IsFiniteSet(wrote[p]) /\ Cardinality(wrote[p]) <= OpBlocks
      BY DEF WroteInv
    <3>2. Len(lh) <= Cardinality(wrote[p]) /\ Cardinality(wrote[p]) \in Nat
      BY <2>2, <3>1, LogWithin, Count
    <3> QED
      BY SMT, <1>2, <3>1, <3>2 DEF TooBig, Fits
  <2> QED
    BY <1>4, <2>1, <2>2 DEF RoomInv
<1> QED
  BY <1>1, <1>3, <1>4

\* log_write takes a new block from its operation's reservation, and never
\* panics.
LEMMA LogWriteRes ==
  ASSUME CountFacts, IInv, ResInv, Fits,
         NEW p \in Procs, NEW b \in Blocks, NEW v \in Values, log_write(p, b, v)
  PROVE  ResInv'
<1>1. /\ pc[p] = "op" /\ UNCHANGED <<pc, outstanding, committing>>
      /\ wrote' = [wrote EXCEPT ![p] = @ \cup {b}]
      /\ b \in wrote[p] \/ Cardinality(wrote[p]) < OpBlocks
  BY DEF log_write
<1>2. /\ lh \in Seq(Blocks) /\ Len(lh) \in Nat /\ outstanding \in Nat
      /\ wrote \in [Procs -> SUBSET Blocks]
  BY SMT DEF IInv, TypeOK
<1>3. ~TooBig /\ outstanding >= 1 /\ ~(outstanding < 1)
  <2>1. ~TooBig
    BY <1>1, EnoughLog DEF ResInv
  <2>2. p \in Active
    BY <1>1 DEF Active
  <2>3. outstanding = Cardinality(Active) /\ Cardinality(Active) # 0
    BY <2>2, CardActive DEF IInv, CommitExclusive
  <2> QED
    BY SMT, <1>2, <2>1, <2>3
<1>4. /\ ~panicked'
      /\ lh' = IF b \in Elems(lh) THEN lh ELSE Append(lh, b)
  <2>1. /\ panicked' = panicked
        /\ \/ b \in Elems(lh) /\ lh' = lh
           \/ b \notin Elems(lh) /\ lh' = Append(lh, b)
    BY <1>3 DEF log_write
  <2>2. ~panicked'
    BY <2>1 DEF ResInv
  <2>3. lh' = IF b \in Elems(lh) THEN lh ELSE Append(lh, b)
    BY <2>1
  <2> QED
    BY <2>2, <2>3
<1>5. /\ Elems(lh') = Elems(lh) \cup {b}
      /\ Len(lh') = IF b \in Elems(lh) THEN Len(lh) ELSE Len(lh) + 1
  <2>1. CASE b \in Elems(lh)
    BY <1>4, <2>1
  <2>2. CASE b \notin Elems(lh)
    <3>1. lh' = Append(lh, b)
      BY <1>4, <2>2
    <3>2. /\ Len(lh') = Len(lh) + 1
          /\ \A i \in 1 .. Len(lh') : lh'[i] = IF i = Len(lh) + 1 THEN b ELSE lh[i]
      BY SMT, <1>2, <3>1, AppendFacts
    <3> QED
      BY SMT, <1>2, <2>2, <3>2 DEF Elems
  <2> QED
    BY <2>1, <2>2
<1>6. Active' = Active
  BY <1>1 DEF Active
<1>7. WaitInv'
  <2>1. Len(lh') \in Nat /\ Len(lh') >= Len(lh)
    BY SMT, <1>2, <1>5
  <2>2. (outstanding + 1) * MAXOPBLOCKS \in Nat
    BY SMT, <1>2
  <2>3. (outstanding' + 1) * MAXOPBLOCKS = (outstanding + 1) * MAXOPBLOCKS
    BY <1>1
  <2>4. LogFull => LogFull'
    BY SMT, <1>2, <2>1, <2>2, <2>3 DEF LogFull
  <2> QED
    BY <1>1, <2>4 DEF ResInv, WaitInv
<1>8. /\ IsFiniteSet(wrote[p]) /\ Cardinality(wrote[p]) \in Nat
      /\ Cardinality(wrote[p]) <= OpBlocks /\ wrote[p] \subseteq Elems(lh)
      /\ \A q \in Procs : q # p => wrote'[q] = wrote[q]
      /\ wrote'[p] = wrote[p] \cup {b}
  BY <1>1, <1>2, Count DEF ResInv, WroteInv
<1>9. CASE b \in wrote[p]
  <2>1. wrote' = wrote /\ b \in Elems(lh)
    <3>1. wrote[p] \cup {b} = wrote[p] /\ b \in Elems(lh)
      BY <1>8, <1>9
    <3> QED
      BY <1>1, <1>2, <3>1
  <2>2. lh' = lh
    BY <1>4, <2>1
  <2> QED
    BY <1>1, <1>4, <1>7, <2>1, <2>2, SameStep DEF ResInv
<1>10. CASE b \notin wrote[p]
  <2> DEFINE k == Cardinality(wrote[p]) + 1
  <2>1. IsFiniteSet(wrote'[p]) /\ Cardinality(wrote'[p]) = k
    <3>1. IsFiniteSet(wrote[p] \cup {b}) /\ Cardinality(wrote[p] \cup {b}) = k
      BY <1>8, <1>10, Add
    <3> QED
      BY <1>8, <3>1
  <2>2. k \in 1 .. MAXOPBLOCKS /\ k <= OpBlocks
    BY SMT, <1>1, <1>8, <1>10 DEF Fits
  <2>3. WroteInv'
    <3>1. ASSUME NEW q \in Procs
          PROVE  /\ IsFiniteSet(wrote'[q]) /\ Cardinality(wrote'[q]) <= OpBlocks
                 /\ wrote'[q] \subseteq Elems(lh')
                 /\ pc'[q] # "op" => wrote'[q] = {}
      <4>1. CASE q = p
        BY <1>1, <1>5, <1>8, <2>1, <2>2, <4>1
      <4>2. CASE q # p
        BY <1>1, <1>5, <1>8, <4>2 DEF ResInv, WroteInv
      <4> QED
        BY <4>1, <4>2
    <3> QED
      BY <3>1 DEF WroteInv, Elems
  <2>4. <<p, k>> \in Slack
    BY SMT, <1>1, <1>8, <2>2 DEF Slack
  <2>5. Slack' = Slack \ {<<p, k>>}
    <3>1. ASSUME NEW q \in Procs, NEW j \in 1 .. MAXOPBLOCKS
          PROVE  <<q, j>> \in Slack' <=> <<q, j>> \in Slack /\ <<q, j>> # <<p, k>>
      <4>1. CASE q = p
        <5>1. j > Cardinality(wrote'[p]) <=> j > Cardinality(wrote[p]) /\ j # k
          BY SMT, <1>8, <2>1
        <5>2. <<q, j>> = <<p, k>> <=> j = k
          BY SMT, <4>1
        <5> QED
          BY <1>1, <4>1, <5>1, <5>2 DEF Slack
      <4>2. CASE q # p
        BY <1>1, <1>8, <4>2 DEF Slack
      <4> QED
        BY <4>1, <4>2
    <3>2. Slack \subseteq Procs \X (1 .. MAXOPBLOCKS) /\ Slack' \subseteq Procs \X (1 .. MAXOPBLOCKS)
      BY DEF Slack
    <3> QED
      BY SMT, <3>1, <3>2
  <2>6. Cardinality(Slack') = Cardinality(Slack) - 1
    <3>1. \A x \in Slack : Cardinality(Slack \ {x}) = Cardinality(Slack) - 1
      BY SlackFacts, Remove
    <3> QED
      BY <2>4, <2>5, <3>1
  <2>7. /\ Len(lh') + Cardinality(Slack') <= Len(lh) + Cardinality(Slack)
        /\ b \in Elems(lh) => Len(lh') + Cardinality(Slack') < Len(lh) + Cardinality(Slack)
        /\ Len(lh') + Cardinality(Slack') \in Int /\ Len(lh) + Cardinality(Slack) \in Int
    BY SMT, <1>2, <1>5, <2>6, SlackFacts
  <2>8. Active # {} => Len(lh) + Cardinality(Slack) <= LOGSIZE
    BY DEF ResInv, RoomInv
  <2>9. ASSUME NEW q \in Procs, Active = {q}
        PROVE  Len(lh') + Cardinality(Slack') < LOGSIZE \/ Elems(lh') \subseteq wrote'[q]
    <3>1. q = p /\ Len(lh) + Cardinality(Slack) <= LOGSIZE
      BY <1>1, <2>8, <2>9 DEF Active
    <3>2. Len(lh) + Cardinality(Slack) < LOGSIZE \/ Elems(lh) \subseteq wrote[p]
      BY <2>9, <3>1 DEF ResInv, RoomInv
    <3>3. CASE Len(lh) + Cardinality(Slack) < LOGSIZE
      BY SMT, <2>7, <3>3
    <3>4. CASE Elems(lh) \subseteq wrote[p]
      BY <1>5, <1>8, <3>1, <3>4
    <3> QED
      BY <3>2, <3>3, <3>4
  <2>10. RoomInv'
    <3>1. Active' # {} => Len(lh') + Cardinality(Slack') <= LOGSIZE
      BY SMT, <1>6, <2>7, <2>8
    <3> QED
      BY <1>6, <2>9, <3>1 DEF RoomInv, Elems
  <2> QED
    BY <1>4, <1>7, <2>3, <2>10 DEF ResInv
<1> QED
  BY <1>9, <1>10

\* end_op gives back what is left of its reservation; it starts the commit, or
\* wakes every sleeper.
LEMMA EndRes ==
  ASSUME CountFacts, IInv, ResInv, Fits, NEW p \in Procs, end_op(p)
  PROVE  ResInv'
<1>1. /\ pc[p] = "op" /\ UNCHANGED lh /\ wrote' = [wrote EXCEPT ![p] = {}]
      /\ outstanding' = outstanding - 1
  BY DEF end_op
<1>2. /\ pc \in [Procs -> Labels] /\ wrote \in [Procs -> SUBSET Blocks]
      /\ Len(lh) \in Nat
  BY SMT DEF IInv, TypeOK
<1>3. p \in Active /\ ~committing
  BY <1>1, InOperation
<1>4. /\ UNCHANGED panicked
      /\ \/ committing' /\ pc' = [pc EXCEPT ![p] = "commit"]
         \/ pc' = Woken([pc EXCEPT ![p] = "idle"])
  BY <1>3 DEF end_op
<1>5. \A q \in Procs : pc'[q] = "op" <=> pc[q] = "op" /\ q # p
  BY <1>1, <1>2, <1>4 DEF Woken
<1>6. Active' = Active \ {p}
  BY <1>5 DEF Active
<1>7. WaitInv'
  BY <1>2, <1>4 DEF WaitInv, Woken
<1>8. WroteInv'
  <2>1. ASSUME NEW q \in Procs
        PROVE  /\ IsFiniteSet(wrote'[q]) /\ Cardinality(wrote'[q]) <= OpBlocks
               /\ wrote'[q] \subseteq Elems(lh)
               /\ pc'[q] # "op" => wrote'[q] = {}
    <3>1. CASE q = p
      <4>1. wrote'[q] = {}
        BY <1>1, <1>2, <3>1
      <4> QED
        BY SMT, <4>1, Empty, Count
    <3>2. CASE q # p
      BY <1>1, <1>2, <1>5, <3>2 DEF ResInv, WroteInv
    <3> QED
      BY <3>1, <3>2
  <2>2. Elems(lh') = Elems(lh)
    BY <1>1
  <2> QED
    BY <2>1, <2>2 DEF WroteInv
<1>9. Cardinality(Slack') < Cardinality(Slack)
  <2>1. <<p, MAXOPBLOCKS>> \in Slack
    BY <1>3, LastReserved DEF ResInv
  <2>2. Slack' \subseteq Slack \ {<<p, MAXOPBLOCKS>>}
    <3>1. \A q \in Procs : q # p => wrote'[q] = wrote[q]
      BY <1>1, <1>2
    <3>2. \A x \in Slack' : x \in Slack /\ x[1] # p
      BY <1>5, <3>1 DEF Slack
    <3> QED
      BY SMT, <3>2
  <2>3. \A x \in Slack : /\ IsFiniteSet(Slack \ {x})
                         /\ Cardinality(Slack \ {x}) = Cardinality(Slack) - 1
    BY SlackFacts, Remove
  <2>4. Cardinality(Slack') <= Cardinality(Slack \ {<<p, MAXOPBLOCKS>>})
    BY <2>1, <2>2, <2>3, Part
  <2>5. Cardinality(Slack \ {<<p, MAXOPBLOCKS>>}) = Cardinality(Slack) - 1
    BY <2>1, <2>3
  <2> QED
    BY SMT, <2>4, <2>5, SlackFacts
<1>10. Len(lh) + Cardinality(Slack') < LOGSIZE
  <2>1. Len(lh) + Cardinality(Slack) <= LOGSIZE
    BY <1>3 DEF ResInv, RoomInv
  <2> QED
    BY SMT, <1>2, <1>9, <2>1, SlackFacts
<1>11. RoomInv'
  <2>1. Len(lh) + Cardinality(Slack') <= LOGSIZE
    BY SMT, <1>2, <1>10, SlackFacts
  <2> QED
    BY <1>1, <1>10, <2>1 DEF RoomInv
<1> QED
  BY <1>4, <1>7, <1>8, <1>11 DEF ResInv

\* The committer works while no operation is under way, and sleepers have it to
\* wait for; when it ends it wakes them all.
LEMMA CommitterRes ==
  ASSUME CountFacts, IInv, ResInv, NEW p \in Procs, Committer(p)
  PROVE  ResInv'
<1>0. pc \in [Procs -> Labels] /\ pc[p] \in Commit
  BY DEF IInv, TypeOK, Committer, commit, write_log, write_head,
               install_trans, clear_head, end_commit, Commit
<1>1. /\ committing /\ Active = {} /\ ~panicked
      /\ \A q \in Procs : q # p => pc[q] \in {"idle", "sleeping", "woken"}
  BY <1>0, CommitterAlone
<1>2. UNCHANGED <<panicked, wrote>>
  BY DEF Committer, commit, write_log, write_head, install_trans,
               clear_head, end_commit, logv
<1>3. CASE end_commit(p)
  <2>1. pc' = Woken([pc EXCEPT ![p] = "idle"])
    BY <1>3 DEF end_commit
  <2>2. \A q \in Procs : pc'[q] # "sleeping" /\ pc'[q] # "op"
    BY <1>0, <1>1, <2>1 DEF Woken
  <2> QED
    BY <1>1, <1>2, <2>2, NothingWritten, RestStep DEF ResInv, WaitInv, Active
<1>4. CASE ~end_commit(p)
  <2>1. UNCHANGED committing /\ \E l \in Commit : pc' = [pc EXCEPT ![p] = l]
    <3>1. pc = [pc EXCEPT ![p] = pc[p]]
      BY <1>0
    <3> QED
      BY <1>0, <1>4, <3>1 DEF Committer, commit, write_log, write_head,
               install_trans, clear_head, logv, Loop, Goto, Commit
  <2>2. \A q \in Procs : pc'[q] # "op"
    BY <1>0, <1>1, <2>1 DEF Commit
  <2> QED
    BY <1>1, <1>2, <2>1, <2>2, NothingWritten, RestStep DEF ResInv, WaitInv, Active
<1> QED
  BY <1>3, <1>4

\* Recovery runs before anybody can start an operation or sleep.
LEMMA RecoveryRes ==
  ASSUME CountFacts, IInv, ResInv, NEW p \in Procs, Recovery(p)
  PROVE  ResInv'
<1>0. pc[p] \in Booting /\ pc \in [Procs -> Labels]
  BY DEF IInv, TypeOK, Recovery, read_head, install_trans, clear_head, Booting
<1>1. Active = {} /\ \A q \in Procs : q # p => pc[q] = "idle"
  BY <1>0, BootAlone
<1>2. UNCHANGED <<panicked, wrote>>
  BY DEF Recovery, read_head, install_trans, clear_head, logv
<1>3. PICK l \in Booting \cup {"idle"} : pc' = [pc EXCEPT ![p] = l]
  BY <1>0 DEF Recovery, read_head, install_trans, clear_head, Loop, Goto, Booting
<1>4. \A q \in Procs : pc'[q] # "op" /\ pc'[q] # "sleeping"
  BY <1>0, <1>1, <1>3 DEF Booting
<1> QED
  BY <1>1, <1>2, <1>4, NothingWritten, RestStep DEF ResInv, WaitInv, Active

\* Steps that touch neither the log nor an operation; kill only wakes.
LEMMA OtherRes ==
  ASSUME CountFacts, IInv, ResInv,
         \/ \E p \in Procs : kill(p)
         \/ \E b \in Blocks : bread(b) \/ bget_recycle(b)
         \/ UNCHANGED vars
  PROVE  ResInv'
<1>1. UNCHANGED <<lh, wrote, panicked, committing, outstanding>>
  BY DEF kill, bread, bget_recycle, vars, logv
<1>2. \A q \in Procs : /\ pc'[q] = "op" <=> pc[q] = "op"
                       /\ pc'[q] = "sleeping" => pc[q] = "sleeping"
  BY DEF kill, bread, bget_recycle, vars, IInv, TypeOK
<1>3. LogFull' <=> LogFull
  BY <1>1 DEF LogFull
<1> QED
  BY <1>1, <1>2, <1>3, SameStep DEF ResInv, WaitInv

\* A crash ends every operation and forgets every sleeper.
LEMMA CrashRes == ASSUME CountFacts, Crash PROVE ResInv'
<1>1. /\ ~panicked' /\ \A p \in Procs : wrote'[p] = {}
      /\ \A p \in Procs : pc'[p] # "op" /\ pc'[p] # "sleeping"
  BY DEF Crash
<1> QED
  BY <1>1, RestStep DEF ResInv, WaitInv, Active

\* Before the first operation nothing is reserved.
LEMMA ResInit ==
  ASSUME CountFacts PROVE Init => ResInv
<1> SUFFICES ASSUME Init PROVE ResInv
  OBVIOUS
<1>1. /\ ~panicked /\ \A p \in Procs : wrote[p] = {}
      /\ \A p \in Procs : pc[p] # "op" /\ pc[p] # "sleeping"
  BY DEF Init
<1>2. WroteInv
  BY SMT, <1>1, Empty DEF WroteInv
<1> QED
  BY <1>1, <1>2 DEF ResInv, WaitInv, RoomInv, Active

\* Every step keeps the reservations.
LEMMA ResNext ==
  ASSUME CountFacts, Fits PROVE IInv /\ IInv' /\ ResInv /\ [Next]_vars => ResInv'
<1> SUFFICES ASSUME IInv, IInv', ResInv, [Next]_vars PROVE ResInv'
  OBVIOUS
<1>1. ASSUME NEW p \in Procs, begin_op(p) \/ end_op(p) \/ Committer(p) \/ Recovery(p)
      PROVE  ResInv'
  BY <1>1, BeginRes, EndRes, CommitterRes, RecoveryRes
<1>2. ASSUME NEW p \in Procs, NEW b \in Blocks, NEW v \in Values, log_write(p, b, v)
      PROVE  ResInv'
  BY <1>2, LogWriteRes
<1> QED
  BY <1>1, <1>2, OtherRes, CrashRes DEF Next

\* The reservations are what ReservationSuffices asks for.
LEMMA ResEnough ==
  ASSUME Fits PROVE IInv /\ ResInv => ReservationSuffices
<1> SUFFICES ASSUME IInv, ResInv, NEW p \in Procs, pc[p] = "sleeping", ~committing
             PROVE  outstanding > 0
  BY DEF IInv, ResInv, WaitInv, ReservationSuffices
<1>1. LogFull /\ outstanding \in Nat
  BY DEF ResInv, WaitInv, IInv, TypeOK
<1>2. up
  BY DEF IInv, BootInv, up, Booting
<1>3. ASSUME outstanding = 0 PROVE FALSE
  <2>1. lh = << >>
    BY <1>2, <1>3 DEF IInv, HeadInv
  <2> QED
    BY SMT, <1>1, <1>3, <2>1 DEF LogFull, Fits
<1> QED
  BY SMT, <1>1, <1>3

----------------------------------------------------------------------------
(* The conclusions.                                                         *)

INSTANCE FiniteSetTheorems

\* The library has what was assumed of finite sets.
LEMMA Counted == CountFacts
<1>1. ASSUME NEW S, IsFiniteSet(S), NEW x
      PROVE  /\ IsFiniteSet(S \cup {x}) /\ IsFiniteSet(S \ {x})
             /\ x \notin S => Cardinality(S \cup {x}) = Cardinality(S) + 1
             /\ x \in S => Cardinality(S \ {x}) = Cardinality(S) - 1
  BY <1>1, FS_AddElement, FS_RemoveElement
<1>2. ASSUME NEW m \in Int, NEW n \in Int
      PROVE  IsFiniteSet(m .. n) /\ (m <= n + 1 => Cardinality(m .. n) = n - m + 1)
  BY SMT, FS_Interval
<1>3. ASSUME NEW S, NEW T, NEW f \in [S -> T], IsFiniteSet(T),
             \A x, y \in S : f[x] = f[y] => x = y
      PROVE  IsFiniteSet(S) /\ Cardinality(S) <= Cardinality(T)
  <2>1. f \in Injection(S, T)
    BY <1>3 DEF Injection, IsInjective
  <2> QED
    BY <1>3, <2>1, FS_Injection
<1>4. \A S : IsFiniteSet(S) => \A T \in SUBSET S :
        IsFiniteSet(T) /\ Cardinality(T) <= Cardinality(S)
  BY FS_Subset
<1>5. \A S, T : IsFiniteSet(S) /\ IsFiniteSet(T) =>
        /\ IsFiniteSet(S \X T)
        /\ Cardinality(S \X T) = Cardinality(S) * Cardinality(T)
  BY FS_Product
<1>6. \A S : IsFiniteSet(S) => Cardinality(S) \in Nat /\ (Cardinality(S) = 0 <=> S = {})
  BY FS_CardinalityType, FS_EmptySet
<1>7. IsFiniteSet({}) /\ Cardinality({}) = 0
  BY FS_EmptySet
<1>8. ASSUME NEW S \in SUBSET Nat, S # {}
      PROVE  \E m \in S : \A e \in S : m <= e
  <2>1. PICK m \in S : \A e \in S : ~(<<e, m>> \in OpToRel(<, Nat))
    BY <1>8, NatLessThanWellFounded, WFMin
  <2>2. \A e \in S : e \in Nat /\ m \in Nat /\ ~(e < m)
    BY <2>1 DEF OpToRel
  <2> QED
    BY SMT, <2>2
<1> QED
  BY <1>1, <1>2, <1>3, <1>4, <1>5, <1>6, <1>7, <1>8 DEF CountFacts

\* log.c keeps its invariant whatever the processes, the cache and the power
\* supply do.
THEOREM Invariance == Spec => []IInv
  BY Counted, Countable, InitInv, NextInv, PTL DEF Spec

\* Every variable keeps its type; in particular the log never outgrows its
\* place on the disk.
THEOREM TypeCorrect == Spec => []TypeOK
<1>1. IInv => TypeOK
  BY DEF IInv
<1> QED
  BY <1>1, Invariance, PTL

\* end_op: a commit never overlaps an operation or another commit.
THEOREM CommitsAlone == Spec => []CommitExclusive
<1>1. IInv => CommitExclusive
  BY DEF IInv
<1> QED
  BY <1>1, Invariance, PTL

\* log_write, install_trans: buffers are pinned exactly while dirty.
THEOREM PinsExact == Spec => []PinsMatchLog
<1>1. IInv => PinsMatchLog
  BY DEF IInv
<1> QED
  BY <1>1, Invariance, PTL

\* log.c implements an atomic, crash-safe disk, for any number of processes,
\* blocks and crashes and any size of the log.
THEOREM Refinement == Spec => CrashAtomic
<1>1. Init => Atomic!Init
  BY InitRefines
<1>2. IInv /\ IInv' /\ [Next]_vars => [Atomic!Next]_(Atomic!vars)
  BY NextRefines
<1> QED
  BY <1>1, <1>2, Invariance, PTL DEF Spec, CrashAtomic, Atomic!Spec

\* begin_op, log_write, end_op: for any number of processes and blocks, when an
\* operation writes fewer blocks than begin_op reserves for it and the log on
\* disk is as large as its header, log_write and end_op never panic, and
\* nobody sleeps in begin_op without a reason or without somebody to wake it.
THEOREM ReservationHolds == ASSUME Fits PROVE Spec => []ReservationSuffices
<1>1. CountFacts
  BY Counted
<1> QED
  BY <1>1, ResInit, ResNext, ResEnough, Invariance, PTL DEF Spec
============================================================================
