-------------------------------- MODULE Txn --------------------------------
(***************************************************************************)
(* What the logging layer (kernel/log.c) promises the file system: a disk  *)
(* whose blocks are read and written in memory (cur) by operations         *)
(* bracketed by begin_op and end_op, and made durable (stable) all at once *)
(* while no operation is under way.  A crash returns the disk to the last  *)
(* durable contents, so it never exposes a part of an operation.           *)
(***************************************************************************)
CONSTANTS Procs, Blocks, Values

VARIABLES stable,   \* what a crash leaves of every block
          cur,      \* what a read of every block returns
          active    \* the processes between begin_op and end_op

vars == <<stable, cur, active>>

Init ==
  /\ stable \in [Blocks -> Values]
  /\ cur = stable
  /\ active = {}

Begin(p) ==
  /\ p \notin active
  /\ active' = active \cup {p}
  /\ UNCHANGED <<stable, cur>>

Write(p, b, v) ==
  /\ p \in active
  /\ cur' = [cur EXCEPT ![b] = v]
  /\ UNCHANGED <<stable, active>>

End(p) ==
  /\ p \in active
  /\ active' = active \ {p}
  /\ UNCHANGED <<stable, cur>>

Commit ==
  /\ active = {}
  /\ stable' = cur
  /\ UNCHANGED <<cur, active>>

Crash ==
  /\ cur' = stable
  /\ active' = {}
  /\ UNCHANGED stable

Next ==
  \/ \E p \in Procs : Begin(p) \/ End(p)
  \/ \E p \in Procs, b \in Blocks, v \in Values : Write(p, b, v)
  \/ Commit
  \/ Crash

Spec == Init /\ [][Next]_vars

============================================================================
