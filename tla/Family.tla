------------------------------- MODULE Family -------------------------------
(***************************************************************************)
(* What fork, exit and wait promise: a tree of processes in which every    *)
(* process but the first has a live parent, orphans belong to the first    *)
(* process, and a dead child stays until its parent takes it.              *)
(***************************************************************************)
CONSTANTS
  Slots,     \* entries of the process table
  initproc,  \* the first process, which never exits
  None       \* "no parent"

VARIABLES
  status,    \* of each entry: free, alive or dead
  parent

Init ==
  /\ status = [p \in Slots |-> IF p = initproc THEN "alive" ELSE "free"]
  /\ parent = [p \in Slots |-> None]

Fork(p, q) ==
  /\ status[p] = "alive" /\ status[q] = "free"
  /\ status' = [status EXCEPT ![q] = "alive"]
  /\ parent' = [parent EXCEPT ![q] = p]

Exit(p) ==
  /\ status[p] = "alive" /\ p # initproc
  /\ status' = [status EXCEPT ![p] = "dead"]
  /\ parent' = [q \in Slots |-> IF parent[q] = p THEN initproc ELSE parent[q]]

Reap(p, q) ==
  /\ status[p] = "alive" /\ status[q] = "dead" /\ parent[q] = p
  /\ status' = [status EXCEPT ![q] = "free"]
  /\ parent' = [parent EXCEPT ![q] = None]

Next ==
  \E p \in Slots :
    \/ Exit(p)
    \/ \E q \in Slots : Fork(p, q) \/ Reap(p, q)

Spec == Init /\ [][Next]_<<status, parent>>
=============================================================================
