------------------------------- MODULE MCTrap -------------------------------
(* Trap on small sets: two CPUs share one process that has started, or two  *)
(* processes share one CPU while the other has not taken a trap.            *)
EXTENDS Trap, TLC

Symmetry == Permutations(Procs)

Few ==
  \/ \E p \in Procs : stack[p] = <<Frame("forkret")>> /\ state[p] = "RUNNABLE"
  \/ \A c \in CPUs \ {hart0} : stack[c] = <<Frame("scan")>> /\ ~reg[c].sie
=============================================================================
