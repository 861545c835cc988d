------------------------------- MODULE MCProc -------------------------------
(* Small instances of Proc for TLC.  The processes that init forks, and the *)
(* CPUs, are interchangeable.                                               *)
EXTENDS Proc, TLC

Symmetry == Permutations(Slots \ {initproc}) \cup Permutations(CPUs)
=============================================================================
