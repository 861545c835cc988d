------------------------------- MODULE MCTree -------------------------------
(* Tree for TLC.                                                            *)
EXTENDS Tree, TLC

Symmetry == Permutations(Procs) \cup Permutations(Names)
=============================================================================
