------------------------------- MODULE MCFile -------------------------------
(* File for TLC.                                                            *)
EXTENDS File, TLC

Symmetry == Permutations(Procs) \cup Permutations(Inodes)
=============================================================================
