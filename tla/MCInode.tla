------------------------------ MODULE MCInode -------------------------------
(* Small instances of Inode for TLC.                                        *)
EXTENDS Inode, TLC

Symmetry == Permutations(Procs) \cup Permutations(Names) \cup Permutations(Inums)
=============================================================================
