------------------------------ MODULE MCBcache ------------------------------
(* Small instances of Bcache for TLC.                                       *)
EXTENDS Bcache, TLC

\* Processes, buffers and blocks are interchangeable, the order of the buffers
\* in lru at the start being any.
Symmetry == Permutations(Procs) \cup Permutations(Bufs) \cup Permutations(Block)
=============================================================================
