----------------------------- MODULE MCConsole ------------------------------
(* Console on small sets: input and the echo with no output in the ring, or *)
(* output while the first character of a line is echoed.                    *)
EXTENDS Console, TLC

Symmetry == Permutations(Procs) \cup Permutations(Bytes)

Few == (\A i \in DOMAIN tx_buf : tx_buf[i] = None) \/ (\A i \in DOMAIN buf : buf[i] = "nul")
=============================================================================
