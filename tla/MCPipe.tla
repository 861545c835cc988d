------------------------------- MODULE MCPipe -------------------------------
(* Pipe on small sets.  The processes other than the creator are alike     *)
(* unless some of them only are killable, and so are the bytes.            *)
EXTENDS Pipe, TLC

Symmetry == Permutations(Procs \ {creator}) \cup Permutations(Bytes)
============================================================================
