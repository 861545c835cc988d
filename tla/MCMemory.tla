------------------------------ MODULE MCMemory ------------------------------
(* Memory for TLC: two processes and too few pages for both.                *)
EXTENDS Memory
=============================================================================
