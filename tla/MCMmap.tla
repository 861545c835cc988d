------------------------------- MODULE MCMmap -------------------------------
(* Small instances of Mmap for TLC.                                         *)
EXTENDS Mmap

RW == {"R", "W"}
Map(n, prot, flags) == [length |-> n, prot |-> prot, flags |-> flags]

\* A shared and a private mapping, of lengths above and at the file's limit.
Mixed == {Map(2, RW, "MAP_SHARED"), Map(1, RW, "MAP_PRIVATE")}

\* Bound: beyond two mappings in all the search goes no further; a second
\* process with an overgrown heap counts as one.
MaxMappings == 2
Few ==
  LET grown == Cardinality({p \in Procs : overgrown[p]}) IN
  MapThenSumSet(LAMBDA p : Cardinality(Used(p)), Procs) + (IF grown > 1 THEN 1 ELSE 0)
    <= MaxMappings
=============================================================================
