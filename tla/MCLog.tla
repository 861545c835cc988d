------------------------------- MODULE MCLog -------------------------------
(* Log on small sets of model values.                                      *)
EXTENDS Log
============================================================================
