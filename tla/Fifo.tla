-------------------------------- MODULE Fifo --------------------------------
(* What a pipe promises about its bytes: a bounded queue.  Bytes come out   *)
(* in the order they went in, each exactly once, and never more than Cap    *)
(* wait inside.                                                             *)
EXTENDS Naturals, Sequences

CONSTANTS Bytes, None, Cap

VARIABLES q,    \* the bytes inside, oldest first
          ch    \* the last byte taken out

vars == <<q, ch>>

Init == q = << >> /\ ch = None

Put(b) ==
  /\ Len(q) < Cap
  /\ q' = Append(q, b)
  /\ UNCHANGED ch

Get ==
  /\ q # << >>
  /\ ch' = Head(q)
  /\ q' = Tail(q)

Next == (\E b \in Bytes : Put(b)) \/ Get

Spec == Init /\ [][Next]_vars
============================================================================
