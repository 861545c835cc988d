-------------------------------- MODULE Tty ---------------------------------
(***************************************************************************)
(* What the console promises: typed characters collect in a line that can  *)
(* be edited until it is complete, complete input is read once and in      *)
(* order, and what is written is sent once and in order.                   *)
(***************************************************************************)
EXTENDS Naturals, Sequences

CONSTANTS Chars, Ends, InSize, OutSize

VARIABLES line, ready, out

Init == line = <<>> /\ ready = <<>> /\ out = <<>>

\* A character joins the line; one that ends the line, or the last there is room
\* for, makes it ready.
Type(c) ==
  /\ Len(line) + Len(ready) < InSize
  /\ IF c \in Ends \/ Len(line) + Len(ready) + 1 = InSize
     THEN line' = <<>> /\ ready' = ready \o Append(line, c)
     ELSE line' = Append(line, c) /\ UNCHANGED ready
  /\ UNCHANGED out

Erase == line # <<>> /\ line' = SubSeq(line, 1, Len(line) - 1) /\ UNCHANGED <<ready, out>>
Read  == ready # <<>> /\ ready' = Tail(ready) /\ UNCHANGED <<line, out>>

Write(c) == Len(out) < OutSize /\ out' = Append(out, c) /\ UNCHANGED <<line, ready>>
Send     == out # <<>> /\ out' = Tail(out) /\ UNCHANGED <<line, ready>>

Next == Erase \/ Read \/ Send \/ \E c \in Chars : Type(c) \/ Write(c)

Spec == Init /\ [][Next]_<<line, ready, out>>
=============================================================================
