------------------------------- MODULE Blocks -------------------------------
(* What the buffer cache promises: a store of disk blocks, each used by at  *)
(* most one process at a time, and changed by nobody but its user.          *)

CONSTANTS Procs, Block, Vals, None, zero

VARIABLES content,   \* what is in each block
          user       \* who is using it

vars == <<content, user>>

Init ==
  /\ content = [b \in Block |-> zero]
  /\ user = [b \in Block |-> None]

Take(p, b) ==
  /\ user[b] = None
  /\ user' = [user EXCEPT ![b] = p]
  /\ UNCHANGED content

Change(p, b, v) ==
  /\ user[b] = p
  /\ content' = [content EXCEPT ![b] = v]
  /\ UNCHANGED user

Give(p, b) ==
  /\ user[b] = p
  /\ user' = [user EXCEPT ![b] = None]
  /\ UNCHANGED content

Next ==
  \E p \in Procs, b \in Block :
    Take(p, b) \/ Give(p, b) \/ \E v \in Vals : Change(p, b, v)

Spec == Init /\ [][Next]_vars
=============================================================================
