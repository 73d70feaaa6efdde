----------------------------- MODULE BlockStore -----------------------------
(***************************************************************************)
(* What the buffer cache promises its users: one current value for each    *)
(* block, and at most one user of a block at a time, who sees that value   *)
(* and may change it.                                                      *)
(***************************************************************************)
CONSTANTS Users, Blocks, Data, NoUser

VARIABLES
  value,  \* the current contents of each block
  owner   \* the user that has the block, or NoUser

vars == <<value, owner>>

Init ==
  /\ value \in [Blocks -> Data]
  /\ owner = [b \in Blocks |-> NoUser]

Acquire(u, b) ==
  /\ owner[b] = NoUser
  /\ owner' = [owner EXCEPT ![b] = u]
  /\ UNCHANGED value

Change(u, b, d) ==
  /\ owner[b] = u
  /\ value' = [value EXCEPT ![b] = d]
  /\ UNCHANGED owner

Release(u, b) ==
  /\ owner[b] = u
  /\ owner' = [owner EXCEPT ![b] = NoUser]
  /\ UNCHANGED value

Next == \E u \in Users, b \in Blocks :
          Acquire(u, b) \/ Release(u, b) \/ \E d \in Data : Change(u, b, d)

\* A step of a system that implements this one.
Step == Next \/ UNCHANGED vars

Spec == Init /\ [][Next]_vars
=============================================================================
