----------------------------- MODULE BlockDevice -----------------------------
(***************************************************************************)
(* What the disk driver promises: a request transfers its block exactly    *)
(* once, some time between the call and the return.                        *)
(***************************************************************************)
CONSTANTS Procs, Data

VARIABLES
  mem,   \* the contents of each caller's buffer
  sect,  \* the contents of that buffer's block on the disk
  req    \* "none", "read", "write", or "done"

vars == <<mem, sect, req>>

Init ==
  /\ mem \in [Procs -> Data]
  /\ sect \in [Procs -> Data]
  /\ req = [p \in Procs |-> "none"]

\* The caller has put d in its buffer.
Call(p, rw, d) ==
  /\ req[p] = "none"
  /\ req' = [req EXCEPT ![p] = rw]
  /\ mem' = [mem EXCEPT ![p] = d]
  /\ UNCHANGED sect

Transfer(p) ==
  /\ \/ req[p] = "read" /\ mem' = [mem EXCEPT ![p] = sect[p]] /\ UNCHANGED sect
     \/ req[p] = "write" /\ sect' = [sect EXCEPT ![p] = mem[p]] /\ UNCHANGED mem
  /\ req' = [req EXCEPT ![p] = "done"]

Return(p) ==
  /\ req[p] = "done"
  /\ req' = [req EXCEPT ![p] = "none"]
  /\ UNCHANGED <<mem, sect>>

Next == \E p \in Procs : \/ \E rw \in {"read", "write"}, d \in Data : Call(p, rw, d)
                         \/ Transfer(p) \/ Return(p)

\* A step of a system that implements this one.
Step == Next \/ UNCHANGED vars

Spec == Init /\ [][Next]_vars
=============================================================================
