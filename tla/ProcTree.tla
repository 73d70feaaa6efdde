------------------------------ MODULE ProcTree ------------------------------
(***************************************************************************)
(* What fork(), exit() and wait() promise a user program: a tree of        *)
(* processes rooted at init.  A pid is never used twice; the children of a *)
(* process that exits pass to init; a process that has exited stays until  *)
(* exactly one wait() of its current parent collects it.                   *)
(***************************************************************************)
EXTENDS Naturals

CONSTANT InitPid

VARIABLES
  live,     \* pids of processes, exited ones included
  exited,   \* those that have exited and are not yet waited for
  up,       \* the parent of each live pid but init's
  spare,    \* pids of processes that are being created
  fresh     \* no pid from here on has been used

vars == <<live, exited, up, spare, fresh>>

Init ==
  /\ live = {InitPid}
  /\ exited = {}
  /\ up = [c \in {} |-> InitPid]
  /\ spare = {}
  /\ fresh = InitPid + 1

Children(p) == {c \in DOMAIN up : up[c] = p}

\* A pid is spent on each attempt to fork(), also on one that fails.
Spend ==
  /\ fresh' = fresh + 1
  /\ spare' = spare \cup {fresh} \/ spare' = spare
  /\ UNCHANGED <<live, exited, up>>

Fork(p, c) ==
  /\ p \in live \ exited
  /\ c \in spare
  /\ spare' = spare \ {c}
  /\ live' = live \cup {c}
  /\ up' = [x \in live' \ {InitPid} |-> IF x = c THEN p ELSE up[x]]
  /\ UNCHANGED <<exited, fresh>>

Exit(p) ==
  /\ p \in live \ (exited \cup {InitPid})
  /\ exited' = exited \cup {p}
  /\ up' = [c \in DOMAIN up |-> IF up[c] = p THEN InitPid ELSE up[c]]
  /\ UNCHANGED <<live, spare, fresh>>

Wait(p, c) ==
  /\ p \in live \ exited
  /\ c \in Children(p) \cap exited
  /\ live' = live \ {c}
  /\ exited' = exited \ {c}
  /\ up' = [x \in live' \ {InitPid} |-> up[x]]
  /\ UNCHANGED <<spare, fresh>>

Next ==
  \/ Spend
  \/ \E p \in live :
       \/ \E c \in spare : Fork(p, c)
       \/ \E c \in exited : Wait(p, c)
       \/ Exit(p)

Step == Next \/ UNCHANGED vars
Spec == Init /\ [][Next]_vars
=============================================================================
