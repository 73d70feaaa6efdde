------------------------------- MODULE Mutex --------------------------------
(* What a sleep lock promises: one owner at a time, chosen from those who  *)
(* asked, who keeps it until it lets go.                                   *)
CONSTANTS Procs, NoProc

VARIABLES owner, asking

Init == owner = NoProc /\ asking = {}

Ask(p) ==
  /\ p \notin asking /\ owner # p
  /\ asking' = asking \cup {p}
  /\ UNCHANGED owner

Grant(p) ==
  /\ owner = NoProc /\ p \in asking
  /\ owner' = p
  /\ asking' = asking \ {p}

Release(p) ==
  /\ owner = p
  /\ owner' = NoProc
  /\ UNCHANGED asking

Next == \E p \in Procs : Ask(p) \/ Grant(p) \/ Release(p)

Spec == Init /\ [][Next]_<<owner, asking>>
=============================================================================
