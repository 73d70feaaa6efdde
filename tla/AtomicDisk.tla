----------------------------- MODULE AtomicDisk -----------------------------
(***************************************************************************)
(* What the logging layer of kernel/log.c promises to the file system:     *)
(* a disk whose blocks are updated by transactions.  `mem' is what running *)
(* system calls read and write, `durable' is what a reboot would find.     *)
(* `durable' only ever becomes a value `mem' had when no operation was     *)
(* active ("the logging system only commits when there are no FS system    *)
(* calls active"), and a crash falls back to it.  sync() returns only when *)
(* every operation that had ended before the call is durable.              *)
(***************************************************************************)
CONSTANTS Procs, Blocks, Data

VARIABLES
  mem,      \* block contents as seen through the buffer cache
  durable,  \* block contents that survive a crash
  active,   \* processes between begin_op() and end_op()
  syncing,  \* processes inside sys_sync()
  ended,    \* has an operation ended since the last commit?
  owed      \* processes whose sync() has an earlier operation to wait for

vars == <<mem, durable, active, syncing, ended, owed>>

Init ==
  /\ mem \in [Blocks -> Data]
  /\ durable = mem
  /\ active = {}
  /\ syncing = {}
  /\ ended = FALSE
  /\ owed = {}

Begin(p) ==
  /\ p \notin active \cup syncing
  /\ active' = active \cup {p}
  /\ UNCHANGED <<mem, durable, syncing, ended, owed>>

Write(p, b, d) ==
  /\ p \in active
  /\ mem' = [mem EXCEPT ![b] = d]
  /\ UNCHANGED <<durable, active, syncing, ended, owed>>

End(p) ==
  /\ p \in active
  /\ active' = active \ {p}
  /\ ended' = TRUE
  /\ UNCHANGED <<mem, durable, syncing, owed>>

Commit ==
  /\ active = {}
  /\ durable' = mem
  /\ ended' = FALSE
  /\ owed' = {}
  /\ UNCHANGED <<mem, active, syncing>>

SyncCall(p) ==
  /\ p \notin active \cup syncing
  /\ syncing' = syncing \cup {p}
  /\ owed' = IF ended THEN owed \cup {p} ELSE owed
  /\ UNCHANGED <<mem, durable, active, ended>>

SyncReturn(p) ==
  /\ p \in syncing
  /\ p \notin owed
  /\ syncing' = syncing \ {p}
  /\ UNCHANGED <<mem, durable, active, ended, owed>>

Crash ==
  /\ mem' = durable
  /\ active' = {}
  /\ syncing' = {}
  /\ ended' = FALSE
  /\ owed' = {}
  /\ UNCHANGED durable

Next ==
  \/ \E p \in Procs : Begin(p) \/ End(p) \/ SyncCall(p) \/ SyncReturn(p)
  \/ \E p \in Procs, b \in Blocks, d \in Data : Write(p, b, d)
  \/ Commit
  \/ Crash

Spec == Init /\ [][Next]_vars
=============================================================================
