----------------------------- MODULE ProcProofs -----------------------------
(***************************************************************************)
(* The process table keeps IInv, and implements the process tree of        *)
(* ProcTree, for any number of slots and CPUs.                             *)
(***************************************************************************)
EXTENDS Proc, WellFoundedInduction, TLAPS

\* Zenon tries every leaf; those with arithmetic or functional updates cite SMT.
USE ZenonT(60)

\* The null pointer, init and &ticks.
LEMMA Constants == ASSUME Parameters PROVE /\ None \notin Slots /\ initproc \in Slots /\ ticks \notin Slots /\ ticks # None
BY SMTT(60) DEF Parameters, None, Slots, initproc, ticks

\* What is known of a process that a CPU executes.
LEMMA Runs ==
  ASSUME Parameters, IInv, NEW c \in Cpus, NEW p \in Slots, On(c, p)
  PROVE  /\ state[p] = "RUNNING" /\ lock[p] = NoCpu /\ proc[c] = p /\ \A d \in Cpus : proc[d] = p => d = c
         /\ Slot(p) /\ Exits(p) /\ Family(p) /\ Wakeups(p) /\ p # None
BY Constants DEF On, Free, IInv, Placed, TypeOK, Parameters

\* The conjuncts of IInv that are not about one process.
LEMMA Typed == ASSUME IInv PROVE TypeOK
BY DEF IInv

LEMMA Global == ASSUME IInv PROVE Placed /\ InitProc /\ Unique
BY DEF IInv

\* What no CPU, no process and no p->lock changes stays in its place.
LEMMA PlacedSame == ASSUME Placed, UNCHANGED <<proc, lock, state>> PROVE Placed'
BY DEF Placed, Free

\* A process that does not run, with its lock free, is on no CPU: its state may change.
LEMMA PlacedKept ==
  ASSUME Parameters, IInv, NEW q \in Slots, Free(q), state[q] # "RUNNING", UNCHANGED <<proc, lock>>,
         \A r \in Slots \ {q} : state'[r] = state[r]
  PROVE  Placed'
<1>1. Placed /\ \A c \in Cpus : proc[c] # None => proc[c] \in Slots
  BY Typed, Global DEF TypeOK
<1>2. ASSUME NEW c \in Cpus, proc[c] = q PROVE FALSE
  <2>1. lock[q] = c
    BY <1>1, <1>2, Constants DEF Placed
  <2> QED BY <2>1 DEF Free, Parameters
<1>3. \A c \in Cpus : proc[c] # None => state'[proc[c]] = state[proc[c]]
  BY <1>1, <1>2
<1> QED BY <1>1, <1>3 DEF Placed, Free

\* A running process goes on to another place of the kernel, in no fork() or exit().
LEMMA MovesKeep ==
  ASSUME Parameters, IInv, NEW p \in Slots, state[p] = "RUNNING", pc[p] \notin Exiting \cup Forking,
         NEW l \in Labels \ (Exiting \cup Forking), Goto(p, l), p = initproc => l # "exit",
         UNCHANGED <<state, pid, parent, lock, wait_lock, proc, np, scan>>, nextpid' \in Nat, nextpid' >= nextpid,
         killed' \in [Slots -> BOOLEAN], ~ killed'[initproc], chan' \in [Slots -> Slots \cup {None, ticks}],
         \A q \in Slots \ {p} : chan'[q] = chan[q] \/ state[q] = "UNUSED",
         l = "wait_sleep" => chan'[p] = p /\ wait_lock = None /\ \A q \in Children(p) : state[q] # "ZOMBIE",
         l = "pause_sleep" => chan'[p] = ticks
  PROVE  IInv'
<1>1. /\ pc' \in [Slots -> Labels] /\ pc'[p] = l /\ \A q \in Slots \ {p} : pc'[q] = pc[q]
  BY DEF Goto, IInv, TypeOK
<1>2. TypeOK' /\ Placed' /\ Unique' /\ InitProc'
  <2>1. TypeOK'
    BY <1>1 DEF IInv, TypeOK
  <2>2. Placed'
    BY Global, PlacedSame
  <2>3. Unique'
    BY DEF IInv, Unique
  <2>4. InitProc'
    BY <1>1, Constants DEF IInv, InitProc
  <2> QED BY <2>1, <2>2, <2>3, <2>4
<1>3. ASSUME NEW q \in Slots PROVE Slot(q)'
  <2>1. Slot(q) /\ pid[q] \in Nat /\ nextpid \in Nat
    BY DEF IInv, TypeOK
  <2>2. (pid[q] < nextpid)'
    BY <2>1, SMTT(60) DEF Slot
  <2> QED BY <1>1, <2>1, <2>2 DEF Slot
<1>4. ASSUME NEW q \in Slots PROVE Exits(q)'
  <2>1. Exits(q)
    BY DEF IInv
  <2> QED BY <1>1, <2>1 DEF Exits, Exiting
<1>5. ASSUME NEW q \in Slots PROVE Family(q)'
  <2>1. Family(q) /\ parent[q] \in Slots \cup {None}
    BY DEF IInv, TypeOK
  <2> QED BY <1>1, <2>1 DEF Family
<1>6. ASSUME NEW q \in Slots PROVE Wakeups(q)'
  <2>1. Wakeups(q) /\ Slot(q) /\ wait_lock \in Slots \cup {None} /\ (wait_lock = p => pc[p] \in Exiting)
    BY DEF IInv, TypeOK, Exits
  <2>2. CASE q = p
    BY <1>1, <2>1, <2>2 DEF Wakeups, Armed, Children
  <2>3. CASE q # p
    BY <1>1, <2>1, <2>3 DEF Wakeups, Armed, Children, Slot
  <2> QED BY <2>2, <2>3
<1> QED BY <1>2, <1>3, <1>4, <1>5, <1>6 DEF IInv

-----------------------------------------------------------------------------
(* scheduler(), swtch() and yield().                                       *)

\* A step that only changes who runs where, and RUNNABLE to RUNNING or back.
LEMMA SwitchKeeps ==
  ASSUME Parameters, IInv, NEW p \in Slots, state[p] \in {"RUNNABLE", "RUNNING"}, wait_lock # p,
         NEW s \in {"RUNNABLE", "RUNNING"}, state' = [state EXCEPT ![p] = s],
         UNCHANGED <<pid, chan, killed, parent, wait_lock, nextpid, pc, np, scan>>, TypeOK', Placed'
  PROVE  IInv'
<1>1. state'[p] = s /\ \A q \in Slots \ {p} : state'[q] = state[q]
  BY DEF IInv, TypeOK
<1>2. Unique' /\ InitProc'
  BY <1>1, Constants DEF IInv, Unique, InitProc
<1>3. ASSUME NEW q \in Slots PROVE Slot(q)' /\ Exits(q)'
  <2>1. Slot(q) /\ Exits(q)
    BY DEF IInv
  <2> QED BY <1>1, <2>1 DEF Slot, Exits
<1>4. ASSUME NEW q \in Slots PROVE Family(q)'
  <2>1. Family(q) /\ parent[q] \in Slots \cup {None} /\ np[q] \in Slots \cup {None}
    BY DEF IInv, TypeOK
  <2> QED BY <1>1, <2>1 DEF Family
<1>5. ASSUME NEW q \in Slots PROVE Wakeups(q)'
  <2>1. Wakeups(q)
    BY DEF IInv
  <2> QED BY <1>1, <2>1 DEF Wakeups, Armed, Children
<1> QED BY <1>2, <1>3, <1>4, <1>5 DEF IInv

\* scheduler() takes a process nobody runs.
LEMMA SchedulerKeeps == ASSUME Parameters, IInv, NEW c \in Cpus, NEW p \in Slots, scheduler(c, p) PROVE IInv'
<1>1. /\ proc[c] = None /\ lock[p] = NoCpu /\ state[p] = "RUNNABLE"
      /\ state' = [state EXCEPT ![p] = "RUNNING"] /\ proc' = [proc EXCEPT ![c] = p]
      /\ UNCHANGED <<pid, chan, killed, parent, lock, wait_lock, nextpid, pc, np, scan>>
  BY DEF scheduler, Free
<1>2. TypeOK /\ Placed /\ wait_lock # p
  BY <1>1 DEF IInv, Exits
<1>3. TypeOK'
  BY <1>1, <1>2 DEF TypeOK
<1>4. \A d \in Cpus : proc[d] # p
  BY <1>1, <1>2, Constants, SMTT(60) DEF Placed, Free, Parameters
<1>5. Placed'
  BY <1>1, <1>2, <1>4, Constants, SMTT(60) DEF Placed, Free, TypeOK
<1> QED BY <1>1, <1>2, <1>3, <1>5, SwitchKeeps

\* swtch(): the CPU leaves the process, and gives up its lock.
LEMMA SwtchKeeps == ASSUME Parameters, IInv, NEW c \in Cpus, NEW p \in Slots, swtch(c, p) PROVE IInv'
<1>1. /\ proc[c] = p /\ lock[p] = c /\ proc' = [proc EXCEPT ![c] = None] /\ lock' = [lock EXCEPT ![p] = NoCpu]
      /\ UNCHANGED <<state, pid, chan, killed, parent, wait_lock, nextpid, pc, np, scan>>
  BY DEF swtch
<1>2. TypeOK /\ Placed
  BY DEF IInv
<1>3. TypeOK'
  BY <1>1, <1>2 DEF TypeOK
<1>4. Placed'
  BY <1>1, <1>2, Constants, SMTT(60) DEF Placed, Free, TypeOK, Parameters
<1>5. Unique' /\ InitProc'
  BY <1>1, Global DEF Unique, InitProc
<1>6. ASSUME NEW q \in Slots PROVE Slot(q)' /\ Exits(q)' /\ Family(q)' /\ Wakeups(q)'
  <2>1. Slot(q) /\ Exits(q) /\ Family(q) /\ Wakeups(q)
    BY DEF IInv
  <2>2. Slot(q)' /\ Exits(q)'
    BY <1>1, <2>1 DEF Slot, Exits
  <2>3. Family(q)'
    BY <1>1, <2>1 DEF Family
  <2>4. Wakeups(q)'
    BY <1>1, <2>1 DEF Wakeups, Armed, Children
  <2> QED BY <2>2, <2>3, <2>4
<1> QED BY <1>3, <1>4, <1>5, <1>6 DEF IInv

\* sched() of a process that runs: its CPU keeps its lock.
LEMMA SchedPlaced ==
  ASSUME Parameters, IInv, NEW c \in Cpus, NEW p \in Slots, On(c, p), NEW s \in {"RUNNABLE", "SLEEPING", "ZOMBIE"},
         sched(c, p, s), UNCHANGED proc
  PROVE  /\ Placed' /\ state' \in [Slots -> {"UNUSED", "USED", "RUNNABLE", "RUNNING", "SLEEPING", "ZOMBIE"}]
         /\ lock' \in [Slots -> Cpus \cup {NoCpu}]
         /\ state'[p] = s /\ \A q \in Slots \ {p} : state'[q] = state[q]
<1>1. state' = [state EXCEPT ![p] = s] /\ lock' = [lock EXCEPT ![p] = c]
  BY DEF sched
<1>2. TypeOK /\ Placed
  BY DEF IInv
<1>3. proc[c] = p /\ p # None /\ \A d \in Cpus : proc[d] = p => d = c
  BY Runs
<1>4. Placed'
  BY <1>1, <1>2, <1>3, SMTT(60) DEF Placed, Free, TypeOK, Parameters
<1> QED BY <1>1, <1>2, <1>4 DEF TypeOK

\* A timer interrupt: the process stays where it is.
LEMMA YieldKeeps == ASSUME Parameters, IInv, NEW c \in Cpus, NEW p \in Slots, yield(c, p) PROVE IInv'
<1>1. /\ On(c, p) /\ wait_lock # p /\ sched(c, p, "RUNNABLE")
      /\ UNCHANGED <<pid, chan, killed, parent, wait_lock, nextpid, proc, pc, np, scan>>
  BY DEF yield
<1>2. Placed' /\ TypeOK'
  BY <1>1, SchedPlaced DEF IInv, TypeOK
<1> QED BY <1>1, <1>2, Runs, SwitchKeeps DEF sched

-----------------------------------------------------------------------------
(* System calls.                                                           *)

\* init is not killed.
LEMMA InitAlive == ASSUME Parameters, IInv PROVE ~ killed[initproc] /\ killed \in [Slots -> BOOLEAN]
BY DEF IInv, InitProc, TypeOK

\* usertrap() goes to a call or to kexit().
LEMMA UsertrapKeeps == ASSUME Parameters, IInv, NEW c \in Cpus, NEW p \in Slots, usertrap(c, p) PROVE IInv'
<1>1. /\ On(c, p) /\ pc[p] = "user"
      /\ UNCHANGED <<state, pid, chan, parent, lock, wait_lock, nextpid, proc, np, scan>>
  BY DEF usertrap
<1>2. state[p] = "RUNNING" /\ pc[p] \notin Exiting \cup Forking
  BY <1>1, Runs DEF Exiting, Forking
<1>3. PICK l \in {"fork", "exit", "wait", "pause", "kill"} : Goto(p, l) /\ (p = initproc => l # "exit")
  BY InitAlive DEF usertrap
<1>4. killed' \in [Slots -> BOOLEAN] /\ ~ killed'[initproc]
  BY InitAlive, Constants DEF usertrap
<1>5. /\ nextpid' \in Nat /\ nextpid' >= nextpid /\ chan' \in [Slots -> Slots \cup {None, ticks}]
      /\ \A q \in Slots : chan'[q] = chan[q]
  BY <1>1, Typed, SMTT(60) DEF TypeOK
<1>6. l \in Labels \ (Exiting \cup Forking)
  BY DEF Labels, Exiting, Forking
<1> QED BY <1>1, <1>2, <1>3, <1>4, <1>5, <1>6, MovesKeep

\* And back from it.
LEMMA ReturnKeeps == ASSUME Parameters, IInv, NEW c \in Cpus, NEW p \in Slots, usertrap_return(c, p) PROVE IInv'
<1>1. /\ On(c, p) /\ pc[p] = "return"
      /\ UNCHANGED <<state, pid, chan, killed, parent, lock, wait_lock, nextpid, proc, np, scan>>
  BY DEF usertrap_return
<1>2. state[p] = "RUNNING" /\ pc[p] \notin Exiting \cup Forking
  BY <1>1, Runs DEF Exiting, Forking
<1>3. PICK l \in {"exit", "user"} : Goto(p, l) /\ (p = initproc => l # "exit")
  BY InitAlive DEF usertrap_return
<1>4. /\ nextpid' \in Nat /\ nextpid' >= nextpid /\ chan' \in [Slots -> Slots \cup {None, ticks}]
      /\ \A q \in Slots : chan'[q] = chan[q]
  BY <1>1, Typed, SMTT(60) DEF TypeOK
<1>5. l \in Labels \ (Exiting \cup Forking)
  BY DEF Labels, Exiting, Forking
<1> QED BY <1>1, <1>2, <1>3, <1>4, <1>5, InitAlive, MovesKeep

\* A fork() that fails has spent at most a pid.
LEMMA ForkFailsKeeps == ASSUME Parameters, IInv, NEW c \in Cpus, NEW p \in Slots, fork_fails(c, p) PROVE IInv'
<1>1. /\ On(c, p) /\ pc[p] = "fork" /\ Goto(p, "return")
      /\ UNCHANGED <<state, pid, parent, lock, wait_lock, proc, np, scan>>
  BY DEF fork_fails
<1>2. state[p] = "RUNNING" /\ pc[p] \notin Exiting \cup Forking
  BY <1>1, Runs DEF Exiting, Forking
<1>3. killed' \in [Slots -> BOOLEAN] /\ ~ killed'[initproc]
  BY InitAlive, Constants DEF fork_fails
<1>4. nextpid' \in Nat /\ nextpid' >= nextpid
  BY Typed, SMTT(60) DEF fork_fails, TypeOK
<1>5. /\ chan' \in [Slots -> Slots \cup {None, ticks}]
      /\ \A q \in Slots : chan'[q] = chan[q] \/ state[q] = "UNUSED"
  BY DEF fork_fails, IInv, TypeOK
<1>6. "return" \in Labels \ (Exiting \cup Forking)
  BY DEF Labels, Exiting, Forking
<1> QED BY <1>1, <1>2, <1>3, <1>4, <1>5, <1>6, MovesKeep

\* sys_pause() returns or goes on to sleep().
LEMMA PauseKeeps == ASSUME Parameters, IInv, NEW c \in Cpus, NEW p \in Slots, sys_pause(c, p) PROVE IInv'
<1>1. /\ On(c, p) /\ pc[p] = "pause"
      /\ UNCHANGED <<state, pid, killed, parent, lock, wait_lock, nextpid, proc, np, scan>>
  BY DEF sys_pause
<1>2. state[p] = "RUNNING" /\ pc[p] \notin Exiting \cup Forking
  BY <1>1, Runs DEF Exiting, Forking
<1>3. PICK l \in {"return", "pause_sleep"} :
        /\ Goto(p, l) /\ (l = "pause_sleep" => chan'[p] = ticks)
        /\ chan' \in [Slots -> Slots \cup {None, ticks}] /\ \A q \in Slots \ {p} : chan'[q] = chan[q]
  BY DEF sys_pause, IInv, TypeOK
<1>4. nextpid' \in Nat /\ nextpid' >= nextpid
  BY <1>1, Typed, SMTT(60) DEF TypeOK
<1>5. l \in Labels \ (Exiting \cup Forking)
  BY DEF Labels, Exiting, Forking
<1> QED BY <1>1, <1>2, <1>3, <1>4, <1>5, InitAlive, MovesKeep

\* kwait() finds no exited child: it fails, or goes on to sleep() as nobody is in kexit().
LEMMA WaitNoneKeeps == ASSUME Parameters, IInv, NEW c \in Cpus, NEW p \in Slots, wait_none(c, p) PROVE IInv'
<1>1. /\ On(c, p) /\ pc[p] = "wait" /\ wait_lock = None /\ \A q \in Children(p) : state[q] # "ZOMBIE"
      /\ UNCHANGED <<state, pid, killed, parent, lock, wait_lock, nextpid, proc, np, scan>>
  BY DEF wait_none
<1>2. state[p] = "RUNNING" /\ pc[p] \notin Exiting \cup Forking
  BY <1>1, Runs DEF Exiting, Forking
<1>3. PICK l \in {"return", "wait_sleep"} :
        /\ Goto(p, l) /\ (l = "wait_sleep" => chan'[p] = p)
        /\ chan' \in [Slots -> Slots \cup {None, ticks}] /\ \A q \in Slots \ {p} : chan'[q] = chan[q]
  BY DEF wait_none, IInv, TypeOK
<1>4. nextpid' \in Nat /\ nextpid' >= nextpid
  BY <1>1, Typed, SMTT(60) DEF TypeOK
<1>5. l \in Labels \ (Exiting \cup Forking)
  BY DEF Labels, Exiting, Forking
<1> QED BY <1>1, <1>2, <1>3, <1>4, <1>5, InitAlive, MovesKeep

\* sleep() sleeps only if no wakeup() has come since sleep_prepare().
LEMMA SleepKeeps == ASSUME Parameters, IInv, NEW c \in Cpus, NEW p \in Slots, sleep(c, p) PROVE IInv'
<1> DEFINE l == IF pc[p] = "wait_sleep" THEN "wait" ELSE "pause"
<1>1. /\ On(c, p) /\ pc[p] \in {"wait_sleep", "pause_sleep"} /\ Goto(p, l)
      /\ UNCHANGED <<pid, chan, killed, parent, wait_lock, nextpid, proc, np, scan>>
  BY DEF sleep
<1>2. state[p] = "RUNNING" /\ pc[p] \notin Exiting \cup Forking /\ l \in Labels \ (Exiting \cup Forking)
  BY <1>1, Runs DEF Exiting, Forking, Labels
<1>3. CASE chan[p] = None
  <2>1. UNCHANGED <<state, lock>>
    BY <1>3 DEF sleep
  <2>2. nextpid' \in Nat /\ nextpid' >= nextpid /\ chan' \in [Slots -> Slots \cup {None, ticks}]
    BY <1>1, Typed, SMTT(60) DEF TypeOK
  <2> QED BY <1>1, <1>2, <2>1, <2>2, InitAlive, MovesKeep
<1>4. CASE chan[p] # None
  <2>1. sched(c, p, "SLEEPING")
    BY <1>4 DEF sleep
  <2>2. /\ Placed' /\ state'[p] = "SLEEPING" /\ \A q \in Slots \ {p} : state'[q] = state[q]
        /\ state' \in [Slots -> {"UNUSED", "USED", "RUNNABLE", "RUNNING", "SLEEPING", "ZOMBIE"}]
        /\ lock' \in [Slots -> Cpus \cup {NoCpu}]
    BY <1>1, <2>1, SchedPlaced
  <2>3. pc' \in [Slots -> Labels] /\ pc'[p] = l /\ \A q \in Slots \ {p} : pc'[q] = pc[q]
    BY <1>1, <1>2 DEF Goto, IInv, TypeOK
  <2>4. TypeOK'
    BY <1>1, <2>2, <2>3 DEF IInv, TypeOK
  <2>5. Unique' /\ InitProc'
    BY <1>1, <1>2, <2>2, <2>3, Constants DEF IInv, Unique, InitProc, Exiting
  <2>6. (pc[p] = "wait_sleep" => chan[p] = p) /\ (pc[p] = "pause_sleep" => chan[p] = ticks) /\ wait_lock # p
    BY <1>1, <1>4, Runs DEF Slot, Exits, Exiting
  <2>7. ASSUME NEW q \in Slots PROVE Slot(q)' /\ Exits(q)'
    <3>1. Slot(q) /\ Exits(q)
      BY DEF IInv
    <3>2. CASE q = p
      BY <1>1, <2>2, <2>3, <2>6, <3>1, <3>2 DEF Slot, Exits, Exiting
    <3>3. CASE q # p
      BY <1>1, <2>2, <2>3, <3>1, <3>3 DEF Slot, Exits
    <3> QED BY <3>2, <3>3
  <2>8. ASSUME NEW q \in Slots PROVE Family(q)'
    <3>1. Family(q) /\ parent[q] \in Slots \cup {None} /\ np[q] \in Slots \cup {None}
      BY DEF IInv, TypeOK
    <3> QED BY <1>1, <1>2, <2>2, <2>3, <3>1 DEF Family
  <2>9. ASSUME NEW q \in Slots PROVE Wakeups(q)'
    <3>1. Wakeups(q) /\ wait_lock \in Slots \cup {None}
      BY DEF IInv, TypeOK
    <3>2. Armed(q)' => Armed(q)
      BY <1>1, <2>2, <2>3, <2>6 DEF Armed
    <3> QED BY <1>1, <2>2, <2>3, <2>6, <3>1, <3>2 DEF Wakeups, Children
  <2> QED BY <2>2, <2>4, <2>5, <2>7, <2>8, <2>9 DEF IInv
<1> QED BY <1>3, <1>4

-----------------------------------------------------------------------------
(* kfork().                                                                *)

\* allocproc() takes a slot that nobody refers to, and a new pid.
LEMMA AllocprocKeeps ==
  ASSUME Parameters, IInv, NEW c \in Cpus, NEW p \in Slots, NEW r \in Slots, allocproc(c, p, r) PROVE IInv'
<1>1. /\ On(c, p) /\ pc[p] = "fork" /\ state[r] = "UNUSED" /\ Free(r) /\ nextpid' = nextpid + 1
      /\ state' = [state EXCEPT ![r] = "USED"] /\ pid' = [pid EXCEPT ![r] = nextpid] /\ np' = [np EXCEPT ![p] = r]
      /\ pc' = [pc EXCEPT ![p] = "fork_parent", ![r] = "user"]
      /\ UNCHANGED <<chan, killed, parent, lock, wait_lock, proc, scan>>
  BY DEF allocproc
<1>2. state[p] = "RUNNING" /\ p # r /\ pc[p] \notin Exiting \cup Forking /\ TypeOK /\ wait_lock # p /\ wait_lock # r
  BY <1>1, Runs DEF Exiting, Forking, IInv, Exits
<1>3. /\ pc' \in [Slots -> Labels] /\ pc'[p] = "fork_parent" /\ pc'[r] = "user"
      /\ \A q \in Slots \ {p, r} : pc'[q] = pc[q]
  BY <1>1, <1>2 DEF TypeOK, Labels, Forking
<1>4. /\ state'[r] = "USED" /\ pid'[r] = nextpid /\ np'[p] = r /\ nextpid' \in Nat /\ nextpid' > nextpid
      /\ \A q \in Slots \ {r} : state'[q] = state[q] /\ pid'[q] = pid[q]
      /\ \A q \in Slots \ {p} : np'[q] = np[q]
  BY <1>1, <1>2, SMTT(60) DEF TypeOK
<1>5. TypeOK'
  BY <1>1, <1>2, <1>3, <1>4 DEF TypeOK
<1>6. Placed'
  BY <1>1, <1>4, PlacedKept
<1>7. r # initproc /\ parent[r] = None /\ pid[r] = 0 /\ \A q \in Slots : np[q] # r /\ parent[q] # r
  <2>1. r # initproc /\ parent[r] = None /\ pid[r] = 0
    BY <1>1 DEF IInv, InitProc, Slot
  <2>2. \A q \in Slots : np[q] # r /\ parent[q] # r
    BY <1>1, Constants DEF IInv, Family
  <2> QED BY <2>1, <2>2
<1>8. InitProc'
  BY <1>1, <1>3, <1>4, <1>7, Constants DEF IInv, InitProc, Exiting
<1>9. nextpid # 0 /\ \A q \in Slots : pid[q] # nextpid
  <2>1. nextpid \in Nat /\ \A q \in Slots : pid[q] \in Nat /\ Slot(q)
    BY <1>2 DEF IInv, TypeOK
  <2>2. \A q \in Slots : pid[q] < nextpid
    BY <2>1 DEF Slot
  <2> QED BY <2>1, <2>2, Constants, SMTT(60)
<1>10. Unique'
  <2>1. Unique
    BY Global
  <2>2. \A q \in Slots : pid'[q] = IF q = r THEN nextpid ELSE pid[q]
    BY <1>4
  <2>3. \A q \in Slots : np'[q] = IF q = p THEN r ELSE np[q]
    BY <1>4
  <2> QED BY <1>7, <1>9, <2>1, <2>2, <2>3, SMTT(60) DEF Unique
<1>11. ASSUME NEW q \in Slots PROVE Slot(q)' /\ Exits(q)'
  <2>1. Slot(q) /\ Exits(q) /\ pid[q] \in Nat /\ nextpid \in Nat
    BY <1>2 DEF IInv, TypeOK
  <2>2. (pid[q] < nextpid)'
    BY <1>4, <2>1, SMTT(60) DEF Slot
  <2>3. CASE q = r
    BY <1>1, <1>2, <1>3, <1>4, <1>7, <1>9, <2>2, <2>3 DEF Slot, Exits, Exiting
  <2>4. CASE q = p
    BY <1>1, <1>2, <1>3, <1>4, <2>1, <2>2, <2>4, SMTT(60) DEF Slot, Exits, Exiting
  <2>5. CASE q # p /\ q # r
    BY <1>1, <1>3, <1>4, <2>1, <2>2, <2>5 DEF Slot, Exits
  <2> QED BY <2>3, <2>4, <2>5
<1>12. ASSUME NEW q \in Slots PROVE Family(q)'
  <2>1. Family(q) /\ parent[q] \in Slots \cup {None} /\ np[q] \in Slots \cup {None}
    BY <1>2 DEF IInv, TypeOK
  <2>2. CASE q = p
    BY <1>1, <1>2, <1>3, <1>4, <1>7, <2>1, <2>2, Constants, SMTT(60) DEF Family, Forking, Exiting
  <2>3. CASE q # p
    <3>1. q = r => pc[q] \in {"user", "zombie"}
      BY <1>1 DEF IInv, Slot
    <3>2. q = r => np[q] = None
      BY <2>1, <3>1 DEF Family, Forking
    <3> QED BY <1>1, <1>2, <1>3, <1>4, <1>7, <2>1, <2>3, <3>1, <3>2, Constants, SMTT(60) DEF Family, Forking, Exiting
  <2> QED BY <2>2, <2>3
<1>13. ASSUME NEW q \in Slots PROVE Wakeups(q)'
  <2>1. Wakeups(q) /\ wait_lock \in Slots \cup {None}
    BY <1>2 DEF IInv, TypeOK
  <2>2. Armed(q)' => Armed(q)
    BY <1>1, <1>3, <1>4 DEF Armed
  <2> QED BY <1>1, <1>2, <1>3, <1>4, <2>1, <2>2 DEF Wakeups, Children
<1> QED BY <1>5, <1>6, <1>8, <1>10, <1>11, <1>12, <1>13 DEF IInv

\* The child gets its parent.
LEMMA ForkParentKeeps == ASSUME Parameters, IInv, NEW c \in Cpus, NEW p \in Slots, fork_parent(c, p) PROVE IInv'
<1> DEFINE r == np[p]
<1>1. /\ On(c, p) /\ pc[p] = "fork_parent" /\ wait_lock = None /\ parent' = [parent EXCEPT ![r] = p] /\ Goto(p, "fork_run")
      /\ UNCHANGED <<state, pid, chan, killed, lock, wait_lock, nextpid, proc, np, scan>>
  BY DEF fork_parent
<1>2. /\ state[p] = "RUNNING" /\ TypeOK /\ r \in Slots /\ state[r] = "USED" /\ parent[r] = None /\ r # p /\ r # initproc
  <2>1. state[p] = "RUNNING" /\ Family(p) /\ p # None
    BY <1>1, Runs
  <2>2. r \in Slots \cup {None} /\ r # None
    BY <1>1, <2>1, Typed DEF TypeOK, Family, Forking
  <2>3. state[r] = "USED" /\ parent[r] = None
    BY <1>1, <2>1, <2>2 DEF Family
  <2>4. r # initproc
    BY <2>3, Global DEF InitProc
  <2> QED BY <2>1, <2>2, <2>3, <2>4, Typed
<1> HIDE DEF r
<1>3. pc' \in [Slots -> Labels] /\ pc'[p] = "fork_run" /\ \A q \in Slots \ {p} : pc'[q] = pc[q]
  BY <1>1, <1>2 DEF Goto, TypeOK, Labels, Forking
<1>4. parent' \in [Slots -> Slots \cup {None}] /\ parent'[r] = p /\ \A q \in Slots \ {r} : parent'[q] = parent[q]
  BY <1>1, <1>2 DEF TypeOK
<1>5. TypeOK' /\ Placed'
  <2>1. TypeOK'
    BY <1>1, <1>2, <1>3, <1>4 DEF TypeOK
  <2>2. Placed'
    BY <1>1, Global, PlacedSame
  <2> QED BY <2>1, <2>2
<1>6. Unique' /\ InitProc'
  BY <1>1, <1>2, <1>3, <1>4, Constants DEF IInv, Unique, InitProc, Exiting
<1>7. ASSUME NEW q \in Slots PROVE Slot(q)' /\ Exits(q)'
  <2>1. Slot(q) /\ Exits(q)
    BY DEF IInv
  <2> QED BY <1>1, <1>2, <1>3, <1>4, <2>1 DEF Slot, Exits, Exiting
<1>8. ASSUME NEW q \in Slots PROVE Family(q)'
  <2>1. Family(q) /\ parent[q] \in Slots \cup {None} /\ np[q] \in Slots \cup {None}
    BY <1>2 DEF IInv, TypeOK
  <2>2. CASE q = p
    BY <1>1, <1>2, <1>3, <1>4, <2>1, <2>2, Constants DEF Family, Forking, Exiting, r
  <2>3. CASE q # p
    <3>1. np[q] # None => np[q] # r
      BY <1>2, <2>3, Constants DEF IInv, Unique, r
    <3> QED BY <1>1, <1>2, <1>3, <1>4, <2>1, <2>3, <3>1, Constants DEF Family, Forking, Exiting
  <2> QED BY <2>2, <2>3
<1>9. ASSUME NEW q \in Slots PROVE Wakeups(q)'
  <2>1. Wakeups(q)
    BY DEF IInv
  <2>2. Armed(q)' => Armed(q)
    BY <1>1, <1>3 DEF Armed
  <2> QED BY <1>1, <1>2, <1>4, <2>1, <2>2 DEF Wakeups, Children
<1> QED BY <1>5, <1>6, <1>7, <1>8, <1>9 DEF IInv

\* The child becomes RUNNABLE.
LEMMA ForkRunKeeps == ASSUME Parameters, IInv, NEW c \in Cpus, NEW p \in Slots, fork_run(c, p) PROVE IInv'
<1> DEFINE r == np[p]
<1>1. /\ On(c, p) /\ pc[p] = "fork_run" /\ Goto(p, "return")
      /\ state' = [state EXCEPT ![r] = "RUNNABLE"] /\ np' = [np EXCEPT ![p] = None]
      /\ UNCHANGED <<pid, chan, killed, parent, lock, wait_lock, nextpid, proc, scan>>
  BY DEF fork_run
<1>2. /\ state[p] = "RUNNING" /\ TypeOK /\ r \in Slots /\ state[r] = "USED" /\ parent[r] = p /\ r # p /\ pc[r] = "user"
      /\ wait_lock # p /\ wait_lock # r
  <2>1. state[p] = "RUNNING" /\ TypeOK /\ r \in Slots /\ state[r] = "USED" /\ parent[r] = p /\ r # p
    <3>1. state[p] = "RUNNING" /\ Family(p) /\ p # None
      BY <1>1, Runs
    <3>2. r \in Slots \cup {None} /\ r # None
      BY <1>1, <3>1, Typed DEF TypeOK, Family, Forking
    <3>3. state[r] = "USED" /\ parent[r] = p
      BY <1>1, <3>1, <3>2 DEF Family
    <3> QED BY <3>1, <3>2, <3>3, Typed
  <2> QED BY <1>1, <2>1 DEF IInv, Slot, Exits, Exiting
<1> HIDE DEF r
<1>3. pc' \in [Slots -> Labels] /\ pc'[p] = "return" /\ \A q \in Slots \ {p} : pc'[q] = pc[q]
  BY <1>1, <1>2 DEF Goto, TypeOK, Labels
<1>4. /\ state'[r] = "RUNNABLE" /\ \A q \in Slots \ {r} : state'[q] = state[q]
      /\ np'[p] = None /\ \A q \in Slots \ {p} : np'[q] = np[q]
  BY <1>1, <1>2 DEF TypeOK
<1>5. TypeOK' /\ Placed'
  <2>1. TypeOK'
    BY <1>1, <1>2, <1>3 DEF TypeOK
  <2>2. Placed'
    BY <1>1, <1>2, <1>4, PlacedKept DEF fork_run, r
  <2> QED BY <2>1, <2>2
<1>6. Unique' /\ InitProc'
  <2>1. Unique'
    BY <1>1, <1>4 DEF IInv, Unique
  <2>2. InitProc'
    BY <1>1, <1>2, <1>3, <1>4, Constants DEF IInv, InitProc, Exiting
  <2> QED BY <2>1, <2>2
<1>7. ASSUME NEW q \in Slots PROVE Slot(q)' /\ Exits(q)'
  <2>1. Slot(q) /\ Exits(q)
    BY DEF IInv
  <2> QED BY <1>1, <1>2, <1>3, <1>4, <2>1 DEF Slot, Exits, Exiting
<1>8. ASSUME NEW q \in Slots PROVE Family(q)'
  <2>1. Family(q) /\ parent[q] \in Slots \cup {None} /\ np[q] \in Slots \cup {None}
    BY <1>2 DEF IInv, TypeOK
  <2>2. CASE q = p
    BY <1>1, <1>2, <1>3, <1>4, <2>1, <2>2, Constants, SMTT(60) DEF Family, Forking, Exiting
  <2>3. CASE q # p
    <3>1. np[q] # None => np[q] # r
      BY <1>2, <2>3, Constants DEF IInv, Unique, r
    <3> QED BY <1>1, <1>2, <1>3, <1>4, <2>1, <2>3, <3>1, Constants, SMTT(60) DEF Family, Forking, Exiting
  <2> QED BY <2>2, <2>3
<1>9. ASSUME NEW q \in Slots PROVE Wakeups(q)'
  <2>1. Wakeups(q) /\ wait_lock \in Slots \cup {None}
    BY <1>2 DEF IInv, TypeOK
  <2>2. Armed(q)' => Armed(q)
    BY <1>1, <1>2, <1>3, <1>4 DEF Armed
  <2> QED BY <1>1, <1>2, <1>3, <1>4, <2>1, <2>2 DEF Wakeups, Children
<1> QED BY <1>5, <1>6, <1>7, <1>8, <1>9 DEF IInv

-----------------------------------------------------------------------------
(* wakeup() and kkill().                                                   *)

\* A process that wakeup() or kkill() finds asleep runs on no CPU.
LEMMA WakePlaced ==
  ASSUME Parameters, IInv, NEW q \in Slots, Free(q), UNCHANGED <<proc, lock>>,
         state' = [state EXCEPT ![q] = IF @ = "SLEEPING" THEN "RUNNABLE" ELSE @]
  PROVE  /\ Placed' /\ state' \in [Slots -> {"UNUSED", "USED", "RUNNABLE", "RUNNING", "SLEEPING", "ZOMBIE"}]
         /\ state'[q] = IF state[q] = "SLEEPING" THEN "RUNNABLE" ELSE state[q]
         /\ \A r \in Slots \ {q} : state'[r] = state[r]
<1>1. TypeOK /\ Placed
  BY DEF IInv
<1>2. /\ state'[q] = IF state[q] = "SLEEPING" THEN "RUNNABLE" ELSE state[q]
      /\ \A r \in Slots \ {q} : state'[r] = state[r]
      /\ state' \in [Slots -> {"UNUSED", "USED", "RUNNABLE", "RUNNING", "SLEEPING", "ZOMBIE"}]
  BY <1>1 DEF TypeOK
<1>3. CASE state[q] = "SLEEPING"
  BY <1>2, <1>3, PlacedKept
<1>4. CASE state[q] # "SLEEPING"
  <2>1. state' = state
    BY <1>1, <1>2, <1>4, SMTT(60) DEF TypeOK
  <2> QED BY <1>1, <1>2, <2>1, PlacedSame
<1> QED BY <1>2, <1>3, <1>4

\* What one iteration of wakeup() does.
LEMMA WakeOneIs ==
  ASSUME Parameters, IInv, NEW q \in Slots, NEW ch, WakeOne(q, ch), UNCHANGED <<proc, lock>>
  PROVE  /\ Placed' /\ state' \in [Slots -> {"UNUSED", "USED", "RUNNABLE", "RUNNING", "SLEEPING", "ZOMBIE"}]
         /\ chan' \in [Slots -> Slots \cup {None, ticks}]
         /\ \/ chan[q] = ch /\ chan'[q] = None /\ state'[q] = IF state[q] = "SLEEPING" THEN "RUNNABLE" ELSE state[q]
            \/ chan[q] # ch /\ chan'[q] = chan[q] /\ state'[q] = state[q]
         /\ \A r \in Slots \ {q} : state'[r] = state[r] /\ chan'[r] = chan[r]
<1>1. TypeOK /\ Placed /\ Free(q)
  BY DEF IInv, WakeOne
<1>2. CASE chan[q] = ch
  <2>1. /\ chan' = [chan EXCEPT ![q] = None]
        /\ state' = [state EXCEPT ![q] = IF @ = "SLEEPING" THEN "RUNNABLE" ELSE @]
    BY <1>2 DEF WakeOne
  <2>2. chan' \in [Slots -> Slots \cup {None, ticks}] /\ chan'[q] = None /\ \A r \in Slots \ {q} : chan'[r] = chan[r]
    BY <1>1, <2>1 DEF TypeOK
  <2> QED BY <1>1, <1>2, <2>1, <2>2, WakePlaced
<1>3. CASE chan[q] # ch
  <2>1. UNCHANGED <<chan, state>>
    BY <1>3 DEF WakeOne
  <2>2. Placed'
    BY <1>1, <2>1 DEF Placed, Free
  <2> QED BY <1>1, <1>3, <2>1, <2>2 DEF TypeOK
<1> QED BY <1>2, <1>3

\* The clock wakes nobody in kwait().
LEMMA ClockKeeps == ASSUME Parameters, IInv, NEW q \in Slots, clockintr(q) PROVE IInv'
<1>1. /\ chan[q] = ticks /\ WakeOne(q, ticks)
      /\ UNCHANGED <<pid, killed, parent, lock, wait_lock, nextpid, proc, pc, np, scan>>
  BY DEF clockintr
<1>2. /\ Placed' /\ state' \in [Slots -> {"UNUSED", "USED", "RUNNABLE", "RUNNING", "SLEEPING", "ZOMBIE"}]
      /\ chan' \in [Slots -> Slots \cup {None, ticks}]
      /\ chan'[q] = None /\ state'[q] = IF state[q] = "SLEEPING" THEN "RUNNABLE" ELSE state[q]
      /\ \A r \in Slots \ {q} : state'[r] = state[r] /\ chan'[r] = chan[r]
  BY <1>1, WakeOneIs
<1>3. TypeOK'
  BY <1>1, <1>2 DEF IInv, TypeOK
<1>4. Unique' /\ InitProc'
  BY <1>1, <1>2, Constants DEF IInv, Unique, InitProc
<1>5. ASSUME NEW r \in Slots PROVE Slot(r)' /\ Exits(r)'
  <2>1. Slot(r) /\ Exits(r)
    BY DEF IInv
  <2> QED BY <1>1, <1>2, <2>1 DEF Slot, Exits
<1>6. ASSUME NEW r \in Slots PROVE Family(r)'
  <2>1. Family(r) /\ parent[r] \in Slots \cup {None} /\ np[r] \in Slots \cup {None}
    BY DEF IInv, TypeOK
  <2> QED BY <1>1, <1>2, <2>1 DEF Family
<1>7. ASSUME NEW r \in Slots PROVE Wakeups(r)'
  <2>1. Wakeups(r)
    BY DEF IInv
  <2>2. Armed(r)' => Armed(r)
    BY <1>1, <1>2, Constants DEF Armed
  <2> QED BY <1>1, <1>2, <2>1, <2>2 DEF Wakeups, Children
<1> QED BY <1>2, <1>3, <1>4, <1>5, <1>6, <1>7 DEF IInv

\* A set of slots has a first one.
LEMMA First == ASSUME Parameters, NEW S \in SUBSET Slots, S # {} PROVE \E q \in S : \A r \in S : q <= r
<1>1. Slots \subseteq Nat
  BY SMTT(60) DEF Slots, Parameters
<1>2. PICK q \in S : \A r \in S : ~ (<<r, q>> \in OpToRel(<, Nat))
  BY <1>1, NatLessThanWellFounded, WFMin
<1>3. \A r \in S : ~ (r < q)
  BY <1>1, <1>2 DEF OpToRel
<1> QED BY <1>1, <1>3, SMTT(60)

\* kkill() finds the slot it looks for.
LEMMA VictimIs == ASSUME Parameters, NEW n, \E q \in Slots : pid[q] = n PROVE Victim(n) \in Slots /\ pid[Victim(n)] = n
<1> DEFINE S == {q \in Slots : pid[q] = n}
<1>1. \E q \in S : \A r \in S : q <= r
  BY First
<1>2. \E q \in Slots : pid[q] = n /\ \A r \in Slots : pid[r] = n => q <= r
  BY <1>1
<1> QED BY <1>2 DEF Victim

\* kkill() wakes its victim, which may be in kwait().
LEMMA KillKeeps ==
  ASSUME Parameters, IInv, NEW c \in Cpus, NEW p \in Slots, NEW n \in KillPids, kkill(c, p, n) PROVE IInv'
<1>1. /\ On(c, p) /\ pc[p] = "kill" /\ Goto(p, "return")
      /\ UNCHANGED <<pid, chan, parent, lock, wait_lock, nextpid, proc, np, scan>>
  BY DEF kkill
<1>2. state[p] = "RUNNING" /\ pc[p] \notin Exiting \cup Forking /\ "return" \in Labels \ (Exiting \cup Forking)
  BY <1>1, Runs DEF Exiting, Forking, Labels
<1>3. CASE ~ \E q \in Slots : pid[q] = n
  <2>1. UNCHANGED <<killed, state>>
    BY <1>3 DEF kkill
  <2>2. nextpid' \in Nat /\ nextpid' >= nextpid /\ chan' \in [Slots -> Slots \cup {None, ticks}]
    BY <1>1, Typed, SMTT(60) DEF TypeOK
  <2> QED BY <1>1, <1>2, <2>1, <2>2, InitAlive, MovesKeep
<1>4. CASE \E q \in Slots : pid[q] = n
  <2> DEFINE v == Victim(n)
  <2>1. v \in Slots /\ pid[v] = n
    BY <1>4, VictimIs
  <2>2. /\ Free(v) /\ killed' = [killed EXCEPT ![v] = TRUE]
        /\ state' = [state EXCEPT ![v] = IF @ = "SLEEPING" THEN "RUNNABLE" ELSE @]
    BY <1>4 DEF kkill
  <2> HIDE DEF v
  <2>3. /\ Placed' /\ state' \in [Slots -> {"UNUSED", "USED", "RUNNABLE", "RUNNING", "SLEEPING", "ZOMBIE"}]
        /\ state'[v] = IF state[v] = "SLEEPING" THEN "RUNNABLE" ELSE state[v]
        /\ \A r \in Slots \ {v} : state'[r] = state[r]
    BY <1>1, <2>1, <2>2, WakePlaced
  <2>4. pc' \in [Slots -> Labels] /\ pc'[p] = "return" /\ \A q \in Slots \ {p} : pc'[q] = pc[q]
    BY <1>1, <1>2 DEF Goto, IInv, TypeOK
  <2>5. v # initproc
    BY <2>1 DEF Parameters, IInv, InitProc
  <2>6. killed' \in [Slots -> BOOLEAN] /\ ~ killed'[initproc]
    BY <2>1, <2>2, <2>5, InitAlive, SMTT(60)
  <2>7. TypeOK'
    BY <1>1, <2>3, <2>4, <2>6 DEF IInv, TypeOK
  <2>8. Unique' /\ InitProc'
    BY <1>1, <2>3, <2>4, <2>5, <2>6, Constants DEF IInv, Unique, InitProc, Exiting
  <2>9. ASSUME NEW q \in Slots PROVE Slot(q)' /\ Exits(q)'
    <3>1. Slot(q) /\ Exits(q)
      BY DEF IInv
    <3> QED BY <1>1, <1>2, <2>1, <2>3, <2>4, <3>1 DEF Slot, Exits, Exiting
  <2>10. ASSUME NEW q \in Slots PROVE Family(q)'
    <3>1. Family(q) /\ parent[q] \in Slots \cup {None} /\ np[q] \in Slots \cup {None}
      BY DEF IInv, TypeOK
    <3> QED BY <1>1, <1>2, <2>1, <2>3, <2>4, <3>1 DEF Family
  <2>11. ASSUME NEW q \in Slots PROVE Wakeups(q)'
    <3>1. Wakeups(q) /\ wait_lock \in Slots \cup {None} /\ wait_lock # p
      BY <1>1, <1>2, Runs DEF IInv, TypeOK, Exits
    <3>2. Armed(q)' => Armed(q)
      BY <1>1, <2>1, <2>3, <2>4 DEF Armed
    <3> QED BY <1>1, <2>1, <2>3, <2>4, <3>1, <3>2 DEF Wakeups, Children
  <2> QED BY <2>3, <2>7, <2>8, <2>9, <2>10, <2>11 DEF IInv
<1> QED BY <1>3, <1>4

-----------------------------------------------------------------------------
(* kexit().                                                                *)

\* reparent() gives the children to init, and kexit() owes init and the parent a wakeup().
LEMMA KexitKeeps == ASSUME Parameters, IInv, NEW c \in Cpus, NEW p \in Slots, kexit(c, p) PROVE IInv'
<1> DEFINE l == IF \E q \in Slots : parent[q] = p THEN "wake_init" ELSE "wake_parent"
<1>1. /\ On(c, p) /\ pc[p] = "exit" /\ wait_lock = None /\ wait_lock' = p /\ Goto(p, l)
      /\ parent' = [q \in Slots |-> IF parent[q] = p THEN initproc ELSE parent[q]]
      /\ scan' = [scan EXCEPT ![p] = 1]
      /\ UNCHANGED <<state, pid, chan, killed, lock, nextpid, proc, np>>
  BY DEF kexit
<1>2. state[p] = "RUNNING" /\ TypeOK /\ p # initproc /\ p # None /\ np[p] = None
  <2>1. np[p] = None
    BY <1>1, Runs DEF Family, Forking
  <2> QED BY <1>1, <2>1, Runs DEF IInv, InitProc
<1>3. /\ l \in {"wake_init", "wake_parent"} /\ pc' \in [Slots -> Labels] /\ pc'[p] = l
      /\ \A q \in Slots \ {p} : pc'[q] = pc[q]
  BY <1>1, <1>2 DEF Goto, TypeOK, Labels, Exiting
<1>4. \A q \in Slots : parent'[q] = IF parent[q] = p THEN initproc ELSE parent[q]
  BY <1>1
<1>5. scan'[p] = 1 /\ \A q \in Slots \ {p} : scan'[q] = scan[q]
  BY <1>1, <1>2 DEF TypeOK
<1>6. TypeOK'
  <2>1. parent' \in [Slots -> Slots \cup {None}]
    BY <1>1, <1>2, Constants DEF TypeOK
  <2>2. scan' \in [Slots -> 0..NPROC]
    BY <1>1, <1>2, SMTT(60) DEF TypeOK, Parameters
  <2> QED BY <1>1, <1>2, <1>3, <2>1, <2>2 DEF TypeOK
<1>7. Placed'
  BY <1>1 DEF IInv, Placed, Free
<1>8. Unique' /\ InitProc'
  BY <1>1, <1>2, <1>3, <1>4, Constants DEF IInv, Unique, InitProc
<1>9. ASSUME NEW q \in Slots PROVE Slot(q)' /\ Exits(q)'
  <2>1. Slot(q) /\ Exits(q)
    BY DEF IInv
  <2>2. Slot(q)'
    BY <1>1, <1>2, <1>3, <1>4, <2>1 DEF Slot
  <2>3. 1 \in Slots
    BY Constants DEF initproc
  <2>4. Exits(q)'
    BY <1>1, <1>2, <1>3, <1>5, <2>1, <2>3, Constants DEF Exits, Exiting
  <2> QED BY <2>2, <2>4
<1>10. ASSUME NEW q \in Slots PROVE Family(q)'
  <2>1. /\ Family(q) /\ parent[q] \in Slots \cup {None} /\ np[q] \in Slots \cup {None}
        /\ state[initproc] \in {"RUNNABLE", "RUNNING", "SLEEPING"} /\ pc[initproc] \notin Exiting
    BY <1>2 DEF IInv, TypeOK, InitProc
  <2> QED BY <1>1, <1>2, <1>3, <1>4, <2>1, Constants DEF Family, Forking
<1>11. ASSUME NEW q \in Slots PROVE Wakeups(q)'
  <2>1. Wakeups(q) /\ q \in Nat /\ 1 <= q
    <3>1. q \in Nat /\ 1 <= q
      BY SMTT(60) DEF Slots, Parameters
    <3> QED BY <3>1 DEF IInv
  <2>2. Armed(q)' => Armed(q)
    BY <1>1, <1>3 DEF Armed
  <2>3. ASSUME Armed(q), NEW r \in Slots, parent'[r] = q, state[r] = "ZOMBIE" PROVE q = initproc /\ l = "wake_init"
    BY <1>1, <1>4, <2>1, <2>3 DEF Wakeups, Children
  <2>4. Armed(q)' => \A r \in Children(q)' : state'[r] = "ZOMBIE" => q = initproc /\ l = "wake_init"
    BY <1>1, <2>2, <2>3 DEF Children
  <2> HIDE DEF l
  <2> QED BY <1>1, <1>2, <1>3, <1>5, <2>1, <2>4 DEF Wakeups, initproc
<1> QED BY <1>6, <1>7, <1>8, <1>9, <1>10, <1>11 DEF IInv

\* One iteration of the wakeup() of init or of the parent.
LEMMA ExitWakeupKeeps == ASSUME Parameters, IInv, NEW c \in Cpus, NEW p \in Slots, exit_wakeup(c, p) PROVE IInv'
<1> DEFINE s == scan[p]
           ch == IF pc[p] = "wake_init" THEN initproc ELSE parent[p]
<1>1. /\ On(c, p) /\ pc[p] \in {"wake_init", "wake_parent"} /\ WakeOne(s, ch)
      /\ UNCHANGED <<pid, killed, parent, lock, wait_lock, nextpid, proc, np>>
  BY DEF exit_wakeup
<1>2. /\ state[p] = "RUNNING" /\ TypeOK /\ p # initproc /\ p # None /\ wait_lock = p /\ s \in Slots
  BY <1>1, Runs DEF IInv, InitProc, Exits, Exiting
<1>3. s \in Nat /\ s <= NPROC /\ NPROC \in Nat /\ \A q \in Slots : q \in Nat /\ 1 <= q /\ q <= NPROC
  BY <1>2, SMTT(60) DEF Slots, Parameters
<1>4. /\ Placed' /\ state' \in [Slots -> {"UNUSED", "USED", "RUNNABLE", "RUNNING", "SLEEPING", "ZOMBIE"}]
      /\ chan' \in [Slots -> Slots \cup {None, ticks}]
      /\ \/ chan[s] = ch /\ chan'[s] = None /\ state'[s] = IF state[s] = "SLEEPING" THEN "RUNNABLE" ELSE state[s]
         \/ chan[s] # ch /\ chan'[s] = chan[s] /\ state'[s] = state[s]
      /\ \A r \in Slots \ {s} : state'[r] = state[r] /\ chan'[r] = chan[r]
  BY <1>1, <1>2, WakeOneIs
<1>5. /\ pc' \in [Slots -> Labels] /\ scan' \in [Slots -> 0..NPROC]
      /\ \A q \in Slots \ {p} : pc'[q] = pc[q] /\ scan'[q] = scan[q]
      /\ \/ s < NPROC /\ pc'[p] = pc[p] /\ scan'[p] = s + 1
         \/ s = NPROC /\ pc[p] = "wake_init" /\ pc'[p] = "wake_parent" /\ scan'[p] = 1
         \/ s = NPROC /\ pc[p] = "wake_parent" /\ pc'[p] = "zombie"
  <2>1. CASE s < NPROC
    BY <1>2, <1>3, <2>1, SMTT(60) DEF exit_wakeup, TypeOK
  <2>2. CASE ~ (s < NPROC)
    <3>1. s = NPROC
      BY <1>3, <2>2, SMTT(60)
    <3>2. CASE pc[p] = "wake_init"
      <4>1. scan' = [scan EXCEPT ![p] = 1] /\ pc' = [pc EXCEPT ![p] = "wake_parent"]
        BY <2>2, <3>2 DEF exit_wakeup, Goto
      <4> QED BY <1>2, <1>3, <3>1, <3>2, <4>1, SMTT(60) DEF TypeOK, Labels, Exiting
    <3>3. CASE pc[p] = "wake_parent"
      <4>1. scan' = [scan EXCEPT ![p] = None] /\ pc' = [pc EXCEPT ![p] = "zombie"]
        BY <2>2, <3>3 DEF exit_wakeup, Goto
      <4> QED BY <1>2, <1>3, <3>1, <3>3, <4>1, SMTT(60) DEF TypeOK, Labels, Exiting, None
    <3> QED BY <1>1, <3>2, <3>3
  <2> QED BY <2>1, <2>2
<1> HIDE DEF s, ch
<1>6. TypeOK'
  BY <1>1, <1>2, <1>4, <1>5 DEF TypeOK
<1>7. Unique' /\ InitProc'
  BY <1>1, <1>2, <1>4, <1>5, Constants DEF IInv, Unique, InitProc
<1>8. chan[s] = ch /\ state[s] = "SLEEPING" => (state' [s] = "RUNNABLE")
  BY <1>4
<1>9. ASSUME NEW q \in Slots PROVE Slot(q)' /\ Exits(q)'
  <2>1. Slot(q) /\ Exits(q)
    BY DEF IInv
  <2>2. Slot(q)'
    <3>1. CASE q = p
      BY <1>1, <1>2, <1>4, <1>5, <2>1, <3>1 DEF Slot
    <3>2. CASE q # p
      BY <1>1, <1>2, <1>4, <1>5, <2>1, <3>2 DEF Slot
    <3> QED BY <3>1, <3>2
  <2>3. CASE q = p
    <3>1. pc'[p] \in {"wake_init", "wake_parent"} => scan'[p] \in Slots
      BY <1>3, <1>5, SMTT(60) DEF Slots
    <3>2. state'[p] = "RUNNING" /\ pc'[p] \in Exiting
      BY <1>1, <1>2, <1>4, <1>5 DEF Exiting
    <3> QED BY <1>1, <1>2, <2>2, <2>3, <3>1, <3>2 DEF Exits
  <2>4. CASE q # p
    BY <1>1, <1>2, <1>4, <1>5, <2>1, <2>2, <2>4 DEF Exits, Exiting
  <2> QED BY <2>3, <2>4
<1>10. ASSUME NEW q \in Slots PROVE Family(q)'
  <2>1. Family(q) /\ parent[q] \in Slots \cup {None} /\ np[q] \in Slots \cup {None}
    BY <1>2 DEF IInv, TypeOK
  <2>2. pc[p] \in Exiting /\ pc[p] \notin Forking /\ pc'[p] \in Exiting /\ pc'[p] \notin Forking
    BY <1>1, <1>5 DEF Exiting, Forking
  <2>3. CASE q = p
    BY <1>1, <1>2, <1>4, <1>5, <2>1, <2>2, <2>3 DEF Family
  <2>4. CASE q # p
    BY <1>1, <1>2, <1>4, <1>5, <2>1, <2>2, <2>4 DEF Family
  <2> QED BY <2>3, <2>4
<1>11. ASSUME NEW q \in Slots PROVE Wakeups(q)'
  <2>1. Wakeups(q) /\ Slot(q)
    BY DEF IInv
  <2>2. Armed(q)' => Armed(q) /\ (q = s => chan[q] # ch) /\ chan[q] = q
    BY <1>1, <1>2, <1>4, <1>5, <2>1, Constants, SMTT(60) DEF Armed, Slot
  <2>3. ASSUME Armed(q)' PROVE \A r \in Children(q)' : state'[r] # "ZOMBIE"
    <3>1. \A r \in Children(q) : state[r] = "ZOMBIE" => q = initproc /\ pc[p] = "wake_init" /\ s = initproc
      BY <1>2, <2>1, <2>2, <2>3 DEF Wakeups, s
    <3>2. ~ (q = initproc /\ pc[p] = "wake_init" /\ s = initproc)
      BY <2>2, <2>3 DEF ch
    <3> QED BY <1>1, <1>4, <3>1, <3>2 DEF Children
  <2>4. ASSUME Armed(q)', parent[p] = q PROVE pc'[p] = "wake_init" \/ (pc'[p] = "wake_parent" /\ scan'[p] <= q)
    <3>1. CASE pc[p] = "wake_init"
      BY <1>3, <1>5, <3>1
    <3>2. CASE pc[p] = "wake_parent"
      <4>1. s <= q
        BY <1>2, <2>1, <2>2, <2>4, <3>2 DEF Wakeups, s
      <4>2. s # q
        BY <2>2, <2>4, <3>2 DEF ch
      <4> QED BY <1>3, <1>5, <3>2, <4>1, <4>2, SMTT(60)
    <3> QED BY <1>1, <3>1, <3>2
  <2> QED BY <1>1, <1>2, <2>3, <2>4 DEF Wakeups
<1> QED BY <1>4, <1>6, <1>7, <1>9, <1>10, <1>11 DEF IInv

\* The process becomes a ZOMBIE when both wakeup()s are done.
LEMMA ExitZombieKeeps == ASSUME Parameters, IInv, NEW c \in Cpus, NEW p \in Slots, exit_zombie(c, p) PROVE IInv'
<1>1. /\ On(c, p) /\ pc[p] = "zombie" /\ sched(c, p, "ZOMBIE") /\ wait_lock' = None
      /\ UNCHANGED <<pid, chan, killed, parent, nextpid, proc, pc, np, scan>>
  BY DEF exit_zombie
<1>2. state[p] = "RUNNING" /\ TypeOK /\ p # initproc /\ p # None /\ wait_lock = p /\ parent[p] # None
  <2>1. state[p] = "RUNNING" /\ Exits(p) /\ Family(p) /\ p # None
    BY <1>1, Runs
  <2>2. p # initproc
    BY <1>1, Global DEF InitProc, Exiting
  <2>3. wait_lock = p
    BY <1>1, <2>1 DEF Exits, Exiting
  <2>4. parent[p] # None
    BY <2>1, <2>2 DEF Family
  <2> QED BY <2>1, <2>2, <2>3, <2>4, Typed
<1>3. /\ Placed' /\ state'[p] = "ZOMBIE" /\ \A q \in Slots \ {p} : state'[q] = state[q]
      /\ state' \in [Slots -> {"UNUSED", "USED", "RUNNABLE", "RUNNING", "SLEEPING", "ZOMBIE"}]
      /\ lock' \in [Slots -> Cpus \cup {NoCpu}]
  BY <1>1, SchedPlaced
<1>4. TypeOK'
  BY <1>1, <1>2, <1>3 DEF TypeOK
<1>5. Unique' /\ InitProc'
  BY <1>1, <1>2, <1>3, Constants DEF IInv, Unique, InitProc
<1>6. ASSUME NEW q \in Slots PROVE Slot(q)' /\ Exits(q)'
  <2>1. Slot(q) /\ Exits(q) /\ Slot(p)
    BY DEF IInv
  <2> QED BY <1>1, <1>2, <1>3, <2>1, Constants DEF Slot, Exits, Exiting
<1>7. ASSUME NEW q \in Slots PROVE Family(q)'
  <2>1. Family(q) /\ parent[q] \in Slots \cup {None} /\ np[q] \in Slots \cup {None}
    BY <1>2 DEF IInv, TypeOK
  <2>2. parent[q] # p /\ np[q] # p
    BY <1>1, <1>2, <2>1 DEF Family, Exiting
  <2> QED BY <1>1, <1>2, <1>3, <2>1, <2>2 DEF Family
<1>8. ASSUME NEW q \in Slots PROVE Wakeups(q)'
  <2>1. Wakeups(q)
    BY DEF IInv
  <2>2. Armed(q)' => Armed(q)
    BY <1>1, <1>3 DEF Armed
  <2>3. Armed(q) => parent[p] # q /\ \A r \in Children(q) : state[r] # "ZOMBIE"
    BY <1>1, <1>2, <2>1 DEF Wakeups
  <2> QED BY <1>1, <1>3, <2>2, <2>3 DEF Wakeups, Children
<1> QED BY <1>3, <1>4, <1>5, <1>6, <1>7, <1>8 DEF IInv

-----------------------------------------------------------------------------
(* kwait().                                                                *)

\* freeproc() of an exited child that no CPU is on and no process refers to.
LEMMA WaitReapKeeps ==
  ASSUME Parameters, IInv, NEW c \in Cpus, NEW p \in Slots, NEW r \in Slots, wait_reap(c, p, r) PROVE IInv'
<1>1. /\ On(c, p) /\ pc[p] = "wait" /\ wait_lock = None /\ parent[r] = p /\ state[r] = "ZOMBIE" /\ Goto(p, "return")
      /\ UNCHANGED <<lock, wait_lock, nextpid, proc, np, scan>>
  BY DEF wait_reap, Children
<1>2. Free(r)
  <2>1. r \in Children(p) /\ r <= r
    BY <1>1, SMTT(60) DEF Children, Slots, Parameters
  <2> QED BY <2>1 DEF wait_reap
<1>3. /\ state[p] = "RUNNING" /\ TypeOK /\ pc[p] \notin Exiting \cup Forking
      /\ "return" \in Labels \ (Exiting \cup Forking)
  BY <1>1, Runs DEF IInv, Exiting, Forking, Labels
<1>4. CASE UNCHANGED <<parent, state, pid, chan, killed>>
  <2>1. nextpid' \in Nat /\ nextpid' >= nextpid /\ chan' \in [Slots -> Slots \cup {None, ticks}]
    BY <1>1, <1>3, <1>4, SMTT(60) DEF TypeOK
  <2> QED BY <1>1, <1>3, <1>4, <2>1, InitAlive, MovesKeep
<1>5. CASE parent' = [parent EXCEPT ![r] = None] /\ freeproc(r)
  <2>1. /\ parent' = [parent EXCEPT ![r] = None] /\ state' = [state EXCEPT ![r] = "UNUSED"]
        /\ pid' = [pid EXCEPT ![r] = 0] /\ chan' = [chan EXCEPT ![r] = None] /\ killed' = [killed EXCEPT ![r] = FALSE]
    BY <1>5 DEF freeproc
  <2>2. r # p /\ r # initproc /\ \A q \in Slots : parent[q] # r /\ np[q] # r
    <3>1. r # p /\ r # initproc
      BY <1>1, <1>3 DEF IInv, InitProc
    <3>2. \A q \in Slots : parent[q] # r /\ np[q] # r
      BY <1>1, Constants DEF IInv, Family
    <3> QED BY <3>1, <3>2
  <2>3. pc' \in [Slots -> Labels] /\ pc'[p] = "return" /\ \A q \in Slots \ {p} : pc'[q] = pc[q]
    BY <1>1, <1>3 DEF Goto, TypeOK
  <2>4. /\ parent'[r] = None /\ state'[r] = "UNUSED" /\ pid'[r] = 0 /\ chan'[r] = None /\ killed'[r] = FALSE
        /\ \A q \in Slots \ {r} : /\ parent'[q] = parent[q] /\ state'[q] = state[q] /\ pid'[q] = pid[q]
                                  /\ chan'[q] = chan[q] /\ killed'[q] = killed[q]
    BY <1>3, <2>1 DEF TypeOK
  <2>5. TypeOK'
    BY <1>1, <1>3, <2>1, <2>3 DEF TypeOK
  <2>6. Placed'
    BY <1>1, <1>2, <1>3, <2>4, PlacedKept
  <2>7. Unique' /\ InitProc'
    <3>1. Unique'
      <4>1. Unique /\ UNCHANGED np
        BY <1>1 DEF IInv
      <4>2. \A q \in Slots : pid'[q] # 0 => q # r /\ pid'[q] = pid[q]
        BY <2>4
      <4> QED BY <4>1, <4>2 DEF Unique
    <3>2. pc'[initproc] = pc[initproc] \/ pc'[initproc] = "return"
      BY <2>3, Constants
    <3>3. InitProc'
      BY <2>2, <2>4, <3>2, Constants DEF IInv, InitProc, Exiting
    <3> QED BY <3>1, <3>3
  <2>8. ASSUME NEW q \in Slots PROVE Slot(q)' /\ Exits(q)'
    <3>1. Slot(q) /\ Exits(q) /\ pid[q] \in Nat /\ nextpid \in Nat
      BY <1>3 DEF IInv, TypeOK
    <3>2. CASE q = r
      BY <1>1, <2>2, <2>3, <2>4, <3>1, <3>2, SMTT(60) DEF Slot, Exits, Exiting
    <3>3. CASE q # r
      BY <1>1, <1>3, <2>3, <2>4, <3>1, <3>3 DEF Slot, Exits, Exiting
    <3> QED BY <3>2, <3>3
  <2>9. ASSUME NEW q \in Slots PROVE Family(q)'
    <3>1. Family(q) /\ parent[q] \in Slots \cup {None} /\ np[q] \in Slots \cup {None}
      BY <1>3 DEF IInv, TypeOK
    <3> QED BY <1>1, <1>3, <2>2, <2>3, <2>4, <3>1, SMTT(60) DEF Family
  <2>10. ASSUME NEW q \in Slots PROVE Wakeups(q)'
    <3>1. Wakeups(q)
      BY DEF IInv
    <3>2. Armed(q)' => Armed(q)
      BY <2>3, <2>4, Constants DEF Armed
    <3>3. q # None
      BY Constants
    <3> QED BY <1>1, <2>3, <2>4, <3>1, <3>2, <3>3 DEF Wakeups, Children
  <2> QED BY <2>5, <2>6, <2>7, <2>8, <2>9, <2>10 DEF IInv
<1> QED BY <1>4, <1>5 DEF wait_reap

-----------------------------------------------------------------------------
(* The inductive invariant, and what it implies.                           *)

\* It holds when init is about to run.
LEMMA InitKeeps == ASSUME Parameters, Init PROVE IInv
<1>1. initproc \in Slots /\ None \notin Slots /\ 0 \in 0..NPROC /\ None = 0 /\ initproc = 1
  BY Constants, SMTT(60) DEF Parameters, None, initproc
<1>2. /\ \A p \in Slots : /\ state[p] = (IF p = initproc THEN "RUNNABLE" ELSE "UNUSED")
                          /\ pid[p] = (IF p = initproc THEN 1 ELSE 0) /\ chan[p] = None /\ ~ killed[p]
                          /\ parent[p] = None /\ lock[p] = NoCpu /\ pc[p] = "user" /\ np[p] = None
      /\ wait_lock = None /\ nextpid = 2 /\ \A c \in Cpus : proc[c] = None
  BY DEF Init
<1>3. TypeOK
  BY <1>1 DEF Init, TypeOK, Labels
<1>4. Placed
  BY <1>2 DEF Placed, Parameters
<1>5. InitProc /\ Unique
  BY <1>1, <1>2 DEF InitProc, Unique, Exiting
<1>6. ASSUME NEW p \in Slots PROVE Slot(p) /\ Exits(p) /\ Family(p) /\ Wakeups(p)
  BY <1>1, <1>2, SMTT(60) DEF Slot, Exits, Family, Wakeups, Armed, Exiting, Forking
<1> QED BY <1>3, <1>4, <1>5, <1>6 DEF IInv

\* Every step of a CPU keeps it, and the clock.
LEMMA StepKeeps == ASSUME Parameters, IInv, [Next]_vars PROVE IInv'
<1>1. ASSUME NEW c \in Cpus, NEW p \in Slots, Thread(c, p) PROVE IInv'
  BY <1>1, ReturnKeeps, ForkParentKeeps, ForkRunKeeps, AllocprocKeeps, ForkFailsKeeps, SleepKeeps, PauseKeeps,
     KillKeeps, KexitKeeps, ExitWakeupKeeps, ExitZombieKeeps, WaitReapKeeps, WaitNoneKeeps DEF Thread
<1>2. ASSUME Next PROVE IInv'
  BY <1>1, <1>2, SchedulerKeeps, SwtchKeeps, YieldKeeps, UsertrapKeeps, ClockKeeps DEF Next
<1>3. CASE UNCHANGED vars
  <2>1. TypeOK' /\ Placed' /\ InitProc' /\ Unique'
    BY <1>3, Typed, Global, PlacedSame DEF vars, TypeOK, InitProc, Unique
  <2>2. ASSUME NEW q \in Slots PROVE Slot(q)' /\ Exits(q)' /\ Family(q)' /\ Wakeups(q)'
    <3>1. Slot(q) /\ Exits(q) /\ Family(q) /\ Wakeups(q)
      BY DEF IInv
    <3>2. Slot(q)' /\ Exits(q)'
      BY <1>3, <3>1 DEF vars, Slot, Exits
    <3>3. Family(q)'
      BY <1>3, <3>1 DEF vars, Family
    <3>4. Wakeups(q)'
      BY <1>3, <3>1 DEF vars, Wakeups, Armed, Children
    <3> QED BY <3>2, <3>3, <3>4
  <2> QED BY <2>1, <2>2 DEF IInv
<1> QED BY <1>2, <1>3

\* The inductive invariant of proc.c: who runs where, what each slot holds, and who owes
\* whom a wakeup().
THEOREM Invariance == ASSUME Parameters PROVE Spec => []IInv
<1>1. Init => IInv
  BY InitKeeps
<1>2. IInv /\ [Next]_vars => IInv'
  BY StepKeeps
<1> QED BY <1>1, <1>2, PTL DEF Spec

\* A kernel stack is in use by at most one CPU, which holds p->lock while it leaves it:
\* sched() and scheduler() hand the lock over.
THEOREM Stacks == ASSUME Parameters PROVE Spec => []StackSafe
<1>1. IInv => StackSafe
  BY DEF IInv, Placed, StackSafe
<1> QED BY <1>1, Invariance, PTL

\* A process asleep in kwait() has no exited child, unless one that exits is about to wake
\* it: kexit() has wait_lock from reparent() on, and kwait() from its scan to sleep_prepare().
THEOREM Woken == ASSUME Parameters PROVE Spec => []NoLostWakeup
<1>1. IInv => NoLostWakeup
  BY DEF IInv, Wakeups, Armed, NoLostWakeup
<1> QED BY <1>1, Invariance, PTL

-----------------------------------------------------------------------------
(* The table implements the process tree.                                  *)

\* The tree in terms of slots.
Seen ==
  /\ \A p, q \in Slots : pid[p] # 0 /\ pid[p] = pid[q] => p = q
  /\ \A q \in Known : pid[q] # 0 /\ (pid[q] = 1 <=> q = initproc)
  /\ \A q \in Known \ {initproc} : parent[q] \in Known /\ Up[pid[q]] = pid[parent[q]]
  /\ Live \ {1} = {pid[q] : q \in Known \ {initproc}}
  /\ Up = [n \in Live \ {1} |-> Up[n]]

\* A pid names one slot, and a process's parent is a process.
LEMMA SeenIs == ASSUME Parameters PROVE IInv => Seen
<1> SUFFICES ASSUME IInv PROVE Seen
  OBVIOUS
<1>1. \A p, q \in Slots : pid[p] # 0 /\ pid[p] = pid[q] => p = q
  BY DEF IInv, Unique
<1>2. Known \subseteq Slots /\ initproc \in Known /\ pid[initproc] = 1
  BY Constants DEF Known, IInv, InitProc
<1>3. ASSUME NEW q \in Known PROVE pid[q] # 0 /\ (pid[q] = 1 <=> q = initproc)
  <2>1. pid[q] # 0
    BY <1>2, <1>3, SMTT(60) DEF Known, IInv, Slot
  <2> QED BY <1>1, <1>2, <2>1
<1>4. Live \ {1} = {pid[q] : q \in Known \ {initproc}}
  BY <1>2, <1>3 DEF Live, Pids
<1>5. ASSUME NEW q \in Known \ {initproc} PROVE parent[q] \in Known /\ Up[pid[q]] = pid[parent[q]]
  <2>1. SlotOf(pid[q]) = q
    BY <1>1, <1>2, <1>3 DEF SlotOf
  <2>2. pid[q] \in Live \ {1}
    BY <1>4
  <2>3. Up[pid[q]] = pid[parent[q]]
    BY <2>1, <2>2 DEF Up
  <2>4. parent[q] \in Slots /\ state[parent[q]] \in {"RUNNABLE", "RUNNING", "SLEEPING"}
    BY <1>2, SMTT(60) DEF IInv, TypeOK, Family, Known
  <2>5. parent[q] \in Known
    BY <2>4 DEF IInv, Family, Known
  <2> QED BY <2>3, <2>5
<1>6. Up = [n \in Live \ {1} |-> Up[n]]
  BY DEF Up
<1> QED BY <1>1, <1>3, <1>4, <1>5, <1>6 DEF Seen

\* Also after a step.
LEMMA SeenNext == ASSUME Parameters PROVE IInv' => Seen'
BY SeenIs, PTL

\* A step that changes neither pids nor parents, and exits no process.
LEMMA TreeKept ==
  ASSUME Parameters, UNCHANGED <<pid, parent>>,
         \A q \in Slots : pc'[q] \in Exiting <=> pc[q] \in Exiting,
         \A q \in Slots \ Known : state'[q] = "USED" <=> state[q] = "USED"
  PROVE  UNCHANGED <<Live, Exited, Up, Spare>>
<1>1. Known' = Known /\ Live' = Live /\ Known \subseteq Slots
  BY DEF Known, Live, Pids
<1>2. Exited' = Exited
  <2>1. {q \in Known' : pc'[q] \in Exiting} = {q \in Known : pc[q] \in Exiting}
    BY <1>1
  <2> QED BY <2>1 DEF Exited, Pids, Exiting
<1>3. Up' = Up
  BY <1>1, SMTT(60) DEF Up, SlotOf
<1>4. Spare' = Spare
  BY <1>1 DEF Spare, Pids
<1> QED BY <1>1, <1>2, <1>3, <1>4

\* It is a step of the tree that changes nothing.
LEMMA Stutters ==
  ASSUME Parameters, UNCHANGED <<pid, parent, nextpid>>,
         \A q \in Slots : pc'[q] \in Exiting <=> pc[q] \in Exiting,
         \A q \in Slots \ Known : state'[q] = "USED" <=> state[q] = "USED"
  PROVE  UNCHANGED Tree!vars
<1>1. UNCHANGED <<Live, Exited, Up, Spare>>
  BY TreeKept
<1> QED BY <1>1 DEF Tree!vars

\* A process at the same place of the kernel as before, or at another one outside kexit().
LEMMA Elsewhere ==
  ASSUME IInv, NEW p \in Slots, NEW l, Goto(p, l), l \in Exiting <=> pc[p] \in Exiting
  PROVE  \A q \in Slots : pc'[q] \in Exiting <=> pc[q] \in Exiting
BY DEF Goto, IInv, TypeOK

\* allocproc() spends a pid on a child that is not yet in the tree.
LEMMA AllocprocSpends ==
  ASSUME Parameters, IInv, IInv', NEW c \in Cpus, NEW p \in Slots, NEW r \in Slots, allocproc(c, p, r)
  PROVE  Tree!Spend
<1>1. /\ state[r] = "UNUSED" /\ nextpid' = nextpid + 1 /\ pc[p] = "fork"
      /\ state' = [state EXCEPT ![r] = "USED"] /\ pid' = [pid EXCEPT ![r] = nextpid]
      /\ pc' = [pc EXCEPT ![p] = "fork_parent", ![r] = "user"] /\ UNCHANGED parent
  BY DEF allocproc
<1>2. Seen /\ Seen' /\ TypeOK
  BY SeenIs, SeenNext DEF IInv
<1>3. r \in Slots \ Known /\ Known \subseteq Slots /\ Known' = Known
  BY <1>1 DEF Known, IInv, InitProc, Slot
<1>4. /\ \A q \in Slots \ {r} : pid'[q] = pid[q] /\ state'[q] = state[q]
      /\ pid'[r] = nextpid /\ state'[r] = "USED"
      /\ \A q \in Slots \ {r} : pc'[q] \in Exiting <=> pc[q] \in Exiting
  BY <1>1, <1>2 DEF TypeOK, Exiting
<1>5. Live' = Live
  BY <1>3, <1>4 DEF Live, Pids
<1>6. Exited' = Exited
  BY <1>3, <1>4 DEF Exited, Pids, Exiting
<1>7. Spare' = Spare \cup {nextpid}
  BY <1>1, <1>3, <1>4, SMTT(60) DEF Spare, Pids
<1>8. ASSUME NEW n \in Live \ {1} PROVE Up'[n] = Up[n]
  <2>1. PICK q \in Known \ {initproc} : n = pid[q]
    BY <1>2 DEF Seen
  <2>2. pid'[q] = n /\ parent[q] \in Known /\ pid'[parent[q]] = pid[parent[q]]
    BY <1>2, <1>3, <1>4, <2>1 DEF Seen
  <2>3. Up[pid[q]] = pid[parent[q]]
    BY <1>2 DEF Seen
  <2>4. Up'[pid'[q]] = pid'[parent'[q]]
    BY <1>2, <1>3 DEF Seen
  <2> QED BY <1>1, <2>1, <2>2, <2>3, <2>4
<1>9. Up' = Up
  BY <1>2, <1>5, <1>8, SMTT(60) DEF Seen
<1> QED BY <1>1, <1>5, <1>6, <1>7, <1>9 DEF Tree!Spend

\* kfork() under wait_lock puts the child into the tree.
LEMMA ForkParentForks ==
  ASSUME Parameters, IInv, IInv', NEW c \in Cpus, NEW p \in Slots, fork_parent(c, p)
  PROVE  Tree!Fork(pid[p], pid[np[p]]) /\ pid[p] \in Live /\ pid[np[p]] \in Spare
<1> DEFINE r == np[p]
<1>1. /\ On(c, p) /\ pc[p] = "fork_parent" /\ parent' = [parent EXCEPT ![r] = p] /\ Goto(p, "fork_run")
      /\ UNCHANGED <<state, pid, nextpid>>
  BY DEF fork_parent
<1>2. Seen /\ Seen' /\ TypeOK
  BY SeenIs, SeenNext DEF IInv
<1>3. state[p] = "RUNNING" /\ r \in Slots /\ state[r] = "USED" /\ parent[r] = None /\ r # initproc /\ p # None
  <2>1. state[p] = "RUNNING" /\ Family(p) /\ p # None
    BY <1>1, Runs
  <2>2. r \in Slots \cup {None} /\ r # None
    BY <1>1, <1>2, <2>1 DEF TypeOK, Family, Forking
  <2>3. state[r] = "USED" /\ parent[r] = None
    BY <1>1, <2>1, <2>2 DEF Family
  <2>4. r # initproc
    BY <2>3 DEF IInv, InitProc
  <2> QED BY <2>1, <2>2, <2>3, <2>4
<1> HIDE DEF r
<1>4. /\ parent'[r] = p /\ \A q \in Slots \ {r} : parent'[q] = parent[q]
      /\ pc[r] = "user" /\ \A q \in Slots : pc'[q] \in Exiting <=> pc[q] \in Exiting
  <2>1. parent'[r] = p /\ \A q \in Slots \ {r} : parent'[q] = parent[q]
    BY <1>1, <1>2, <1>3, SMTT(60) DEF TypeOK
  <2>2. \A q \in Slots : pc'[q] \in Exiting <=> pc[q] \in Exiting
    BY <1>1, Elsewhere DEF Exiting
  <2>3. pc[r] = "user"
    BY <1>3 DEF IInv, Slot
  <2> QED BY <2>1, <2>2, <2>3
<1>5. /\ Known' = Known \cup {r} /\ Known \subseteq Slots /\ r \notin Known /\ p \in Known
      /\ pc[p] \notin Exiting /\ pc[r] \notin Exiting
  <2>1. p \in Known
    BY <1>3 DEF IInv, Family, Known
  <2>2. Known' = Known \cup {r}
    BY <1>3, <1>4 DEF Known
  <2> QED BY <1>1, <1>3, <1>4, <2>1, <2>2 DEF Known, Exiting
<1>6. /\ pid[r] # 0 /\ pid[r] # 1 /\ \A q \in Slots : pid[q] = pid[r] => q = r
  <2>1. pid[r] # 0 /\ \A q \in Slots : pid[q] = pid[r] => q = r
    BY <1>3, <1>2, SMTT(60) DEF IInv, Slot, Seen
  <2> QED BY <1>3, <2>1, Constants DEF IInv, InitProc
<1>7. pid[p] \in Live \ Exited
  BY <1>2, <1>5, SMTT(60) DEF Seen, Live, Exited, Pids, Exiting
<1>8. Live' = Live \cup {pid[r]}
  BY <1>1, <1>5 DEF Live, Pids
<1>9. Exited' = Exited
  <2>1. \A q \in Known : pc'[q] \in Exiting <=> pc[q] \in Exiting
    BY <1>4, <1>5
  <2>2. pc'[r] \notin Exiting
    BY <1>3, <1>4, <1>5
  <2>3. {q \in Known' : pc'[q] \in Exiting} = {q \in Known : pc[q] \in Exiting}
    BY <1>5, <2>1, <2>2
  <2> QED BY <1>1, <2>3 DEF Exited, Pids, Exiting
<1>10. pid[r] \in Spare /\ Spare' = Spare \ {pid[r]}
  <2>1. {q \in Slots \ Known' : state'[q] = "USED"} = {q \in Slots \ Known : state[q] = "USED"} \ {r}
    BY <1>1, <1>5
  <2>2. r \in {q \in Slots \ Known : state[q] = "USED"}
    BY <1>3, <1>5
  <2> QED BY <1>1, <1>6, <2>1, <2>2 DEF Spare, Pids
<1>11. ASSUME NEW n \in Live' \ {1} PROVE Up'[n] = IF n = pid[r] THEN pid[p] ELSE Up[n]
  <2>1. PICK q \in Known' \ {initproc} : n = pid'[q]
    BY <1>2 DEF Seen
  <2>2. Up'[n] = pid'[parent'[q]]
    BY <1>2, <2>1 DEF Seen
  <2>3. CASE q = r
    BY <1>1, <1>4, <2>1, <2>2, <2>3
  <2>4. CASE q # r
    <3>1. q \in Known \ {initproc} /\ n # pid[r] /\ parent'[q] = parent[q]
      BY <1>1, <1>4, <1>5, <1>6, <2>1, <2>4
    <3>2. Up[pid[q]] = pid[parent[q]]
      BY <1>2, <3>1 DEF Seen
    <3> QED BY <1>1, <2>1, <2>2, <3>1, <3>2
  <2> QED BY <2>3, <2>4
<1>12. Up' = [n \in Live' \ {1} |-> IF n = pid[r] THEN pid[p] ELSE Up[n]]
  <2>1. Up' = [n \in Live' \ {1} |-> Up'[n]]
    BY <1>2 DEF Seen
  <2> QED BY <1>11, <2>1
<1> QED BY <1>1, <1>7, <1>8, <1>9, <1>10, <1>12 DEF Tree!Fork, r

\* kexit() exits, and its children pass to init.
LEMMA KexitExits ==
  ASSUME Parameters, IInv, IInv', NEW c \in Cpus, NEW p \in Slots, kexit(c, p)
  PROVE  Tree!Exit(pid[p]) /\ pid[p] \in Live
<1>1. /\ On(c, p) /\ pc[p] = "exit" /\ UNCHANGED <<state, pid, nextpid>>
      /\ parent' = [q \in Slots |-> IF parent[q] = p THEN initproc ELSE parent[q]]
      /\ \E l \in {"wake_init", "wake_parent"} : Goto(p, l)
  BY DEF kexit
<1>2. Seen /\ Seen' /\ TypeOK
  BY SeenIs, SeenNext DEF IInv
<1>3. state[p] = "RUNNING" /\ p # initproc /\ p # None
  BY <1>1, Runs DEF IInv, InitProc
<1>4. /\ \A q \in Slots : parent'[q] = IF parent[q] = p THEN initproc ELSE parent[q]
      /\ pc[p] \notin Exiting /\ pc'[p] \in Exiting /\ \A q \in Slots \ {p} : pc'[q] = pc[q]
  BY <1>1, <1>2 DEF TypeOK, Goto, Exiting
<1>5. Known' = Known /\ Known \subseteq Slots /\ p \in Known /\ initproc \in Known /\ pid[initproc] = 1
  <2>1. p \in Known
    BY <1>3 DEF IInv, Family, Known
  <2>2. Known' = Known
    BY <1>3, <1>4, Constants DEF Known
  <2> QED BY <2>1, <2>2, Constants DEF Known, IInv, InitProc
<1>6. pid[p] # 1 /\ \A q \in Known : pid[q] = pid[p] => q = p
  BY <1>2, <1>3, <1>5 DEF Seen
<1>7. pid[p] \in Live \ (Exited \cup {1})
  BY <1>4, <1>5, <1>6 DEF Live, Exited, Pids, Exiting
<1>8. Live' = Live /\ Spare' = Spare
  BY <1>1, <1>5 DEF Live, Spare, Pids
<1>9. Exited' = Exited \cup {pid[p]}
  <2>1. {q \in Known' : pc'[q] \in Exiting} = {q \in Known : pc[q] \in Exiting} \cup {p}
    BY <1>4, <1>5
  <2> QED BY <1>1, <2>1 DEF Exited, Pids, Exiting
<1>10. ASSUME NEW n \in Live \ {1} PROVE Up'[n] = IF Up[n] = pid[p] THEN 1 ELSE Up[n]
  <2>1. PICK q \in Known \ {initproc} : n = pid[q]
    BY <1>2 DEF Seen
  <2>2. Up[n] = pid[parent[q]] /\ parent[q] \in Known
    BY <1>2, <2>1 DEF Seen
  <2>3. Up'[pid'[q]] = pid'[parent'[q]]
    BY <1>2, <1>5, <2>1 DEF Seen
  <2>4. parent'[q] = IF parent[q] = p THEN initproc ELSE parent[q]
    BY <1>4, <1>5, <2>1
  <2>5. parent[q] = p <=> pid[parent[q]] = pid[p]
    BY <1>6, <2>2
  <2> QED BY <1>1, <1>5, <2>1, <2>2, <2>3, <2>4, <2>5
<1>11. Up' = [n \in DOMAIN Up |-> IF Up[n] = pid[p] THEN 1 ELSE Up[n]]
  <2>1. DOMAIN Up = Live \ {1} /\ Up' = [n \in Live \ {1} |-> Up'[n]]
    BY <1>2, <1>8 DEF Seen, Up
  <2> QED BY <1>10, <2>1
<1> QED BY <1>1, <1>7, <1>8, <1>9, <1>11 DEF Tree!Exit

\* kwait() collects an exited child.
LEMMA WaitReapWaits ==
  ASSUME Parameters, IInv, IInv', NEW c \in Cpus, NEW p \in Slots, NEW r \in Slots, wait_reap(c, p, r),
         parent' = [parent EXCEPT ![r] = None], freeproc(r)
  PROVE  Tree!Wait(pid[p], pid[r]) /\ pid[p] \in Live /\ pid[r] \in Exited
<1>1. /\ On(c, p) /\ pc[p] = "wait" /\ parent[r] = p /\ state[r] = "ZOMBIE" /\ Goto(p, "return") /\ UNCHANGED nextpid
      /\ parent' = [parent EXCEPT ![r] = None] /\ state' = [state EXCEPT ![r] = "UNUSED"]
      /\ pid' = [pid EXCEPT ![r] = 0]
  BY DEF wait_reap, Children, freeproc
<1>2. Seen /\ Seen' /\ TypeOK
  BY SeenIs, SeenNext DEF IInv
<1>3. state[p] = "RUNNING" /\ p # None /\ r # p /\ r # initproc /\ pc[r] = "zombie"
  BY <1>1, Runs DEF IInv, InitProc, Slot
<1>4. /\ parent'[r] = None /\ state'[r] = "UNUSED" /\ pid'[r] = 0
      /\ \A q \in Slots \ {r} : parent'[q] = parent[q] /\ state'[q] = state[q] /\ pid'[q] = pid[q]
      /\ pc[p] \notin Exiting /\ \A q \in Slots : pc'[q] \in Exiting <=> pc[q] \in Exiting
  BY <1>1, <1>2 DEF TypeOK, Goto, Exiting
<1>5. Known' = Known \ {r} /\ Known \subseteq Slots /\ p \in Known /\ r \in Known
  <2>1. p \in Known
    BY <1>3 DEF IInv, Family, Known
  <2>2. Known' = Known \ {r}
    BY <1>3, <1>4 DEF Known
  <2> QED BY <1>1, <1>3, <2>1, <2>2 DEF Known
<1>6. pid[r] # 1 /\ \A q \in Known : (pid[q] = pid[r] => q = r) /\ (pid[q] = pid[p] => q = p)
  BY <1>2, <1>3, <1>5, SMTT(60) DEF Seen
<1>7. pid[p] \in Live \ Exited
  BY <1>4, <1>5, <1>6 DEF Live, Exited, Pids, Exiting
<1>8. pid[r] \in Live \ {1} /\ pid[r] \in Exited /\ Up[pid[r]] = pid[p] /\ DOMAIN Up = Live \ {1}
  <2>1. pid[r] \in Live /\ pid[r] \in Exited
    BY <1>3, <1>5 DEF Live, Exited, Pids
  <2>2. Up[pid[r]] = pid[p]
    BY <1>1, <1>2, <1>3, <1>5 DEF Seen
  <2> QED BY <1>6, <2>1, <2>2 DEF Up
<1>9. Live' = Live \ {pid[r]}
  BY <1>4, <1>5, <1>6, SMTT(60) DEF Live, Pids
<1>10. Exited' = Exited \ {pid[r]}
  <2>1. {q \in Known' : pc'[q] \in Exiting} = {q \in Known : pc[q] \in Exiting} \ {r}
    BY <1>4, <1>5
  <2>2. \A q \in Known \ {r} : pid'[q] = pid[q] /\ pid[q] # pid[r]
    BY <1>4, <1>5, <1>6
  <2> QED BY <2>1, <2>2 DEF Exited, Pids, Exiting
<1>11. Spare' = Spare
  <2>1. {q \in Slots \ Known' : state'[q] = "USED"} = {q \in Slots \ Known : state[q] = "USED"}
    BY <1>4, <1>5
  <2>2. \A q \in Slots \ Known : pid'[q] = pid[q]
    BY <1>4, <1>5
  <2> QED BY <2>1, <2>2 DEF Spare, Pids
<1>12. ASSUME NEW n \in Live' \ {1} PROVE Up'[n] = Up[n]
  <2>1. PICK q \in Known' \ {initproc} : n = pid'[q]
    BY <1>2 DEF Seen
  <2>2. Up'[n] = pid'[parent'[q]] /\ parent'[q] \in Known'
    BY <1>2, <2>1 DEF Seen
  <2>3. q \in Known \ {initproc} /\ parent'[q] = parent[q] /\ pid'[q] = pid[q]
    BY <1>4, <1>5, <2>1
  <2>4. Up[pid[q]] = pid[parent[q]]
    BY <1>2, <2>3 DEF Seen
  <2>5. pid'[parent[q]] = pid[parent[q]]
    BY <1>4, <1>5, <2>2, <2>3, SMTT(60)
  <2> QED BY <2>1, <2>2, <2>3, <2>4, <2>5
<1>13. Up' = [n \in Live' \ {1} |-> Up[n]]
  <2>1. Up' = [n \in Live' \ {1} |-> Up'[n]]
    BY <1>2 DEF Seen
  <2> QED BY <1>12, <2>1
<1> QED BY <1>1, <1>7, <1>8, <1>9, <1>10, <1>11, <1>13 DEF Tree!Wait, Tree!Children

\* The steps of the tree.
LEMMA TreeNext ==
  /\ Tree!Spend => Tree!Next
  /\ \A p \in Live : \A c \in Spare : Tree!Fork(p, c) => Tree!Next
  /\ \A p \in Live : \A c \in Exited : Tree!Wait(p, c) => Tree!Next
  /\ \A p \in Live : Tree!Exit(p) => Tree!Next
BY DEF Tree!Next

\* fork() that fails spends a pid or does nothing.
LEMMA ForkFailsSpends ==
  ASSUME Parameters, IInv, NEW c \in Cpus, NEW p \in Slots, fork_fails(c, p)
  PROVE  Tree!Next \/ UNCHANGED Tree!vars
<1>1. /\ pc[p] = "fork" /\ Goto(p, "return") /\ UNCHANGED <<state, pid, parent>>
      /\ nextpid' = nextpid \/ nextpid' = nextpid + 1
  BY DEF fork_fails
<1>2. \A q \in Slots : pc'[q] \in Exiting <=> pc[q] \in Exiting
  BY <1>1, Elsewhere DEF Exiting
<1>3. UNCHANGED <<Live, Exited, Up, Spare>>
  BY <1>1, <1>2, TreeKept
<1>4. CASE nextpid' = nextpid
  BY <1>3, <1>4 DEF Tree!vars
<1>5. CASE nextpid' = nextpid + 1
  <2>1. Tree!Spend
    BY <1>3, <1>5 DEF Tree!Spend
  <2> QED BY <2>1, TreeNext
<1> QED BY <1>1, <1>4, <1>5

\* The steps of a thread outside kfork(), kexit() and kwait() do not concern the tree.
LEMMA ThreadStutters ==
  ASSUME Parameters, IInv, NEW c \in Cpus, NEW p \in Slots,
         usertrap(c, p) \/ usertrap_return(c, p) \/ sleep(c, p) \/ sys_pause(c, p) \/ wait_none(c, p)
  PROVE  UNCHANGED Tree!vars
<1>1. UNCHANGED <<pid, parent, nextpid>>
  BY DEF usertrap, usertrap_return, sleep, sys_pause, wait_none
<1>2. On(c, p) /\ state[p] = "RUNNING" /\ TypeOK
  BY Runs DEF usertrap, usertrap_return, sleep, sys_pause, wait_none, IInv
<1>3. PICK l \in Labels \ Exiting : Goto(p, l) /\ pc[p] \notin Exiting
  BY DEF usertrap, usertrap_return, sleep, sys_pause, wait_none, Labels, Exiting
<1>4. \A q \in Slots : pc'[q] \in Exiting <=> pc[q] \in Exiting
  BY <1>3, Elsewhere
<1>5. UNCHANGED state \/ state' = [state EXCEPT ![p] = "SLEEPING"]
  BY DEF usertrap, usertrap_return, sleep, sys_pause, wait_none, sched
<1>6. \A q \in Slots : state'[q] = "USED" <=> state[q] = "USED"
  BY <1>2, <1>5 DEF TypeOK
<1> QED BY <1>1, <1>4, <1>6, Stutters

\* Nor do scheduler(), swtch() and yield().
LEMMA SwitchStutters ==
  ASSUME Parameters, IInv, NEW c \in Cpus, NEW p \in Slots, scheduler(c, p) \/ swtch(c, p) \/ yield(c, p)
  PROVE  UNCHANGED Tree!vars
<1>1. UNCHANGED <<pid, parent, nextpid, pc>>
  BY DEF scheduler, swtch, yield
<1>2. TypeOK /\ (UNCHANGED state \/ \E s \in {"RUNNABLE", "RUNNING"} : state' = [state EXCEPT ![p] = s] /\ state[p] # "USED")
  BY Runs DEF scheduler, swtch, yield, sched, IInv
<1>3. \A q \in Slots : state'[q] = "USED" <=> state[q] = "USED"
  BY <1>2 DEF TypeOK
<1> QED BY <1>1, <1>3, Stutters

\* Nor does a wakeup.
LEMMA WakeStutters ==
  ASSUME Parameters, IInv, NEW q \in Slots, UNCHANGED <<pid, parent, nextpid>>,
         UNCHANGED state \/ state' = [state EXCEPT ![q] = IF @ = "SLEEPING" THEN "RUNNABLE" ELSE @],
         \A r \in Slots : pc'[r] \in Exiting <=> pc[r] \in Exiting
  PROVE  UNCHANGED Tree!vars
<1>1. \A r \in Slots : state'[r] = "USED" <=> state[r] = "USED"
  BY DEF IInv, TypeOK
<1> QED BY <1>1, Stutters

\* kkill() wakes its victim, in whatever slot.
LEMMA KillStutters ==
  ASSUME Parameters, IInv, NEW c \in Cpus, NEW p \in Slots, NEW n, kkill(c, p, n) PROVE UNCHANGED Tree!vars
<1>1. pc[p] = "kill" /\ Goto(p, "return") /\ UNCHANGED <<pid, parent, nextpid>>
  BY DEF kkill
<1>2. \A r \in Slots : pc'[r] \in Exiting <=> pc[r] \in Exiting
  BY <1>1, Elsewhere DEF Exiting
<1>3. CASE \E q \in Slots : pid[q] = n
  <2>1. Victim(n) \in Slots
    BY <1>3, VictimIs
  <2>2. state' = [state EXCEPT ![Victim(n)] = IF @ = "SLEEPING" THEN "RUNNABLE" ELSE @]
    BY <1>3 DEF kkill
  <2> QED BY <1>1, <1>2, <2>1, <2>2, WakeStutters
<1>4. CASE ~ \E q \in Slots : pid[q] = n
  <2>1. UNCHANGED state
    BY <1>4 DEF kkill
  <2> QED BY <1>1, <1>2, <2>1, WakeStutters
<1> QED BY <1>3, <1>4

\* The clock wakes one process.
LEMMA ClockStutters == ASSUME Parameters, IInv, NEW q \in Slots, clockintr(q) PROVE UNCHANGED Tree!vars
<1>1. UNCHANGED <<pid, parent, nextpid, pc>>
  BY DEF clockintr
<1>2. UNCHANGED state \/ state' = [state EXCEPT ![q] = IF @ = "SLEEPING" THEN "RUNNABLE" ELSE @]
  BY DEF clockintr, WakeOne
<1> QED BY <1>1, <1>2, WakeStutters

\* A process counts as exited from kexit() on, before it wakes others and is a ZOMBIE.
LEMMA ExitStutters ==
  ASSUME Parameters, IInv, NEW c \in Cpus, NEW p \in Slots, exit_wakeup(c, p) \/ exit_zombie(c, p)
  PROVE  UNCHANGED Tree!vars
<1>1. CASE exit_wakeup(c, p)
  <2>1. On(c, p) /\ pc[p] \in {"wake_init", "wake_parent"} /\ UNCHANGED <<pid, parent, nextpid>>
    BY <1>1 DEF exit_wakeup
  <2>2. scan[p] \in Slots
    BY <2>1, Runs DEF Exits
  <2>3. UNCHANGED state \/ state' = [state EXCEPT ![scan[p]] = IF @ = "SLEEPING" THEN "RUNNABLE" ELSE @]
    BY <1>1 DEF exit_wakeup, WakeOne
  <2>4. UNCHANGED pc \/ \E l \in Exiting : Goto(p, l)
    BY <1>1 DEF exit_wakeup, Exiting
  <2>5. \A r \in Slots : pc'[r] \in Exiting <=> pc[r] \in Exiting
    BY <2>1, <2>4, Elsewhere DEF Exiting
  <2> QED BY <2>1, <2>2, <2>3, <2>5, WakeStutters
<1>2. CASE exit_zombie(c, p)
  <2>1. On(c, p) /\ state' = [state EXCEPT ![p] = "ZOMBIE"] /\ UNCHANGED <<pid, parent, nextpid, pc>>
    BY <1>2 DEF exit_zombie, sched
  <2>2. \A q \in Slots : state'[q] = "USED" <=> state[q] = "USED"
    BY <2>1, Runs DEF IInv, TypeOK
  <2> QED BY <2>1, <2>2, Stutters
<1> QED BY <1>1, <1>2

\* The child that becomes RUNNABLE is in the tree already.
LEMMA ForkRunStutters ==
  ASSUME Parameters, IInv, NEW c \in Cpus, NEW p \in Slots, fork_run(c, p) PROVE UNCHANGED Tree!vars
<1>1. /\ On(c, p) /\ pc[p] = "fork_run" /\ Goto(p, "return") /\ UNCHANGED <<pid, parent, nextpid>>
      /\ state' = [state EXCEPT ![np[p]] = "RUNNABLE"]
  BY DEF fork_run
<1>2. np[p] \in Known
  <2>1. Family(p) /\ p # None
    BY <1>1, Runs
  <2>2. np[p] \in Slots \cup {None} /\ np[p] # None
    BY <1>1, <2>1, Typed DEF TypeOK, Family, Forking
  <2>3. state[np[p]] = "USED" /\ parent[np[p]] = p
    BY <1>1, <2>1, <2>2 DEF Family
  <2> QED BY <2>1, <2>2, <2>3 DEF Known
<1>3. \A q \in Slots \ Known : state'[q] = "USED" <=> state[q] = "USED"
  BY <1>1, <1>2 DEF IInv, TypeOK
<1>4. \A q \in Slots : pc'[q] \in Exiting <=> pc[q] \in Exiting
  BY <1>1, Elsewhere DEF Exiting
<1> QED BY <1>1, <1>3, <1>4, Stutters

\* Every step of proc.c is one step of the tree or none.
LEMMA StepTree == ASSUME Parameters, IInv, IInv', [Next]_vars PROVE [Tree!Next]_(Tree!vars)
<1> USE TreeNext
<1>1. ASSUME NEW c \in Cpus, NEW p \in Slots, NEW r \in Slots, wait_reap(c, p, r)
      PROVE  Tree!Next \/ UNCHANGED Tree!vars
  <2>1. CASE parent' = [parent EXCEPT ![r] = None] /\ freeproc(r)
    BY <1>1, <2>1, WaitReapWaits
  <2>2. CASE UNCHANGED <<parent, state, pid, chan, killed>>
    <3>1. pc[p] = "wait" /\ Goto(p, "return") /\ UNCHANGED nextpid
      BY <1>1 DEF wait_reap
    <3>2. \A q \in Slots : pc'[q] \in Exiting <=> pc[q] \in Exiting
      BY <3>1, Elsewhere DEF Exiting
    <3> QED BY <2>2, <3>1, <3>2, Stutters
  <2> QED BY <1>1, <2>1, <2>2 DEF wait_reap
<1>2. ASSUME NEW c \in Cpus, NEW p \in Slots, Thread(c, p) PROVE Tree!Next \/ UNCHANGED Tree!vars
  BY <1>1, <1>2, ThreadStutters, ForkParentForks, ForkRunStutters, AllocprocSpends, ForkFailsSpends, KillStutters,
     KexitExits, ExitStutters DEF Thread
<1>3. ASSUME Next PROVE Tree!Next \/ UNCHANGED Tree!vars
  BY <1>2, <1>3, SwitchStutters, ThreadStutters, ClockStutters DEF Next
<1>4. CASE UNCHANGED vars
  BY <1>4, Stutters DEF vars
<1> QED BY <1>3, <1>4

\* The tree begins with init.
LEMMA InitTree == ASSUME Parameters, Init PROVE Tree!Init
<1>1. initproc \in Slots /\ \A q \in Slots : parent[q] = None /\ pc[q] = "user"
  BY Constants DEF Init
<1>2. pid[initproc] = 1 /\ nextpid = 2 /\ \A q \in Slots : state[q] # "USED"
  BY <1>1 DEF Init
<1>3. Known = {initproc}
  BY <1>1 DEF Known
<1>4. Live = {1} /\ Exited = {} /\ Spare = {}
  BY <1>1, <1>2, <1>3 DEF Live, Exited, Spare, Pids
<1>5. Up = [n \in {} |-> 1]
  BY <1>4 DEF Up
<1> QED BY <1>2, <1>4, <1>5, SMTT(60) DEF Tree!Init

\* fork(), exit() and wait() have the effect of atomic calls on a process tree, whatever
\* runs in between: kfork(), kexit() and kwait() change parents under wait_lock.
THEOREM TreeImplemented == ASSUME Parameters PROVE Spec => ProcessTree
<1>1. Init => Tree!Init
  BY InitTree
<1>2. IInv /\ IInv' /\ [Next]_vars => [Tree!Next]_(Tree!vars)
  BY StepTree
<1> QED BY <1>1, <1>2, Invariance, PTL DEF Spec, ProcessTree, Tree!Spec
=============================================================================
