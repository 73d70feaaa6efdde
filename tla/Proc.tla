-------------------------------- MODULE Proc --------------------------------
(***************************************************************************)
(* The process table and the scheduler of kernel/proc.c, with the callers  *)
(* of sleep() in kwait() and sys_pause() (kernel/sysproc.c) and the checks *)
(* for killed() in usertrap() (kernel/trap.c).                             *)
(*                                                                         *)
(* One step is one critical section under p->lock or wait_lock.  A lock is *)
(* a variable only where it stays held from one step to the next:          *)
(* wait_lock through kexit(), and p->lock from the assignment of p->state  *)
(* through sched() and swtch() until scheduler() releases it.  A thread    *)
(* runs on the CPU whose c->proc points to it; its kernel stack is in use  *)
(* until that CPU's scheduler() has taken over.                            *)
(*                                                                         *)
(* User memory, open files and the current directory have their own        *)
(* modules; xstate is data.                                                *)
(***************************************************************************)
EXTENDS Naturals, FiniteSets

CONSTANTS
  NPROC,     \* size of the process table
  Cpus,
  NoCpu,
  KillPids,  \* pids that programs pass to kill(); not 1: killing init panics the kernel
  MaxPid     \* bound on nextpid: past it the table counts as full

Slots == 1..NPROC
initproc == 1
None == 0          \* null pointer
ticks == NPROC + 1 \* the channel &ticks; a process is its own channel

\* What the proofs assume of the constants.
Parameters == NPROC \in Nat \ {0} /\ NoCpu \notin Cpus /\ MaxPid \in Nat /\ KillPids \subseteq Nat \ {1}

VARIABLES
  state, pid, chan, killed, parent,
  lock,       \* the CPU that holds p->lock from one step to the next
  wait_lock,  \* the process that holds wait_lock
  nextpid,
  proc,       \* c->proc: the process each CPU runs, or None
  pc,         \* where each process's kernel thread is
  np,         \* the child kfork() is creating
  scan        \* loop index of wakeup()

vars == <<state, pid, chan, killed, parent, lock, wait_lock, nextpid, proc, pc, np, scan>>

Init ==
  /\ state = [p \in Slots |-> IF p = initproc THEN "RUNNABLE" ELSE "UNUSED"]
  /\ pid = [p \in Slots |-> IF p = initproc THEN 1 ELSE 0]
  /\ chan = [p \in Slots |-> None]
  /\ killed = [p \in Slots |-> FALSE]
  /\ parent = [p \in Slots |-> None]
  /\ lock = [p \in Slots |-> NoCpu]
  /\ wait_lock = None
  /\ nextpid = 2
  /\ proc = [c \in Cpus |-> None]
  /\ pc = [p \in Slots |-> "user"]
  /\ np = [p \in Slots |-> None]
  /\ scan = [p \in Slots |-> None]

Free(p) == lock[p] = NoCpu

\* CPU c executes the thread of p, past the release of p->lock that follows
\* swtch() in forkret(), yield() and sleep().
On(c, p) == proc[c] = p /\ Free(p)

Goto(p, label) == pc' = [pc EXCEPT ![p] = label]

-----------------------------------------------------------------------------
(* scheduler(), sched() and yield().                                       *)

scheduler(c, p) ==
  /\ proc[c] = None
  /\ Free(p)
  /\ state[p] = "RUNNABLE"
  /\ state' = [state EXCEPT ![p] = "RUNNING"]
  /\ proc' = [proc EXCEPT ![c] = p]
  /\ UNCHANGED <<pid, chan, killed, parent, lock, wait_lock, nextpid, pc, np, scan>>

\* Mutant: p->lock is released before swtch().
sched_Unlocked(c, p, s) ==
  /\ state' = [state EXCEPT ![p] = s]
  /\ UNCHANGED lock

\* p->state = s; sched(): p->lock stays held.
sched(c, p, s) ==
  /\ state' = [state EXCEPT ![p] = s]
  /\ lock' = [lock EXCEPT ![p] = c]

\* swtch() has saved p's context and scheduler() releases p->lock.
swtch(c, p) ==
  /\ proc[c] = p
  /\ lock[p] = c
  /\ proc' = [proc EXCEPT ![c] = None]
  /\ lock' = [lock EXCEPT ![p] = NoCpu]
  /\ UNCHANGED <<state, pid, chan, killed, parent, wait_lock, nextpid, pc, np, scan>>

\* A timer interrupt, from user or kernel code that holds no spinlock.
yield(c, p) ==
  /\ On(c, p)
  /\ wait_lock # p
  /\ pc[p] = "user" => ~ killed[p]  \* else usertrap() calls kexit()
  /\ sched(c, p, "RUNNABLE")
  /\ UNCHANGED <<pid, chan, killed, parent, wait_lock, nextpid, proc, pc, np, scan>>

-----------------------------------------------------------------------------
(* usertrap(): killed() is tested on the way in and on the way out.        *)

usertrap(c, p) ==
  /\ On(c, p)
  /\ pc[p] = "user"
  /\ \/ /\ killed[p]
        /\ Goto(p, "exit")
        /\ UNCHANGED killed
     \/ /\ ~ killed[p]
        /\ \E call \in {"fork", "exit", "wait", "pause", "kill"} :
             /\ p = initproc => call # "exit"
             /\ Goto(p, call)
        /\ UNCHANGED killed
     \/ /\ p # initproc   \* an unexpected exception: setkilled(p)
        /\ killed' = [killed EXCEPT ![p] = TRUE]
        /\ Goto(p, "exit")
  /\ UNCHANGED <<state, pid, chan, parent, lock, wait_lock, nextpid, proc, np, scan>>

usertrap_return(c, p) ==
  /\ On(c, p)
  /\ pc[p] = "return"
  /\ Goto(p, IF killed[p] THEN "exit" ELSE "user")
  /\ UNCHANGED <<state, pid, chan, killed, parent, lock, wait_lock, nextpid, proc, np, scan>>

-----------------------------------------------------------------------------
(* kfork() releases np->lock before it takes wait_lock, and again before   *)
(* it makes the child RUNNABLE.                                            *)

allocproc(c, p, q) ==
  /\ On(c, p)
  /\ pc[p] = "fork"
  /\ state[q] = "UNUSED" /\ Free(q)
  /\ nextpid <= MaxPid
  /\ nextpid' = nextpid + 1
  /\ state' = [state EXCEPT ![q] = "USED"]
  /\ pid' = [pid EXCEPT ![q] = nextpid]
  /\ np' = [np EXCEPT ![p] = q]
  /\ pc' = [pc EXCEPT ![p] = "fork_parent", ![q] = "user"]
  /\ UNCHANGED <<chan, killed, parent, lock, wait_lock, proc, scan>>

\* No free slot, or no memory: freeproc(np) undoes allocproc().
fork_fails(c, p) ==
  /\ On(c, p)
  /\ pc[p] = "fork"
  /\ \/ /\ nextpid > MaxPid \/ \A q \in Slots : state[q] # "UNUSED"
        /\ UNCHANGED <<nextpid, killed, chan>>
     \/ \E q \in Slots : /\ state[q] = "UNUSED" /\ Free(q)
                         /\ nextpid <= MaxPid
                         /\ nextpid' = nextpid + 1
                         /\ killed' = [killed EXCEPT ![q] = FALSE]
                         /\ chan' = [chan EXCEPT ![q] = None]
  /\ Goto(p, "return")
  /\ UNCHANGED <<state, pid, parent, lock, wait_lock, proc, np, scan>>

fork_parent(c, p) ==
  /\ On(c, p)
  /\ pc[p] = "fork_parent"
  /\ wait_lock = None
  /\ parent' = [parent EXCEPT ![np[p]] = p]
  /\ Goto(p, "fork_run")
  /\ UNCHANGED <<state, pid, chan, killed, lock, wait_lock, nextpid, proc, np, scan>>

fork_run(c, p) ==
  /\ On(c, p)
  /\ pc[p] = "fork_run"
  /\ Free(np[p])
  /\ state' = [state EXCEPT ![np[p]] = "RUNNABLE"]
  /\ np' = [np EXCEPT ![p] = None]
  /\ Goto(p, "return")
  /\ UNCHANGED <<pid, chan, killed, parent, lock, wait_lock, nextpid, proc, scan>>

-----------------------------------------------------------------------------
(* sleep(), wakeup() and kkill().                                          *)

\* Goes to sleep unless the channel was woken since sleep_prepare().
sleep(c, p) ==
  /\ On(c, p)
  /\ pc[p] \in {"wait_sleep", "pause_sleep"}
  /\ IF chan[p] # None THEN sched(c, p, "SLEEPING") ELSE UNCHANGED <<state, lock>>
  /\ Goto(p, IF pc[p] = "wait_sleep" THEN "wait" ELSE "pause")
  /\ UNCHANGED <<pid, chan, killed, parent, wait_lock, nextpid, proc, np, scan>>

\* The body of wakeup(ch) for one process q.
WakeOne(q, ch) ==
  /\ Free(q)
  /\ IF chan[q] = ch
     THEN /\ chan' = [chan EXCEPT ![q] = None]
          /\ state' = [state EXCEPT ![q] = IF @ = "SLEEPING" THEN "RUNNABLE" ELSE @]
     ELSE UNCHANGED <<chan, state>>

\* clockintr(): wakeup(&ticks).
clockintr(q) ==
  /\ chan[q] = ticks
  /\ WakeOne(q, ticks)
  /\ UNCHANGED <<pid, killed, parent, lock, wait_lock, nextpid, proc, pc, np, scan>>

\* The first slot with that pid; UNUSED slots have pid 0.
Victim(n) == CHOOSE q \in Slots : pid[q] = n /\ \A r \in Slots : pid[r] = n => q <= r

kkill(c, p, n) ==
  /\ On(c, p)
  /\ pc[p] = "kill"
  /\ IF \E q \in Slots : pid[q] = n
     THEN LET q == Victim(n)
          IN  /\ Free(q)
              /\ killed' = [killed EXCEPT ![q] = TRUE]
              /\ state' = [state EXCEPT ![q] = IF @ = "SLEEPING" THEN "RUNNABLE" ELSE @]
     ELSE UNCHANGED <<killed, state>>
  /\ Goto(p, "return")
  /\ UNCHANGED <<pid, chan, parent, lock, wait_lock, nextpid, proc, np, scan>>

\* sys_pause(): enough ticks have passed, or it is killed, or it waits on.
sys_pause(c, p) ==
  /\ On(c, p)
  /\ pc[p] = "pause"
  /\ \/ Goto(p, "return") /\ UNCHANGED chan
     \/ /\ ~ killed[p]
        /\ chan' = [chan EXCEPT ![p] = ticks]
        /\ Goto(p, "pause_sleep")
  /\ UNCHANGED <<state, pid, killed, parent, lock, wait_lock, nextpid, proc, np, scan>>

-----------------------------------------------------------------------------
(* kexit() holds wait_lock from reparent() until p->state is ZOMBIE.       *)

\* Mutant: the children keep their parent.
kexit_NoReparent(c, p) ==
  /\ On(c, p)
  /\ pc[p] = "exit"
  /\ wait_lock = None
  /\ wait_lock' = p
  /\ Goto(p, "wake_parent")
  /\ scan' = [scan EXCEPT ![p] = 1]
  /\ UNCHANGED <<state, pid, chan, killed, parent, lock, nextpid, proc, np>>

kexit(c, p) ==
  /\ On(c, p)
  /\ pc[p] = "exit"
  /\ wait_lock = None
  /\ wait_lock' = p
  /\ parent' = [q \in Slots |-> IF parent[q] = p THEN initproc ELSE parent[q]]
  /\ Goto(p, IF \E q \in Slots : parent[q] = p THEN "wake_init" ELSE "wake_parent")
  /\ scan' = [scan EXCEPT ![p] = 1]
  /\ UNCHANGED <<state, pid, chan, killed, lock, nextpid, proc, np>>

\* One iteration of wakeup(initproc) or wakeup(p->parent).
exit_wakeup(c, p) ==
  /\ On(c, p)
  /\ pc[p] \in {"wake_init", "wake_parent"}
  /\ WakeOne(scan[p], IF pc[p] = "wake_init" THEN initproc ELSE parent[p])
  /\ IF scan[p] < NPROC
     THEN scan' = [scan EXCEPT ![p] = @ + 1] /\ UNCHANGED pc
     ELSE /\ scan' = [scan EXCEPT ![p] = IF pc[p] = "wake_init" THEN 1 ELSE None]
          /\ Goto(p, IF pc[p] = "wake_init" THEN "wake_parent" ELSE "zombie")
  /\ UNCHANGED <<pid, killed, parent, lock, wait_lock, nextpid, proc, np>>

exit_zombie(c, p) ==
  /\ On(c, p)
  /\ pc[p] = "zombie"
  /\ sched(c, p, "ZOMBIE")
  /\ wait_lock' = None
  /\ UNCHANGED <<pid, chan, killed, parent, nextpid, proc, pc, np, scan>>

-----------------------------------------------------------------------------
(* kwait().                                                                *)

Children(p) == {q \in Slots : parent[q] = p}

freeproc(q) ==
  /\ state' = [state EXCEPT ![q] = "UNUSED"]
  /\ pid' = [pid EXCEPT ![q] = 0]
  /\ chan' = [chan EXCEPT ![q] = None]
  /\ killed' = [killed EXCEPT ![q] = FALSE]

\* Mutant: only a child that was killed is taken.
wait_reap_OnlyKilled(c, p, q) ==
  /\ On(c, p)
  /\ pc[p] = "wait"
  /\ wait_lock = None
  /\ q \in Children(p) /\ state[q] = "ZOMBIE" /\ killed[q]
  /\ Free(q)
  /\ parent' = [parent EXCEPT ![q] = None]
  /\ freeproc(q)
  /\ Goto(p, "return")
  /\ UNCHANGED <<lock, wait_lock, nextpid, proc, np, scan>>

\* The scan finds an exited child, in table order; copyout() may fail.
wait_reap(c, p, q) ==
  /\ On(c, p)
  /\ pc[p] = "wait"
  /\ wait_lock = None
  /\ q \in Children(p) /\ state[q] = "ZOMBIE"
  /\ \A r \in Children(p) : r <= q => Free(r) /\ (state[r] = "ZOMBIE" => r = q)
  /\ \/ /\ parent' = [parent EXCEPT ![q] = None]
        /\ freeproc(q)
     \/ UNCHANGED <<parent, state, pid, chan, killed>>
  /\ Goto(p, "return")
  /\ UNCHANGED <<lock, wait_lock, nextpid, proc, np, scan>>

\* No child has exited: fail, or sleep_prepare(p) and release wait_lock.
wait_none(c, p) ==
  /\ On(c, p)
  /\ pc[p] = "wait"
  /\ wait_lock = None
  /\ \A q \in Children(p) : Free(q) /\ state[q] # "ZOMBIE"
  /\ IF Children(p) = {} \/ killed[p]
     THEN Goto(p, "return") /\ UNCHANGED chan
     ELSE /\ chan' = [chan EXCEPT ![p] = p]
          /\ Goto(p, "wait_sleep")
  /\ UNCHANGED <<state, pid, killed, parent, lock, wait_lock, nextpid, proc, np, scan>>

-----------------------------------------------------------------------------
Thread(c, p) ==
  \/ usertrap_return(c, p)
  \/ fork_parent(c, p) \/ fork_run(c, p)
  \/ (\E q \in Slots : allocproc(c, p, q)) \/ fork_fails(c, p)
  \/ sleep(c, p) \/ sys_pause(c, p)
  \/ (\E n \in KillPids : kkill(c, p, n))
  \/ kexit(c, p) \/ exit_wakeup(c, p) \/ exit_zombie(c, p)
  \/ (\E q \in Slots : wait_reap(c, p, q)) \/ wait_none(c, p)

Next ==
  \/ \E c \in Cpus, p \in Slots :
       scheduler(c, p) \/ swtch(c, p) \/ yield(c, p) \/ usertrap(c, p) \/ Thread(c, p)
  \/ \E q \in Slots : clockintr(q)

Spec == Init /\ [][Next]_vars

(* scheduler() visits every slot in turn, so a process that stays RUNNABLE *)
(* is run; a running thread makes progress in the kernel, a spinlock is    *)
(* passed on in the end, and the clock keeps ticking, which takes a        *)
(* program into usertrap() and whatever holds no lock to yield().  Nothing *)
(* makes a program call anything.                                          *)
Fairness ==
  /\ \A p \in Slots : /\ SF_vars(\E c \in Cpus : scheduler(c, p))
                      /\ SF_vars(\E c \in Cpus : Thread(c, p))
                      /\ WF_vars(\E c \in Cpus : swtch(c, p))
                      /\ WF_vars(clockintr(p))
                      /\ WF_vars(\E c \in Cpus : yield(c, p))
                      /\ SF_vars(killed[p] /\ \E c \in Cpus : usertrap(c, p))

FairSpec == Spec /\ Fairness
-----------------------------------------------------------------------------
(* Properties.                                                             *)

\* A kernel stack is in use by at most one CPU, and while a CPU still is on
\* the stack of a process that has given up RUNNING it holds p->lock: no
\* other CPU can run the process, and no parent can free it, too early.
StackSafe ==
  \A c \in Cpus :
    proc[c] # None =>
      /\ \A d \in Cpus : proc[d] = proc[c] => d = c
      /\ state[proc[c]] = "RUNNING" \/ lock[proc[c]] = c

\* No wakeup is lost between kwait()'s scan and its sleep(): a process that is
\* asleep in kwait() has no exited child, its own or inherited, unless the
\* exiting process that owes the wakeup still holds wait_lock.
NoLostWakeup ==
  wait_lock = None =>
    \A p \in Slots : state[p] = "SLEEPING" /\ pc[p] = "wait" =>
      \A q \in Children(p) : state[q] # "ZOMBIE"

Known == {q \in Slots : q = initproc \/ parent[q] # None}
SlotOf(n) == CHOOSE q \in Slots : pid[q] = n
Pids(S) == {pid[q] : q \in S}

\* The process tree that the table stands for.
Live == Pids(Known)
Exited == Pids({q \in Known : pc[q] \in {"wake_init", "wake_parent", "zombie"}})
Up == [n \in Live \ {1} |-> pid[parent[SlotOf(n)]]]
Spare == Pids({q \in Slots \ Known : state[q] = "USED"})

Tree == INSTANCE ProcTree WITH
          InitPid <- 1, live <- Live, exited <- Exited, up <- Up, spare <- Spare, fresh <- nextpid

\* The table implements the process tree of ProcTree: fork(), exit() and
\* wait() on any CPUs, preempted anywhere, have the effect of atomic calls.
ProcessTree == Tree!Spec

\* A process that is killed exits, however it was interrupted: kkill() wakes a
\* sleeper, and the clock wakes one that kkill() found about to sleep.  The one
\* exception is kwait(): if kkill() comes between its killed() and its sleep(),
\* the process sleeps on until a child exits.
MissedKill(p) == pc[p] = "wait_sleep" \/ (pc[p] = "wait" /\ state[p] = "SLEEPING")

\* kkill(): "Kill the process with the given pid."  It marks processes only.
KillsProcesses == \A q \in Slots : killed[q] => state[q] # "UNUSED"

-----------------------------------------------------------------------------
(* The inductive invariant.                                                *)

Exiting == {"wake_init", "wake_parent", "zombie"}
Forking == {"fork_parent", "fork_run"}
Labels == {"user", "return", "fork", "exit", "wait", "pause", "kill", "wait_sleep", "pause_sleep"}
            \cup Exiting \cup Forking

TypeOK ==
  /\ state \in [Slots -> {"UNUSED", "USED", "RUNNABLE", "RUNNING", "SLEEPING", "ZOMBIE"}]
  /\ pid \in [Slots -> Nat] /\ nextpid \in Nat /\ killed \in [Slots -> BOOLEAN]
  /\ chan \in [Slots -> Slots \cup {None, ticks}] /\ parent \in [Slots -> Slots \cup {None}]
  /\ lock \in [Slots -> Cpus \cup {NoCpu}] /\ wait_lock \in Slots \cup {None}
  /\ proc \in [Cpus -> Slots \cup {None}] /\ pc \in [Slots -> Labels]
  /\ np \in [Slots -> Slots \cup {None}] /\ scan \in [Slots -> 0..NPROC]

\* Who runs where: a CPU has a process that is RUNNING, or the lock of one it leaves.
Placed ==
  /\ \A c, d \in Cpus : proc[c] # None /\ proc[c] = proc[d] => c = d
  /\ \A c \in Cpus : proc[c] # None =>
       \/ state[proc[c]] = "RUNNING" /\ Free(proc[c])
       \/ state[proc[c]] \in {"RUNNABLE", "SLEEPING", "ZOMBIE"} /\ lock[proc[c]] = c
  /\ \A p \in Slots : \A c \in Cpus : lock[p] = c => proc[c] = p

\* What a slot is in each state, and at each place of the kernel.
Slot(p) ==
  /\ pid[p] < nextpid /\ (state[p] = "UNUSED" <=> pid[p] = 0)
  /\ state[p] = "UNUSED" => parent[p] = None /\ pc[p] \in {"user", "zombie"}
  /\ state[p] = "USED" => pc[p] = "user"
  /\ state[p] = "SLEEPING" => (pc[p] = "wait" /\ chan[p] = p) \/ (pc[p] = "pause" /\ chan[p] = ticks)
  /\ state[p] = "ZOMBIE" => pc[p] = "zombie"
  /\ pc[p] = "wait_sleep" => chan[p] \in {p, None}
  /\ pc[p] = "pause_sleep" => chan[p] \in {ticks, None}

\* kexit() has wait_lock until the process is a ZOMBIE.
Exits(p) ==
  /\ pc[p] \in Exiting => wait_lock = p \/ (pc[p] = "zombie" /\ state[p] \in {"ZOMBIE", "UNUSED"})
  /\ wait_lock = p => pc[p] \in Exiting /\ state[p] = "RUNNING"
  /\ pc[p] \in {"wake_init", "wake_parent"} => scan[p] \in Slots

\* A child that is being created has one creator, and a process has a parent that
\* has not exited.
Family(p) ==
  /\ np[p] # None <=> pc[p] \in Forking
  /\ np[p] # None => /\ state[np[p]] = "USED"
                     /\ parent[np[p]] = IF pc[p] = "fork_parent" THEN None ELSE p
  /\ parent[p] # None => state[parent[p]] \in {"RUNNABLE", "RUNNING", "SLEEPING"} /\ pc[parent[p]] \notin Exiting
  /\ p = initproc \/ state[p] \in {"UNUSED", "USED"} \/ parent[p] # None

\* init is never killed and never exits.
InitProc ==
  /\ pid[initproc] = 1 /\ parent[initproc] = None /\ ~ killed[initproc]
  /\ state[initproc] \in {"RUNNABLE", "RUNNING", "SLEEPING"} /\ pc[initproc] \notin Exiting \cup {"exit"}

Unique ==
  /\ \A p, q \in Slots : pid[p] # 0 /\ pid[p] = pid[q] => p = q
  /\ \A p, q \in Slots : np[p] # None /\ np[p] = np[q] => p = q

\* p is on its way into sleep() in kwait(), or asleep, and has not been woken.
Armed(p) == \/ pc[p] = "wait_sleep" /\ chan[p] = p
            \/ pc[p] = "wait" /\ state[p] = "SLEEPING"

\* The process that owes p a wakeup() has wait_lock and has not come to p's slot yet.
Wakeups(p) ==
  Armed(p) =>
    /\ \A q \in Children(p) : state[q] = "ZOMBIE" =>
         p = initproc /\ wait_lock # None /\ pc[wait_lock] = "wake_init" /\ scan[wait_lock] = initproc
    /\ wait_lock # None /\ parent[wait_lock] = p =>
         \/ pc[wait_lock] = "wake_init"
         \/ pc[wait_lock] = "wake_parent" /\ scan[wait_lock] <= p

IInv == /\ TypeOK /\ Placed /\ InitProc /\ Unique
        /\ \A p \in Slots : Slot(p) /\ Exits(p) /\ Family(p) /\ Wakeups(p)
=============================================================================
