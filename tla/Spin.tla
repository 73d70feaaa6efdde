-------------------------------- MODULE Spin --------------------------------
(***************************************************************************)
(* kernel/spinlock.c: spin locks, the nesting of push_off()/pop_off(), and *)
(* interrupts, with the context switches of kernel/proc.c that move locks  *)
(* and the interrupt state from one thread to another.                     *)
(*                                                                         *)
(* Each CPU runs one context: a kernel thread, or its own scheduler, which *)
(* is named after the CPU.  A step is one access to shared memory or to    *)
(* the interrupt state.  Locks are the numbers in Locks, taken in          *)
(* ascending order by threads and interrupt handlers, and the p->lock of   *)
(* each thread, named after the thread.                                    *)
(***************************************************************************)
EXTENDS Naturals, FiniteSets

CONSTANTS CPUs, Threads, Locks, NoCpu

ASSUME SpinAssumption == /\ Locks \subseteq Nat /\ Locks # {} /\ IsFiniteSet(Locks \cup Threads)
                         /\ Threads \cap (CPUs \cup Locks) = {} /\ NoCpu \notin CPUs

Contexts == CPUs \cup Threads
AllLocks == Locks \cup Threads

VARIABLES
  locked, cpu,        \* of each lock: lk->locked, lk->cpu
  noff, intena, sie,  \* of each CPU; sie is the interrupt enable bit
  cur,                \* the context each CPU runs
  state,              \* p->state: RUNNABLE or RUNNING
  pc, lk, ret,        \* of each context: where it is, the lock it is
                      \* acquiring or releasing, and where that call returns to
  trap,               \* is the context inside kerneltrap()?
  saved               \* the local variable intena of sched()

vars == <<locked, cpu, noff, intena, sie, cur, state, pc, lk, ret, trap, saved>>

Init ==
  /\ locked = [l \in AllLocks |-> FALSE]
  /\ cpu = [l \in AllLocks |-> NoCpu]
  /\ noff = [c \in CPUs |-> 0] /\ intena = [c \in CPUs |-> FALSE]
  /\ sie = [c \in CPUs |-> FALSE]
  /\ cur = [c \in CPUs |-> c]
  /\ state = [t \in Threads |-> "RUNNABLE"]
  /\ pc = [x \in Contexts |-> IF x \in CPUs THEN "on" ELSE "forkret"]
  /\ lk = [x \in Contexts |-> CHOOSE l \in Locks : TRUE]
  /\ ret = [x \in Contexts |-> "run"]
  /\ trap = [x \in Contexts |-> FALSE]
  /\ saved = [t \in Threads |-> FALSE]

holding(c, l) == locked[l] /\ cpu[l] = c

At(c, label) == pc[cur[c]] = label
Goto(c, label) == pc' = [pc EXCEPT ![cur[c]] = label]

-----------------------------------------------------------------------------
(* spinlock.c.                                                             *)

push_off(c) ==
  /\ intena' = [intena EXCEPT ![c] = IF noff[c] = 0 THEN sie[c] ELSE @]
  /\ noff' = [noff EXCEPT ![c] = @ + 1]
  /\ sie' = [sie EXCEPT ![c] = FALSE]

\* acquire(l), up to the loop; it returns to label r.
acquire(c, l, r) ==
  /\ push_off(c)
  /\ Goto(c, IF holding(c, l) THEN "panic" ELSE "swap")
  /\ lk' = [lk EXCEPT ![cur[c]] = l]
  /\ ret' = [ret EXCEPT ![cur[c]] = r]
  /\ UNCHANGED <<locked, cpu>>

\* Mutant: the lock is taken without looking.
swap_NoTest(c) ==
  /\ At(c, "swap")
  /\ locked' = [locked EXCEPT ![lk[cur[c]]] = TRUE]
  /\ Goto(c, "own")
  /\ UNCHANGED <<cpu, noff, intena, sie, cur, state, lk, ret, trap, saved>>

\* One atomic exchange; one that finds 1 changes nothing.
swap(c) ==
  /\ At(c, "swap")
  /\ IF locked[lk[cur[c]]] THEN UNCHANGED vars
     ELSE /\ locked' = [locked EXCEPT ![lk[cur[c]]] = TRUE]
          /\ Goto(c, "own")
          /\ UNCHANGED <<cpu, noff, intena, sie, cur, state, lk, ret, trap, saved>>

own(c) ==
  /\ At(c, "own")
  /\ cpu' = [cpu EXCEPT ![lk[cur[c]]] = c]
  /\ Goto(c, ret[cur[c]])
  /\ UNCHANGED <<locked, noff, intena, sie, cur, state, lk, ret, trap, saved>>

\* release(l), up to lk->cpu = 0.
release(c, l, r) ==
  /\ IF holding(c, l)
     THEN cpu' = [cpu EXCEPT ![l] = NoCpu] /\ Goto(c, "clear")
     ELSE UNCHANGED cpu /\ Goto(c, "panic")
  /\ lk' = [lk EXCEPT ![cur[c]] = l]
  /\ ret' = [ret EXCEPT ![cur[c]] = r]
  /\ UNCHANGED <<locked, noff, sie>>

clear(c) ==
  /\ At(c, "clear")
  /\ locked' = [locked EXCEPT ![lk[cur[c]]] = FALSE]
  /\ Goto(c, "pop")
  /\ UNCHANGED <<cpu, noff, intena, sie, cur, state, lk, ret, trap, saved>>

\* Mutant: the count is decremented twice.
pop_off_Twice(c) ==
  /\ At(c, "pop")
  /\ noff' = [noff EXCEPT ![c] = @ - 2]
  /\ sie' = [sie EXCEPT ![c] = noff'[c] = 0 /\ intena[c]]
  /\ Goto(c, ret[cur[c]])
  /\ UNCHANGED <<locked, cpu, intena, cur, state, lk, ret, trap, saved>>

pop_off(c) ==
  /\ At(c, "pop")
  /\ IF sie[c] \/ noff[c] < 1
     THEN Goto(c, "panic") /\ UNCHANGED <<noff, sie>>
     ELSE /\ noff' = [noff EXCEPT ![c] = @ - 1]
          /\ sie' = [sie EXCEPT ![c] = noff'[c] = 0 /\ intena[c]]
          /\ Goto(c, ret[cur[c]])
  /\ UNCHANGED <<locked, cpu, intena, cur, state, lk, ret, trap, saved>>

Spinlock(c) == swap(c) \/ own(c) \/ clear(c) \/ pop_off(c)
-----------------------------------------------------------------------------
(* What threads and interrupt handlers do with the locks.                  *)

Held(c) == {l \in Locks : cpu[l] = c}

TakeLock(c, l) ==
  /\ At(c, "run")
  /\ \A h \in Held(c) : h < l
  /\ acquire(c, l, "run")
  /\ UNCHANGED <<cur, state, trap, saved>>

DropLock(c, l) ==
  /\ At(c, "run")
  /\ l \in Held(c)
  /\ release(c, l, "run")
  /\ UNCHANGED <<intena, cur, state, trap, saved>>

\* kerneltrap(): the hardware turns interrupts off.
Interrupt(c) ==
  /\ sie[c]
  /\ sie' = [sie EXCEPT ![c] = FALSE]
  /\ trap' = [trap EXCEPT ![cur[c]] = TRUE]
  /\ Goto(c, "run")
  /\ UNCHANGED <<locked, cpu, noff, intena, cur, state, lk, ret, saved>>

\* sret restores them.
InterruptReturn(c) ==
  /\ At(c, "run") /\ trap[cur[c]] /\ Held(c) = {}
  /\ sie' = [sie EXCEPT ![c] = TRUE]
  /\ trap' = [trap EXCEPT ![cur[c]] = FALSE]
  /\ Goto(c, IF cur[c] = c THEN "off" ELSE "run")
  /\ UNCHANGED <<locked, cpu, noff, intena, cur, state, lk, ret, saved>>

-----------------------------------------------------------------------------
(* The context switches.                                                   *)

\* yield(), from a timer interrupt or (as in sleep()) with interrupts on.
yield(c) ==
  /\ cur[c] \in Threads
  /\ At(c, "run") /\ Held(c) = {}
  /\ acquire(c, cur[c], "sched")
  /\ UNCHANGED <<cur, state, trap, saved>>

\* p->state = RUNNABLE, then sched() up to and including swtch().
sched(c) ==
  LET t == cur[c] IN
  /\ At(c, "sched")
  /\ state' = [state EXCEPT ![t] = "RUNNABLE"]
  /\ IF ~ holding(c, t) \/ noff[c] # 1 \/ sie[c]
     THEN Goto(c, "panic") /\ UNCHANGED <<cur, saved>>
     ELSE /\ saved' = [saved EXCEPT ![t] = intena[c]]
          /\ cur' = [cur EXCEPT ![c] = c]
          /\ pc' = [pc EXCEPT ![t] = "resume"]
  /\ UNCHANGED <<locked, cpu, noff, intena, sie, lk, ret, trap>>

\* Mutant: intena stays what the CPU's last thread left.
resume_NoRestore(c) ==
  /\ At(c, "resume")
  /\ release(c, cur[c], "run")
  /\ UNCHANGED <<intena, cur, state, trap, saved>>

\* The rest of sched(), and release(&p->lock).
resume(c) ==
  /\ At(c, "resume")
  /\ intena' = [intena EXCEPT ![c] = saved[cur[c]]]
  /\ release(c, cur[c], "run")
  /\ UNCHANGED <<cur, state, trap, saved>>

\* A new thread; in user space or in a system call interrupts are on.
forkret(c) ==
  /\ At(c, "forkret")
  /\ release(c, cur[c], "user")
  /\ UNCHANGED <<intena, cur, state, trap, saved>>

usertrap(c) ==
  /\ At(c, "user")
  /\ sie' = [sie EXCEPT ![c] = TRUE]
  /\ Goto(c, "run")
  /\ UNCHANGED <<locked, cpu, noff, intena, cur, state, lk, ret, trap, saved>>

\* scheduler(): intr_on(), intr_off(), and the scan of the table.
scheduler_intr(c) ==
  /\ cur[c] = c
  /\ \/ At(c, "on") /\ sie' = [sie EXCEPT ![c] = TRUE] /\ Goto(c, "off")
     \/ At(c, "off") /\ sie' = [sie EXCEPT ![c] = FALSE] /\ Goto(c, "scan")
     \/ At(c, "scan") /\ Goto(c, "on") /\ UNCHANGED sie
  /\ UNCHANGED <<locked, cpu, noff, intena, cur, state, lk, ret, trap, saved>>

scheduler_acquire(c, t) ==
  /\ At(c, "scan")
  /\ acquire(c, t, "check")
  /\ UNCHANGED <<cur, state, trap, saved>>

scheduler_switch(c) ==
  /\ At(c, "check")
  /\ state[lk[c]] = "RUNNABLE"
  /\ state' = [state EXCEPT ![lk[c]] = "RUNNING"]
  /\ cur' = [cur EXCEPT ![c] = lk[c]]
  /\ Goto(c, "back")
  /\ UNCHANGED <<locked, cpu, noff, intena, sie, lk, ret, trap, saved>>

scheduler_release(c) ==
  /\ \/ At(c, "back") /\ intena' = [intena EXCEPT ![c] = FALSE]
     \/ At(c, "check") /\ state[lk[c]] # "RUNNABLE" /\ UNCHANGED intena
  /\ release(c, lk[c], "scan")
  /\ UNCHANGED <<cur, state, trap, saved>>

Switches(c) == \/ sched(c) \/ resume(c) \/ forkret(c) \/ usertrap(c)
               \/ scheduler_intr(c) \/ scheduler_switch(c) \/ scheduler_release(c)

Next == \E c \in CPUs :
          \/ Spinlock(c) \/ Switches(c)
          \/ Interrupt(c) \/ InterruptReturn(c) \/ yield(c)
          \/ \E t \in Threads : scheduler_acquire(c, t)
          \/ \E l \in Locks : TakeLock(c, l) \/ DropLock(c, l)

Spec == Init /\ [][Next]_vars

(* A CPU keeps executing, critical sections and handlers end, the scan     *)
(* comes round, and a lock that is free again and again is won in the end. *)
Fairness == \A c \in CPUs :
  /\ WF_vars(own(c) \/ clear(c) \/ pop_off(c) \/ Switches(c))
  /\ SF_vars(swap(c))
  /\ WF_vars(InterruptReturn(c)) /\ WF_vars(\E l \in Locks : DropLock(c, l))

FairSpec == Spec /\ Fairness
-----------------------------------------------------------------------------
(* Properties.                                                             *)

PC == {"run", "swap", "own", "clear", "pop", "sched", "resume", "forkret", "user",
       "on", "off", "scan", "check", "back", "panic"}

\* Every variable has its type.
TypeOK ==
  /\ locked \in [AllLocks -> BOOLEAN] /\ cpu \in [AllLocks -> CPUs \cup {NoCpu}]
  /\ noff \in [CPUs -> Nat] /\ intena \in [CPUs -> BOOLEAN] /\ sie \in [CPUs -> BOOLEAN]
  /\ cur \in [CPUs -> Contexts] /\ state \in [Threads -> {"RUNNABLE", "RUNNING"}]
  /\ pc \in [Contexts -> PC] /\ lk \in [Contexts -> AllLocks] /\ ret \in [Contexts -> PC]
  /\ trap \in [Contexts -> BOOLEAN] /\ saved \in [Threads -> BOOLEAN]

\* CPU c is in one of the two windows in which l is locked and lk->cpu not set.
Window(c, l) == pc[cur[c]] \in {"own", "clear"} /\ lk[cur[c]] = l

\* The CPUs that are past the exchange in acquire(l) and before the store in
\* release(l).
Inside(l) == {c \in CPUs : cpu[l] = c \/ Window(c, l)}

\* A lock is held by one CPU at a time, through every context switch, and a CPU
\* that holds one is not interruptible.
MutualExclusion ==
  \A l \in AllLocks : /\ Cardinality(Inside(l)) <= 1
                      /\ \A c \in Inside(l) : ~ sie[c]

\* None of the panics of acquire(), release(), pop_off() and sched() is reached.
NoPanic == \A x \in Contexts : pc[x] # "panic"

\* The locks of CPU c.
LocksOf(c) == {l \in AllLocks : cpu[l] = c}
Count(c) == Cardinality(LocksOf(c))

\* Outside critical sections a context has interrupts on exactly when it is not
\* in an interrupt handler, whatever CPUs and other threads it was switched
\* between; the scheduler scans the table with interrupts off.
InterruptsRestored ==
  \A c \in CPUs :
    /\ noff[c] = 0 /\ At(c, "run") => (sie[c] <=> ~ trap[cur[c]])
    /\ At(c, "scan") => ~ sie[c]

\* Where the context of CPU c is, or will be when acquire() or release() returns.
InLock == {"swap", "own", "clear", "pop"}
Where(c) == IF pc[cur[c]] \in InLock THEN ret[cur[c]] ELSE pc[cur[c]]

\* push_off() and pop_off() match: noff counts the locks of the CPU, and the
\* one that is being acquired or released.
NoffExact(c) == noff[c] = Count(c) + (IF pc[cur[c]] \in InLock THEN 1 ELSE 0)

\* A thread runs on at most one CPU, and while it does the CPU's scheduler is in
\* swtch(), with the thread's lock for its own.
RunsOnce ==
  /\ \A c \in CPUs : \/ cur[c] = c
                     \/ cur[c] \in Threads /\ pc[c] = "back" /\ lk[c] = cur[c]
  /\ \A c, d \in CPUs : cur[c] = cur[d] => c = d
  /\ \A t \in Threads : \/ state[t] = "RUNNING" /\ \E c \in CPUs : cur[c] = t
                        \/ /\ state[t] = "RUNNABLE" /\ pc[t] \in {"resume", "forkret"}
                           /\ \A c \in CPUs : cur[c] # t

\* What the context of CPU c may be doing, and which lock each place is about.
Place(c) == LET x == cur[c] IN
  /\ Where(c) \in IF x = c THEN {"run", "on", "off", "scan", "check", "back"}
                           ELSE {"run", "sched", "resume", "forkret", "user"}
  /\ pc[x] \in {"swap", "own"} => ret[x] \in {"run", "sched", "check"}
  /\ pc[x] \in {"clear", "pop"} => ret[x] \in {"run", "user", "scan"}
  /\ pc[x] \in {"swap", "own"} /\ ret[x] = "run" => lk[x] \in Locks
  /\ pc[x] \in {"swap", "own"} /\ ret[x] = "sched" => lk[x] = x
  /\ Where(c) \in {"check", "back"} => lk[c] \in Threads

\* The locks of CPU c: locks of the kernel's data while it runs, and one p->lock
\* from sched() or scheduler() to the release on the other side of swtch().
Owned(c) ==
  /\ \A l \in Locks : cpu[l] = c => Where(c) = "run"
  /\ \A t \in Threads :
       cpu[t] = c <=> \/ cur[c] = t /\ pc[t] \in {"sched", "resume", "forkret"}
                      \/ cur[c] = c /\ lk[c] = t /\ pc[c] \in {"check", "back"}

\* lk->locked covers lk->cpu and the windows, and one CPU is in a lock's window.
LockWord ==
  \A l \in AllLocks :
    /\ cpu[l] # NoCpu => locked[l]
    /\ \A c \in CPUs : Window(c, l) => locked[l] /\ cpu[l] = NoCpu
    /\ \A c, d \in CPUs : Window(c, l) /\ Window(d, l) => c = d

\* sie and intena of CPU c hold what its context will get back.
Enabled(c) ==
  /\ sie[c] => noff[c] = 0 /\ pc[cur[c]] \in {"run", "off"}
  /\ noff[c] = 0 /\ At(c, "run") => (sie[c] <=> ~ trap[cur[c]])
  /\ noff[c] # 0 /\ Where(c) \in {"run", "sched"} => (intena[c] <=> ~ trap[cur[c]])
  /\ noff[c] # 0 /\ Where(c) \in {"scan", "check", "forkret", "user"} => ~ intena[c]

\* sched()'s copy of intena fits the thread it was made by.
Kept(t) ==
  /\ pc[t] \in {"forkret", "user"} => ~ trap[t]
  /\ pc[t] \in InLock /\ ret[t] = "user" => ~ trap[t]
  /\ pc[t] = "resume" => (saved[t] <=> ~ trap[t])

\* The inductive invariant of spin locks.
IInv == /\ TypeOK /\ NoPanic /\ RunsOnce /\ LockWord
        /\ \A c \in CPUs : NoffExact(c) /\ Place(c) /\ Owned(c) /\ Enabled(c)
        /\ \A t \in Threads : Kept(t)

\* A CPU that spins gets the lock: no handler or scheduler waits for a lock
\* that only the code it interrupted, or a thread that cannot run, would release.
AcquireReturns == \A c \in CPUs : At(c, "swap") ~> At(c, "own")
=============================================================================
