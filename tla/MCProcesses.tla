---------------------------- MODULE MCProcesses -----------------------------
(* Processors and processes, side by side: spin locks, interrupts, the     *)
(* process table, console output, and, for liveness, the shell and calls   *)
(* to the file system.  A behaviour is one of a single part; the others    *)
(* stay as they begin.                                                     *)
EXTENDS Spin, Sequences, TLC

CONSTANTS Parts, Kills    \* the pids that programs kill

VARIABLES
  part,
  line, pending, claimed, due, hart, irq,                                             \* devintr()
  pstate, pid, chan, killed, parent, plock, wait_lock, nextpid, running, thread, np, scan,  \* proc.c
  fifo, rx, uart_irq, tx_lock, tx_chan, writer, n, nn, cpc, out, panicked,            \* uart.c
  job,                                                                                \* sh.c
  scenario, dinode, durable, it, call, loc, cwd, ofile, booted, fs_panicked, crashes, calls \* fs.c

plic == <<line, pending, claimed, due, hart, irq>>
table == <<pstate, pid, chan, killed, parent, plock, wait_lock, nextpid, running, thread, np, scan>>
output == <<fifo, rx, uart_irq, tx_lock, tx_chan, writer, n, nn, cpc, out, panicked>>
files == <<scenario, dinode, durable, it, call, loc, cwd, ofile, booted, fs_panicked, crashes, calls>>

-----------------------------------------------------------------------------
(* The instances.                                                          *)

\* Three harts and two devices.
Harts3 == INSTANCE Interrupts WITH pc <- hart, Harts <- 0..2, Devices <- {"uart", "disk"}, None <- NoCpu
\* One device: of several that interrupt without end, the PLIC may prefer one.
Harts2 == INSTANCE Interrupts WITH pc <- hart, Harts <- 0..1, Devices <- {"disk"}, None <- NoCpu

\* init and two more slots; slots are reused.
Table3 == INSTANCE Proc WITH state <- pstate, lock <- plock, proc <- running, pc <- thread,
  Cpus <- CPUs, NPROC <- 3, KillPids <- Kills, MaxPid <- 3
\* init and one more slot, used by two processes in turn.
Table2 == INSTANCE Proc WITH state <- pstate, lock <- plock, proc <- running, pc <- thread,
  Cpus <- CPUs, NPROC <- 2, KillPids <- Kills, MaxPid <- 3

\* What the proofs about the table assume.
ASSUME Instances == Table3!Parameters /\ Table2!Parameters

\* Writers and CPUs, with a FIFO that holds exactly one character of each.
Output2 == INSTANCE Uart WITH irq <- uart_irq, chan <- tx_chan, pc <- writer,
  Writers <- Threads, NoProc <- NoCpu, FIFO <- 3, BATCH <- 2, MaxCall <- 2, MaxRx <- 1
\* One writer and one CPU.
Output1 == INSTANCE Uart WITH irq <- uart_irq, chan <- tx_chan, pc <- writer,
  Writers <- {"w"}, CPUs <- {1}, NoProc <- NoCpu, FIFO <- 2, BATCH <- 1, MaxCall <- 2, MaxRx <- 1

\* echo | cat;  echo & cat
Exec(reads) == [type |-> "EXEC", reads |-> reads]
Typed == {[type |-> "PIPE", left |-> Exec(FALSE), right |-> Exec(TRUE)],
          [type |-> "LIST", left |-> [type |-> "BACK", cmd |-> Exec(FALSE)], right |-> Exec(TRUE)]}
\* Five processes can run out.
Jobs == INSTANCE Shell WITH proc <- job, NPROC <- 5, NFD <- 5, Lines <- Typed

\* /a and /a/b are directories, and two processes move in them, remove and add.
Entry(name, inum) == [name |-> name, inum |-> inum]
Dir(nlink, self, up, ents) == [type |-> "dir", nlink |-> nlink, ents |-> <<Entry(".", self), Entry("..", up)>> \o ents]
Op(op, path, new) == [op |-> op, path |-> path, new |-> new]
Tree == <<Dir(2, 1, 1, <<Entry("a", 2)>>), Dir(2, 2, 1, <<Entry("b", 3)>>), Dir(1, 3, 2, <<>>),
          [type |-> "none", nlink |-> 0, ents |-> <<>>]>>
Calls == {Op("chdir", <<"a", "b">>, <<>>), Op("chdir", <<"..">>, <<>>), Op("unlink", <<"/", "a", "b">>, <<>>),
          Op("unlink", <<"/", "a">>, <<>>), Op("mkdir", <<"c">>, <<>>), Op("link", <<"c">>, <<"/">>)}
Moves == INSTANCE FileSystem WITH pc <- call, panicked <- fs_panicked,
  Procs <- 1..2, InitProc <- 1, NoProc <- NoCpu, NINODES <- 4, NINODE <- 4, NLINK_MAX <- 2, MaxEnts <- 4,
  Scenarios <- {"dirs"}, Image <- [dirs |-> Tree], Calls <- [dirs |-> Calls],
  MaxCalls <- [dirs |-> 2], MaxCrash <- [dirs |-> 0]

-----------------------------------------------------------------------------
(* The parts side by side.                                                 *)

Idle == 0
PlicIdle == line = Idle /\ pending = Idle /\ claimed = Idle /\ due = Idle /\ hart = Idle /\ irq = Idle
TableIdle ==
  /\ pstate = Idle /\ pid = Idle /\ chan = Idle /\ killed = Idle /\ parent = Idle /\ plock = Idle
  /\ wait_lock = Idle /\ nextpid = Idle /\ running = Idle /\ thread = Idle /\ np = Idle /\ scan = Idle
OutputIdle ==
  /\ fifo = Idle /\ rx = Idle /\ uart_irq = Idle /\ tx_lock = Idle /\ tx_chan = Idle /\ writer = Idle
  /\ n = Idle /\ nn = Idle /\ cpc = Idle /\ out = Idle /\ panicked = Idle
FilesIdle ==
  /\ scenario = Idle /\ dinode = Idle /\ durable = Idle /\ it = Idle /\ call = Idle /\ loc = Idle /\ cwd = Idle
  /\ ofile = Idle /\ booted = Idle /\ fs_panicked = Idle /\ crashes = Idle /\ calls = Idle

MCInit ==
  /\ part \in Parts /\ Init
  /\ CASE part = "plic3" -> Harts3!Init [] part = "plic2" -> Harts2!Init [] OTHER -> PlicIdle
  /\ CASE part = "table3" -> Table3!Init [] part = "table2" -> Table2!Init [] OTHER -> TableIdle
  /\ CASE part = "output2" -> Output2!Init [] part = "output1" -> Output1!Init [] OTHER -> OutputIdle
  /\ IF part = "jobs" THEN Jobs!Init ELSE job = Idle
  /\ IF part = "moves" THEN Moves!Init ELSE FilesIdle

OnlySpin == UNCHANGED <<part, plic, table, output, job, files>>
OnlyPlic == UNCHANGED <<part, vars, table, output, job, files>>
OnlyTable == UNCHANGED <<part, vars, plic, output, job, files>>
OnlyOutput == UNCHANGED <<part, vars, plic, table, job, files>>
OnlyJobs == UNCHANGED <<part, vars, plic, table, output, files>>
OnlyFiles == UNCHANGED <<part, vars, plic, table, output, job>>

MCNext ==
  \/ part = "spin" /\ Next /\ OnlySpin
  \/ part = "plic3" /\ Harts3!Next /\ OnlyPlic
  \/ part = "plic2" /\ Harts2!Next /\ OnlyPlic
  \/ part = "table3" /\ Table3!Next /\ OnlyTable
  \/ part = "table2" /\ Table2!Next /\ OnlyTable
  \/ part = "output2" /\ Output2!Next /\ OnlyOutput
  \/ part = "output1" /\ Output1!Next /\ OnlyOutput
  \/ part = "jobs" /\ Jobs!Next /\ OnlyJobs
  \/ part = "moves" /\ Moves!Next /\ OnlyFiles

MCVars == <<part, vars, plic, table, output, job, files>>
MCSpec == MCInit /\ [][MCNext]_MCVars

Symmetry == Permutations(CPUs) \cup Permutations(Threads)

\* Of the process table no step reads the killed flag of a process that exits, a
\* channel nobody is about to sleep or asleep on, or the thread of a free slot.
TableView ==
  IF part # "table3" THEN table
  ELSE <<pstate, pid, parent, plock, wait_lock, nextpid, running, np, scan,
         [p \in DOMAIN pid |-> IF pstate[p] = "UNUSED" THEN "user" ELSE thread[p]],
         [p \in DOMAIN pid |-> killed[p] /\ thread[p] \notin {"exit", "wake_init", "wake_parent", "zombie"}],
         [p \in DOMAIN pid |-> IF pstate[p] = "SLEEPING" \/ thread[p] \in {"wait_sleep", "pause_sleep"} THEN chan[p] ELSE 0]>>
View == <<part, vars, plic, TableView, output, job, files>>

\* The fairness of the parts, in their modules.  As part never changes, fairness of
\* a disjunction of actions of different parts is fairness of each of them.  A CPU
\* is 1 or 2 here.
Strong(k) ==
  \/ part = "spin" /\ OnlySpin /\ k \in CPUs /\ swap(k)
  \/ /\ part = "table2" /\ OnlyTable
     /\ \/ k \in 1..2 /\ \E c \in CPUs : Table2!scheduler(c, k)
        \/ k \in 3..4 /\ \E c \in CPUs : Table2!Thread(c, k - 2)
        \/ k = 5 /\ killed[2] /\ \E c \in CPUs : Table2!usertrap(c, 2)
  \/ part = "output1" /\ OnlyOutput /\ k = 1 /\ Output1!uartintr(1)
Weak(k) ==
  \/ /\ part = "spin" /\ OnlySpin
     /\ \/ k \in 1..2 /\ (own(k) \/ clear(k) \/ pop_off(k) \/ Switches(k))
        \/ k \in 3..4 /\ InterruptReturn(k - 2)
        \/ k \in 5..6 /\ \E l \in Locks : DropLock(k - 4, l)
  \/ /\ part = "plic2" /\ OnlyPlic
     /\ \/ k \in 1..2 /\ Harts2!Hart(k - 1)
        \/ k = 3 /\ Harts2!Gateway("disk")
  \/ /\ part = "table2" /\ OnlyTable
     /\ \/ k \in 1..2 /\ \E c \in CPUs : Table2!swtch(c, k)
        \/ k \in 3..4 /\ Table2!clockintr(k - 2)
        \/ k \in 5..6 /\ \E c \in CPUs : Table2!yield(c, k - 4)
  \/ /\ part = "output1" /\ OnlyOutput
     /\ \/ k = 1 /\ Output1!Handler(1)
        \/ k = 2 /\ Output1!Writer("w")
        \/ k = 3 /\ Output1!Transmit
  \/ part = "jobs" /\ OnlyJobs /\ k \in 1..5 /\ Jobs!Alive(1) /\ Jobs!Step(k)
  \/ part = "moves" /\ OnlyFiles /\ k \in 1..2 /\ Moves!Step(k) /\ UNCHANGED scenario
MCFairSpec == MCSpec /\ (\A k \in 1..5 : SF_MCVars(Strong(k))) /\ (\A k \in 1..6 : WF_MCVars(Weak(k)))

-----------------------------------------------------------------------------
(* Properties of the parts.                                                *)

\* A device's handler runs on one hart at a time.
OneServer == part = "plic3" => Harts3!OneServer

\* No CPU is on the stack of a process that another CPU may run or free, and a
\* process asleep in kwait() has no exited child; with the inductive invariant
\* of the process table that implies both.
ProcessesSafe == part = "table3" => Table3!StackSafe /\ Table3!NoLostWakeup /\ Table3!IInv
\* fork(), exit() and wait() have the effect of atomic calls on a process tree.
ProcessTree == (part = "table3" => Table3!Tree!Init) /\ [][part = "table3" => Table3!Tree!Step]_<<part, table>>
\* kkill(): "Kill the process with the given pid."  It marks processes only.
KillsProcesses == part = "table3" => Table3!KillsProcesses

\* The transmit FIFO never overflows, and a process that sleeps for the transmitter
\* will be woken.
OutputSafe == part = "output2" => Output2!NoOverrun /\ Output2!NoLostWakeup

\* CPUs go on.
\*   - A CPU that spins gets the lock.
\*   - A device that interrupts is served, also when it interrupts while it is served.
\*   - A timer that is due is set again, on every hart, unless devices interrupt
\*     without end.
ProcessorsGoOn ==
  /\ AcquireReturns
  /\ (part = "plic2" /\ "disk" \in line) ~> (part = "plic2" => "disk" \notin line)
  /\ \A h \in 0..1 : []<>(part = "plic2" => h \notin due \/ pending # {})

\* Processes go on.
\*   - One in kwait() that has an exited child returns.
\*   - One that is killed exits, unless kkill() came between killed() and sleep() in
\*     kwait().
\*   - When input and printk() cease, one that has tx_lock sends its bytes, unless
\*     the kernel panics.
ProcessesReturn ==
  /\ (part = "table2" /\ thread[1] \in {"wait", "wait_sleep"} /\ \E q \in Table2!Children(1) : pstate[q] = "ZOMBIE")
       ~> (part = "table2" => thread[1] \notin {"wait", "wait_sleep"})
  /\ (part = "table2" /\ killed[2] /\ pstate[2] \notin {"UNUSED", "USED"})
       ~> (part = "table2" => pstate[2] \in {"ZOMBIE", "UNUSED"} \/ Table2!MissedKill(2))
  /\ <>[](part = "output1" => rx = 0 /\ cpc[1] # "printthr")
       => ((part = "output1" /\ tx_lock = "w") ~> (part = "output1" => tx_lock # "w" \/ panicked))

\* The shell comes back from the wait for its command; once the user types no more,
\* every process that exited has been waited for.
ShellReturns ==
  /\ (part = "jobs" /\ Jobs!Waiting) ~> (part = "jobs" => ~ Jobs!Waiting \/ ~ Jobs!Alive(1))
  /\ <>[](part = "jobs" => \E q \in 1..5 : Jobs!At(q, "PROMPT", "start"))
       => <>[](part = "jobs" => \A q \in 1..5 : ~ Jobs!Zombie(q))
\* Every call to the file system returns, when there are finitely many and the inode
\* table has room.
CallsReturn == <>[](part = "moves" => Moves!Quiet)
=============================================================================
