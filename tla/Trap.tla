-------------------------------- MODULE Trap --------------------------------
(***************************************************************************)
(* The way into the kernel and out of it: kernel/trampoline.S,             *)
(* kernel/kernelvec.S, kernel/swtch.S, the control registers in            *)
(* kernel/trap.c, and the context switches of kernel/proc.c, on several    *)
(* CPUs between which processes move.                                      *)
(*                                                                         *)
(* Registers are a0, tp, sp, s (s0 to s11) and t (all others).  A value    *)
(* says whose it is: <<p, n>> is what the instruction at n of p's user   *)
(* code left there, <<p, NPC>> the result of a system call, <<"k", x>>     *)
(* belongs to the kernel thread of process or scheduler x, <<"h", c>> is   *)
(* the hartid of c.  With interrupts off nothing comes between two         *)
(* instructions of a CPU, and each stretch of them is one step.            *)
(***************************************************************************)
EXTENDS Naturals

CONSTANTS CPUs, Procs, NoProc, Kernel,
          NPC             \* user program counters, 0..NPC-1

ASSUME TrapAssumption == /\ NPC \in Nat \ {0} /\ NoProc \notin Procs /\ Kernel \notin Procs
                         /\ Procs \cap CPUs = {} /\ CPUs # {}

VARIABLES
  reg,       \* of each CPU: its registers
  pc,        \* where the CPU is in the kernel
  proc,      \* c->proc
  state,     \* p->state
  user,      \* what user code should find: its pc, its registers, and whether a0 is a result
  csr,       \* mode, sie, spp, spie, stvec, satp, sepc, scause
  upc,       \* where the CPU is in the user code
  tf,        \* p->trapframe: user registers, epc, kernel_hartid
  context,   \* of each thread: p->context or c->context
  frame,     \* of each thread: what kernelvec and kerneltrap() keep on its stack
  panicked

vars == <<reg, csr, pc, upc, proc, state, tf, context, frame, user, panicked>>

K(x) == <<"k", x>>
Hart(c) == <<"h", c>>
UserRegs(p) == [a0 |-> IF user[p].ret THEN <<p, NPC>> ELSE <<p, user[p].v>>,
                tp |-> <<p, user[p].v>>, sp |-> <<p, user[p].v>>, s |-> <<p, user[p].v>>, t |-> <<p, user[p].v>>]
KernelRegs(x, c) == [a0 |-> K(x), tp |-> Hart(c), sp |-> K(x), s |-> K(x), t |-> K(x)]
AllRegs(v) == [a0 |-> v, tp |-> v, sp |-> v, s |-> v, t |-> v]
Bump(n) == IF n + 1 = NPC THEN 0 ELSE n + 1
\* myproc(): tp says which CPU this is.
myproc(c) == proc[reg[c].tp[2]]
Goto(c, label) == pc' = [pc EXCEPT ![c] = label]
At(c, label) == pc[c] = label /\ ~ panicked
Nowhere == [label |-> "sched", n |-> 0]

\* After start(), main() and userinit(): the schedulers run, and every process is
\* to start in forkret().
Init ==
  /\ reg = [c \in CPUs |-> KernelRegs(c, c)]
  /\ csr = [c \in CPUs |-> [mode |-> "S", sie |-> FALSE, spp |-> "S", spie |-> FALSE, stvec |-> "kernelvec",
                            satp |-> Kernel, sepc |-> Nowhere, scause |-> "device"]]
  /\ pc = [c \in CPUs |-> "sched"] /\ upc = [c \in CPUs |-> 0]
  /\ proc = [c \in CPUs |-> NoProc]
  /\ state = [p \in Procs |-> "RUNNABLE"]
  /\ user = [p \in Procs |-> [pc |-> 0, v |-> 0, ret |-> FALSE]]
  /\ tf = [p \in Procs |-> [regs |-> UserRegs(p), epc |-> 0, hartid |-> Hart(CHOOSE c \in CPUs : TRUE)]]
  /\ context = [x \in Procs \cup CPUs |-> [s |-> K(x), sp |-> K(x), ra |-> "return", intena |-> FALSE]]
  /\ frame = [x \in Procs \cup CPUs |-> [t |-> K(x), a0 |-> K(x), tp |-> K(x), sepc |-> Nowhere, spp |-> "S", spie |-> FALSE]]
  /\ panicked = FALSE

\* User code executes an instruction, which may change every register.
Run(c) ==
  LET p == proc[c] IN
  /\ pc[c] = "user" /\ ~ panicked
  /\ user' = [user EXCEPT ![p] = [pc |-> Bump(@.pc), v |-> Bump(@.pc), ret |-> FALSE]]
  /\ reg' = [reg EXCEPT ![c] = AllRegs(<<p, Bump(user[p].pc)>>)]
  /\ upc' = [upc EXCEPT ![c] = Bump(@)]
  /\ UNCHANGED <<csr, pc, proc, state, tf, context, frame, panicked>>

\* The hardware takes a trap: a system call from user code, or an interrupt,
\* which in user mode is always possible.
Trap(c, cause) ==
  /\ ~ panicked
  /\ IF csr[c].mode = "U" THEN TRUE ELSE csr[c].sie /\ cause # "syscall"
  /\ csr' = [csr EXCEPT ![c].spp = csr[c].mode, ![c].spie = csr[c].sie, ![c].sie = FALSE, ![c].mode = "S",
                        ![c].scause = cause, ![c].sepc = [label |-> pc[c], n |-> upc[c]]]
  /\ Goto(c, csr[c].stvec)
  /\ user' = IF cause # "syscall" THEN user
             ELSE [user EXCEPT ![proc[c]].ret = TRUE]
  /\ UNCHANGED <<reg, upc, proc, state, tf, context, frame, panicked>>

Panic == panicked' = TRUE /\ UNCHANGED <<reg, csr, pc, upc, proc, state, tf, context, frame, user>>

\* trampoline.S: TRAPFRAME is the trapframe of the process whose page table is in
\* use; the kernel's maps none.
uservec(c) ==
  LET p == csr[c].satp IN
  /\ At(c, "uservec")
  /\ IF p = Kernel THEN Panic
     ELSE /\ tf' = [tf EXCEPT ![p].regs = reg[c]]
          /\ reg' = [reg EXCEPT ![c] = [KernelRegs(p, c) EXCEPT !.tp = tf[p].hartid]]
          /\ csr' = [csr EXCEPT ![c].satp = Kernel]
          /\ Goto(c, "usertrap")
          /\ UNCHANGED <<upc, proc, state, context, frame, user, panicked>>

\* The cause decides: the system call runs with interrupts on; after a timer
\* interrupt yield() is next.
usertrap(c) ==
  LET call == csr[c].scause = "syscall" IN
  /\ At(c, "usertrap")
  /\ IF csr[c].spp # "U" THEN Panic
     ELSE /\ tf' = [tf EXCEPT ![myproc(c)].epc = IF call THEN Bump(csr[c].sepc.n) ELSE csr[c].sepc.n]
          /\ user' = IF call THEN [user EXCEPT ![myproc(c)].pc = Bump(@)] ELSE user
          /\ csr' = [csr EXCEPT ![c].stvec = "kernelvec", ![c].sie = call]
          /\ Goto(c, IF call THEN "kernel" ELSE IF csr[c].scause = "timer" THEN "timer" ELSE "return")
          /\ UNCHANGED <<reg, upc, proc, state, context, frame, panicked>>

\* syscall() stores its result in a0; user code finds its other registers as they were.
syscall(c) ==
  /\ At(c, "kernel")
  /\ tf' = [tf EXCEPT ![myproc(c)].regs.a0 = <<myproc(c), NPC>>]
  /\ Goto(c, "return")
  /\ UNCHANGED <<reg, csr, upc, proc, state, context, frame, user, panicked>>

\* sched(), with the swtch() to the scheduler; the thread goes on at ra.
Switch(c, ra) ==
  LET p == myproc(c)
      h == reg[c].tp[2]            \* mycpu()
  IN
  /\ context' = [context EXCEPT ![p] = [s |-> reg[c].s, sp |-> reg[c].sp, ra |-> ra, intena |-> csr[c].sie]]
  /\ state' = [state EXCEPT ![p] = "RUNNABLE"]
  /\ proc' = [proc EXCEPT ![h] = NoProc]
  /\ reg' = [reg EXCEPT ![c].s = context[h].s, ![c].sp = context[h].sp, ![c].t = K(h), ![c].a0 = K(h)]
  /\ csr' = [csr EXCEPT ![c].sie = FALSE]
  /\ Goto(c, "sched")
  /\ UNCHANGED <<upc, tf, frame, user, panicked>>
yield(c) == \/ At(c, "timer") /\ Switch(c, "return")
            \/ At(c, "ktimer") /\ Switch(c, "kret")
\* A system call sleeps, and is woken up.
sleep(c) == At(c, "kernel") /\ Switch(c, "kernel")

\* prepare_return(): intr_off() and the new trap vector, then the rest.
intr_off(c) ==
  /\ At(c, "return")
  /\ Goto(c, "prepare") /\ csr' = [csr EXCEPT ![c].sie = FALSE, ![c].stvec = "uservec"]
  /\ UNCHANGED <<reg, upc, proc, state, tf, context, frame, user, panicked>>

prepare_return(c) ==
  /\ At(c, "prepare")
  /\ tf' = [tf EXCEPT ![myproc(c)].hartid = reg[c].tp]
  /\ csr' = [csr EXCEPT ![c].spp = "U", ![c].spie = TRUE, ![c].sepc = [label |-> "user", n |-> tf[myproc(c)].epc]]
  /\ Goto(c, "userret")
  /\ UNCHANGED <<reg, upc, proc, state, context, frame, user, panicked>>

\* trampoline.S, with the sret.
userret(c) ==
  LET p == myproc(c) IN
  /\ At(c, "userret")
  /\ reg' = [reg EXCEPT ![c] = tf[p].regs]
  /\ csr' = [csr EXCEPT ![c].satp = p, ![c].mode = csr[c].spp, ![c].sie = csr[c].spie]
  /\ Goto(c, csr[c].sepc.label)
  /\ upc' = [upc EXCEPT ![c] = csr[c].sepc.n]
  /\ UNCHANGED <<proc, state, tf, context, frame, user, panicked>>

\* kernelvec and kerneltrap(), on the stack sp points to.
kerneltrap(c) ==
  LET x == reg[c].sp[2] IN
  /\ At(c, "kernelvec")
  /\ IF csr[c].spp # "S" \/ csr[c].sie THEN Panic
     ELSE /\ frame' = [frame EXCEPT ![x] = [t |-> reg[c].t, a0 |-> reg[c].a0, tp |-> reg[c].tp,
                                            sepc |-> csr[c].sepc, spp |-> csr[c].spp, spie |-> csr[c].spie]]
          /\ reg' = [reg EXCEPT ![c].t = <<"k", "trap">>, ![c].a0 = <<"k", "trap">>]
          /\ Goto(c, IF csr[c].scause = "timer" /\ myproc(c) # NoProc THEN "ktimer" ELSE "kret")
          /\ UNCHANGED <<csr, upc, proc, state, tf, context, user, panicked>>

\* Mutant: sepc and sstatus are left as the traps during yield() made them.
kernelret_NoRestore(c) ==
  LET f == frame[reg[c].sp[2]] IN
  /\ At(c, "kret")
  /\ reg' = [reg EXCEPT ![c].t = f.t, ![c].a0 = f.a0]
  /\ csr' = [csr EXCEPT ![c].mode = csr[c].spp, ![c].sie = csr[c].spie]
  /\ Goto(c, csr[c].sepc.label)
  /\ UNCHANGED <<upc, proc, state, tf, context, frame, user, panicked>>

\* The end of kerneltrap(), and of kernelvec: not tp, in case we moved CPUs.
kernelret(c) ==
  LET f == frame[reg[c].sp[2]] IN
  /\ At(c, "kret")
  /\ reg' = [reg EXCEPT ![c].t = f.t, ![c].a0 = f.a0]
  /\ csr' = [csr EXCEPT ![c].sepc = f.sepc, ![c].spp = f.spp, ![c].mode = f.spp, ![c].spie = f.spie, ![c].sie = f.spie]
  /\ Goto(c, f.sepc.label)
  /\ UNCHANGED <<upc, proc, state, tf, context, frame, user, panicked>>

\* scheduler(): a window with interrupts on, then a process, if one is RUNNABLE.
scheduler_intr(c) ==
  /\ pc[c] \in {"sched", "window"} /\ ~ panicked
  /\ csr' = [csr EXCEPT ![c].sie = pc[c] = "sched"]
  /\ Goto(c, IF pc[c] = "sched" THEN "window" ELSE "pick")
  /\ UNCHANGED <<reg, upc, proc, state, tf, context, frame, user, panicked>>
scheduler(c) ==
  /\ At(c, "pick")
  /\ \/ \E p \in Procs :
        /\ state[p] = "RUNNABLE"
        /\ state' = [state EXCEPT ![p] = "RUNNING"]
        /\ proc' = [proc EXCEPT ![c] = p]
        /\ context' = [context EXCEPT ![c] = [s |-> reg[c].s, sp |-> reg[c].sp, ra |-> "sched", intena |-> FALSE]]
        /\ reg' = [reg EXCEPT ![c].s = context[p].s, ![c].sp = context[p].sp, ![c].t = K(p), ![c].a0 = K(p)]
        /\ csr' = [csr EXCEPT ![c].sie = context[p].intena]
        /\ Goto(c, context[p].ra)
     \/ /\ \A p \in Procs : state[p] # "RUNNABLE"
        /\ Goto(c, "sched") /\ UNCHANGED <<state, proc, context, reg, csr>>
  /\ UNCHANGED <<upc, tf, frame, user, panicked>>

Next == \E c \in CPUs :
  \/ Run(c) \/ \E cause \in {"syscall", "timer", "device"} : Trap(c, cause)
  \/ uservec(c) \/ usertrap(c) \/ syscall(c) \/ yield(c) \/ sleep(c) \/ intr_off(c) \/ prepare_return(c) \/ userret(c)
  \/ kerneltrap(c) \/ kernelret(c) \/ scheduler_intr(c) \/ scheduler(c)

Spec == Init /\ [][Next]_vars

-----------------------------------------------------------------------------
(* Properties.                                                             *)

\* User code finds every register and its program counter as it left them, a0
\* excepted after a system call, whatever traps there were, whichever threads ran
\* meanwhile and on whichever CPU it continues; its page table is in use.
UserIntact == \A c \in CPUs : csr[c].mode = "U" =>
  /\ proc[c] \in Procs /\ pc[c] = "user"
  /\ reg[c] = UserRegs(proc[c]) /\ upc[c] = user[proc[c]].pc
  /\ csr[c].satp = proc[c] /\ csr[c].stvec = "uservec"

\* A system call that was interrupted, or slept, goes on with its own registers,
\* on its own stack and with the kernel's page table.
KernelIntact == \A c \in CPUs : pc[c] = "kernel" =>
  /\ proc[c] \in Procs
  /\ reg[c] = KernelRegs(proc[c], c)
  /\ csr[c].mode = "S" /\ csr[c].satp = Kernel /\ csr[c].sie

\* In the kernel tp is the number of the CPU, on which cpuid() and so every
\* acquire() relies, though threads move between CPUs.
TpExact == \A c \in CPUs : pc[c] \notin {"user", "uservec"} => reg[c].tp = Hart(c)

\* No trap from kernel code arrives in usertrap(), none from user code in
\* kerneltrap(), and none while interrupts should be off: neither panics.
NoPanic == ~ panicked

\* Traps keep the registers: those of user code, of the kernel code they interrupt,
\* and the CPU's own tp; and none is taken for one of the other kind.
RegistersIntact == UserIntact /\ KernelIntact /\ TpExact /\ NoPanic

-----------------------------------------------------------------------------
(* The inductive invariant: what every CPU, and every process that waits   *)
(* for one, has to be like for the registers to come back.                 *)

Labels == {"user", "uservec", "usertrap", "kernel", "timer", "return", "prepare", "userret",
           "kernelvec", "ktimer", "kret", "sched", "window", "pick"}
Val == (Procs \X (0..NPC)) \cup ({"k"} \X (Procs \cup CPUs \cup {"trap"})) \cup ({"h"} \X CPUs)
RegFile == [a0 : Val, tp : Val, sp : Val, s : Val, t : Val]
Addr == [label : Labels, n : 0..(NPC - 1)]
Csr == [mode : {"U", "S"}, sie : BOOLEAN, spp : {"U", "S"}, spie : BOOLEAN, satp : Procs \cup {Kernel},
        stvec : {"kernelvec", "uservec"}, sepc : Addr, scause : {"syscall", "timer", "device"}]
UserState == [pc : 0..(NPC - 1), v : 0..(NPC - 1), ret : BOOLEAN]
Trapframe == [regs : RegFile, epc : 0..(NPC - 1), hartid : Val]
Context == [s : Val, sp : Val, ra : Labels, intena : BOOLEAN]
Stack == [t : Val, a0 : Val, tp : Val, sepc : Addr, spp : {"U", "S"}, spie : BOOLEAN]

\* Every variable has its type.
TypeOK ==
  /\ reg \in [CPUs -> RegFile] /\ csr \in [CPUs -> Csr]
  /\ pc \in [CPUs -> Labels] /\ upc \in [CPUs -> 0..(NPC - 1)]
  /\ proc \in [CPUs -> Procs \cup {NoProc}] /\ state \in [Procs -> {"RUNNABLE", "RUNNING"}]
  /\ user \in [Procs -> UserState] /\ tf \in [Procs -> Trapframe]
  /\ context \in [Procs \cup CPUs -> Context] /\ frame \in [Procs \cup CPUs -> Stack]
  /\ panicked \in BOOLEAN

\* The kernel thread CPU c runs, and where that thread is, or will be when the
\* interrupt it is in returns.
Thread(c) == IF proc[c] = NoProc THEN c ELSE proc[c]
Where(c) == IF pc[c] = "kernelvec" THEN csr[c].sepc.label
            ELSE IF pc[c] \in {"ktimer", "kret"} THEN frame[Thread(c)].sepc.label ELSE pc[c]

\* r holds p's user registers, a0 excepted when its system call has yet to return.
Agrees(r, p, pending) ==
  LET v == <<p, user[p].v>> IN
  /\ r.tp = v /\ r.sp = v /\ r.s = v /\ r.t = v
  /\ IF pending THEN user[p].ret ELSE r.a0 = UserRegs(p).a0

\* p's trapframe is ready for a return to user code, from where p is in the kernel.
Ready(p, where) == Agrees(tf[p].regs, p, where = "kernel") /\ tf[p].epc = user[p].pc

\* The stack of x holds what kernelvec and kerneltrap() need to go back.
Frame(x) == frame[x].t = K(x) /\ frame[x].a0 = K(x) /\ frame[x].spp = "S" /\ frame[x].spie

\* Each process runs on one CPU at most.
Placed ==
  /\ \A c, d \in CPUs : proc[c] # NoProc /\ proc[c] = proc[d] => c = d
  /\ \A p \in Procs : state[p] = "RUNNING" <=> \E c \in CPUs : proc[c] = p

\* Where CPU c may be, with a process and without one.
Place(c) ==
  /\ Where(c) \in IF proc[c] = NoProc THEN {"sched", "window", "pick"}
                  ELSE {"user", "uservec", "usertrap", "kernel", "timer", "return", "prepare", "userret"}
  /\ pc[c] \in {"kernelvec", "ktimer", "kret"} => Where(c) \in {"kernel", "return", "window"}
  /\ pc[c] = "ktimer" => proc[c] # NoProc

\* The control registers at each place.
Control(c) ==
  /\ csr[c].mode = (IF pc[c] = "user" THEN "U" ELSE "S")
  /\ csr[c].satp = (IF pc[c] \in {"user", "uservec"} THEN proc[c] ELSE Kernel)
  /\ csr[c].stvec = (IF pc[c] \in {"prepare", "userret", "user", "uservec", "usertrap"} THEN "uservec" ELSE "kernelvec")
  /\ csr[c].sie => pc[c] \in {"user", "kernel", "return", "window"}
  /\ pc[c] \in {"user", "kernel", "window"} => csr[c].sie
  /\ pc[c] \in {"uservec", "usertrap"} => csr[c].spp = "U" /\ csr[c].sepc.n = user[proc[c]].pc
  /\ pc[c] = "userret" => csr[c].spp = "U" /\ csr[c].spie /\ csr[c].sepc = [label |-> "user", n |-> tf[proc[c]].epc]
  /\ pc[c] = "kernelvec" => csr[c].spp = "S" /\ csr[c].spie

\* The general registers at each place.
Registers(c) ==
  IF pc[c] = "user" THEN reg[c] = UserRegs(proc[c]) /\ upc[c] = user[proc[c]].pc
  ELSE IF pc[c] = "uservec" THEN Agrees(reg[c], proc[c], csr[c].scause = "syscall")
  ELSE IF pc[c] \in {"ktimer", "kret"}
       THEN reg[c].tp = Hart(c) /\ reg[c].sp = K(Thread(c)) /\ reg[c].s = K(Thread(c)) /\ Frame(Thread(c))
  ELSE reg[c] = KernelRegs(Thread(c), c)

\* What CPU c's process and scheduler left to come back to.
Saved(c) == proc[c] # NoProc =>
  /\ context[c].s = K(c) /\ context[c].sp = K(c)
  /\ Where(c) \in {"userret", "user", "uservec"} => tf[proc[c]].hartid = Hart(c)
  /\ Where(c) = "usertrap" => Agrees(tf[proc[c]].regs, proc[c], csr[c].scause = "syscall")
  /\ Where(c) \in {"kernel", "timer", "return", "prepare", "userret"} => Ready(proc[c], Where(c))

\* A process that waits for a CPU.
Parked(p) == state[p] = "RUNNABLE" =>
  LET where == IF context[p].ra = "kret" THEN frame[p].sepc.label ELSE context[p].ra IN
  /\ context[p].s = K(p) /\ context[p].sp = K(p) /\ context[p].ra \in {"return", "kret", "kernel"}
  /\ context[p].intena <=> context[p].ra = "kernel"
  /\ where \in {"kernel", "return"} /\ Ready(p, where)
  /\ context[p].ra = "kret" => Frame(p)

IInv == /\ TypeOK /\ NoPanic /\ Placed
        /\ \A c \in CPUs : Place(c) /\ Control(c) /\ Registers(c) /\ Saved(c)
        /\ \A p \in Procs : Parked(p)
=============================================================================
