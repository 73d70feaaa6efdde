----------------------------- MODULE MCMachine ------------------------------
(* What the kernel does with the machine, side by side: traps, page        *)
(* tables, copies from and to user memory, and the start of the harts.  A  *)
(* behaviour is one of a single part; the other parts stay as they begin.  *)
EXTENDS Trap, Sequences, FiniteSets

CONSTANT Parts

VARIABLES part,
          free, space, trapframe, sz, vm_panicked,   \* vm.c, kalloc.c
          psz, nul, va, len,                         \* copyin(), copyout()
          main_pc, sees, buffer, started             \* main.c

memory == <<free, space, trapframe, sz, vm_panicked>>
copying == <<psz, nul, va, len>>
starting == <<main_pc, sees, buffer, started>>

seg(vaddr, memsz, filesz, perm) ==
  [type |-> "LOAD", vaddr |-> vaddr, memsz |-> memsz, filesz |-> filesz, perm |-> perm]
note == [seg(0, 0, 0, {}) EXCEPT !.type = "NOTE"]

elf(segs) == [segs |-> segs, file |-> "elf", fits |-> TRUE]

\* One process, which execs text and more, with all of the file, less of it, or too
\* many arguments for the stack; segments in the wrong order; a gap and then a bad
\* header; one whose end wraps round, and one that is not aligned.
One == INSTANCE Vm WITH panicked <- vm_panicked, Procs <- {1}, InitProc <- 1, NPAGES <- 16, PGSIZE <- 2, UINT <- 64,
  MAXARG <- 2, Grow <- {1, 3},
  Programs <- {elf(<<seg(0, 3, 3, {"X"}), note>>),
               [elf(<<seg(0, 3, 3, {"X"})>>) EXCEPT !.file = "short"], [elf(<<seg(0, 3, 3, {"X"})>>) EXCEPT !.fits = FALSE],
               elf(<<seg(2, 2, 1, {"W"}), seg(0, 1, 1, {})>>), elf(<<seg(0, 1, 1, {"X"}), seg(4, 1, 2, {"W"})>>),
               elf(<<seg(0, 1, 1, {"X"}), seg(62, 4, 4, {"W"})>>), elf(<<seg(0, 2, 1, {"X"}), seg(3, 1, 1, {"W"})>>)}

\* Two processes and fork.
Two == INSTANCE Vm WITH panicked <- vm_panicked, Procs <- {1, 2}, InitProc <- 1, NPAGES <- 13, PGSIZE <- 2, UINT <- 64,
  MAXARG <- 2, Grow <- {3}, Programs <- {elf(<<seg(0, 1, 1, {"X"})>>)}

\* Sixteen addresses, pages of four bytes, and a process of at most seven bytes.
User == INSTANCE UserCopy WITH W <- 4, PGSIZE <- 4, MAXVA <- 12, WORD <- 2, TEXT <- 4, MaxSize <- 7

Main == INSTANCE Boot WITH pc <- main_pc, Harts <- {0, 1, 2}

Idle == 0
MCInit ==
  /\ part \in Parts /\ Init /\ Main!Init
  /\ CASE part = "vm" -> One!Init
       [] part = "fork" -> Two!Init
       [] OTHER -> free = Idle /\ space = Idle /\ trapframe = Idle /\ sz = Idle /\ vm_panicked = Idle
  /\ IF part = "copy" THEN User!Init ELSE psz = Idle /\ nul = Idle /\ va = Idle /\ len = Idle

MCNext ==
  /\ UNCHANGED part
  /\ \/ part = "trap" /\ Next /\ UNCHANGED <<memory, copying, starting>>
     \/ part = "vm" /\ One!Next /\ UNCHANGED <<vars, copying, starting>>
     \/ part = "fork" /\ Two!Next /\ UNCHANGED <<vars, copying, starting>>
     \/ part = "copy" /\ User!Next /\ UNCHANGED <<vars, memory, starting>>
     \/ part = "boot" /\ Main!Next /\ UNCHANGED <<vars, memory, copying>>

MCSpec == MCInit /\ [][MCNext]_<<part, vars, memory, copying, starting>>

-----------------------------------------------------------------------------
(* Values that make no difference to what happens next: saved registers of *)
(* code that runs, and trap registers once the trap was handled, as both   *)
(* are overwritten before they are read; where in its cycle of NPC         *)
(* instructions user code is; which page is where.                         *)

InTrap(c) == pc[c] \in {"uservec", "usertrap", "userret", "kernelvec", "kret", "ktimer"}
Interrupted(x) == \/ \E c \in CPUs : reg[c].sp = K(x) /\ pc[c] \in {"kret", "ktimer"}
                  \/ x \in Procs /\ state[x] = "RUNNABLE" /\ context[x].ra = "kret"
On(p, places) == \E c \in CPUs : proc[c] = p /\ pc[c] \in places

\* An instruction of p, counted from the last that changed registers.
Turn(p, n) == IF p \notin Procs \/ n = NPC THEN n ELSE (n + NPC - user[p].v) % NPC
Turned(regs) == [r \in DOMAIN regs |-> <<regs[r][1], IF regs[r][1] \in Procs THEN Turn(regs[r][1], regs[r][2]) ELSE regs[r][2]>>]
Spot(p, sepc) == IF sepc.label = "user" THEN Turn(p, sepc.n) ELSE 0

TrapView ==
  <<pc, proc, state, panicked,
    [c \in CPUs |-> Turned(reg[c])],
    [p \in Procs |-> <<Turn(p, user[p].pc), user[p].ret>>],
    [c \in CPUs |-> IF InTrap(c) THEN <<[csr[c] EXCEPT !.sepc.n = Spot(proc[c], csr[c].sepc)]>>
                    ELSE <<csr[c].mode, csr[c].sie, csr[c].stvec, csr[c].satp>>],
    [c \in CPUs |-> IF pc[c] = "user" THEN Turn(proc[c], upc[c]) ELSE 0],
    [p \in Procs |-> IF On(p, {"userret", "user", "uservec"}) THEN <<tf[p].hartid>> ELSE <<>>],
    [p \in Procs |-> IF On(p, {"user", "uservec"}) THEN <<>> ELSE <<Turned(tf[p].regs), Turn(p, tf[p].epc)>>],
    [p \in Procs |-> IF state[p] = "RUNNABLE" THEN <<context[p]>> ELSE <<>>],
    [c \in CPUs |-> IF proc[c] # NoProc THEN <<context[c]>> ELSE <<>>],
    [x \in Procs \cup CPUs |-> IF Interrupted(x) THEN <<[frame[x] EXCEPT !.sepc.n = 0]>> ELSE <<>>]>>

Shape(s) == [s EXCEPT !.root = @ # 0, !.l1 = [i \in 1..2 |-> @[i] # 0], !.l0 = [i \in 1..4 |-> @[i] # 0],
                      !.pte = [v \in 0..7 |-> @[v].perm]]
VmView(exact) == <<Cardinality(free), [p \in DOMAIN space |-> Shape(space[p])], sz, vm_panicked, exact,
                   {p \in DOMAIN space : trapframe[p] # 0}>>

View == CASE part = "trap" -> <<part, TrapView>>
          [] part = "vm" -> <<part, VmView(One!PagesExact)>>
          [] part = "fork" -> <<part, VmView(Two!PagesExact)>>
          [] OTHER -> <<part, copying, starting>>

-----------------------------------------------------------------------------
(* Properties of the parts.                                                *)

\* Every page is free or has one owner, wherever a call runs out of memory; a process
\* has no mapping above its size other than trampoline and trapframe; no call of vm.c
\* panics.
MemoryExact ==
  /\ part = "vm" => One!PagesExact /\ One!Confined /\ One!NoPanic
  /\ part = "fork" => Two!PagesExact /\ Two!Confined /\ Two!NoPanic
\* The page below the stack stays out of the user's reach, and fork() copies every
\* mapping of the parent, or leaves nothing.
MemorySteps == [][/\ part = "vm" => One!GuardStep
                  /\ part = "fork" => Two!GuardStep /\ Two!ForkStep]_<<part, memory>>

\* Copies from and to user memory are what was asked for, or fail: ranges, strings,
\* words of the process, and offsets in a file that wrap.
CopiesExact == part = "copy" => User!CopyExact /\ User!StrExact /\ User!FetchExact /\ User!OffsetsExact

\* No hart calls what needs something that it cannot see set up yet.
NothingEarly == part = "boot" => Main!NothingEarly
=============================================================================
