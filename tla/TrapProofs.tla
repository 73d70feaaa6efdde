----------------------------- MODULE TrapProofs -----------------------------
(***************************************************************************)
(* Traps keep the registers of user code and of the kernel code they       *)
(* interrupt, for any number of CPUs and of processes.                     *)
(*                                                                         *)
(* A step of CPU c changes c and the process c runs, or is about to run.   *)
(* Compose says that such a step keeps the invariant if it keeps the part  *)
(* about c and that process; the lemmas on actions show that each does.    *)
(* The last section is about Interrupts, the devices' part of a trap.      *)
(***************************************************************************)
EXTENDS Trap, TLAPS

\* Zenon tries every leaf; those with arithmetic or functional updates cite SMT.
USE ZenonT(60)

\* What IInv says of one CPU.
OneCPU(c) == Place(c) /\ Control(c) /\ Registers(c) /\ Saved(c)

\* A step of CPU c leaves the other CPUs alone, and every process it does not run.
Others(c) ==
  /\ \A d \in CPUs : d # c => /\ reg'[d] = reg[d] /\ csr'[d] = csr[d] /\ pc'[d] = pc[d] /\ upc'[d] = upc[d]
                              /\ proc'[d] = proc[d] /\ context'[d] = context[d] /\ frame'[d] = frame[d]
  /\ \A p \in Procs : p # proc[c] /\ p # proc'[c] =>
       /\ tf'[p] = tf[p] /\ user'[p] = user[p] /\ context'[p] = context[p] /\ frame'[p] = frame[p]
       /\ state'[p] = state[p]

\* The invariant of a CPU depends on nothing but its registers and its process.
LEMMA OtherCPU ==
  ASSUME NEW d, OneCPU(d), reg'[d] = reg[d], csr'[d] = csr[d], pc'[d] = pc[d], upc'[d] = upc[d],
         proc'[d] = proc[d], context'[d] = context[d], frame'[d] = frame[d],
         proc[d] # NoProc => tf'[proc[d]] = tf[proc[d]] /\ user'[proc[d]] = user[proc[d]] /\ frame'[proc[d]] = frame[proc[d]]
  PROVE  OneCPU(d)'
<1>1. Thread(d)' = Thread(d) /\ frame'[Thread(d)] = frame[Thread(d)]
  BY DEF Thread
<1>2. Where(d)' = Where(d)
  BY <1>1 DEF Where
<1>3. proc[d] # NoProc => UserRegs(proc[d])' = UserRegs(proc[d])
  BY DEF UserRegs
<1>4. proc[d] # NoProc => \A r, b : Agrees(r, proc[d], b)' <=> Agrees(r, proc[d], b)
  BY <1>3 DEF Agrees
<1>5. proc[d] # NoProc => \A w : Ready(proc[d], w)' <=> Ready(proc[d], w)
  BY <1>4 DEF Ready
<1>6. Place(d)'
  BY <1>1, <1>2 DEF OneCPU, Place
<1>7. proc[d] = NoProc => pc[d] \notin {"user", "uservec", "usertrap", "userret"}
  BY DEF OneCPU, Place, Where
<1>8. Control(d)'
  BY <1>1, <1>7 DEF OneCPU, Control
<1>9. Registers(d)'
  BY <1>1, <1>3, <1>4, <1>7 DEF OneCPU, Registers, Frame, KernelRegs
<1>10. Saved(d)'
  BY <1>1, <1>2, <1>4, <1>5 DEF OneCPU, Saved
<1> QED BY <1>6, <1>8, <1>9, <1>10 DEF OneCPU

\* And that of a process that waits, on nothing but what it left.
LEMMA OtherProcess ==
  ASSUME NEW p, Parked(p), tf'[p] = tf[p], user'[p] = user[p], context'[p] = context[p], frame'[p] = frame[p],
         state'[p] = state[p]
  PROVE  Parked(p)'
<1>1. UserRegs(p)' = UserRegs(p)
  BY DEF UserRegs
<1>2. \A r, b : Agrees(r, p, b)' <=> Agrees(r, p, b)
  BY <1>1 DEF Agrees
<1>3. \A w : Ready(p, w)' <=> Ready(p, w)
  BY <1>2 DEF Ready
<1> QED BY <1>3 DEF Parked, Frame

\* A step keeps the invariant that keeps the part of its CPU, and of its processes.
LEMMA Compose ==
  ASSUME IInv, NEW c \in CPUs, TypeOK', NoPanic', Placed', Others(c), OneCPU(c)',
         \A p \in Procs : p \in {proc[c], proc'[c]} => Parked(p)'
  PROVE  IInv'
<1>1. ASSUME NEW d \in CPUs, d # c PROVE OneCPU(d)'
  <2>1. proc'[d] = proc[d] /\ proc[d] \in Procs \cup {NoProc}
    BY <1>1 DEF Others, IInv, TypeOK
  <2>2. proc[d] # NoProc => proc[d] # proc[c] /\ proc[d] # proc'[c]
    BY <1>1, <2>1 DEF IInv, Placed
  <2>3. OneCPU(d)
    BY DEF IInv, OneCPU
  <2> QED BY <1>1, <2>1, <2>2, <2>3, OtherCPU DEF Others
<1>2. ASSUME NEW p \in Procs PROVE Parked(p)'
  <2>1. CASE p \in {proc[c], proc'[c]}
    BY <2>1
  <2>2. CASE p \notin {proc[c], proc'[c]}
    BY <2>2, OtherProcess DEF Others, IInv
  <2> QED BY <2>1, <2>2
<1> QED BY <1>1, <1>2 DEF IInv, OneCPU

\* Most steps leave every process where it is.
LEMMA Stays ==
  ASSUME IInv, NEW c \in CPUs, TypeOK', NoPanic', UNCHANGED <<proc, state>>, Others(c), OneCPU(c)'
  PROVE  IInv'
<1>1. Placed'
  BY DEF IInv, Placed
<1>2. ASSUME NEW p \in Procs, p \in {proc[c], proc'[c]} PROVE Parked(p)'
  <2>1. state[p] = "RUNNING"
    BY <1>2 DEF IInv, Placed
  <2> QED BY <2>1 DEF Parked
<1> QED BY <1>1, <1>2, Compose

-----------------------------------------------------------------------------
(* Values.                                                                 *)

LEMMA Values ==
  /\ \A p \in Procs, n \in 0..NPC : <<p, n>> \in Val
  /\ \A x \in Procs \cup CPUs : K(x) \in Val
  /\ <<"k", "trap">> \in Val
  /\ \A c \in CPUs : Hart(c) \in Val
BY DEF Val, K, Hart

LEMMA Regs ==
  /\ \A v \in Val : AllRegs(v) \in RegFile
  /\ \A x \in Procs \cup CPUs, c \in CPUs : KernelRegs(x, c) \in RegFile
<1>1. \A v \in Val : AllRegs(v) \in RegFile
  BY DEF AllRegs, RegFile
<1>2. \A x \in Procs \cup CPUs, c \in CPUs : KernelRegs(x, c) \in RegFile
  BY Values DEF KernelRegs, RegFile
<1> QED BY <1>1, <1>2

\* Registers with the same contents are the same.
LEMMA SameRegs ==
  ASSUME NEW r \in RegFile, NEW q \in RegFile, r.a0 = q.a0, r.tp = q.tp, r.sp = q.sp, r.s = q.s, r.t = q.t
  PROVE  r = q
BY SMTT(60) DEF RegFile

LEMMA BumpType ==
  ASSUME NEW n \in 0..(NPC - 1) PROVE Bump(n) \in 0..(NPC - 1)
BY TrapAssumption, SMTT(60) DEF Bump

\* The user registers of a process.
LEMMA UserRegsType ==
  ASSUME TypeOK, NEW p \in Procs PROVE UserRegs(p) \in RegFile
<1>1. user[p].v \in 0..NPC /\ NPC \in 0..NPC
  BY TrapAssumption, SMTT(60) DEF TypeOK, UserState
<1>2. <<p, user[p].v>> \in Val /\ <<p, NPC>> \in Val
  BY <1>1, Values
<1> QED BY <1>2 DEF UserRegs, RegFile

\* What TypeOK says of one CPU, and the process it runs.
LEMMA Typed ==
  ASSUME IInv, NEW c \in CPUs
  PROVE  /\ reg[c] \in RegFile /\ csr[c] \in Csr /\ pc[c] \in Labels /\ upc[c] \in 0..(NPC - 1)
         /\ proc[c] \in Procs \cup {NoProc} /\ ~ panicked
         /\ Thread(c) \in Procs \cup CPUs /\ frame[Thread(c)] \in Stack /\ context[c] \in Context
         /\ proc[c] # NoProc => /\ proc[c] \in Procs /\ Thread(c) = proc[c]
                                /\ user[proc[c]] \in UserState /\ tf[proc[c]] \in Trapframe
<1>1. /\ reg[c] \in RegFile /\ csr[c] \in Csr /\ pc[c] \in Labels /\ upc[c] \in 0..(NPC - 1)
      /\ proc[c] \in Procs \cup {NoProc} /\ context[c] \in Context
  BY DEF IInv, TypeOK
<1>2. Thread(c) \in Procs \cup CPUs /\ (proc[c] # NoProc => proc[c] \in Procs /\ Thread(c) = proc[c])
  BY <1>1 DEF Thread
<1>3. frame[Thread(c)] \in Stack
  BY <1>2 DEF IInv, TypeOK
<1>4. proc[c] # NoProc => user[proc[c]] \in UserState /\ tf[proc[c]] \in Trapframe
  BY <1>2 DEF IInv, TypeOK
<1>5. ~ panicked
  BY DEF IInv, NoPanic
<1> QED BY <1>1, <1>2, <1>3, <1>4, <1>5

\* What the invariant says of one CPU.
LEMMA Here ==
  ASSUME IInv, NEW c \in CPUs PROVE Place(c) /\ Control(c) /\ Registers(c) /\ Saved(c)
BY DEF IInv

\* Outside uservec and user code tp is the hartid, so myproc() is the CPU's process.
LEMMA MyProc ==
  ASSUME IInv, NEW c \in CPUs, pc[c] \notin {"user", "uservec"}
  PROVE  /\ reg[c].tp = Hart(c) /\ reg[c].sp = K(Thread(c)) /\ reg[c].s = K(Thread(c))
         /\ reg[c].tp[2] = c /\ reg[c].sp[2] = Thread(c) /\ myproc(c) = proc[c]
<1>1. reg[c].tp = Hart(c) /\ reg[c].sp = K(Thread(c)) /\ reg[c].s = K(Thread(c))
  <2>1. CASE pc[c] \in {"ktimer", "kret"}
    BY <2>1, Here DEF Registers
  <2>2. CASE pc[c] \notin {"ktimer", "kret"}
    <3>1. reg[c] = KernelRegs(Thread(c), c)
      BY <2>2, Here DEF Registers
    <3> QED BY <3>1, SMTT(60) DEF KernelRegs
  <2> QED BY <2>1, <2>2
<1>2. reg[c].tp[2] = c /\ reg[c].sp[2] = Thread(c)
  BY <1>1, SMTT(60) DEF Hart, K
<1> QED BY <1>1, <1>2 DEF myproc

\* Which places have a process.
LEMMA HasProc ==
  ASSUME IInv, NEW c \in CPUs
  PROVE  /\ pc[c] \in {"user", "uservec", "usertrap", "kernel", "timer", "return", "prepare", "userret", "ktimer"}
              => proc[c] \in Procs /\ proc[c] # NoProc
         /\ pc[c] \in {"sched", "window", "pick"} => proc[c] = NoProc
         /\ pc[c] \notin {"kernelvec", "ktimer", "kret"} => Where(c) = pc[c]
         /\ pc[c] = "kernelvec" => Where(c) = csr[c].sepc.label
         /\ pc[c] \in {"ktimer", "kret"} => Where(c) = frame[Thread(c)].sepc.label
<1>1. /\ pc[c] \notin {"kernelvec", "ktimer", "kret"} => Where(c) = pc[c]
      /\ pc[c] = "kernelvec" => Where(c) = csr[c].sepc.label
      /\ pc[c] \in {"ktimer", "kret"} => Where(c) = frame[Thread(c)].sepc.label
  BY DEF Where
<1>2. Place(c) /\ proc[c] \in Procs \cup {NoProc}
  BY Here, Typed
<1> QED BY <1>1, <1>2 DEF Place

-----------------------------------------------------------------------------
(* User code, and the way into the kernel.                                 *)

\* An instruction of user code.
LEMMA RunKeeps ==
  ASSUME IInv, NEW c \in CPUs, Run(c)
  PROVE  IInv'
<1> DEFINE p == proc[c]
           n == Bump(user[p].pc)
<1>0. Place(c) /\ Control(c) /\ Registers(c) /\ Saved(c)
  BY Here
<1>1. pc[c] = "user" /\ p \in Procs /\ p # NoProc
  BY HasProc DEF Run
<1>2. /\ reg[c] = UserRegs(p) /\ upc[c] = user[p].pc /\ user[p] \in UserState /\ n \in 0..(NPC - 1)
      /\ <<p, n>> \in Val /\ AllRegs(<<p, n>>) \in RegFile
  <2>1. upc[c] = user[p].pc /\ reg[c] = UserRegs(p) /\ user[p] \in UserState
    BY <1>0, <1>1, Typed DEF Registers
  <2>2. n \in 0..(NPC - 1) /\ n \in 0..NPC
    BY <2>1, BumpType, TrapAssumption, SMTT(60) DEF UserState
  <2> QED BY <1>1, <2>1, <2>2, Values, Regs
<1>3. /\ reg' = [reg EXCEPT ![c] = AllRegs(<<p, n>>)] /\ user' = [user EXCEPT ![p] = [pc |-> n, v |-> n, ret |-> FALSE]]
      /\ upc' = [upc EXCEPT ![c] = n] /\ UNCHANGED <<csr, pc, proc, state, tf, context, frame, panicked>>
  BY <1>2 DEF Run
<1>4. TypeOK' /\ NoPanic'
  <2>1. reg' \in [CPUs -> RegFile] /\ upc' \in [CPUs -> 0..(NPC - 1)]
    BY <1>2, <1>3 DEF IInv, TypeOK
  <2>2. user' \in [Procs -> UserState]
    BY <1>1, <1>2, <1>3 DEF IInv, TypeOK, UserState
  <2> QED BY <1>3, <2>1, <2>2 DEF IInv, TypeOK, NoPanic
<1>5. Others(c)
  BY <1>3 DEF IInv, TypeOK, Others
<1>6. /\ reg'[c] = AllRegs(<<p, n>>) /\ upc'[c] = n /\ user'[p] = [pc |-> n, v |-> n, ret |-> FALSE]
      /\ pc'[c] = "user" /\ proc'[c] = p /\ csr'[c] = csr[c] /\ tf'[p] = tf[p] /\ context'[c] = context[c]
  BY <1>1, <1>3 DEF IInv, TypeOK
<1>7. Where(c)' = "user" /\ Where(c) = "user"
  BY <1>1, <1>6 DEF Where
<1>8. OneCPU(c)'
  <2>1. Place(c)'
    BY <1>1, <1>6, <1>7 DEF Place
  <2>2. Control(c)'
    BY <1>0, <1>1, <1>6 DEF Control
  <2>3. Registers(c)'
    <3>1. UserRegs(p)' = AllRegs(<<p, n>>)
      BY <1>6, SMTT(60) DEF UserRegs, AllRegs
    <3> QED BY <1>6, <3>1, SMTT(60) DEF Registers
  <2>4. Saved(c)'
    BY <1>0, <1>1, <1>6, <1>7 DEF Saved
  <2> QED BY <2>1, <2>2, <2>3, <2>4 DEF OneCPU
<1> QED BY <1>3, <1>4, <1>5, <1>8, Stays

\* A trap, from user code or from kernel code.
LEMMA TrapKeeps ==
  ASSUME IInv, NEW c \in CPUs, NEW cause \in {"syscall", "timer", "device"}, Trap(c, cause)
  PROVE  IInv'
<1> DEFINE p == proc[c]
<1>0. Place(c) /\ Control(c) /\ Registers(c) /\ Saved(c)
  BY Here
<1>1. /\ csr' = [csr EXCEPT ![c].spp = csr[c].mode, ![c].spie = csr[c].sie, ![c].sie = FALSE, ![c].mode = "S",
                            ![c].scause = cause, ![c].sepc = [label |-> pc[c], n |-> upc[c]]]
      /\ pc' = [pc EXCEPT ![c] = csr[c].stvec] /\ UNCHANGED <<reg, upc, proc, state, tf, context, frame, panicked>>
  BY DEF Trap, Goto
<1>2. /\ csr'[c].spp = csr[c].mode /\ csr'[c].spie = csr[c].sie /\ csr'[c].sie = FALSE /\ csr'[c].mode = "S"
      /\ csr'[c].scause = cause /\ csr'[c].sepc.label = pc[c] /\ csr'[c].sepc.n = upc[c]
      /\ csr'[c].satp = csr[c].satp /\ csr'[c].stvec = csr[c].stvec /\ pc'[c] = csr[c].stvec
  <2>1. csr \in [CPUs -> Csr] /\ pc \in [CPUs -> Labels]
    BY DEF IInv, TypeOK
  <2>2. pc'[c] = csr[c].stvec
    BY <1>1, <2>1
  <2> HIDE DEF p
  <2> QED BY ONLY c \in CPUs, <1>1, <2>1, <2>2, SMTT(60) DEF Csr
<1>3. csr' \in [CPUs -> Csr] /\ pc' \in [CPUs -> Labels] /\ (user' \in [Procs -> UserState] => TypeOK') /\ NoPanic'
  <2>1. [label |-> pc[c], n |-> upc[c]] \in Addr
    BY Typed DEF Addr
  <2>2. csr' \in [CPUs -> Csr]
    <3> DEFINE r == [csr[c] EXCEPT !.spp = csr[c].mode, !.spie = csr[c].sie, !.sie = FALSE, !.mode = "S",
                                   !.scause = cause, !.sepc = [label |-> pc[c], n |-> upc[c]]]
    <3>1. r \in Csr
      <4>1. csr[c] \in Csr
        BY Typed
      <4> QED BY <2>1, <4>1 DEF Csr
    <3>2. csr' = [csr EXCEPT ![c] = r]
      BY <1>1 DEF IInv, TypeOK
    <3> QED BY <3>1, <3>2 DEF IInv, TypeOK
  <2>3. pc' \in [CPUs -> Labels]
    BY <1>1, Typed DEF IInv, TypeOK, Csr, Labels
  <2> QED BY <1>1, <2>2, <2>3 DEF IInv, TypeOK, NoPanic
<1>4. CASE csr[c].mode = "U"
  <2>1. /\ pc[c] = "user" /\ p \in Procs /\ p # NoProc /\ Where(c) = "user" /\ csr[c].stvec = "uservec"
        /\ csr[c].satp = p /\ csr[c].sie /\ reg[c] = UserRegs(p) /\ upc[c] = user[p].pc /\ user[p] \in UserState
    BY <1>0, <1>4, HasProc, Typed DEF Control, Registers
  <2>2. /\ user' \in [Procs -> UserState] /\ \A q \in Procs : q # p => user'[q] = user[q]
        /\ user'[p].pc = user[p].pc /\ user'[p].v = user[p].v
        /\ (IF cause = "syscall" THEN user'[p].ret ELSE user'[p] = user[p])
    BY <2>1 DEF Trap, IInv, TypeOK, UserState
  <2>3. Where(c)' = "uservec" /\ pc'[c] = "uservec"
    BY <1>2, <2>1 DEF Where
  <2>4. Others(c)
    BY <1>1, <2>2 DEF IInv, TypeOK, Others
  <2>5. Place(c)'
    BY <1>1, <2>1, <2>3 DEF Place
  <2>6. Control(c)'
    BY <1>1, <1>2, <1>4, <2>1, <2>2, <2>3 DEF Control
  <2>7. Registers(c)'
    <3>1. CASE cause = "syscall"
      <4>1. Agrees(reg[c], p, TRUE)'
        BY <1>1, <2>1, <2>2, <3>1, SMTT(60) DEF Agrees, UserRegs
      <4> QED BY <1>1, <1>2, <2>3, <3>1, <4>1 DEF Registers
    <3>2. CASE cause # "syscall"
      <4>1. user'[p] = user[p]
        BY <2>2, <3>2
      <4>2. UserRegs(p)' = UserRegs(p)
        BY <1>1, <4>1 DEF UserRegs
      <4>3. Agrees(reg[c], p, FALSE)'
        BY <1>1, <2>1, <4>1, <4>2, SMTT(60) DEF Agrees, UserRegs
      <4> QED BY <1>1, <1>2, <2>3, <3>2, <4>3 DEF Registers
    <3> QED BY <3>1, <3>2
  <2>8. Saved(c)'
    BY <1>0, <1>1, <2>1, <2>3 DEF Saved
  <2> QED BY <1>1, <1>3, <2>2, <2>4, <2>5, <2>6, <2>7, <2>8, Stays DEF OneCPU
<1>5. CASE csr[c].mode = "S"
  <2>1. csr[c].sie /\ cause # "syscall" /\ user' = user
    BY <1>5 DEF Trap
  <2>2. pc[c] \in {"kernel", "return", "window"} /\ csr[c].stvec = "kernelvec" /\ Where(c) = pc[c] /\ csr[c].satp = Kernel
    BY <1>0, <1>5, <2>1, HasProc DEF Control
  <2>3. Where(c)' = Where(c) /\ pc'[c] = "kernelvec" /\ Thread(c)' = Thread(c)
    BY <1>1, <1>2, <2>2 DEF Where, Thread
  <2>4. TypeOK' /\ Others(c)
    BY <1>1, <1>3, <2>1 DEF IInv, TypeOK, Others
  <2>5. Place(c)'
    BY <1>0, <1>1, <2>2, <2>3 DEF Place
  <2>6. Control(c)'
    BY <1>1, <1>2, <1>5, <2>1, <2>2, <2>3 DEF Control
  <2>7. Registers(c)'
    BY <1>0, <1>1, <2>2, <2>3 DEF Registers, KernelRegs
  <2>8. Saved(c)'
    <3>1. \A w : p # NoProc => (Ready(p, w)' <=> Ready(p, w))
      BY <1>1, <2>1 DEF Ready, Agrees, UserRegs
    <3> QED BY <1>0, <1>1, <2>2, <2>3, <3>1 DEF Saved
  <2> QED BY <1>1, <1>3, <2>4, <2>5, <2>6, <2>7, <2>8, Stays DEF OneCPU
<1> QED BY <1>4, <1>5, Typed DEF Csr

\* uservec saves user code's registers in the trapframe.
LEMMA UservecKeeps ==
  ASSUME IInv, NEW c \in CPUs, uservec(c)
  PROVE  IInv'
<1>0. Place(c) /\ Control(c) /\ Registers(c) /\ Saved(c)
  BY Here
<1> DEFINE p == proc[c]
<1>1. pc[c] = "uservec" /\ Where(c) = "uservec" /\ p \in Procs /\ p # NoProc /\ csr[c].satp = p /\ p # Kernel
  BY <1>0, HasProc, TrapAssumption DEF uservec, At, Control
<1>2. Agrees(reg[c], p, csr[c].scause = "syscall") /\ tf[p].hartid = Hart(c) /\ context[c].s = K(c) /\ context[c].sp = K(c)
  BY <1>0, <1>1 DEF Registers, Saved
<1>3. /\ tf' = [tf EXCEPT ![p].regs = reg[c]] /\ reg' = [reg EXCEPT ![c] = KernelRegs(p, c)]
      /\ csr' = [csr EXCEPT ![c].satp = Kernel] /\ pc' = [pc EXCEPT ![c] = "usertrap"]
      /\ UNCHANGED <<upc, proc, state, context, frame, user, panicked>>
  <2>1. [KernelRegs(p, c) EXCEPT !.tp = tf[p].hartid] = KernelRegs(p, c)
    BY <1>2, SMTT(60) DEF KernelRegs
  <2> QED BY <1>1, <2>1 DEF uservec, Goto
<1>4. /\ tf'[p].regs = reg[c] /\ tf'[p].epc = tf[p].epc /\ reg'[c] = KernelRegs(p, c) /\ pc'[c] = "usertrap"
      /\ csr'[c] = [csr[c] EXCEPT !.satp = Kernel]
  BY <1>1, <1>3, Typed DEF IInv, TypeOK, Trapframe
<1>5. /\ csr'[c].satp = Kernel /\ csr'[c].mode = csr[c].mode /\ csr'[c].stvec = csr[c].stvec /\ csr'[c].sie = csr[c].sie
      /\ csr'[c].spp = csr[c].spp /\ csr'[c].sepc = csr[c].sepc /\ csr'[c].scause = csr[c].scause /\ csr'[c] \in Csr
  BY <1>4, Typed DEF Csr
<1>6. TypeOK' /\ NoPanic'
  <2>1. reg' \in [CPUs -> RegFile]
    BY <1>1, <1>3, Regs DEF IInv, TypeOK
  <2>2. csr' \in [CPUs -> Csr]
    BY <1>3, <1>5 DEF IInv, TypeOK
  <2>3. tf' \in [Procs -> Trapframe]
    BY <1>1, <1>3, Typed DEF IInv, TypeOK, Trapframe
  <2>4. pc' \in [CPUs -> Labels]
    BY <1>3 DEF IInv, TypeOK, Labels
  <2> QED BY <1>3, <2>1, <2>2, <2>3, <2>4 DEF IInv, TypeOK, NoPanic
<1>7. Others(c)
  BY <1>3 DEF IInv, TypeOK, Others
<1>8. Where(c)' = "usertrap" /\ Thread(c)' = p
  BY <1>1, <1>3, <1>4 DEF Where, Thread
<1>9. Place(c)'
  BY <1>1, <1>3, <1>4, <1>8 DEF Place
<1>10. Control(c)'
  BY <1>0, <1>1, <1>3, <1>4, <1>5 DEF Control
<1>11. Registers(c)'
  BY <1>3, <1>4, <1>8 DEF Registers, KernelRegs
<1>12. Saved(c)'
  <2>1. \A r, b : Agrees(r, p, b)' <=> Agrees(r, p, b)
    BY <1>3 DEF Agrees, UserRegs
  <2>2. Agrees(tf[p].regs, p, csr[c].scause = "syscall")'
    BY <1>2, <1>3, <1>4, <1>5, <2>1
  <2> QED BY <1>2, <1>3, <1>8, <2>2 DEF Saved
<1> QED BY <1>3, <1>6, <1>7, <1>9, <1>10, <1>11, <1>12, Stays DEF OneCPU

\* usertrap() before the system call, yield() or the return.
LEMMA UsertrapKeeps ==
  ASSUME IInv, NEW c \in CPUs, usertrap(c)
  PROVE  IInv'
<1>0. Place(c) /\ Control(c) /\ Registers(c) /\ Saved(c)
  BY Here
<1> DEFINE p == proc[c]
           call == csr[c].scause = "syscall"
           next == IF call THEN "kernel" ELSE IF csr[c].scause = "timer" THEN "timer" ELSE "return"
           n == IF call THEN Bump(user[p].pc) ELSE user[p].pc
<1>1. /\ pc[c] = "usertrap" /\ Where(c) = "usertrap" /\ p \in Procs /\ p # NoProc /\ myproc(c) = p /\ Thread(c) = p
      /\ csr[c].spp = "U" /\ csr[c].sepc.n = user[p].pc /\ csr[c].satp = Kernel /\ csr[c].mode = "S"
  BY <1>0, HasProc, MyProc DEF usertrap, At, Control, Thread
<1>2. /\ Agrees(tf[p].regs, p, call) /\ context[c].s = K(c) /\ context[c].sp = K(c)
      /\ reg[c] = KernelRegs(p, c) /\ user[p] \in UserState /\ tf[p] \in Trapframe /\ csr[c] \in Csr
  BY <1>0, <1>1, Typed DEF Registers, Saved
<1>3. /\ tf' = [tf EXCEPT ![p].epc = n] /\ pc' = [pc EXCEPT ![c] = next]
      /\ csr' = [csr EXCEPT ![c].stvec = "kernelvec", ![c].sie = call]
      /\ user' = IF call THEN [user EXCEPT ![p].pc = Bump(@)] ELSE user
      /\ UNCHANGED <<reg, upc, proc, state, context, frame, panicked>>
  BY <1>1 DEF usertrap, Goto
<1>4. n \in 0..(NPC - 1) /\ next \in {"kernel", "timer", "return"} /\ (next = "kernel" <=> call)
  BY <1>2, BumpType DEF UserState
<1>5. /\ tf'[p].regs = tf[p].regs /\ tf'[p].epc = n /\ pc'[c] = next
      /\ csr'[c] = [csr[c] EXCEPT !.stvec = "kernelvec", !.sie = call]
  BY <1>1, <1>2, <1>3 DEF IInv, TypeOK, Trapframe
<1>6. user'[p].pc = n /\ user'[p].v = user[p].v /\ user'[p].ret = user[p].ret /\ user' \in [Procs -> UserState]
  <2>1. CASE call
    BY <1>1, <1>2, <1>3, <1>4, <2>1 DEF IInv, TypeOK, UserState
  <2>2. CASE ~ call
    BY <1>1, <1>2, <1>3, <2>2 DEF IInv, TypeOK
  <2> QED BY <2>1, <2>2
<1>7. /\ csr'[c].satp = Kernel /\ csr'[c].mode = "S" /\ csr'[c].stvec = "kernelvec" /\ csr'[c].sie = call
      /\ csr'[c] \in Csr
  BY <1>1, <1>2, <1>5 DEF Csr
<1>8. TypeOK' /\ NoPanic'
  <2>2. csr' \in [CPUs -> Csr]
    BY <1>3, <1>7 DEF IInv, TypeOK
  <2>3. tf' \in [Procs -> Trapframe]
    BY <1>1, <1>2, <1>3, <1>4 DEF IInv, TypeOK, Trapframe
  <2>4. pc' \in [CPUs -> Labels]
    BY <1>3, <1>4 DEF IInv, TypeOK, Labels
  <2> QED BY <1>3, <1>6, <2>2, <2>3, <2>4 DEF IInv, TypeOK, NoPanic
<1>9. Others(c)
  BY <1>3 DEF IInv, TypeOK, Others
<1>10. Where(c)' = next /\ Thread(c)' = p
  BY <1>1, <1>3, <1>4, <1>5 DEF Where, Thread
<1>11. Place(c)'
  BY <1>1, <1>3, <1>4, <1>5, <1>10 DEF Place
<1>12. Control(c)'
  BY <1>4, <1>5, <1>7 DEF Control
<1>13. Registers(c)'
  BY <1>2, <1>3, <1>4, <1>5, <1>10 DEF Registers, KernelRegs
<1>14. Saved(c)'
  <2>1. \A r, b : Agrees(r, p, b)' <=> Agrees(r, p, b)
    BY <1>3, <1>6 DEF Agrees, UserRegs
  <2>2. ASSUME NEW w, w = next PROVE Ready(p, w)'
    BY <1>2, <1>3, <1>4, <1>5, <1>6, <2>1, <2>2 DEF Ready
  <2> QED BY <1>2, <1>3, <1>4, <1>10, <2>2 DEF Saved
<1> QED BY <1>3, <1>8, <1>9, <1>11, <1>12, <1>13, <1>14, Stays DEF OneCPU

-----------------------------------------------------------------------------
(* System calls, and the way back to user code.                            *)

\* syscall() ends, and leaves its result in the trapframe.
LEMMA SyscallKeeps ==
  ASSUME IInv, NEW c \in CPUs, syscall(c)
  PROVE  IInv'
<1>0. Place(c) /\ Control(c) /\ Registers(c) /\ Saved(c)
  BY Here
<1> DEFINE p == proc[c]
<1>1. /\ pc[c] = "kernel" /\ Where(c) = "kernel" /\ p \in Procs /\ p # NoProc /\ myproc(c) = p /\ Thread(c) = p
      /\ tf[p] \in Trapframe
  BY <1>0, HasProc, MyProc, Typed DEF syscall, At
<1>2. Ready(p, "kernel") /\ context[c].s = K(c) /\ context[c].sp = K(c) /\ reg[c] = KernelRegs(p, c)
  BY <1>0, <1>1 DEF Registers, Saved
<1>3. /\ tf' = [tf EXCEPT ![p].regs.a0 = <<p, NPC>>] /\ pc' = [pc EXCEPT ![c] = "return"]
      /\ UNCHANGED <<reg, csr, upc, proc, state, context, frame, user, panicked>>
  BY <1>1 DEF syscall, Goto
<1>4. /\ tf'[p].regs = [tf[p].regs EXCEPT !.a0 = <<p, NPC>>] /\ tf'[p].epc = tf[p].epc /\ pc'[c] = "return"
      /\ tf'[p].hartid = tf[p].hartid
  BY <1>1, <1>3 DEF IInv, TypeOK, Trapframe
<1>5. /\ tf'[p].regs.a0 = <<p, NPC>> /\ tf'[p].regs.tp = tf[p].regs.tp /\ tf'[p].regs.sp = tf[p].regs.sp
      /\ tf'[p].regs.s = tf[p].regs.s /\ tf'[p].regs.t = tf[p].regs.t /\ tf'[p].regs \in RegFile
  <2>1. <<p, NPC>> \in Val
    BY <1>1, Values, TrapAssumption, SMTT(60)
  <2> QED BY <1>1, <1>4, <2>1 DEF Trapframe, RegFile
<1>6. TypeOK' /\ NoPanic'
  <2>1. tf' = [tf EXCEPT ![p] = [tf[p] EXCEPT !.regs = tf'[p].regs]]
    BY <1>1, <1>3, <1>4 DEF IInv, TypeOK
  <2>2. tf' \in [Procs -> Trapframe]
    BY <1>1, <1>5, <2>1 DEF IInv, TypeOK, Trapframe
  <2>3. pc' \in [CPUs -> Labels]
    BY <1>3 DEF IInv, TypeOK, Labels
  <2> QED BY <1>3, <2>2, <2>3 DEF IInv, TypeOK, NoPanic
<1>7. Others(c)
  BY <1>3 DEF IInv, TypeOK, Others
<1>8. Where(c)' = "return" /\ Thread(c)' = p
  BY <1>1, <1>3, <1>4 DEF Where, Thread
<1>9. Place(c)'
  BY <1>1, <1>3, <1>4, <1>8 DEF Place
<1>10. Control(c)'
  BY <1>0, <1>1, <1>3, <1>4 DEF Control
<1>11. Registers(c)'
  BY <1>2, <1>3, <1>4, <1>8 DEF Registers, KernelRegs
<1>12. Saved(c)'
  <2>1. user[p].ret /\ UserRegs(p)' = UserRegs(p) /\ UserRegs(p).a0 = <<p, NPC>>
    BY <1>2, <1>3 DEF Ready, Agrees, UserRegs
  <2>2. Ready(p, "return")'
    BY <1>2, <1>3, <1>4, <1>5, <2>1 DEF Ready, Agrees
  <2> QED BY <1>2, <1>3, <1>8, <2>2 DEF Saved
<1> QED BY <1>3, <1>6, <1>7, <1>9, <1>10, <1>11, <1>12, Stays DEF OneCPU

\* prepare_return() turns interrupts off before it sets the trap vector.
LEMMA IntrOffKeeps ==
  ASSUME IInv, NEW c \in CPUs, intr_off(c)
  PROVE  IInv'
<1>0. Place(c) /\ Control(c) /\ Registers(c) /\ Saved(c)
  BY Here
<1> DEFINE p == proc[c]
<1>1. pc[c] = "return" /\ Where(c) = "return" /\ p \in Procs /\ p # NoProc /\ Thread(c) = p /\ csr[c] \in Csr
  BY HasProc, Typed DEF intr_off, At
<1>2. Ready(p, "return") /\ context[c].s = K(c) /\ context[c].sp = K(c) /\ reg[c] = KernelRegs(p, c)
  BY <1>0, <1>1 DEF Registers, Saved
<1>3. /\ pc' = [pc EXCEPT ![c] = "prepare"] /\ csr' = [csr EXCEPT ![c].sie = FALSE, ![c].stvec = "uservec"]
      /\ UNCHANGED <<reg, upc, proc, state, tf, context, frame, user, panicked>>
  BY DEF intr_off, Goto
<1>4. pc'[c] = "prepare" /\ csr'[c] = [csr[c] EXCEPT !.sie = FALSE, !.stvec = "uservec"]
  BY <1>3 DEF IInv, TypeOK
<1>5. /\ csr'[c].satp = csr[c].satp /\ csr'[c].mode = csr[c].mode /\ csr'[c].stvec = "uservec" /\ csr'[c].sie = FALSE
      /\ csr'[c] \in Csr
  BY <1>1, <1>4 DEF Csr
<1>6. TypeOK' /\ NoPanic'
  <2>1. csr' \in [CPUs -> Csr] /\ pc' \in [CPUs -> Labels]
    BY <1>3, <1>5 DEF IInv, TypeOK, Labels
  <2> QED BY <1>3, <2>1 DEF IInv, TypeOK, NoPanic
<1>7. Others(c)
  BY <1>3 DEF IInv, TypeOK, Others
<1>8. Where(c)' = "prepare" /\ Thread(c)' = p
  BY <1>1, <1>3, <1>4 DEF Where, Thread
<1>9. Place(c)'
  BY <1>1, <1>3, <1>4, <1>8 DEF Place
<1>10. Control(c)'
  BY <1>0, <1>1, <1>4, <1>5 DEF Control
<1>11. Registers(c)'
  BY <1>2, <1>3, <1>4, <1>8 DEF Registers, KernelRegs
<1>12. Saved(c)'
  <2>1. Ready(p, "prepare")'
    BY <1>2, <1>3 DEF Ready, Agrees, UserRegs
  <2> QED BY <1>2, <1>3, <1>8, <2>1 DEF Saved
<1> QED BY <1>3, <1>6, <1>7, <1>9, <1>10, <1>11, <1>12, Stays DEF OneCPU

\* The rest of prepare_return().
LEMMA PrepareKeeps ==
  ASSUME IInv, NEW c \in CPUs, prepare_return(c)
  PROVE  IInv'
<1>0. Place(c) /\ Control(c) /\ Registers(c) /\ Saved(c)
  BY Here
<1> DEFINE p == proc[c]
           back == [label |-> "user", n |-> tf[p].epc]
<1>1. /\ pc[c] = "prepare" /\ Where(c) = "prepare" /\ p \in Procs /\ p # NoProc /\ Thread(c) = p /\ myproc(c) = p
      /\ csr[c] \in Csr /\ tf[p] \in Trapframe /\ reg[c].tp = Hart(c) /\ Hart(c) \in Val
  BY HasProc, MyProc, Typed, Values DEF prepare_return, At
<1>2. Ready(p, "prepare") /\ context[c].s = K(c) /\ context[c].sp = K(c) /\ reg[c] = KernelRegs(p, c)
  BY <1>0, <1>1 DEF Registers, Saved
<1>3. /\ tf' = [tf EXCEPT ![p].hartid = Hart(c)] /\ pc' = [pc EXCEPT ![c] = "userret"]
      /\ csr' = [csr EXCEPT ![c].spp = "U", ![c].spie = TRUE, ![c].sepc = back]
      /\ UNCHANGED <<reg, upc, proc, state, context, frame, user, panicked>>
  BY <1>1 DEF prepare_return, Goto
<1>4. /\ pc'[c] = "userret" /\ csr'[c] = [csr[c] EXCEPT !.spp = "U", !.spie = TRUE, !.sepc = back]
      /\ tf'[p].regs = tf[p].regs /\ tf'[p].epc = tf[p].epc /\ tf'[p].hartid = Hart(c)
  BY <1>1, <1>3 DEF IInv, TypeOK, Trapframe
<1>5. /\ csr'[c].satp = csr[c].satp /\ csr'[c].mode = csr[c].mode /\ csr'[c].stvec = csr[c].stvec
      /\ csr'[c].sie = csr[c].sie /\ csr'[c].spp = "U" /\ csr'[c].spie = TRUE /\ csr'[c].sepc = back /\ csr'[c] \in Csr
  <2>1. back \in Addr
    BY <1>1 DEF Addr, Trapframe, Labels
  <2>2. csr'[c] \in Csr
    BY <1>1, <1>4, <2>1 DEF Csr
  <2> QED BY <1>1, <1>4, <2>2 DEF Csr
<1>6. TypeOK' /\ NoPanic'
  <2>1. csr' \in [CPUs -> Csr]
    BY <1>3, <1>5 DEF IInv, TypeOK
  <2>2. pc' \in [CPUs -> Labels]
    BY <1>3 DEF IInv, TypeOK, Labels
  <2>3. tf' \in [Procs -> Trapframe]
    BY <1>1, <1>3 DEF IInv, TypeOK, Trapframe
  <2> QED BY <1>3, <2>1, <2>2, <2>3 DEF IInv, TypeOK, NoPanic
<1>7. Others(c)
  BY <1>3 DEF IInv, TypeOK, Others
<1>8. Where(c)' = "userret" /\ Thread(c)' = p
  BY <1>1, <1>3, <1>4 DEF Where, Thread
<1>9. Place(c)'
  BY <1>1, <1>3, <1>4, <1>8 DEF Place
<1>10. Control(c)'
  BY <1>0, <1>1, <1>3, <1>4, <1>5, SMTT(60) DEF Control
<1>11. Registers(c)'
  BY <1>2, <1>3, <1>4, <1>8 DEF Registers, KernelRegs
<1>12. Saved(c)'
  <2>1. UserRegs(p)' = UserRegs(p)
    BY <1>3 DEF UserRegs
  <2>2. Ready(p, "userret")'
    BY <1>2, <1>3, <1>4, <2>1 DEF Ready, Agrees
  <2> QED BY <1>2, <1>3, <1>4, <1>8, <2>2 DEF Saved
<1> QED BY <1>3, <1>6, <1>7, <1>9, <1>10, <1>11, <1>12, Stays DEF OneCPU

\* userret restores user code's registers.
LEMMA UserretKeeps ==
  ASSUME IInv, NEW c \in CPUs, userret(c)
  PROVE  IInv'
<1>0. Place(c) /\ Control(c) /\ Registers(c) /\ Saved(c)
  BY Here
<1> DEFINE p == proc[c]
<1>1. /\ pc[c] = "userret" /\ Where(c) = "userret" /\ p \in Procs /\ p # NoProc /\ myproc(c) = p
      /\ csr[c] \in Csr /\ tf[p] \in Trapframe
  BY HasProc, MyProc, Typed DEF userret, At
<1>2. /\ Ready(p, "userret") /\ context[c].s = K(c) /\ context[c].sp = K(c) /\ tf[p].hartid = Hart(c)
      /\ csr[c].spp = "U" /\ csr[c].spie /\ csr[c].sepc = [label |-> "user", n |-> tf[p].epc] /\ csr[c].stvec = "uservec"
  BY <1>0, <1>1 DEF Control, Saved
<1>3. /\ reg' = [reg EXCEPT ![c] = tf[p].regs] /\ pc' = [pc EXCEPT ![c] = "user"] /\ upc' = [upc EXCEPT ![c] = tf[p].epc]
      /\ csr' = [csr EXCEPT ![c].satp = p, ![c].mode = csr[c].spp, ![c].sie = csr[c].spie]
      /\ UNCHANGED <<proc, state, tf, context, frame, user, panicked>>
  BY <1>1, <1>2, SMTT(60) DEF userret, Goto
<1>4. /\ pc'[c] = "user" /\ reg'[c] = tf[p].regs /\ upc'[c] = tf[p].epc
      /\ csr'[c] = [csr[c] EXCEPT !.satp = p, !.mode = csr[c].spp, !.sie = csr[c].spie]
  BY <1>3 DEF IInv, TypeOK
<1>5. /\ csr'[c].satp = p /\ csr'[c].mode = "U" /\ csr'[c].stvec = "uservec" /\ csr'[c].sie = csr[c].spie
      /\ csr'[c] \in Csr
  BY <1>1, <1>2, <1>4 DEF Csr
<1>6. TypeOK' /\ NoPanic'
  <2>1. csr' \in [CPUs -> Csr]
    BY <1>3, <1>5 DEF IInv, TypeOK
  <2>2. pc' \in [CPUs -> Labels] /\ upc' \in [CPUs -> 0..(NPC - 1)] /\ reg' \in [CPUs -> RegFile]
    BY <1>1, <1>3 DEF IInv, TypeOK, Labels, Trapframe
  <2> QED BY <1>3, <2>1, <2>2 DEF IInv, TypeOK, NoPanic
<1>7. Others(c)
  BY <1>3 DEF IInv, TypeOK, Others
<1>8. Where(c)' = "user"
  BY <1>4 DEF Where
<1>9. Place(c)'
  BY <1>1, <1>3, <1>4, <1>8 DEF Place
<1>10. Control(c)'
  BY <1>2, <1>3, <1>4, <1>5 DEF Control
<1>11. Registers(c)'
  <2>1. tf[p].regs \in RegFile /\ UserRegs(p) \in RegFile
    BY <1>1, UserRegsType DEF IInv, Trapframe
  <2>2. Agrees(tf[p].regs, p, FALSE) /\ tf[p].epc = user[p].pc
    BY <1>2 DEF Ready, Agrees
  <2>3. /\ UserRegs(p).tp = <<p, user[p].v>> /\ UserRegs(p).sp = <<p, user[p].v>> /\ UserRegs(p).s = <<p, user[p].v>>
        /\ UserRegs(p).t = <<p, user[p].v>>
    BY DEF UserRegs
  <2>4. tf[p].regs = UserRegs(p)
    BY <2>1, <2>2, <2>3, SameRegs DEF Agrees
  <2>5. UserRegs(p)' = UserRegs(p)
    BY <1>3 DEF UserRegs
  <2> QED BY <1>3, <1>4, <2>2, <2>4, <2>5 DEF Registers
<1>12. Saved(c)'
  BY <1>2, <1>3, <1>8 DEF Saved
<1> QED BY <1>3, <1>6, <1>7, <1>9, <1>10, <1>11, <1>12, Stays DEF OneCPU

-----------------------------------------------------------------------------
(* Traps from kernel code.                                                 *)

\* kernelvec and kerneltrap() save what the trap may change.
LEMMA KerneltrapKeeps ==
  ASSUME IInv, NEW c \in CPUs, kerneltrap(c)
  PROVE  IInv'
<1>0. Place(c) /\ Control(c) /\ Registers(c) /\ Saved(c)
  BY Here
<1>x. PICK x : x = Thread(c)
  OBVIOUS
<1> DEFINE f == [t |-> K(x), a0 |-> K(x), tp |-> Hart(c), sepc |-> csr[c].sepc, spp |-> csr[c].spp, spie |-> csr[c].spie]
           next == IF csr[c].scause = "timer" /\ proc[c] # NoProc THEN "ktimer" ELSE "kret"
<1>1. /\ pc[c] = "kernelvec" /\ Where(c) = csr[c].sepc.label /\ myproc(c) = proc[c] /\ reg[c].sp[2] = x
      /\ x \in Procs \cup CPUs /\ csr[c] \in Csr /\ reg[c] = KernelRegs(x, c) /\ Hart(c) \in Val /\ K(x) \in Val
  BY <1>0, <1>x, HasProc, MyProc, Typed, Values DEF kerneltrap, At, Registers
<1>2. csr[c].spp = "S" /\ csr[c].spie /\ ~ csr[c].sie /\ Where(c) \in {"kernel", "return", "window"}
  BY <1>0, <1>1 DEF Control, Place
<1>3. /\ frame' = [frame EXCEPT ![x] = f] /\ pc' = [pc EXCEPT ![c] = next]
      /\ reg' = [reg EXCEPT ![c].t = <<"k", "trap">>, ![c].a0 = <<"k", "trap">>]
      /\ UNCHANGED <<csr, upc, proc, state, tf, context, user, panicked>>
  <2>1. reg[c].t = K(x) /\ reg[c].a0 = K(x) /\ reg[c].tp = Hart(c)
    BY <1>1, SMTT(60) DEF KernelRegs
  <2> QED BY <1>1, <1>2, <2>1 DEF kerneltrap, Goto
<1>4. next \in {"ktimer", "kret"} /\ (next = "ktimer" => proc[c] # NoProc)
  OBVIOUS
<1>5. frame'[x] = f /\ pc'[c] = next /\ reg'[c] = [reg[c] EXCEPT !.t = <<"k", "trap">>, !.a0 = <<"k", "trap">>]
  BY <1>1, <1>3 DEF IInv, TypeOK
<1>6. reg'[c].tp = Hart(c) /\ reg'[c].sp = K(x) /\ reg'[c].s = K(x) /\ reg'[c] \in RegFile
  <2>1. reg[c] \in RegFile /\ reg[c].tp = Hart(c) /\ reg[c].sp = K(x) /\ reg[c].s = K(x)
    BY <1>1, Regs, SMTT(60) DEF KernelRegs
  <2> QED BY <1>5, <2>1, Values DEF RegFile
<1>7. TypeOK' /\ NoPanic'
  <2>1. f \in Stack
    BY <1>1 DEF Stack, Csr
  <2>2. frame' \in [Procs \cup CPUs -> Stack]
    BY <1>3, <2>1 DEF IInv, TypeOK
  <2>3. reg' \in [CPUs -> RegFile]
    BY <1>3, <1>6 DEF IInv, TypeOK
  <2>4. pc' \in [CPUs -> Labels]
    BY <1>3, <1>4 DEF IInv, TypeOK, Labels
  <2> QED BY <1>3, <2>2, <2>3, <2>4 DEF IInv, TypeOK, NoPanic
<1>8. \A y \in Procs \cup CPUs : y = x => y = c \/ (y = proc[c] /\ y \notin CPUs)
  BY <1>x, Typed, TrapAssumption, SMTT(60) DEF Thread
<1>9. Others(c)
  <2>1. \A d \in CPUs : d # c => frame'[d] = frame[d]
    BY <1>3, <1>8 DEF IInv, TypeOK
  <2>2. \A q \in Procs : q # proc[c] => frame'[q] = frame[q]
    BY <1>3, <1>8, TrapAssumption DEF IInv, TypeOK
  <2> QED BY <1>3, <2>1, <2>2 DEF IInv, TypeOK, Others
<1>10. Thread(c)' = x /\ Where(c)' = Where(c)
  BY <1>x, <1>1, <1>3, <1>4, <1>5, SMTT(60) DEF Where, Thread
<1>11. Place(c)'
  BY <1>0, <1>2, <1>3, <1>4, <1>5, <1>10 DEF Place
<1>12. Control(c)'
  BY <1>0, <1>1, <1>2, <1>3, <1>4, <1>5 DEF Control
<1>13. Registers(c)'
  <2>1. Frame(x)'
    BY <1>2, <1>5, SMTT(60) DEF Frame
  <2> QED BY <1>4, <1>5, <1>6, <1>10, <2>1 DEF Registers
<1>14. Saved(c)'
  <2>1. proc[c] # NoProc => \A w : Ready(proc[c], w)' <=> Ready(proc[c], w)
    BY <1>3 DEF Ready, Agrees, UserRegs
  <2> QED BY <1>0, <1>2, <1>3, <1>10, <2>1 DEF Saved
<1> QED BY <1>3, <1>7, <1>9, <1>11, <1>12, <1>13, <1>14, Stays DEF OneCPU

\* The end of kerneltrap() and kernelvec, on whichever CPU the thread is by now.
LEMMA KernelretKeeps ==
  ASSUME IInv, NEW c \in CPUs, kernelret(c)
  PROVE  IInv'
<1>0. Place(c) /\ Control(c) /\ Registers(c) /\ Saved(c)
  BY Here
<1>x. PICK x : x = Thread(c)
  OBVIOUS
<1> DEFINE f == frame[x]
<1>1. /\ pc[c] = "kret" /\ Where(c) = f.sepc.label /\ reg[c].sp[2] = x /\ x \in Procs \cup CPUs /\ f \in Stack
      /\ csr[c] \in Csr /\ reg[c] \in RegFile /\ reg[c].tp = Hart(c) /\ reg[c].sp = K(x) /\ reg[c].s = K(x)
  BY <1>x, HasProc, MyProc, Typed DEF kernelret, At
<1>2. f.t = K(x) /\ f.a0 = K(x) /\ f.spp = "S" /\ f.spie /\ f.sepc.label \in {"kernel", "return", "window"}
  BY <1>0, <1>x, <1>1 DEF Registers, Place, Frame
<1>3. /\ reg' = [reg EXCEPT ![c].t = f.t, ![c].a0 = f.a0] /\ pc' = [pc EXCEPT ![c] = f.sepc.label]
      /\ csr' = [csr EXCEPT ![c].sepc = f.sepc, ![c].spp = f.spp, ![c].mode = f.spp, ![c].spie = f.spie, ![c].sie = f.spie]
      /\ UNCHANGED <<upc, proc, state, tf, context, frame, user, panicked>>
  BY <1>1 DEF kernelret, Goto
<1>4. /\ pc'[c] = f.sepc.label /\ reg'[c] = [reg[c] EXCEPT !.t = f.t, !.a0 = f.a0]
      /\ csr'[c] = [csr[c] EXCEPT !.sepc = f.sepc, !.spp = f.spp, !.mode = f.spp, !.spie = f.spie, !.sie = f.spie]
  BY <1>3 DEF IInv, TypeOK
<1>5. /\ csr'[c].satp = csr[c].satp /\ csr'[c].mode = "S" /\ csr'[c].stvec = csr[c].stvec /\ csr'[c].sie = f.spie
      /\ csr'[c] \in Csr
  <2>1. csr'[c].satp = csr[c].satp /\ csr'[c].mode = f.spp /\ csr'[c].stvec = csr[c].stvec /\ csr'[c].sie = f.spie
    BY <1>1, <1>4 DEF Csr
  <2>2. csr'[c] \in Csr
    BY <1>1, <1>4 DEF Csr, Stack
  <2> QED BY <1>2, <2>1, <2>2
<1>6. reg'[c] = KernelRegs(x, c) /\ KernelRegs(x, c) \in RegFile
  BY <1>1, <1>2, <1>4, Regs DEF KernelRegs, RegFile
<1>7. TypeOK' /\ NoPanic'
  <2>1. csr' \in [CPUs -> Csr]
    BY <1>3, <1>5 DEF IInv, TypeOK
  <2>2. reg' \in [CPUs -> RegFile]
    BY <1>3, <1>6 DEF IInv, TypeOK
  <2>3. pc' \in [CPUs -> Labels]
    BY <1>2, <1>3 DEF IInv, TypeOK, Labels
  <2> QED BY <1>3, <2>1, <2>2, <2>3 DEF IInv, TypeOK, NoPanic
<1>8. Others(c)
  BY <1>3 DEF IInv, TypeOK, Others
<1>9. Thread(c)' = x /\ Where(c)' = Where(c)
  BY <1>x, <1>1, <1>2, <1>3, <1>4 DEF Where, Thread
<1>10. Place(c)'
  BY <1>0, <1>1, <1>2, <1>3, <1>4, <1>9 DEF Place
<1>11. Control(c)'
  <2>1. csr[c].satp = Kernel /\ csr[c].stvec = "kernelvec"
    BY <1>0, <1>1 DEF Control
  <2>2. csr'[c].satp = Kernel /\ csr'[c].stvec = "kernelvec" /\ csr'[c].sie /\ pc'[c] \in {"kernel", "return", "window"}
    BY <1>2, <1>4, <1>5, <2>1
  <2> QED BY <1>5, <2>2 DEF Control
<1>12. Registers(c)'
  BY <1>2, <1>4, <1>6, <1>9 DEF Registers, KernelRegs
<1>13. Saved(c)'
  <2>1. proc[c] # NoProc => \A w : Ready(proc[c], w)' <=> Ready(proc[c], w)
    BY <1>3 DEF Ready, Agrees, UserRegs
  <2> QED BY <1>0, <1>1, <1>2, <1>3, <1>9, <2>1 DEF Saved
<1> QED BY <1>3, <1>7, <1>8, <1>10, <1>11, <1>12, <1>13, Stays DEF OneCPU

-----------------------------------------------------------------------------
(* Context switches.                                                       *)

\* sched(), called by yield() or by sleep().
LEMMA SwitchKeeps ==
  ASSUME IInv, NEW c \in CPUs, NEW ra, Switch(c, ra),
         <<pc[c], ra>> \in {<<"timer", "return">>, <<"ktimer", "kret">>, <<"kernel", "kernel">>}
  PROVE  IInv'
<1>0. Place(c) /\ Control(c) /\ Registers(c) /\ Saved(c)
  BY Here
<1>p. PICK p : p = proc[c]
  OBVIOUS
<1> DEFINE ctx == [s |-> K(p), sp |-> K(p), ra |-> ra, intena |-> csr[c].sie]
<1>a. \/ pc[c] = "timer" /\ ra = "return"
      \/ pc[c] = "ktimer" /\ ra = "kret"
      \/ pc[c] = "kernel" /\ ra = "kernel"
  OBVIOUS
<1>1. /\ p \in Procs /\ p # NoProc /\ Thread(c) = p /\ myproc(c) = p /\ reg[c].tp[2] = c /\ reg[c].tp = Hart(c)
      /\ reg[c].sp = K(p) /\ reg[c].s = K(p) /\ reg[c] \in RegFile /\ csr[c] \in Csr
  BY <1>p, <1>a, HasProc, MyProc, Typed, SMTT(60)
<1>2. context[c].s = K(c) /\ context[c].sp = K(c) /\ c # p
  BY <1>0, <1>p, <1>1, TrapAssumption DEF Saved
<1>3. /\ context' = [context EXCEPT ![p] = ctx] /\ state' = [state EXCEPT ![p] = "RUNNABLE"]
      /\ proc' = [proc EXCEPT ![c] = NoProc] /\ csr' = [csr EXCEPT ![c].sie = FALSE] /\ pc' = [pc EXCEPT ![c] = "sched"]
      /\ reg' = [reg EXCEPT ![c].s = K(c), ![c].sp = K(c), ![c].t = K(c), ![c].a0 = K(c)]
      /\ UNCHANGED <<upc, tf, frame, user, panicked>>
  BY <1>1, <1>2 DEF Switch, Goto
<1>4. /\ context'[p] = ctx /\ state'[p] = "RUNNABLE" /\ proc'[c] = NoProc /\ pc'[c] = "sched"
      /\ csr'[c] = [csr[c] EXCEPT !.sie = FALSE] /\ reg'[c] = [reg[c] EXCEPT !.s = K(c), !.sp = K(c), !.t = K(c), !.a0 = K(c)]
  BY <1>1, <1>3 DEF IInv, TypeOK
<1>5. csr'[c].satp = csr[c].satp /\ csr'[c].mode = csr[c].mode /\ csr'[c].stvec = csr[c].stvec /\ csr'[c].sie = FALSE /\ csr'[c] \in Csr
  BY <1>1, <1>4 DEF Csr
<1>6. reg'[c] = KernelRegs(c, c) /\ KernelRegs(c, c) \in RegFile
  BY <1>1, <1>4, Regs DEF KernelRegs, RegFile
<1>7. TypeOK' /\ NoPanic'
  <2>1. ctx \in Context
    BY <1>a, <1>1, Values DEF Context, Csr, Labels
  <2>2. context' \in [Procs \cup CPUs -> Context]
    BY <1>3, <2>1 DEF IInv, TypeOK
  <2>3. csr' \in [CPUs -> Csr] /\ reg' \in [CPUs -> RegFile]
    BY <1>3, <1>5, <1>6 DEF IInv, TypeOK
  <2>4. pc' \in [CPUs -> Labels] /\ proc' \in [CPUs -> Procs \cup {NoProc}] /\ state' \in [Procs -> {"RUNNABLE", "RUNNING"}]
    BY <1>3 DEF IInv, TypeOK, Labels
  <2> QED BY <1>3, <2>2, <2>3, <2>4 DEF IInv, TypeOK, NoPanic
<1>8. /\ \A d \in CPUs : proc'[d] = IF d = c THEN NoProc ELSE proc[d]
      /\ \A q \in Procs : state'[q] = IF q = p THEN "RUNNABLE" ELSE state[q]
  BY <1>3 DEF IInv, TypeOK
<1>9. Placed'
  <2>1. \A d, e \in CPUs : proc'[d] # NoProc /\ proc'[d] = proc'[e] => d = e
    BY <1>8, SMTT(60) DEF IInv, Placed
  <2>2. \A d \in CPUs : proc'[d] # p
    BY <1>p, <1>1, <1>8, SMTT(60) DEF IInv, Placed
  <2>3. \A q \in Procs : q # p => ((\E d \in CPUs : proc'[d] = q) <=> (\E d \in CPUs : proc[d] = q))
    BY <1>p, <1>8, TrapAssumption
  <2> QED BY <1>8, <2>1, <2>2, <2>3 DEF IInv, Placed
<1>10. Others(c)
  BY <1>p, <1>1, <1>3, TrapAssumption DEF IInv, TypeOK, Others
<1>11. Where(c)' = "sched" /\ Thread(c)' = c
  BY <1>4 DEF Where, Thread
<1>12. OneCPU(c)'
  <2>1. Place(c)'
    BY <1>4, <1>11 DEF Place
  <2>2. csr[c].satp = Kernel /\ csr[c].mode = "S" /\ csr[c].stvec = "kernelvec"
    BY <1>0, <1>a DEF Control
  <2>3. Control(c)'
    BY <1>4, <1>5, <2>2 DEF Control
  <2>4. Registers(c)'
    BY <1>4, <1>6, <1>11 DEF Registers, KernelRegs
  <2>5. Saved(c)'
    BY <1>4 DEF Saved
  <2> QED BY <2>1, <2>3, <2>4, <2>5 DEF OneCPU
<1>13. Parked(p)'
  <2>1. \A w : Ready(p, w)' <=> Ready(p, w)
    BY <1>3 DEF Ready, Agrees, UserRegs
  <2>2. csr[c].sie <=> ra = "kernel"
    BY <1>0, <1>a DEF Control
  <2>3. /\ context'[p].s = K(p) /\ context'[p].sp = K(p) /\ context'[p].ra = ra
        /\ (context'[p].intena <=> ra = "kernel") /\ frame' = frame
    BY <1>3, <1>4, <2>2, SMTT(60)
  <2>4. CASE pc[c] = "ktimer"
    <3>1. ra = "kret" /\ Where(c) = frame[p].sepc.label /\ Where(c) \in {"kernel", "return"}
      BY <1>0, <1>p, <1>a, <1>1, <2>4, HasProc DEF Place
    <3>2. Ready(p, frame[p].sepc.label) /\ Frame(p)
      BY <1>0, <1>p, <1>1, <2>4, <3>1 DEF Saved, Registers
    <3>3. Frame(p)'
      BY <2>3, <3>2 DEF Frame
    <3> QED BY <2>1, <2>3, <3>1, <3>2, <3>3 DEF Parked
  <2>5. CASE pc[c] # "ktimer"
    <3>1. Where(c) = pc[c] /\ (pc[c] = "timer" => ra = "return") /\ ra \in {"return", "kernel"} /\ (pc[c] = "kernel" <=> ra = "kernel")
      BY <1>a, <2>5, HasProc
    <3>2. Ready(p, pc[c])
      BY <1>0, <1>p, <1>1, <1>a, <2>5, <3>1 DEF Saved
    <3>3. Ready(p, ra)
      BY <3>1, <3>2 DEF Ready
    <3> QED BY <2>1, <2>3, <3>1, <3>3 DEF Parked
  <2> QED BY <2>4, <2>5
<1> QED BY <1>p, <1>4, <1>7, <1>9, <1>10, <1>12, <1>13, Compose, TrapAssumption

\* The scheduler opens and closes its window with interrupts on.
LEMMA WindowKeeps ==
  ASSUME IInv, NEW c \in CPUs, scheduler_intr(c)
  PROVE  IInv'
<1>0. Place(c) /\ Control(c) /\ Registers(c) /\ Saved(c)
  BY Here
<1> DEFINE next == IF pc[c] = "sched" THEN "window" ELSE "pick"
<1>1. /\ pc[c] \in {"sched", "window"} /\ proc[c] = NoProc /\ Where(c) = pc[c] /\ csr[c] \in Csr
      /\ reg[c] = KernelRegs(c, c)
  BY <1>0, HasProc, Typed DEF scheduler_intr, Registers, Thread
<1>2. /\ csr' = [csr EXCEPT ![c].sie = pc[c] = "sched"] /\ pc' = [pc EXCEPT ![c] = next]
      /\ UNCHANGED <<reg, upc, proc, state, tf, context, frame, user, panicked>>
  BY DEF scheduler_intr, Goto
<1>3. csr'[c] = [csr[c] EXCEPT !.sie = pc[c] = "sched"] /\ pc'[c] = next
  BY <1>2 DEF IInv, TypeOK
<1>4. /\ csr'[c].satp = csr[c].satp /\ csr'[c].mode = csr[c].mode /\ csr'[c].stvec = csr[c].stvec
      /\ csr'[c].sie = (pc[c] = "sched") /\ csr'[c] \in Csr
  BY <1>1, <1>3 DEF Csr
<1>5. next \in {"window", "pick"} /\ (csr'[c].sie <=> next = "window")
  BY <1>1, <1>4
<1>6. TypeOK' /\ NoPanic'
  <2>1. csr' \in [CPUs -> Csr]
    BY <1>2, <1>4 DEF IInv, TypeOK
  <2>2. pc' \in [CPUs -> Labels]
    BY <1>2, <1>5 DEF IInv, TypeOK, Labels
  <2> QED BY <1>2, <2>1, <2>2 DEF IInv, TypeOK, NoPanic
<1>7. Others(c)
  BY <1>2 DEF IInv, TypeOK, Others
<1>8. Where(c)' = next /\ Thread(c)' = c
  BY <1>1, <1>2, <1>3, <1>5 DEF Where, Thread
<1>9. Place(c)'
  BY <1>1, <1>2, <1>3, <1>5, <1>8 DEF Place
<1>10. Control(c)'
  <2>1. csr[c].satp = Kernel /\ csr[c].mode = "S" /\ csr[c].stvec = "kernelvec"
    BY <1>0, <1>1 DEF Control
  <2> QED BY <1>3, <1>4, <1>5, <2>1 DEF Control
<1>11. Registers(c)'
  BY <1>1, <1>2, <1>3, <1>5, <1>8 DEF Registers, KernelRegs
<1>12. Saved(c)'
  BY <1>1, <1>2 DEF Saved
<1> QED BY <1>2, <1>6, <1>7, <1>9, <1>10, <1>11, <1>12, Stays DEF OneCPU

\* The scheduler switches to a process.
LEMMA PickKeeps ==
  ASSUME IInv, NEW c \in CPUs, pc[c] = "pick", NEW p \in Procs, state[p] = "RUNNABLE",
         state' = [state EXCEPT ![p] = "RUNNING"], proc' = [proc EXCEPT ![c] = p],
         context' = [context EXCEPT ![c] = [s |-> reg[c].s, sp |-> reg[c].sp, ra |-> "sched", intena |-> FALSE]],
         reg' = [reg EXCEPT ![c].s = context[p].s, ![c].sp = context[p].sp, ![c].t = K(p), ![c].a0 = K(p)],
         csr' = [csr EXCEPT ![c].sie = context[p].intena], pc' = [pc EXCEPT ![c] = context[p].ra],
         UNCHANGED <<upc, tf, frame, user, panicked>>
  PROVE  IInv'
<1>0. Place(c) /\ Control(c) /\ Registers(c) /\ Saved(c) /\ Parked(p)
  BY Here DEF IInv
<1> DEFINE ra == context[p].ra
           where == IF ra = "kret" THEN frame[p].sepc.label ELSE ra
<1>1. /\ proc[c] = NoProc /\ reg[c].tp = Hart(c) /\ reg[c].sp = K(c) /\ reg[c].s = K(c) /\ reg[c] \in RegFile
      /\ csr[c] \in Csr /\ p # NoProc /\ p # c
  BY HasProc, MyProc, Typed, TrapAssumption, SMTT(60) DEF Thread
<1>2. /\ context[p].s = K(p) /\ context[p].sp = K(p) /\ ra \in {"return", "kret", "kernel"}
      /\ (context[p].intena <=> ra = "kernel") /\ where \in {"kernel", "return"} /\ Ready(p, where)
      /\ (ra = "kret" => Frame(p)) /\ context[p] \in Context
  BY <1>0 DEF Parked, IInv, TypeOK
<1>3. csr[c].satp = Kernel /\ csr[c].mode = "S" /\ csr[c].stvec = "kernelvec"
  BY <1>0 DEF Control
<1>4. /\ state'[p] = "RUNNING" /\ proc'[c] = p /\ pc'[c] = ra /\ csr'[c] = [csr[c] EXCEPT !.sie = context[p].intena]
      /\ reg'[c] = [reg[c] EXCEPT !.s = K(p), !.sp = K(p), !.t = K(p), !.a0 = K(p)]
      /\ context'[c] = [s |-> K(c), sp |-> K(c), ra |-> "sched", intena |-> FALSE]
  BY <1>1, <1>2 DEF IInv, TypeOK
<1>5. /\ csr'[c].satp = Kernel /\ csr'[c].mode = "S" /\ csr'[c].stvec = "kernelvec" /\ csr'[c].sie = context[p].intena
      /\ csr'[c] \in Csr
  BY <1>1, <1>2, <1>3, <1>4, SMTT(60) DEF Csr, Context
<1>6. reg'[c] = KernelRegs(p, c) /\ KernelRegs(p, c) \in RegFile
  <2>1. KernelRegs(p, c) \in RegFile /\ K(p) \in Val
    BY Regs, Values
  <2> QED BY ONLY <1>1, <1>4, <2>1, ZenonT(60) DEF KernelRegs, RegFile
<1>7. TypeOK' /\ NoPanic'
  <2>1. context'[c] \in Context
    <3>1. K(c) \in Val
      BY Values
    <3> QED BY ONLY <1>4, <3>1, SMTT(60) DEF Context, Labels
  <2>2. context' \in [Procs \cup CPUs -> Context]
    BY <2>1 DEF IInv, TypeOK
  <2>3. csr' \in [CPUs -> Csr] /\ reg' \in [CPUs -> RegFile]
    BY <1>5, <1>6 DEF IInv, TypeOK
  <2>4. pc' \in [CPUs -> Labels]
    BY <1>2 DEF IInv, TypeOK, Labels
  <2>5. proc' \in [CPUs -> Procs \cup {NoProc}] /\ state' \in [Procs -> {"RUNNABLE", "RUNNING"}]
    BY DEF IInv, TypeOK
  <2> QED BY <2>2, <2>3, <2>4, <2>5 DEF IInv, TypeOK, NoPanic
<1>8. /\ \A d \in CPUs : proc'[d] = IF d = c THEN p ELSE proc[d]
      /\ \A q \in Procs : state'[q] = IF q = p THEN "RUNNING" ELSE state[q]
  BY DEF IInv, TypeOK
<1>9. Placed'
  <2>1. \A d \in CPUs : proc[d] # p
    BY DEF IInv, Placed
  <2>2. \A d, e \in CPUs : proc'[d] # NoProc /\ proc'[d] = proc'[e] => d = e
    BY <1>8, <2>1, SMTT(60) DEF IInv, Placed
  <2>3. \A q \in Procs : q # p => ((\E d \in CPUs : proc'[d] = q) <=> (\E d \in CPUs : proc[d] = q))
    BY <1>1, <1>8, TrapAssumption
  <2> QED BY <1>8, <2>2, <2>3, SMTT(60) DEF IInv, Placed
<1>10. Others(c)
  BY <1>4, TrapAssumption DEF IInv, TypeOK, Others
<1>11. Where(c)' = where /\ Thread(c)' = p
  BY <1>1, <1>2, <1>4 DEF Where, Thread
<1>12. OneCPU(c)'
  <2>1. Place(c)'
    BY <1>1, <1>2, <1>4, <1>11 DEF Place
  <2>2. Control(c)'
    BY <1>2, <1>4, <1>5, SMTT(60) DEF Control
  <2>3. Registers(c)'
    <3>1. ra = "kret" => Frame(p)'
      BY <1>2 DEF Frame
    <3>2. reg'[c].tp = Hart(c) /\ reg'[c].sp = K(p) /\ reg'[c].s = K(p)
      BY ONLY <1>6, SMTT(60) DEF KernelRegs
    <3> QED BY <1>2, <1>4, <1>6, <1>11, <3>1, <3>2 DEF Registers, KernelRegs
  <2>4. Saved(c)'
    <3>1. \A w : Ready(p, w)' <=> Ready(p, w)
      BY DEF Ready, Agrees, UserRegs
    <3> QED BY <1>2, <1>4, <1>11, <3>1, SMTT(60) DEF Saved
  <2> QED BY <2>1, <2>2, <2>3, <2>4 DEF OneCPU
<1>13. Parked(p)'
  BY <1>4 DEF Parked
<1> QED BY <1>1, <1>4, <1>7, <1>9, <1>10, <1>12, <1>13, Compose, TrapAssumption

\* The scheduler finds no process, and starts again.
LEMMA RescanKeeps ==
  ASSUME IInv, NEW c \in CPUs, pc[c] = "pick", pc' = [pc EXCEPT ![c] = "sched"],
         UNCHANGED <<state, proc, context, reg, csr, upc, tf, frame, user, panicked>>
  PROVE  IInv'
<1>0. Place(c) /\ Control(c) /\ Registers(c) /\ Saved(c)
  BY Here
<1>1. proc[c] = NoProc /\ pc'[c] = "sched" /\ Thread(c)' = c /\ Thread(c) = c
  BY HasProc DEF IInv, TypeOK, Thread
<1>2. TypeOK' /\ NoPanic' /\ Others(c)
  BY DEF IInv, TypeOK, NoPanic, Others, Labels
<1>3. Where(c)' = "sched"
  BY <1>1 DEF Where
<1>4. Place(c)'
  BY <1>1, <1>3 DEF Place
<1>5. Control(c)'
  BY <1>0, <1>1 DEF Control
<1>6. Registers(c)'
  BY <1>0, <1>1 DEF Registers, KernelRegs
<1>7. Saved(c)'
  BY <1>1 DEF Saved
<1> QED BY <1>2, <1>4, <1>5, <1>6, <1>7, Stays DEF OneCPU

-----------------------------------------------------------------------------
(* The invariant, and what it implies.                                     *)

LEMMA InitIInv ==
  ASSUME Init PROVE IInv
<1>1. TypeOK
  <2>1. /\ \A x \in Procs \cup CPUs : K(x) \in Val
        /\ \A c \in CPUs : Hart(c) \in Val /\ KernelRegs(c, c) \in RegFile
        /\ (CHOOSE c \in CPUs : TRUE) \in CPUs /\ 0 \in 0..(NPC - 1) /\ Nowhere \in Addr
    BY Values, Regs, TrapAssumption, SMTT(60) DEF Nowhere, Addr, Labels
  <2>2. reg \in [CPUs -> RegFile] /\ pc \in [CPUs -> Labels] /\ upc \in [CPUs -> 0..(NPC - 1)]
    BY <2>1 DEF Init, Labels
  <2>3. csr \in [CPUs -> Csr]
    BY <2>1 DEF Init, Csr
  <2>4. proc \in [CPUs -> Procs \cup {NoProc}] /\ state \in [Procs -> {"RUNNABLE", "RUNNING"}] /\ panicked \in BOOLEAN
    BY DEF Init
  <2>5. user \in [Procs -> UserState]
    BY <2>1 DEF Init, UserState
  <2>6. \A p \in Procs : UserRegs(p) \in RegFile
    <3>1. \A p \in Procs : <<p, 0>> \in Val
      BY <2>1, Values, TrapAssumption, SMTT(60)
    <3>2. \A p \in Procs : user[p].v = 0 /\ user[p].ret = FALSE
      BY DEF Init
    <3> QED BY <3>1, <3>2 DEF UserRegs, RegFile
  <2>7. tf \in [Procs -> Trapframe]
    BY <2>1, <2>6 DEF Init, Trapframe
  <2>8. context \in [Procs \cup CPUs -> Context]
    BY <2>1 DEF Init, Context, Labels
  <2>9. frame \in [Procs \cup CPUs -> Stack]
    BY <2>1 DEF Init, Stack
  <2> QED BY <2>2, <2>3, <2>4, <2>5, <2>7, <2>8, <2>9 DEF TypeOK
<1>2. NoPanic /\ Placed
  BY TrapAssumption DEF Init, NoPanic, Placed
<1>3. ASSUME NEW c \in CPUs PROVE Place(c) /\ Control(c) /\ Registers(c) /\ Saved(c)
  <2>1. pc[c] = "sched" /\ proc[c] = NoProc /\ reg[c] = KernelRegs(c, c) /\ Where(c) = "sched" /\ Thread(c) = c
    BY DEF Init, Where, Thread
  <2>2. csr[c].mode = "S" /\ csr[c].sie = FALSE /\ csr[c].satp = Kernel /\ csr[c].stvec = "kernelvec"
    BY DEF Init
  <2>3. Place(c)
    BY <2>1 DEF Place
  <2>4. Control(c)
    BY <2>1, <2>2 DEF Control
  <2> QED BY <2>1, <2>3, <2>4 DEF Registers, Saved
<1>4. ASSUME NEW p \in Procs PROVE Parked(p)
  <2>1. /\ context[p].s = K(p) /\ context[p].sp = K(p) /\ context[p].ra = "return" /\ context[p].intena = FALSE
        /\ user[p].pc = 0 /\ tf[p].epc = 0 /\ tf[p].regs = UserRegs(p)
    BY DEF Init
  <2>2. Agrees(UserRegs(p), p, FALSE)
    BY DEF Agrees, UserRegs
  <2> QED BY <2>1, <2>2 DEF Parked, Ready
<1> QED BY <1>1, <1>2, <1>3, <1>4 DEF IInv

LEMMA StepIInv ==
  ASSUME IInv, [Next]_vars PROVE IInv'
<1>1. CASE UNCHANGED vars
  <2>1. TypeOK' /\ NoPanic' /\ Placed'
    BY <1>1 DEF vars, IInv, TypeOK, NoPanic, Placed
  <2>2. ASSUME NEW c \in CPUs PROVE OneCPU(c)'
    <3>1. OneCPU(c)
      BY DEF IInv, OneCPU
    <3> QED BY <1>1, <3>1, OtherCPU DEF vars
  <2>3. ASSUME NEW p \in Procs PROVE Parked(p)'
    BY <1>1, OtherProcess DEF vars, IInv
  <2> QED BY <2>1, <2>2, <2>3 DEF IInv, OneCPU
<1>2. CASE Next
  <2>1. PICK c \in CPUs :
          \/ Run(c) \/ \E cause \in {"syscall", "timer", "device"} : Trap(c, cause)
          \/ uservec(c) \/ usertrap(c) \/ syscall(c) \/ yield(c) \/ sleep(c) \/ intr_off(c) \/ prepare_return(c)
          \/ userret(c) \/ kerneltrap(c) \/ kernelret(c) \/ scheduler_intr(c) \/ scheduler(c)
    BY <1>2 DEF Next
  <2>2. CASE Run(c)
    BY <2>2, RunKeeps
  <2>3. CASE \E cause \in {"syscall", "timer", "device"} : Trap(c, cause)
    BY <2>3, TrapKeeps
  <2>4. CASE uservec(c) \/ usertrap(c)
    BY <2>4, UservecKeeps, UsertrapKeeps
  <2>5. CASE syscall(c) \/ intr_off(c) \/ prepare_return(c) \/ userret(c)
    BY <2>5, SyscallKeeps, IntrOffKeeps, PrepareKeeps, UserretKeeps
  <2>6. CASE yield(c) \/ sleep(c)
    BY <2>6, SwitchKeeps DEF yield, sleep, At
  <2>7. CASE kerneltrap(c) \/ kernelret(c)
    BY <2>7, KerneltrapKeeps, KernelretKeeps
  <2>8. CASE scheduler_intr(c)
    BY <2>8, WindowKeeps
  <2>9. CASE scheduler(c)
    <3>1. CASE \E p \in Procs : state[p] = "RUNNABLE"
      BY <2>9, <3>1, PickKeeps DEF scheduler, At, Goto
    <3>2. CASE \A p \in Procs : state[p] # "RUNNABLE"
      BY <2>9, <3>2, RescanKeeps DEF scheduler, At, Goto
    <3> QED BY <3>1, <3>2
  <2> QED BY <2>1, <2>2, <2>3, <2>4, <2>5, <2>6, <2>7, <2>8, <2>9
<1> QED BY <1>1, <1>2

\* The invariant is inductive: wherever a trap, a context switch or a return
\* may come, the registers that have to come back are where they are looked for.
THEOREM TrapInvariance == Spec => []IInv
<1>1. Init => IInv
  BY InitIInv
<1>2. IInv /\ [Next]_vars => IInv'
  BY StepIInv
<1> QED BY <1>1, <1>2, PTL DEF Spec

\* Traps, context switches and moves between CPUs keep the registers of user code
\* and of kernel code, tp is the CPU's own in the kernel, and neither usertrap()
\* nor kerneltrap() panics: for any number of CPUs and processes, and user code of
\* any length.
THEOREM RegistersKept == Spec => []RegistersIntact
<1>1. IInv => RegistersIntact
  <2> SUFFICES ASSUME IInv PROVE RegistersIntact
    OBVIOUS
  <2>1. UserIntact
    <3>1. SUFFICES ASSUME NEW c \in CPUs, csr[c].mode = "U"
                   PROVE  /\ proc[c] \in Procs /\ pc[c] = "user"
                          /\ reg[c] = UserRegs(proc[c]) /\ upc[c] = user[proc[c]].pc
                          /\ csr[c].satp = proc[c] /\ csr[c].stvec = "uservec"
      BY DEF UserIntact
    <3>2. Control(c) /\ Registers(c)
      BY Here
    <3>3. pc[c] = "user" /\ csr[c].satp = proc[c] /\ csr[c].stvec = "uservec"
      BY <3>1, <3>2 DEF Control
    <3> QED BY <3>2, <3>3, HasProc DEF Registers
  <2>2. KernelIntact
    <3>1. SUFFICES ASSUME NEW c \in CPUs, pc[c] = "kernel"
                   PROVE  /\ proc[c] \in Procs /\ reg[c] = KernelRegs(proc[c], c)
                          /\ csr[c].mode = "S" /\ csr[c].satp = Kernel /\ csr[c].sie
      BY DEF KernelIntact
    <3>2. Control(c) /\ Registers(c)
      BY Here
    <3>3. proc[c] \in Procs /\ Thread(c) = proc[c]
      BY <3>1, HasProc DEF Thread
    <3> QED BY <3>1, <3>2, <3>3 DEF Control, Registers
  <2>3. TpExact
    BY MyProc DEF TpExact
  <2> QED BY <2>1, <2>2, <2>3 DEF RegistersIntact, IInv
<1> QED BY <1>1, TrapInvariance, PTL

-----------------------------------------------------------------------------
(* devintr(), which traps call: one server for each device.                *)

CONSTANTS Harts, Devices, NoDevice
VARIABLES line, pending, claimed, due, hart, irq

Plic == INSTANCE Interrupts WITH pc <- hart, None <- NoDevice

\* At boot no device is claimed.
LEMMA PlicInit == Plic!Init => Plic!IInv
BY SMTT(60) DEF Plic!Init, Plic!IInv, Plic!OneServer

\* The hardware, every step of devintr() and what runs between traps keep IInv.
LEMMA PlicStep == ASSUME NoDevice \notin Devices PROVE Plic!IInv /\ [Plic!Next]_(Plic!vars) => Plic!IInv'
<1> SUFFICES ASSUME Plic!IInv, [Plic!Next]_(Plic!vars) PROVE Plic!IInv'
  OBVIOUS
<1> USE DEF Plic!IInv, Plic!OneServer, Plic!Goto, Plic!plic
<1>1. ASSUME NEW d \in Devices, Plic!Raise(d) \/ Plic!Gateway(d) PROVE Plic!IInv'
  BY <1>1, SMTT(60) DEF Plic!Raise, Plic!Gateway
<1>2. ASSUME NEW h \in Harts, Plic!TimeOut(h) \/ Plic!Lock(h) \/ Plic!Trap(h) \/ Plic!Unlock(h) \/ Plic!clockintr(h)
      PROVE Plic!IInv'
  BY <1>2, SMTT(60) DEF Plic!TimeOut, Plic!Lock, Plic!Trap, Plic!Unlock, Plic!clockintr
<1>3. ASSUME NEW h \in Harts, Plic!plic_claim(h) PROVE Plic!IInv'
  <2>1. PICK d \in IF pending = {} THEN {NoDevice} ELSE pending :
          /\ irq' = [irq EXCEPT ![h] = d]
          /\ pending' = pending \ {d} /\ claimed' = (claimed \cup {d}) \ {NoDevice}
    BY <1>3 DEF Plic!plic_claim
  <2>2. /\ hart[h] = "claim" /\ hart' = [hart EXCEPT ![h] = "dispatch"] /\ irq[h] = NoDevice
    BY <1>3, SMTT(60) DEF Plic!plic_claim
  <2>3. d \in Devices \cup {NoDevice} /\ \A k \in Harts : irq[k] = d => d = NoDevice
    BY <2>1, SMTT(60)
  <2>4. {irq'[k] : k \in Harts} = {irq[k] : k \in Harts \ {h}} \cup {d}
    BY <2>1, SMTT(60)
  <2>5. claimed = {irq[k] : k \in Harts \ {h}} \ {NoDevice}
    BY <2>2, SMTT(60)
  <2>6. Plic!OneServer'
    BY <2>1, <2>3, <2>4, <2>5, SMTT(60)
  <2> QED BY <2>1, <2>2, <2>3, <2>6, SMTT(60)
<1>4. ASSUME NEW h \in Harts, Plic!devintr(h) PROVE Plic!IInv'
  BY <1>4, SMTT(60) DEF Plic!devintr
<1>5. ASSUME NEW h \in Harts, Plic!plic_complete(h) PROVE Plic!IInv'
  <2>1. /\ claimed' = claimed \ {irq[h]} /\ irq' = [irq EXCEPT ![h] = NoDevice]
        /\ hart' = [hart EXCEPT ![h] = "on"] /\ pending' = pending
    BY <1>5, SMTT(60) DEF Plic!plic_complete
  <2>2. {irq'[k] : k \in Harts} = {irq[k] : k \in Harts \ {h}} \cup {NoDevice}
    BY <2>1, SMTT(60)
  <2>3. claimed' = {irq[k] : k \in Harts \ {h}} \ {NoDevice}
    BY <2>1, SMTT(60)
  <2> QED BY <2>1, <2>2, <2>3, SMTT(60)
<1>6. CASE UNCHANGED Plic!vars
  BY <1>6, SMTT(60) DEF Plic!vars
<1> QED BY <1>1, <1>2, <1>3, <1>4, <1>5, <1>6 DEF Plic!Next, Plic!Hart

\* The inductive invariant holds throughout.
THEOREM PlicInvariance == ASSUME NoDevice \notin Devices PROVE Plic!Spec => []Plic!IInv
BY PlicInit, PlicStep, PTL DEF Plic!Spec

\* However many harts race in devintr() for however many devices, a device's
\* handler runs on one of them at a time.
THEOREM ServedOnce == ASSUME NoDevice \notin Devices PROVE Plic!Spec => []Plic!OneServer
<1>1. Plic!IInv => Plic!OneServer
  BY DEF Plic!IInv
<1> QED BY <1>1, PlicInvariance, PTL
=============================================================================
