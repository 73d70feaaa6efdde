-------------------------------- MODULE Shell -------------------------------
(***************************************************************************)
(* What the shell does with a command, user/sh.c: the processes runcmd()   *)
(* forks, the descriptors each of them holds, and how the shell comes back *)
(* to its prompt; and user/init.c, which starts the shell again and waits  *)
(* for the processes that lost their parent.                               *)
(*                                                                         *)
(* A step is one system call; the calls a process makes on descriptors     *)
(* between two forks are one step, as no other process sees them.  The     *)
(* kernel's side of the calls is as the modules Descriptors, Pipe and Proc *)
(* have it: dup() and open() take the lowest free descriptor, and a pipe   *)
(* is at its end when no process has its other end open.                   *)
(***************************************************************************)
EXTENDS Naturals, FiniteSets, FiniteSetsExt

CONSTANTS NPROC, NFD,
          Lines         \* parsed commands the user may type

ASSUME ShellAssumption == NPROC \in Nat \ {0} /\ NFD \in Nat

VARIABLE proc           \* [code, pc, fd, parent, p] of each process; p: the pipe of runcmd()

Pids == 1..NPROC
initproc == 1
FDs == 0..NFD-1
Closed == <<"closed">>
Tty == <<"tty">>
End(i, side) == <<side, i>>
Stdio == [f \in FDs |-> IF f < 3 THEN Tty ELSE Closed]
NoFiles == [f \in FDs |-> Closed]
Exited == [type |-> "EXITED"]
NoProc == [code |-> Exited, pc |-> "none", fd |-> NoFiles, parent |-> 0, p |-> 0]

Alive(q) == proc[q].code # Exited
Zombie(q) == proc[q].pc # "none" /\ ~ Alive(q)
Kids(q) == {k \in Pids : proc[k].pc # "none" /\ proc[k].parent = q}
Lowest(fd) == Min({f \in FDs : fd[f] = Closed})

At(q, type, pc) == proc[q].code.type = type /\ proc[q].pc = pc
Set(q, rec) == proc' = [proc EXCEPT ![q] = rec]
\* The process goes on with cmd.
runcmd(rec, cmd) == [rec EXCEPT !.code = cmd, !.pc = "start", !.p = 0]

\* init is at its loop, with the console open three times.
Init == proc = [q \in Pids |-> IF q = initproc THEN [code |-> [type |-> "INIT"], pc |-> "fork", fd |-> Stdio, parent |-> 0, p |-> 0]
                               ELSE NoProc]

\* exit(): the children go to init.
Exit(q) == proc' = [k \in Pids |-> IF k = q THEN [NoProc EXCEPT !.pc = "exited", !.parent = proc[q].parent]
                                   ELSE IF k \in Kids(q) THEN [proc[k] EXCEPT !.parent = initproc] ELSE proc[k]]

\* fork1(): the parent goes on at pc; without a free process the caller panics,
\* that is, exits.
fork1(q, child, pc) ==
  LET Unused == {j \in Pids : proc[j].pc = "none"} IN
  IF Unused = {} THEN Exit(q)
  ELSE proc' = [proc EXCEPT ![Min(Unused)] = [child EXCEPT !.parent = q], ![q].pc = pc]

\* wait(0) takes the first zombie; it returns at once if there is no child.
Reaped(q) == Min({k \in Kids(q) : Zombie(k)})
HasZombie(q) == \E k \in Kids(q) : Zombie(k)
wait(q, rec) ==
  /\ Kids(q) # {} => HasZombie(q)
  /\ IF HasZombie(q) THEN proc' = [proc EXCEPT ![Reaped(q)] = NoProc, ![q] = rec] ELSE Set(q, rec)

close(fd, f) == [fd EXCEPT ![f] = Closed]
dup(fd, f) == [fd EXCEPT ![Lowest(fd)] = fd[f]]

-----------------------------------------------------------------------------
(* init.                                                                   *)

sh == [type |-> "SH"]

\* p is the shell's pid; init waits until that one has exited.  Its fork fails,
\* and init exits, if no process is free.
init(q) ==
  \/ /\ At(q, "INIT", "fork")
     /\ LET Unused == {j \in Pids : proc[j].pc = "none"} IN
        IF Unused = {} THEN Exit(q)
        ELSE proc' = [proc EXCEPT ![Min(Unused)] = [runcmd(proc[q], sh) EXCEPT !.parent = q],
                                  ![q].pc = "wait", ![q].p = Min(Unused)]
  \/ /\ At(q, "INIT", "wait") /\ HasZombie(q)
     /\ proc' = [proc EXCEPT ![Reaped(q)] = NoProc, ![q].pc = IF Reaped(q) = proc[q].p THEN "fork" ELSE "wait"]

\* exec("sh"), and the shell's check that 0, 1 and 2 are open, or exit(1).
execsh(q) == At(q, "SH", "start") /\ (Set(q, runcmd([proc[q] EXCEPT !.fd = Stdio], [type |-> "PROMPT"])) \/ Exit(q))

-----------------------------------------------------------------------------
(* The shell.                                                              *)

\* A line is read and a child runs it, or there is no more input.
getcmd(q) ==
  /\ At(q, "PROMPT", "start")
  /\ (\E cmd \in Lines : fork1(q, runcmd(proc[q], cmd), "wait")) \/ Exit(q)

main(q) == At(q, "PROMPT", "wait") /\ wait(q, [proc[q] EXCEPT !.pc = "start"])

\* exec() succeeds, or the process prints a message and exits.
runexec(q) ==
  /\ At(q, "EXEC", "start")
  /\ Set(q, runcmd(proc[q], [type |-> "PROGRAM", reads |-> proc[q].code.reads])) \/ Exit(q)

\* Mutant: the file gets whatever descriptor is free.
runredir_NoClose(q) ==
  LET c == proc[q].code
      fd == proc[q].fd
  IN /\ At(q, "REDIR", "start")
     /\ Set(q, runcmd([proc[q] EXCEPT !.fd = [fd EXCEPT ![Lowest(fd)] = <<"file", c.file>>]], c.cmd)) \/ Exit(q)

\* close(), and open() of the lowest free descriptor, which may fail.
runredir(q) ==
  LET c == proc[q].code
      fd == close(proc[q].fd, c.fd)
  IN /\ At(q, "REDIR", "start")
     /\ Set(q, runcmd([proc[q] EXCEPT !.fd = [fd EXCEPT ![Lowest(fd)] = <<"file", c.file>>]], c.cmd)) \/ Exit(q)

runlist(q) ==
  \/ At(q, "LIST", "start") /\ fork1(q, runcmd(proc[q], proc[q].code.left), "wait")
  \/ At(q, "LIST", "wait") /\ wait(q, runcmd(proc[q], proc[q].code.right))

runback(q) ==
  \/ At(q, "BACK", "start") /\ fork1(q, runcmd(proc[q], proc[q].code.cmd), "exit")
  \/ At(q, "BACK", "exit") /\ Exit(q)

\* pipe(p): a pipe with no end open, at the two lowest descriptors; or panic.
FreePipe == Min({i \in 1..NPROC : \A k \in Pids, f \in FDs : proc[k].fd[f] \notin {End(i, "r"), End(i, "w")}})
PipeFds(fd, i) ==
  LET fd1 == [fd EXCEPT ![Lowest(fd)] = End(i, "r")] IN [fd1 EXCEPT ![Lowest(fd1)] = End(i, "w")]
runpipe(q) ==
  /\ At(q, "PIPE", "start")
  /\ \/ /\ Cardinality({f \in FDs : proc[q].fd[f] = Closed}) >= 2
        /\ Set(q, [proc[q] EXCEPT !.fd = PipeFds(@, FreePipe), !.p = FreePipe, !.pc = "left"])
     \/ Exit(q)

\* The child's close(), dup() of its end, and close() of p[0] and p[1].
CloseEnds(fd, i) == [f \in FDs |-> IF f > 2 /\ fd[f] \in {End(i, "r"), End(i, "w")} THEN Closed ELSE fd[f]]
Connect(rec, side, std) ==
  LET from == CHOOSE f \in FDs : f > 2 /\ rec.fd[f] = End(rec.p, side)
  IN [rec EXCEPT !.fd = CloseEnds(dup(close(rec.fd, std), from), rec.p)]
pipeforks(q) ==
  \/ At(q, "PIPE", "left") /\ fork1(q, runcmd(Connect(proc[q], "w", 1), proc[q].code.left), "right")
  \/ At(q, "PIPE", "right") /\ fork1(q, runcmd(Connect(proc[q], "r", 0), proc[q].code.right), "close")

\* Mutant: the parent keeps the ends open.
pipewaits_KeepsEnds(q) ==
  \/ At(q, "PIPE", "close") /\ Set(q, [proc[q] EXCEPT !.pc = "wait1"])
  \/ At(q, "PIPE", "wait1") /\ wait(q, [proc[q] EXCEPT !.pc = "wait2"])
  \/ At(q, "PIPE", "wait2") /\ wait(q, [proc[q] EXCEPT !.pc = "exit"])
  \/ At(q, "PIPE", "exit") /\ Exit(q)

pipewaits(q) ==
  \/ At(q, "PIPE", "close") /\ Set(q, [proc[q] EXCEPT !.fd = CloseEnds(@, proc[q].p), !.pc = "wait1"])
  \/ At(q, "PIPE", "wait1") /\ wait(q, [proc[q] EXCEPT !.pc = "wait2"])
  \/ At(q, "PIPE", "wait2") /\ wait(q, [proc[q] EXCEPT !.pc = "exit"])
  \/ At(q, "PIPE", "exit") /\ Exit(q)

\* A program that reads its input reads it to the end; then it exits.
Writers(i) == {k \in Pids : \E f \in FDs : proc[k].fd[f] = End(i, "w")}
program(q) ==
  /\ At(q, "PROGRAM", "start")
  /\ proc[q].code.reads /\ proc[q].fd[0][1] = "r" => Writers(proc[q].fd[0][2]) = {}
  /\ Exit(q)

Step(q) == \/ init(q) \/ execsh(q) \/ main(q) \/ runexec(q) \/ runredir(q) \/ runlist(q) \/ runback(q)
           \/ runpipe(q) \/ pipeforks(q) \/ pipewaits(q) \/ program(q)
Next == Alive(initproc) /\ \E q \in Pids : getcmd(q) \/ Step(q)

\* The kernel schedules every process, and the programs the user runs end once
\* their input does; the user need not type anything.
Spec == Init /\ [][Next]_proc
FairSpec == Spec /\ \A q \in Pids : WF_proc(Alive(initproc) /\ Step(q))

-----------------------------------------------------------------------------
(* Properties.                                                             *)

\* A program runs with descriptors 0, 1 and 2 open and no other: no end of a
\* pipe was left open in it, neither its own nor another stage's (runcmd, PIPE).
OnlyStdio == \A q \in Pids : At(q, "PROGRAM", "start") => \A f \in FDs : (proc[q].fd[f] # Closed) <=> f < 3

\* An end of a pipe is some process's input or output, or belongs to the process
\* that is setting the pipe up: nobody else keeps a pipe from its end of file.
EndsPlaced == \A q \in Pids, f \in FDs : proc[q].fd[f][1] \in {"r", "w"} =>
  \/ <<f, proc[q].fd[f][1]>> \in {<<0, "r">>, <<1, "w">>}
  \/ proc[q].code.type = "PIPE" /\ proc[q].fd[f][2] = proc[q].p /\ proc[q].pc \in {"left", "right", "close"}

\* At most one shell reads the console: init takes no parentless process that
\* exits for the shell (init.c, wpid == pid).
OneShell == Cardinality({q \in Pids : proc[q].code.type \in {"SH", "PROMPT"}}) <= 1

Waiting == \E q \in Pids : At(q, "PROMPT", "wait")

=============================================================================
