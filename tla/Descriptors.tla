---------------------------- MODULE Descriptors -----------------------------
(***************************************************************************)
(* Open files and descriptors: the file table of kernel/file.c, the calls  *)
(* of kernel/sysfile.c that make and drop descriptors, pipealloc() of      *)
(* kernel/pipe.c, and what kfork() and kexit() do to descriptors.          *)
(*                                                                         *)
(* todo[p] is what the call in progress still has to do, a sequence of     *)
(* steps [do, f, ...]; each step is one critical section of ftable.lock or *)
(* of the object a file refers to.  A process's descriptor table is its    *)
(* own.  Inodes are represented by the number of references that files and *)
(* calls have; a pipe by which of its ends are open.                       *)
(***************************************************************************)
EXTENDS Naturals, Sequences, FiniteSets, FiniteSetsExt

CONSTANTS Procs, InitProc,
          NFILE, NOFILE,   \* entries of the file table, of a descriptor table
          NPIPE            \* pipes there is memory for

ASSUME FdAssumption == InitProc \in Procs /\ {NFILE, NOFILE} \subseteq Nat \ {0} /\ NPIPE \in Nat

VARIABLES ftable, ofile, alive, todo, iref, pipe, panicked

vars == <<ftable, ofile, alive, todo, iref, pipe, panicked>>

Files == 1..NFILE
Fds == 0..(NOFILE - 1)
Pipes == 1..NPIPE
NoFile == [ref |-> 0, type |-> "none", pipe |-> 0, writable |-> FALSE]
Closed == [r |-> FALSE, w |-> FALSE]

Init ==
  /\ ftable = [f \in Files |-> NoFile]
  /\ ofile = [p \in Procs |-> [d \in Fds |-> 0]]
  /\ alive = {InitProc}
  /\ todo = [p \in Procs |-> <<>>]
  /\ iref = 0 /\ pipe = [k \in Pipes |-> Closed]
  /\ panicked = FALSE

Idle(p) == p \in alive /\ todo[p] = <<>> /\ ~ panicked
At(p, label) == todo[p] # <<>> /\ Head(todo[p]).do = label /\ ~ panicked
Arg(p) == Head(todo[p]).f
step(label, f) == [do |-> label, f |-> f]
\* The current step of p is replaced by the steps s.
Then(p, s) == todo' = [todo EXCEPT ![p] = s \o (IF @ = <<>> THEN <<>> ELSE Tail(@))]

\* filealloc() and fdalloc(): the first free entry, 0 or NOFILE if there is none.
filealloc == Min({f \in Files : ftable[f].ref = 0} \cup {NFILE + 1}) % (NFILE + 1)
fdalloc(p) == Min({d \in Fds : ofile[p][d] = 0} \cup {NOFILE})

\* argfd(), fdalloc(), filedup()
sys_dup(p, d) ==
  LET f == ofile[p][d] IN
  /\ Idle(p) /\ f # 0 /\ fdalloc(p) \in Fds
  /\ ofile' = [ofile EXCEPT ![p][fdalloc(p)] = f]
  /\ ftable' = [ftable EXCEPT ![f].ref = @ + 1]
  /\ panicked' = (ftable[f].ref < 1)
  /\ UNCHANGED <<alive, todo, iref, pipe>>

sys_close(p, d) ==
  /\ Idle(p) /\ ofile[p][d] # 0
  /\ ofile' = [ofile EXCEPT ![p][d] = 0]
  /\ Then(p, <<step("fileclose", ofile[p][d])>>)
  /\ UNCHANGED <<ftable, alive, iref, pipe, panicked>>

\* The critical section of fileclose(); what the last reference drops follows.
fileclose(p) ==
  LET f == Arg(p)
      ff == ftable[f]
  IN /\ At(p, "fileclose")
     /\ panicked' = (ff.ref < 1)
     /\ ftable' = [ftable EXCEPT ![f].ref = IF @ = 0 THEN 0 ELSE @ - 1,
                                 ![f].type = IF ff.ref = 1 THEN "none" ELSE @]
     /\ Then(p, IF ff.ref > 1 \/ ff.type = "none" THEN <<>>
                ELSE IF ff.type = "inode" THEN <<step("iput", 0)>>
                ELSE <<step(IF ff.writable THEN "closew" ELSE "closer", ff.pipe)>>)
     /\ UNCHANGED <<ofile, alive, iref, pipe>>

\* Mutant: a pipe is freed when its writers are gone.
pipeclose_Early(p) ==
  /\ At(p, "closew") \/ At(p, "closer")
  /\ pipe' = [pipe EXCEPT ![Arg(p)] = IF At(p, "closew") THEN Closed ELSE [@ EXCEPT !.r = FALSE]]
  /\ Then(p, <<>>)
  /\ UNCHANGED <<ftable, ofile, alive, iref, panicked>>

\* A pipe with both ends closed is freed: it is free to be allocated again.
pipeclose(p) ==
  /\ At(p, "closew") \/ At(p, "closer")
  /\ pipe' = [pipe EXCEPT ![Arg(p)] = IF At(p, "closew") THEN [@ EXCEPT !.w = FALSE]
                                                         ELSE [@ EXCEPT !.r = FALSE]]
  /\ Then(p, <<>>)
  /\ UNCHANGED <<ftable, ofile, alive, iref, panicked>>

iput(p) ==
  /\ At(p, "iput")
  /\ iref' = iref - 1
  /\ Then(p, <<>>)
  /\ UNCHANGED <<ftable, ofile, alive, pipe, panicked>>

-----------------------------------------------------------------------------
(* sys_open() from the point where it has the inode.                       *)

sys_open(p) ==
  LET f == filealloc IN
  /\ Idle(p)
  /\ iref' = iref + 1
  /\ ftable' = IF f = 0 THEN ftable ELSE [ftable EXCEPT ![f].ref = 1]
  /\ Then(p, IF f = 0 THEN <<step("iput", 0)>> ELSE <<step("open_fd", f)>>)
  /\ UNCHANGED <<ofile, alive, pipe, panicked>>

open_fd(p) ==
  LET f == Arg(p)
      d == fdalloc(p)
  IN /\ At(p, "open_fd")
     /\ \/ /\ d \in Fds
           /\ ofile' = [ofile EXCEPT ![p][d] = f]
           /\ ftable' = [ftable EXCEPT ![f].type = "inode"]
           /\ Then(p, <<>>)
        \/ /\ d \notin Fds
           /\ Then(p, <<step("fileclose", f), step("iput", 0)>>)
           /\ UNCHANGED <<ofile, ftable>>
     /\ UNCHANGED <<alive, iref, pipe, panicked>>

-----------------------------------------------------------------------------
(* sys_pipe() with pipealloc().                                            *)

FreePipes == {k \in Pipes : pipe[k] = Closed}

sys_pipe(p) ==
  LET f == filealloc IN
  /\ Idle(p) /\ f # 0
  /\ ftable' = [ftable EXCEPT ![f].ref = 1]
  /\ Then(p, <<step("pipe_w", f)>>)
  /\ UNCHANGED <<ofile, alive, iref, pipe, panicked>>

\* The second file and the pipe; the files are closed again without them.
pipealloc(p) ==
  LET rf == Arg(p)
      wf == filealloc
      k == Min(FreePipes)
  IN /\ At(p, "pipe_w")
     /\ \/ /\ wf = 0
           /\ Then(p, <<step("fileclose", rf)>>)
           /\ UNCHANGED <<ftable, pipe>>
        \/ /\ wf # 0 /\ FreePipes = {}
           /\ ftable' = [ftable EXCEPT ![wf].ref = 1]
           /\ Then(p, <<step("fileclose", rf), step("fileclose", wf)>>)
           /\ UNCHANGED pipe
        \/ /\ wf # 0 /\ FreePipes # {}
           /\ pipe' = [pipe EXCEPT ![k] = [r |-> TRUE, w |-> TRUE]]
           /\ ftable' = [ftable EXCEPT
                ![rf] = [ref |-> 1, type |-> "pipe", pipe |-> k, writable |-> FALSE],
                ![wf] = [ref |-> 1, type |-> "pipe", pipe |-> k, writable |-> TRUE]]
           /\ Then(p, <<[do |-> "pipe_fd", f |-> rf, wf |-> wf]>>)
     /\ UNCHANGED <<ofile, alive, iref, panicked>>

\* Two descriptors, or none when there are too few or copyout() fails.
pipe_fd(p) ==
  LET rf == Arg(p)
      wf == Head(todo[p]).wf
      d0 == fdalloc(p)
      d1 == Min({d \in Fds \ {d0} : ofile[p][d] = 0} \cup {NOFILE})
  IN /\ At(p, "pipe_fd")
     /\ \/ /\ d1 \in Fds
           /\ ofile' = [ofile EXCEPT ![p][d0] = rf, ![p][d1] = wf]
           /\ Then(p, <<>>)
        \/ /\ Then(p, <<step("fileclose", rf), step("fileclose", wf)>>)
           /\ UNCHANGED ofile
     /\ UNCHANGED <<ftable, alive, iref, pipe, panicked>>

-----------------------------------------------------------------------------
(* Processes.                                                              *)

kfork(p, q) ==
  /\ Idle(p) /\ q \notin alive /\ todo[q] = <<>>
  /\ alive' = alive \cup {q}
  /\ ofile' = [ofile EXCEPT ![q] = ofile[p]]
  /\ ftable' = [f \in Files |->
       [ftable[f] EXCEPT !.ref = @ + Cardinality({d \in Fds : ofile[p][d] = f})]]
  /\ panicked' = (\E d \in Fds : ofile[p][d] # 0 /\ ftable[ofile[p][d]].ref < 1)
  /\ UNCHANGED <<todo, iref, pipe>>

\* Every open descriptor is closed, in order.
kexit(p) ==
  LET open == SelectSeq([i \in 1..NOFILE |-> ofile[p][i - 1]], LAMBDA f : f # 0) IN
  /\ Idle(p) /\ p # InitProc
  /\ alive' = alive \ {p}
  /\ Then(p, [i \in DOMAIN open |-> step("fileclose", open[i])])
  /\ ofile' = [ofile EXCEPT ![p] = [d \in Fds |-> 0]]
  /\ UNCHANGED <<ftable, iref, pipe, panicked>>

Step(p) == fileclose(p) \/ pipeclose(p) \/ iput(p) \/ open_fd(p) \/ pipealloc(p) \/ pipe_fd(p)

Next == \E p \in Procs :
  \/ Step(p) \/ sys_open(p) \/ sys_pipe(p) \/ kexit(p)
  \/ \E d \in Fds : sys_dup(p, d) \/ sys_close(p, d)
  \/ \E q \in Procs : kfork(p, q)

Spec == Init /\ [][Next]_vars

-----------------------------------------------------------------------------
(* Properties.                                                             *)

Steps(label) == {s \in Procs \X (1..(NOFILE + 2)) :
                   s[2] \in DOMAIN todo[s[1]] /\ todo[s[1]][s[2]].do = label}
StepsOn(label, f) == {s \in Steps(label) : todo[s[1]][s[2]].f = f}
Pending(f) == UNION {StepsOn(l, f) : l \in {"fileclose", "open_fd", "pipe_w", "pipe_fd"}}
              \cup {s \in Steps("pipe_fd") : todo[s[1]][s[2]].wf = f}

\* A file's reference count is the number of descriptors that refer to it, in all
\* processes, and of references a call in progress still has to place or drop:
\* none is lost or used twice on the failure paths of open, pipe and dup.
RefExact == \A f \in Files :
  ftable[f].ref = Cardinality({x \in Procs \X Fds : ofile[x[1]][x[2]] = f}) + Cardinality(Pending(f))

\* An end of a pipe is open exactly as long as one file refers to it or its
\* pipeclose() is still to come, so each end is closed once and the pipe is freed once.
PipeEnds == \A k \in Pipes : \A w \in BOOLEAN :
  LET files == {f \in Files : /\ ftable[f].ref > 0 /\ ftable[f].type = "pipe"
                              /\ ftable[f].pipe = k /\ ftable[f].writable = w}
      last == StepsOn(IF w THEN "closew" ELSE "closer", k)
  IN Cardinality(files) + Cardinality(last) = IF (IF w THEN pipe[k].w ELSE pipe[k].r) THEN 1 ELSE 0

\* Inode references are those of open files and of calls in progress: a file that
\* never got an inode does not drop one when it is closed.
InodeRefs ==
  iref = Cardinality({f \in Files : ftable[f].ref > 0 /\ ftable[f].type = "inode"})
         + Cardinality(Steps("iput")) + Cardinality(Steps("open_fd"))

\* filedup() and fileclose() never meet a file without references.
NoPanic == ~ panicked

\* The counts of files, pipe ends and inodes are exact on every path.
FilesExact == RefExact /\ PipeEnds /\ InodeRefs /\ NoPanic
=============================================================================
