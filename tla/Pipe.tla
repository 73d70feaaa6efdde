-------------------------------- MODULE Pipe --------------------------------
(***************************************************************************)
(* One pipe of kernel/pipe.c, from pipealloc() to the kfree() of its       *)
(* memory, with the processes that hold descriptors of its two ends.       *)
(*                                                                         *)
(* One step is one iteration of the loop in pipewrite() or piperead():     *)
(* pi->lock is held from one iteration to the next and given up only to    *)
(* sleep or to return, but killed() and the user's memory may change at    *)
(* any point.  "wprep" and "rprep" lie between sleep_prepare() and         *)
(* sleep(): a wakeup() cancels the sleep, a kkill() does not.              *)
(***************************************************************************)
EXTENDS Naturals, Sequences, FiniteSets

CONSTANTS
  Writers, Readers,  \* processes, by the end of the pipe they may hold
  NoProc,
  Byte,
  PIPESIZE,
  UINT,              \* counters are taken modulo this (2^32 in the code)
  MaxCall,           \* largest n of a call
  Error              \* the result -1

Callers == Writers \cup Readers

\* What the proofs assume of the constants: a counter that wraps around goes
\* on at the right place of data[], and a full pipe is not an empty one.
Parameters == /\ Writers \cap Readers = {} /\ NoProc \notin Callers
              /\ PIPESIZE \in Nat \ {0} /\ UINT \in Nat /\ MaxCall \in Nat
              /\ UINT % PIPESIZE = 0 /\ PIPESIZE < UINT

VARIABLES
  data, nread, nwrite, readopen, writeopen,
  lock,    \* the process that holds pi->lock from one step to the next
  freed,   \* has the pipe's page been given back?
  open,    \* processes with a descriptor of their end
  killed,
  pc, n, i,
  last,    \* the last byte a reader got
  result   \* what the last call to end returned

pipe == <<data, nread, nwrite, readopen, writeopen>>
call == <<n, i, last, result>>
vars == <<pipe, lock, freed, open, killed, pc, call>>

\* pipealloc(); any process of either side may have got a descriptor by fork().
Init ==
  /\ \E b \in Byte : /\ data = [k \in 0..PIPESIZE-1 |-> b]
                     /\ last = b
  /\ nread = 0 /\ nwrite = 0
  /\ readopen = TRUE /\ writeopen = TRUE
  /\ lock = NoProc
  /\ freed = FALSE
  /\ open = Callers
  /\ killed = {}
  /\ pc = [p \in Callers |-> "user"]
  /\ n = [p \in Callers |-> 0]
  /\ i = [p \in Callers |-> 0]
  /\ result = 0

Goto(p, label) == pc' = [pc EXCEPT ![p] = label]

\* wakeup(&pi->nread) finds readers, wakeup(&pi->nwrite) finds writers.
wakeup(chan, p, next) ==
  LET asleep == IF chan = "nread" THEN {"rprep", "rsleep"} ELSE {"wprep", "wsleep"}
      again == IF chan = "nread" THEN "read" ELSE "write"
  IN  pc' = [q \in Callers |-> IF q = p THEN next ELSE IF pc[q] \in asleep THEN again ELSE pc[q]]

Locks(p) == lock \in {NoProc, p}

Returns(p, r) ==
  /\ result' = r
  /\ n' = [n EXCEPT ![p] = 0]
  /\ i' = [i EXCEPT ![p] = 0]

-----------------------------------------------------------------------------
(* write() and read(), sleep() and kkill().                                *)

Call(p, m) ==
  /\ pc[p] = "user" /\ p \in open
  /\ p \notin killed  \* else usertrap() calls kexit()
  /\ Goto(p, IF p \in Writers THEN "write" ELSE "read")
  /\ n' = [n EXCEPT ![p] = m]
  /\ UNCHANGED <<pipe, lock, freed, open, killed, i, last, result>>

sleep(p) ==
  /\ pc[p] \in {"wprep", "rprep"}
  /\ Goto(p, IF pc[p] = "wprep" THEN "wsleep" ELSE "rsleep")
  /\ UNCHANGED <<pipe, lock, freed, open, killed, call>>

kkill(p) ==
  /\ p \notin killed
  /\ killed' = killed \cup {p}
  /\ Goto(p, IF pc[p] = "wsleep" THEN "write" ELSE IF pc[p] = "rsleep" THEN "read" ELSE pc[p])
  /\ UNCHANGED <<pipe, lock, freed, open, call>>

-----------------------------------------------------------------------------
(* pipewrite().                                                            *)

\* Mutant: the sum is not taken modulo 2^32.
Full_NoWrap == nwrite = nread + PIPESIZE

Full == nwrite = (nread + PIPESIZE) % UINT

\* No reader left, or killed: note that no reader is woken.
write_fails(p) ==
  /\ pc[p] = "write" /\ Locks(p)
  /\ i[p] < n[p]
  /\ ~ readopen \/ p \in killed
  /\ lock' = NoProc
  /\ Returns(p, Error)
  /\ Goto(p, "user")
  /\ UNCHANGED <<pipe, freed, open, killed, last>>

write_full(p) ==
  /\ pc[p] = "write" /\ Locks(p)
  /\ i[p] < n[p]
  /\ readopen /\ p \notin killed
  /\ Full
  /\ wakeup("nread", p, "wprep")
  /\ lock' = NoProc
  /\ UNCHANGED <<pipe, freed, open, killed, call>>

write_byte(p, ch) ==
  /\ pc[p] = "write" /\ Locks(p)
  /\ i[p] < n[p]
  /\ readopen /\ p \notin killed
  /\ ~ Full
  /\ data' = [data EXCEPT ![nwrite % PIPESIZE] = ch]
  /\ nwrite' = (nwrite + 1) % UINT
  /\ i' = [i EXCEPT ![p] = @ + 1]
  /\ lock' = p
  /\ UNCHANGED <<nread, readopen, writeopen, freed, open, killed, pc, n, last, result>>

\* All is written, or copyin() fails.
write_returns(p) ==
  /\ pc[p] = "write" /\ Locks(p)
  /\ \/ /\ i[p] = n[p]
        /\ Returns(p, i[p])
     \/ /\ i[p] < n[p]
        /\ readopen /\ p \notin killed
        /\ ~ Full
        /\ Returns(p, IF i[p] = 0 THEN Error ELSE i[p])
  /\ wakeup("nread", p, "user")
  /\ lock' = NoProc
  /\ UNCHANGED <<pipe, freed, open, killed, last>>

-----------------------------------------------------------------------------
(* piperead().                                                             *)

Empty == nread = nwrite

\* One test of the first loop.
read_wait(p) ==
  /\ pc[p] = "read" /\ Locks(p)
  /\ \/ /\ Empty /\ writeopen /\ p \in killed
        /\ Returns(p, Error)
        /\ Goto(p, "user")
        /\ lock' = NoProc
     \/ /\ Empty /\ writeopen /\ p \notin killed
        /\ Goto(p, "rprep")
        /\ lock' = NoProc
        /\ UNCHANGED <<n, i, result>>
     \/ /\ ~ (Empty /\ writeopen)
        /\ Goto(p, "copy")
        /\ lock' = p
        /\ UNCHANGED <<n, i, result>>
  /\ UNCHANGED <<pipe, freed, open, killed, last>>

read_byte(p) ==
  /\ pc[p] = "copy"
  /\ i[p] < n[p]
  /\ ~ Empty
  /\ last' = data[nread % PIPESIZE]
  /\ nread' = (nread + 1) % UINT
  /\ i' = [i EXCEPT ![p] = @ + 1]
  /\ UNCHANGED <<data, nwrite, readopen, writeopen, lock, freed, open, killed, pc, n, result>>

\* Mutant: no wakeup(&pi->nwrite).
read_returns_NoWakeup(p) ==
  /\ pc[p] = "copy"
  /\ \/ /\ i[p] = n[p] \/ Empty
        /\ Returns(p, i[p])
     \/ /\ i[p] < n[p] /\ ~ Empty
        /\ Returns(p, IF i[p] = 0 THEN Error ELSE i[p])
  /\ Goto(p, "user")
  /\ lock' = NoProc
  /\ UNCHANGED <<pipe, freed, open, killed, last>>

\* All is read, the pipe is empty, or copyout() fails.
read_returns(p) ==
  /\ pc[p] = "copy"
  /\ \/ /\ i[p] = n[p] \/ Empty
        /\ Returns(p, i[p])
     \/ /\ i[p] < n[p] /\ ~ Empty
        /\ Returns(p, IF i[p] = 0 THEN Error ELSE i[p])
  /\ wakeup("nwrite", p, "user")
  /\ lock' = NoProc
  /\ UNCHANGED <<pipe, freed, open, killed, last>>

-----------------------------------------------------------------------------
(* The descriptors.                                                        *)

Side(p) == IF p \in Writers THEN Writers ELSE Readers

\* filedup() by fork(): q is a new child of a process that holds the end.
Dup(q) ==
  /\ q \notin open
  /\ pc[q] = "user" /\ q \notin killed
  /\ \E p \in Side(q) \cap open : pc[p] = "user"
  /\ open' = open \cup {q}
  /\ UNCHANGED <<pipe, lock, freed, killed, pc, call>>

\* fileclose(): the last reference goes on to pipeclose().
fileclose(p) ==
  /\ pc[p] = "user" /\ p \in open
  /\ open' = open \ {p}
  /\ Goto(p, IF open \cap Side(p) = {p} THEN "close" ELSE "user")
  /\ UNCHANGED <<pipe, lock, freed, killed, call>>

\* Mutant: the other end is not woken.
pipeclose_NoWakeup(p) ==
  /\ pc[p] = "close" /\ lock = NoProc
  /\ IF p \in Writers
     THEN writeopen' = FALSE /\ Goto(p, "user") /\ UNCHANGED readopen
     ELSE readopen' = FALSE /\ Goto(p, "user") /\ UNCHANGED writeopen
  /\ freed' = (~ readopen' /\ ~ writeopen')
  /\ UNCHANGED <<data, nread, nwrite, lock, open, killed, call>>

pipeclose(p) ==
  /\ pc[p] = "close" /\ lock = NoProc
  /\ IF p \in Writers
     THEN writeopen' = FALSE /\ wakeup("nread", p, "user") /\ UNCHANGED readopen
     ELSE readopen' = FALSE /\ wakeup("nwrite", p, "user") /\ UNCHANGED writeopen
  /\ freed' = (~ readopen' /\ ~ writeopen')
  /\ UNCHANGED <<data, nread, nwrite, lock, open, killed, call>>

-----------------------------------------------------------------------------
pipewrite(p) == write_fails(p) \/ write_full(p) \/ write_returns(p)
                  \/ \E ch \in Byte : write_byte(p, ch)

piperead(p) == read_wait(p) \/ read_byte(p) \/ read_returns(p)

Next ==
  \/ \E p \in Writers : pipewrite(p)
  \/ \E p \in Readers : piperead(p)
  \/ \E p \in Callers : \/ \E m \in 0..MaxCall : Call(p, m)
                      \/ sleep(p) \/ kkill(p)
                      \/ Dup(p) \/ fileclose(p) \/ pipeclose(p)

Spec == Init /\ [][Next]_vars

(* The scheduler runs a process that is in the kernel, and a spinlock that *)
(* becomes free again and again is won in the end.  Nothing makes a        *)
(* program read, write or close, except that a killed one exits and thereby *)
(* closes its descriptors.                                                 *)
Fairness ==
  /\ \A p \in Writers : SF_vars(pipewrite(p))
  /\ \A p \in Readers : SF_vars(piperead(p))
  /\ \A p \in Callers : /\ WF_vars(sleep(p))
                      /\ SF_vars(pipeclose(p))
                      /\ WF_vars(p \in killed /\ fileclose(p))

FairSpec == Spec /\ Fairness
-----------------------------------------------------------------------------
(* Properties.                                                             *)

\* The number of bytes in the pipe, through the counters' wrap-around.
Used == (nwrite + UINT - nread) % UINT

Queue == [k \in 1..Used |-> data[((nread + k - 1) % UINT) % PIPESIZE]]

\* The processes inside a call.
Active == {p \in Callers : pc[p] \notin {"user", "close"}}

Abstract == INSTANCE Fifo WITH
              Capacity <- PIPESIZE, queue <- Queue,
              ropen <- readopen, wopen <- writeopen,
              active <- Active, want <- n, moved <- i

\* The pipe is a bounded FIFO: every byte written is read once, in order, also
\* when the counters wrap; a read returns 0 bytes only at the end of the input;
\* and pipeclose() comes only when nobody is inside a call on that end.
IsFifo == Abstract!Spec

\* A sleeping reader has nothing to read and a sleeping writer has no room,
\* or else the process that owes the wakeup still holds pi->lock.  The one
\* exception is a writer that finds itself killed after it has written some
\* bytes: it returns without wakeup(&pi->nread).
NoLostWakeup ==
  lock = NoProc =>
    /\ \A p \in Readers : pc[p] \in {"rprep", "rsleep"} =>
         writeopen /\ (Empty \/ Writers \cap killed # {})
    /\ \A p \in Writers : pc[p] \in {"wprep", "wsleep"} => Full /\ readopen

\* The page is given back once, when no process can reach the pipe any more.
NoUseAfterFree ==
  freed => \A p \in Callers : p \notin open /\ pc[p] = "user"

TypeOK ==
  /\ data \in [0..PIPESIZE-1 -> Byte] /\ nread \in 0..UINT-1 /\ nwrite \in 0..UINT-1
  /\ readopen \in BOOLEAN /\ writeopen \in BOOLEAN /\ freed \in BOOLEAN
  /\ lock \in Callers \cup {NoProc} /\ open \subseteq Callers /\ killed \subseteq Callers
  /\ pc \in [Callers -> {"user", "close", "write", "wprep", "wsleep", "read", "rprep", "rsleep", "copy"}]
  /\ n \in [Callers -> 0..MaxCall] /\ i \in [Callers -> 0..MaxCall]
  /\ last \in Byte /\ result \in {Error} \cup 0..MaxCall

\* Where a process is: in a call only with a descriptor, and with pi->lock from
\* one byte to the next.  A reader that copies came with bytes to read, or at the
\* end of the input.
CallInv(p) ==
  /\ pc[p] \in {"user", "close"} => n[p] = 0 /\ i[p] = 0
  /\ pc[p] \notin {"user", "close"} => p \in open /\ i[p] <= n[p]
  /\ p \in Writers => pc[p] \notin {"read", "rprep", "rsleep", "copy"}
  /\ p \in Readers => pc[p] \notin {"write", "wprep", "wsleep"}
  /\ pc[p] \in {"read", "rprep", "rsleep"} => i[p] = 0
  /\ lock = p => pc[p] \in {"write", "copy"}
  /\ pc[p] = "copy" => lock = p /\ (i[p] = 0 => ~ Empty \/ ~ writeopen)

\* An end of the pipe is closed by the last process that held it.
EndInv(side, isopen) ==
  /\ ~ isopen => \A p \in side : p \notin open /\ pc[p] = "user"
  /\ \A p \in side : pc[p] = "close" =>
       isopen /\ \A q \in side : q \notin open /\ (q # p => pc[q] = "user")

\* The inductive form of NoLostWakeup: the process that owes a wakeup() to the
\* other end is the one that holds pi->lock.
WakeInv ==
  /\ lock \notin Writers => \A p \in Readers : pc[p] \in {"rprep", "rsleep"} =>
       writeopen /\ (Empty \/ Writers \cap killed # {})
  /\ lock \notin Readers => \A p \in Writers : pc[p] \in {"wprep", "wsleep"} => Full /\ readopen

IInv ==
  /\ TypeOK /\ Used <= PIPESIZE
  /\ \A p \in Callers : CallInv(p)
  /\ EndInv(Writers, writeopen) /\ EndInv(Readers, readopen)
  /\ freed = (~ readopen /\ ~ writeopen)
  /\ WakeInv

=============================================================================
