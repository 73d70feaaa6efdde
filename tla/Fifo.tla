-------------------------------- MODULE Fifo --------------------------------
(***************************************************************************)
(* What a pipe promises: a bounded queue of bytes between processes that   *)
(* write and processes that read.  A call moves bytes one at a time, and   *)
(* other writers' bytes may come between; its result is the number of      *)
(* bytes moved, or Error.                                                  *)
(***************************************************************************)
EXTENDS Naturals, Sequences

CONSTANTS Writers, Readers, Byte, Capacity, MaxCall, Error

VARIABLES
  queue,
  ropen, wopen,  \* has the pipe readers, writers?
  active,        \* processes inside a call
  want, moved,   \* bytes asked for and moved by the current call
  last,          \* the last byte a reader got
  result         \* what the last call to end returned

vars == <<queue, ropen, wopen, active, want, moved, last, result>>

Callers == Writers \cup Readers

Init ==
  /\ queue = <<>>
  /\ ropen = TRUE /\ wopen = TRUE
  /\ active = {}
  /\ want = [p \in Callers |-> 0]
  /\ moved = [p \in Callers |-> 0]
  /\ last \in Byte
  /\ result = 0

Call(p, n) ==
  /\ p \notin active
  /\ active' = active \cup {p}
  /\ want' = [want EXCEPT ![p] = n]
  /\ UNCHANGED <<queue, ropen, wopen, moved, last, result>>

Put(p, ch) ==
  /\ p \in active \cap Writers
  /\ ropen
  /\ moved[p] < want[p]
  /\ Len(queue) < Capacity
  /\ queue' = Append(queue, ch)
  /\ moved' = [moved EXCEPT ![p] = @ + 1]
  /\ UNCHANGED <<ropen, wopen, active, want, last, result>>

Get(p) ==
  /\ p \in active \cap Readers
  /\ moved[p] < want[p]
  /\ queue # <<>>
  /\ last' = Head(queue)
  /\ queue' = Tail(queue)
  /\ moved' = [moved EXCEPT ![p] = @ + 1]
  /\ UNCHANGED <<ropen, wopen, active, want, result>>

\* A short write other than an error has met a bad address; a read of no
\* bytes has found the pipe empty and without writers.
Return(p, r) ==
  /\ p \in active
  /\ \/ r = Error /\ (p \in Readers => moved[p] = 0)
     \/ /\ r = moved[p]
        /\ p \in Writers => moved[p] = want[p] \/ moved[p] > 0
        /\ p \in Readers => moved[p] > 0 \/ want[p] = 0 \/ (queue = <<>> /\ ~ wopen)
  /\ active' = active \ {p}
  /\ result' = r
  /\ want' = [want EXCEPT ![p] = 0]
  /\ moved' = [moved EXCEPT ![p] = 0]
  /\ UNCHANGED <<queue, ropen, wopen, last>>

CloseWriters ==
  /\ wopen /\ wopen' = FALSE
  /\ active \cap Writers = {}
  /\ UNCHANGED <<queue, ropen, active, want, moved, last, result>>

CloseReaders ==
  /\ ropen /\ ropen' = FALSE
  /\ active \cap Readers = {}
  /\ UNCHANGED <<queue, wopen, active, want, moved, last, result>>

Next ==
  \/ \E p \in Callers, n \in 0..MaxCall : Call(p, n)
  \/ \E p \in Callers, ch \in Byte : Put(p, ch)
  \/ \E p \in Callers : Get(p)
  \/ \E p \in Callers : \E r \in {Error} \cup 0..MaxCall : Return(p, r)
  \/ CloseWriters \/ CloseReaders

\* A step of a system that implements this one.
Step == Next \/ UNCHANGED vars

Spec == Init /\ [][Next]_vars
=============================================================================
