------------------------------ MODULE ByteFile ------------------------------
(***************************************************************************)
(* What the content of a file is to its users: a sequence of bytes with a  *)
(* position.  A write first changes bytes that are there, at or after the  *)
(* position, then appends and moves the position; a read returns the bytes *)
(* at the position.  FileData implements this with blocks.                 *)
(***************************************************************************)
EXTENDS Naturals, Sequences

CONSTANTS Files, Vals

VARIABLES bytes, off, got

Init == /\ bytes = [f \in Files |-> <<>>]
        /\ off = [f \in Files |-> 0]
        /\ got = <<>>

\* Bytes from .. to of the file become v, without moving anything.
Change(f, v, from, to) ==
  /\ off[f] < from /\ to <= Len(bytes[f])
  /\ bytes' = [bytes EXCEPT ![f] = [k \in DOMAIN @ |-> IF k \in from..to THEN v ELSE @[k]]]
  /\ UNCHANGED <<off, got>>

\* The write ends: n bytes from the position on are v, the last ones new.
Done(f, v, n) ==
  LET len == IF off[f] + n > Len(bytes[f]) THEN off[f] + n ELSE Len(bytes[f]) IN
  /\ bytes' = [bytes EXCEPT ![f] = [k \in 1..len |-> IF k <= Len(@) THEN @[k] ELSE v]]
  /\ \A k \in (off[f] + 1)..(off[f] + n) : bytes'[f][k] = v
  /\ off' = [off EXCEPT ![f] = @ + n]
  /\ UNCHANGED got

Read(f, n) ==
  LET end == IF off[f] + n > Len(bytes[f]) THEN Len(bytes[f]) ELSE off[f] + n IN
  /\ got' = SubSeq(bytes[f], off[f] + 1, end)
  /\ off' = [off EXCEPT ![f] = IF end > @ THEN end ELSE @]
  /\ UNCHANGED bytes

Truncate(f) == bytes' = [bytes EXCEPT ![f] = <<>>] /\ UNCHANGED <<off, got>>

Open(f) == off' = [off EXCEPT ![f] = 0] /\ UNCHANGED <<bytes, got>>

Next == \E f \in Files :
  \/ Truncate(f) \/ Open(f)
  \/ \E v \in Vals, from, to \in 1..Len(bytes[f]) : Change(f, v, from, to)
  \/ \E v \in Vals, n \in 1..10 : Done(f, v, n)
  \/ \E n \in 0..10 : Read(f, n)

\* A step of a system that implements this one.
Step == Next \/ UNCHANGED <<bytes, off, got>>

Spec == Init /\ [][Next]_<<bytes, off, got>>
=============================================================================
