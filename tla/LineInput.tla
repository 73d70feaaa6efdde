----------------------------- MODULE LineInput ------------------------------
(* What console input promises: characters are edited in a line of their   *)
(* own until the line is entered, entered characters are read once and in  *)
(* order, and a full buffer counts as entered.                             *)
EXTENDS Naturals, Sequences

CONSTANTS Char, Newline, Eof, Size, Readers

VARIABLES
  line,   \* typed, not yet entered
  ready,  \* entered, not yet read
  got     \* what each reader's call has copied out

Init == line = <<>> /\ ready = <<>> /\ got = [p \in Readers |-> <<>>]

Type(c) ==
  LET full == Len(ready) + Len(line) + 1 = Size
      new == Append(line, c)
  IN /\ Len(ready) + Len(line) < Size
     /\ IF c \in {Newline, Eof} \/ full
        THEN ready' = ready \o new /\ line' = <<>>
        ELSE line' = new /\ UNCHANGED ready
     /\ UNCHANGED got

Erase == \E k \in 0..Len(line) : line' = SubSeq(line, 1, k) /\ UNCHANGED <<ready, got>>

\* One character, unless it is an end-of-file mark behind other characters,
\* which stays for the next call.
Read(p) ==
  /\ ready # <<>>
  /\ Head(ready) = Eof => got[p] = <<>>
  /\ ready' = Tail(ready)
  /\ got' = IF Head(ready) = Eof THEN got ELSE [got EXCEPT ![p] = Append(@, Head(ready))]
  /\ UNCHANGED line

\* The character is taken but cannot be delivered; that ends the call.
Drop(p) ==
  /\ ready # <<>> /\ Head(ready) # Eof
  /\ ready' = Tail(ready)
  /\ got' = [got EXCEPT ![p] = <<>>]
  /\ UNCHANGED line

Return(p) == got' = [got EXCEPT ![p] = <<>>] /\ UNCHANGED <<line, ready>>

Next == \/ \E c \in Char : Type(c)
        \/ Erase
        \/ \E p \in Readers : Read(p) \/ Drop(p) \/ Return(p)

\* A step of a system that implements this one.
Step == Next \/ UNCHANGED <<line, ready, got>>

Spec == Init /\ [][Next]_<<line, ready, got>>
=============================================================================
