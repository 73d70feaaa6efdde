------------------------------ MODULE Console -------------------------------
(***************************************************************************)
(* Console input, kernel/console.c: the ring of INPUT_BUF_SIZE characters  *)
(* with its read, write and edit indices, filled by consoleintr() and      *)
(* emptied by consoleread().  consoleintr() runs under cons.lock and is    *)
(* one step; consoleread() is one step per iteration, with cons.lock held  *)
(* in between.  Echoing is output and belongs to module Uart.              *)
(***************************************************************************)
EXTENDS Naturals, Sequences

CONSTANTS
  Readers, NoProc,
  Plain,           \* ordinary characters
  INPUT_BUF_SIZE,
  UINT,            \* indices are taken modulo this (2^32 in the code), a
                   \* multiple of INPUT_BUF_SIZE and more than it
  MaxCall          \* largest n of a call

Char == Plain \cup {"nl", "^D"}
Key == Char \cup {"cr", "^P", "^U", "^H", "nul"}

VARIABLES
  buf, r, w, e,
  lock,       \* the reader that holds cons.lock from one step to the next
  pc, n, got, \* of each reader: n is what remains to be read
  killed

vars == <<buf, r, w, e, lock, pc, n, got, killed>>

Init ==
  /\ \E c \in Char : buf = [k \in 0..INPUT_BUF_SIZE-1 |-> c]
  /\ r = 0 /\ w = 0 /\ e = 0
  /\ lock = NoProc
  /\ pc = [p \in Readers |-> "user"]
  /\ n = [p \in Readers |-> 0]
  /\ got = [p \in Readers |-> <<>>]
  /\ killed = {}

Inc(k) == (k + 1) % UINT
Dec(k) == (k + UINT - 1) % UINT
Minus(a, b) == (a + UINT - b) % UINT
At(k) == buf[k % INPUT_BUF_SIZE]

-----------------------------------------------------------------------------
(* consoleintr().                                                          *)

\* ^U: the loop erases back to the last newline, and not past cons.w.
KillLine ==
  LET count == Minus(e, w)
      Stops(k) == k = count \/ At((e + UINT - k - 1) % UINT) = "nl"
      erased == CHOOSE k \in 0..count : Stops(k) /\ \A j \in 0..k-1 : ~ Stops(j)
  IN e' = Minus(e, erased) /\ UNCHANGED <<buf, w, pc>>

\* ^H and delete.
Backspace == e' = (IF e # w THEN Dec(e) ELSE e) /\ UNCHANGED <<buf, w, pc>>

\* wakeup(&cons.r)
Woken == [p \in Readers |-> IF pc[p] \in {"prepared", "asleep"} THEN "read" ELSE pc[p]]

Store(c) ==
  IF Minus(e, r) < INPUT_BUF_SIZE
  THEN /\ buf' = [buf EXCEPT ![e % INPUT_BUF_SIZE] = c]
       /\ e' = Inc(e)
       /\ IF c \in {"nl", "^D"} \/ Minus(e', r) = INPUT_BUF_SIZE
          THEN w' = e' /\ pc' = Woken
          ELSE UNCHANGED <<w, pc>>
  ELSE UNCHANGED <<buf, e, w, pc>>

consoleintr(c) ==
  /\ lock = NoProc
  /\ CASE c = "^U" -> KillLine
       [] c = "^H" -> Backspace
       [] c \in {"^P", "nul"} -> UNCHANGED <<buf, e, w, pc>>
       [] c = "cr" -> Store("nl")
       [] OTHER -> Store(c)
  /\ UNCHANGED <<r, lock, n, got, killed>>

-----------------------------------------------------------------------------
(* consoleread().                                                          *)

Call(p, m) ==
  /\ pc[p] = "user" /\ p \notin killed
  /\ pc' = [pc EXCEPT ![p] = "read"]
  /\ n' = [n EXCEPT ![p] = m]
  /\ UNCHANGED <<buf, r, w, e, lock, got, killed>>

Returns(p) ==
  /\ pc' = [pc EXCEPT ![p] = "user"]
  /\ n' = [n EXCEPT ![p] = 0]
  /\ got' = [got EXCEPT ![p] = <<>>]
  /\ lock' = NoProc

Reads(p) == pc[p] = "read" /\ lock \in {NoProc, p}

\* Nothing to read: sleep, or give up when killed.
read_wait(p) ==
  /\ Reads(p) /\ n[p] > 0 /\ r = w
  /\ IF p \in killed THEN Returns(p)
     ELSE /\ pc' = [pc EXCEPT ![p] = "prepared"]
          /\ lock' = NoProc
          /\ UNCHANGED <<n, got>>
  /\ UNCHANGED <<buf, r, w, e, killed>>

sleep(p) ==
  /\ pc[p] = "prepared"
  /\ pc' = [pc EXCEPT ![p] = "asleep"]
  /\ UNCHANGED <<buf, r, w, e, lock, n, got, killed>>

\* Mutant: the end-of-file mark is consumed with the characters before it.
read_eof_NotSaved(p) ==
  /\ Reads(p) /\ n[p] > 0 /\ r # w
  /\ At(r) = "^D"
  /\ r' = Inc(r)
  /\ Returns(p)
  /\ UNCHANGED <<buf, w, e, killed>>

\* ^D ends the call; it stays in the buffer unless it is the first character.
read_eof(p) ==
  /\ Reads(p) /\ n[p] > 0 /\ r # w
  /\ At(r) = "^D"
  /\ r' = IF got[p] # <<>> THEN r ELSE Inc(r)
  /\ Returns(p)
  /\ UNCHANGED <<buf, w, e, killed>>

\* One character; the call ends with a newline, or (next step) when n is 0.
read_char(p) ==
  /\ Reads(p) /\ n[p] > 0 /\ r # w
  /\ At(r) # "^D"
  /\ r' = Inc(r)
  /\ got' = [got EXCEPT ![p] = Append(@, At(r))]
  /\ n' = [n EXCEPT ![p] = IF At(r) = "nl" THEN 0 ELSE @ - 1]
  /\ lock' = p
  /\ UNCHANGED <<buf, w, e, pc, killed>>

\* either_copyout() fails: the character is gone.
read_fault(p) ==
  /\ Reads(p) /\ n[p] > 0 /\ r # w
  /\ At(r) # "^D"
  /\ r' = Inc(r)
  /\ Returns(p)
  /\ UNCHANGED <<buf, w, e, killed>>

read_done(p) ==
  /\ Reads(p) /\ n[p] = 0
  /\ Returns(p)
  /\ UNCHANGED <<buf, r, w, e, killed>>

consoleread(p) == read_wait(p) \/ read_eof(p) \/ read_char(p) \/ read_fault(p) \/ read_done(p)

kkill(p) ==
  /\ p \notin killed
  /\ killed' = killed \cup {p}
  /\ pc' = [pc EXCEPT ![p] = IF @ = "asleep" THEN "read" ELSE @]
  /\ UNCHANGED <<buf, r, w, e, lock, n, got>>

Next == \/ \E c \in Key : consoleintr(c)
        \/ \E p \in Readers : \/ \E m \in 0..MaxCall : Call(p, m)
                              \/ consoleread(p) \/ sleep(p) \/ kkill(p)

Spec == Init /\ [][Next]_vars

(* The process runs, and wins a lock that is free again and again.         *)
FairSpec == Spec /\ \A p \in Readers : SF_vars(consoleread(p)) /\ WF_vars(sleep(p))
-----------------------------------------------------------------------------
(* Properties.                                                             *)

\* A buffer that accepts no more input has something to read, so that a reader
\* can make room.
FullIsReadable == Minus(e, r) = INPUT_BUF_SIZE => r # w

\* A reader sleeps only while there is nothing to read.
NoLostWakeup ==
  \A p \in Readers : pc[p] \in {"prepared", "asleep"} /\ lock = NoProc => r = w

Section(a, b) == [k \in 1..Minus(b, a) |-> At((a + k - 1) % UINT)]

Abstract == INSTANCE LineInput WITH
              Newline <- "nl", Eof <- "^D", Size <- INPUT_BUF_SIZE,
              line <- Section(w, e), ready <- Section(r, w)

\* The ring is a line editor: every entered character is read once, in order,
\* by one reader, and an erased one by none.
IsLineInput == Abstract!Spec

=============================================================================
