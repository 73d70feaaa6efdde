------------------------------- MODULE Filters ------------------------------
(***************************************************************************)
(* The filters of user/: grep.c, wc.c and cat.c.  Each reads its input     *)
(* through a small buffer, and read() returns as many bytes as happen to   *)
(* be there: what they compute must not depend on where the reads cut the  *)
(* input.  A pattern and a line are sequences of characters without NUL.   *)
(***************************************************************************)
EXTENDS Naturals, Sequences, SequencesExt, FiniteSets

CONSTANTS BUF,          \* sizeof(buf)
          Inputs,       \* what there is to read: finite sequences of characters
          Patterns,
          Newline, Space

VARIABLES prog, pattern, file,  \* the program that runs, and what it works on
          pos,                  \* bytes of the file read
          buf,                  \* the m bytes grep keeps for its next round
          out,                  \* what was written
          acc,                  \* the counters of wc
          done                  \* "no", "yes", or "error"

vars == <<prog, pattern, file, pos, buf, out, acc, done>>

-----------------------------------------------------------------------------
(* The matcher.                                                            *)

RECURSIVE matchhere(_, _), matchstar(_, _, _)

matchstar(c, re, text) ==
  \/ matchhere(re, text)
  \/ text # <<>> /\ (Head(text) = c \/ c = ".") /\ matchstar(c, re, Tail(text))

matchhere(re, text) ==
  IF re = <<>> THEN TRUE
  ELSE IF Len(re) > 1 /\ re[2] = "*" THEN matchstar(re[1], SubSeq(re, 3, Len(re)), text)
  ELSE IF re = <<"$">> THEN text = <<>>
  ELSE text # <<>> /\ re[1] \in {".", Head(text)} /\ matchhere(Tail(re), Tail(text))

match(re, text) ==
  IF re # <<>> /\ re[1] = "^" THEN matchhere(Tail(re), text)
  ELSE \E i \in 0..Len(text) : matchhere(re, SubSeq(text, i + 1, Len(text)))

-----------------------------------------------------------------------------
(* The programs.                                                           *)

Init == /\ prog \in {"grep", "wc", "cat"} /\ file \in Inputs /\ pos = 0
        /\ pattern \in IF prog = "grep" THEN Patterns ELSE {<<>>}
        /\ buf = <<>> /\ out = <<>> /\ acc = [l |-> 0, w |-> 0, c |-> 0, inword |-> FALSE] /\ done = "no"

\* read() of n bytes, at most space.
Runs(p) == prog = p /\ done = "no" /\ UNCHANGED <<prog, pattern, file>>
Read(n, space) == n \in 1..space /\ pos + n <= Len(file) /\ pos' = pos + n
Chunk(n) == SubSeq(file, pos + 1, pos + n)
\* read() returns 0 at the end of the file and when there is no space, or -1.
ReadEnds(p, space) ==
  /\ Runs(p) /\ done' \in (IF space = 0 \/ pos = Len(file) THEN {"yes"} ELSE {}) \cup {"error"}
  /\ UNCHANGED <<pos, buf, out, acc>>

\* The lines of s that are whole, without their newline; and what comes after them.
Ends(s) == {i \in 1..Len(s) : s[i] = Newline}
LastEnd(s) == IF Ends(s) = {} THEN 0 ELSE CHOOSE i \in Ends(s) : \A j \in Ends(s) : j <= i
NextEnd(s, from) == CHOOSE i \in Ends(s) : i > from /\ \A j \in Ends(s) : j > from => i <= j
RECURSIVE Matching(_, _, _)
Matching(re, s, from) ==
  IF from >= LastEnd(s) THEN <<>>
  ELSE LET q == NextEnd(s, from)
           line == SubSeq(s, from + 1, q - 1)
       IN (IF match(re, line) THEN Append(line, Newline) ELSE <<>>) \o Matching(re, s, q)

\* A round of the outer loop; one byte of buf is for the NUL.
grep(n) ==
  /\ Runs("grep") /\ Read(n, BUF - 1 - Len(buf))
  /\ LET s == buf \o Chunk(n) IN out' = out \o Matching(pattern, s, 0) /\ buf' = SubSeq(s, LastEnd(s) + 1, Len(s))
  /\ UNCHANGED <<acc, done>>

\* Mutant: every read starts outside a word.
Count_Fresh(a, s) ==
  FoldLeft(LAMBDA b, ch : [l |-> b.l + (IF ch = Newline THEN 1 ELSE 0), c |-> b.c + 1,
                           w |-> b.w + (IF ch \notin {Newline, Space} /\ ~ b.inword THEN 1 ELSE 0),
                           inword |-> ch \notin {Newline, Space}], [a EXCEPT !.inword = FALSE], s)

\* The for loop of wc().
Count(a, s) ==
  FoldLeft(LAMBDA b, ch : [l |-> b.l + (IF ch = Newline THEN 1 ELSE 0), c |-> b.c + 1,
                           w |-> b.w + (IF ch \notin {Newline, Space} /\ ~ b.inword THEN 1 ELSE 0),
                           inword |-> ch \notin {Newline, Space}], a, s)

wc(n) ==
  /\ Runs("wc") /\ Read(n, BUF)
  /\ acc' = Count(acc, Chunk(n))
  /\ UNCHANGED <<buf, out, done>>

\* A short write ends cat.
cat(n) ==
  /\ Runs("cat") /\ Read(n, BUF)
  /\ \E k \in 0..n : out' = out \o SubSeq(file, pos + 1, pos + k) /\ done' = IF k = n THEN "no" ELSE "error"
  /\ UNCHANGED <<buf, acc>>

Next == \/ \E n \in 1..BUF : grep(n) \/ wc(n) \/ cat(n)
        \/ ReadEnds("grep", BUF - 1 - Len(buf)) \/ ReadEnds("wc", BUF) \/ ReadEnds("cat", BUF)

Spec == Init /\ [][Next]_vars

-----------------------------------------------------------------------------
(* Properties.                                                             *)

\* The positions of text that the items of re lead to from the positions in S.
Atom(re, i) == IF i < Len(re) /\ re[i + 1] = "*" THEN "star" ELSE IF i = Len(re) /\ re[i] = "$" THEN "end" ELSE "one"
Fits(c, ch) == c \in {".", ch}
RECURSIVE Reach(_, _, _, _)
Reach(re, i, text, S) ==
  IF i > Len(re) THEN S
  ELSE CASE Atom(re, i) = "star" -> Reach(re, i + 2, text,
              {b \in 0..Len(text) : \E a \in S : a <= b /\ \A k \in a+1..b : Fits(re[i], text[k])})
         [] Atom(re, i) = "end" -> S \cap {Len(text)}
         [] OTHER -> Reach(re, i + 1, text, {b \in 1..Len(text) : b - 1 \in S /\ Fits(re[i], text[b])})

\* match() finds the pattern in the text exactly when some stretch of the text is
\* in the language of the pattern, anchored where ^ and $ say: matchstar()'s
\* search gives up no possibility.
MatchExact == prog = "grep" =>
  match(pattern, file) <=> IF pattern # <<>> /\ pattern[1] = "^" THEN Reach(pattern, 2, file, {0}) # {}
                           ELSE Reach(pattern, 1, file, 0..Len(file)) # {}

Before == SubSeq(file, 1, pos)
AllFit == \A i \in 0..Len(file) - (BUF - 1) : \E k \in 1..BUF-1 : file[i + k] = Newline
\* Where no line exceeds the buffer, grep() has written exactly the lines read so
\* far that match, wherever the reads cut them, and it ends only at the end.
GrepExact == prog = "grep" /\ AllFit =>
  /\ out = Matching(pattern, Before, 0)
  /\ done = "yes" => pos = Len(file)

\* wc() counts the characters, the newlines and the starts of words of what it
\* read, also of a word that two reads share.
WcExact == prog = "wc" =>
  /\ acc.c = pos /\ acc.l = Cardinality(Ends(Before))
  /\ acc.w = Cardinality({i \in 1..pos : file[i] \notin {Newline, Space} /\ (i = 1 \/ file[i - 1] \in {Newline, Space})})

\* cat() has written all that it read, unless it reports an error.
CatExact == prog = "cat" => IsPrefix(out, file) /\ (done # "error" => out = Before) /\ (done = "yes" => out = file)
=============================================================================
