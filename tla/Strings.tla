------------------------------ MODULE Strings -------------------------------
(***************************************************************************)
(* The memory and string functions of kernel/string.c and user/ulib.c, and *)
(* skipelem() of kernel/fs.c, on one memory of K bytes.  A pointer is an   *)
(* index; a function that writes returns the memory it leaves, and a step  *)
(* is a call of one; loops copy byte by byte, so that overlap matters.     *)
(***************************************************************************)
EXTENDS Integers, Sequences, SequencesExt, FiniteSetsExt

CONSTANTS K,        \* bytes of memory
          Chars,    \* what a byte holds, in ASCII
          DIRSIZ

VARIABLE mem

Ptr == 0..K-1
SLASH == 47
Digits == 48..57

RECURSIVE Forward(_, _, _, _), Backward(_, _, _, _), Fill(_, _, _, _)
Forward(m, d, s, n) == IF n = 0 THEN m ELSE Forward([m EXCEPT ![d] = m[s]], d + 1, s + 1, n - 1)
Backward(m, d, s, n) ==
  IF n = 0 THEN m ELSE Backward([m EXCEPT ![d + n - 1] = m[s + n - 1]], d, s, n - 1)
Fill(m, d, c, n) == IF n <= 0 THEN m ELSE Fill([m EXCEPT ![d] = c], d + 1, c, n - 1)

Fits(p, n) == p + n <= K
IsString(p) == \E i \in p..K-1 : mem[i] = 0
Disjoint(p, q, n) == Fits(p, n) /\ Fits(q, n) /\ (p + n <= q \/ q + n <= p)

\* kernel/string.c
memmove(dst, src, n) ==
  IF src < dst /\ src + n > dst THEN Backward(mem, dst, src, n) ELSE Forward(mem, dst, src, n)
\* user/ulib.c
umemmove(dst, src, n) ==
  IF src > dst THEN Forward(mem, dst, src, n) ELSE Backward(mem, dst, src, n)
memset(dst, c, n) == Fill(mem, dst, c, n)

\* The byte loop of strcpy(), strncpy() and safestrcpy(): at most n bytes, up to
\* and including a NUL.
RECURSIVE CopyLoop(_, _, _, _)
CopyLoop(m, s, t, n) ==
  IF n <= 0 THEN [m |-> m, s |-> s, n |-> n]
  ELSE IF m[t] = 0 THEN [m |-> [m EXCEPT ![s] = 0], s |-> s + 1, n |-> n - 1]
  ELSE CopyLoop([m EXCEPT ![s] = m[t]], s + 1, t + 1, n - 1)

strcpy(s, t) == CopyLoop(mem, s, t, K).m

strncpy(s, t, n) == LET r == CopyLoop(mem, s, t, n) IN Fill(r.m, r.s, 0, r.n)
\* Mutant: n bytes are copied before the NUL.
safestrcpy_Long(s, t, n) ==
  LET r == CopyLoop(mem, s, t, n) IN IF n <= 0 THEN mem ELSE [r.m EXCEPT ![r.s] = 0]

safestrcpy(s, t, n) ==
  LET r == CopyLoop(mem, s, t, n - 1) IN IF n <= 0 THEN mem ELSE [r.m EXCEPT ![r.s] = 0]

RECURSIVE strlen(_), strncmp(_, _, _), memcmp(_, _, _), strcmp(_, _), strchr(_, _), atoi(_, _)
strlen(s) == IF mem[s] = 0 THEN 0 ELSE 1 + strlen(s + 1)
memcmp(p, q, n) == IF n = 0 THEN 0 ELSE IF mem[p] # mem[q] THEN mem[p] - mem[q] ELSE memcmp(p + 1, q + 1, n - 1)

strncmp(p, q, n) ==
  IF n > 0 /\ mem[p] # 0 /\ mem[p] = mem[q] THEN strncmp(p + 1, q + 1, n - 1)
  ELSE IF n = 0 THEN 0 ELSE mem[p] - mem[q]
strcmp(p, q) == IF mem[p] # 0 /\ mem[p] = mem[q] THEN strcmp(p + 1, q + 1) ELSE mem[p] - mem[q]
strchr(s, c) == IF mem[s] = 0 THEN -1 ELSE IF mem[s] = c THEN s ELSE strchr(s + 1, c)   \* -1: null

atoi(s, n) == IF mem[s] \in Digits THEN atoi(s + 1, n * 10 + mem[s] - 48) ELSE n

\* skipelem(): the name, as name[] reads up to its NUL or DIRSIZ, and the rest of
\* the path; rest is -1 if there is no element.
SkipSlashes(p) == Min({i \in p..K-1 : mem[i] # SLASH})
EndOfElem(p) == Min({i \in p..K-1 : mem[i] \in {SLASH, 0}})

skipelem(path) ==
  LET s == SkipSlashes(path)
      e == EndOfElem(s)
      len == IF e - s >= DIRSIZ THEN DIRSIZ ELSE e - s
  IN IF mem[s] = 0 THEN [name |-> <<>>, rest |-> -1]
     ELSE [name |-> [i \in 1..len |-> mem[s + i - 1]], rest |-> SkipSlashes(e)]

\* The elements namex() goes through.
RECURSIVE Walk(_)
Walk(path) == LET r == skipelem(path) IN IF r.rest = -1 THEN <<>> ELSE <<r.name>> \o Walk(r.rest)

Init == mem \in [Ptr -> Chars]

Next == \E d, s \in Ptr, n \in 0..K :
  \/ Fits(d, n) /\ Fits(s, n) /\ mem' \in {memmove(d, s, n), umemmove(d, s, n)}
  \/ Fits(d, n) /\ \E c \in Chars : mem' = memset(d, c, n)
  \/ IsString(s) /\ Disjoint(d, s, strlen(s) + 1) /\ mem' = strcpy(d, s)
  \/ IsString(s) /\ Disjoint(d, s, n) /\ mem' \in {strncpy(d, s, n), safestrcpy(d, s, n)}

Spec == Init /\ [][Next]_mem

-----------------------------------------------------------------------------
(* What the functions should do.                                           *)

Bytes(p, n) == [i \in 1..n |-> mem[p + i - 1]]
Str(p) == Bytes(p, Min({i \in p..K-1 : mem[i] = 0}) - p)
Cut(str, n) == SubSeq(str, 1, Min({n, Len(str)}))
Sign(n) == IF n < 0 THEN -1 ELSE IF n > 0 THEN 1 ELSE 0
Write(p, bytes) == [i \in Ptr |-> IF i >= p /\ i < p + Len(bytes) THEN bytes[i - p + 1] ELSE mem[i]]
Zeros(n) == [i \in 1..n |-> 0]
\* Byte order of two sequences; a proper prefix comes first.
Order(a, b) ==
  LET diff == {i \in 1..Min({Len(a), Len(b)}) : a[i] # b[i]} IN
  IF diff # {} THEN Sign(a[Min(diff)] - b[Min(diff)]) ELSE Sign(Len(a) - Len(b))

\* memmove() of the kernel and of the user library leave at dst the bytes that
\* were at src, and change nothing else, wherever the two regions overlap.
MoveExact == \A d, s \in Ptr, n \in 0..K : Fits(d, n) /\ Fits(s, n) =>
  memmove(d, s, n) = Write(d, Bytes(s, n)) /\ umemmove(d, s, n) = Write(d, Bytes(s, n))

\* strncpy() writes exactly n bytes, the string and NULs: a name that was longer
\* leaves nothing behind in a directory entry.  strcpy() writes the string and one NUL.
NcpyExact == \A d, s \in Ptr, n \in 0..K : IsString(s) /\ Disjoint(d, s, n) =>
  /\ strncpy(d, s, n) = Write(d, Cut(Str(s) \o Zeros(K), n))
  /\ n = strlen(s) + 1 => strcpy(d, s) = Write(d, Str(s) \o <<0>>)

\* safestrcpy() leaves a NUL-terminated string of at most n-1 bytes, the start of
\* the other, and writes nothing beyond its n bytes.
SafeExact == \A d, s \in Ptr, n \in 1..K : IsString(s) /\ Disjoint(d, s, n) =>
  LET m == safestrcpy(d, s, n)
      cut == Cut(Str(s), n - 1)
  IN /\ \A i \in Ptr : i < d \/ i >= d + n => m[i] = mem[i]
     /\ m[d + Len(cut)] = 0 /\ \A i \in 1..Len(cut) : m[d + i - 1] = cut[i]

\* strcmp(), strncmp() and strlen() agree with the byte order of the strings, cut
\* at n: what follows the NUL of a directory entry's name does not count.  To
\* memcmp(), it does.
CmpExact == \A p, q \in Ptr :
  /\ \A n \in 0..K : Fits(p, n) /\ Fits(q, n) => Sign(memcmp(p, q, n)) = Order(Bytes(p, n), Bytes(q, n))
  /\ IsString(p) /\ IsString(q) =>
     /\ strlen(p) = Len(Str(p))
     /\ Sign(strcmp(p, q)) = Order(Str(p), Str(q))
     /\ \A n \in 0..K : Sign(strncmp(p, q, n)) = Order(Cut(Str(p), n), Cut(Str(q), n))
     /\ \A c \in Chars \ {0} : strchr(p, c) = IF Contains(Str(p), c) THEN p + SelectInSeq(Str(p), LAMBDA x : x = c) - 1
                                              ELSE -1

\* atoi() is the value of the longest prefix of digits.
AtoiExact == \A p \in Ptr : IsString(p) =>
  LET ds == Str(p)
      len == Min({i \in 1..Len(ds) + 1 : i > Len(ds) \/ ds[i] \notin Digits}) - 1
  IN atoi(p, 0) = MapThenSumSet(LAMBDA i : (ds[i] - 48) * 10^(len - i), 1..len)

\* The elements skipelem() yields are the maximal runs of other bytes than '/',
\* each cut to DIRSIZ bytes; none is empty.
ElemsExact == \A p \in Ptr : IsString(p) =>
  LET str == Str(p)
      At(i) == i \in 1..Len(str) /\ str[i] # SLASH
      starts == {i \in 1..Len(str) : At(i) /\ ~ At(i - 1)}
      Elem(i) == Cut(SubSeq(str, i, Min({j \in i..Len(str) : ~ At(j + 1)})), DIRSIZ)
      from == SetToSortSeq(starts, <)
  IN Walk(p) = [k \in DOMAIN from |-> Elem(from[k])]
=============================================================================
