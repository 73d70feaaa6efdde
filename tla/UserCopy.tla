------------------------------ MODULE UserCopy ------------------------------
(***************************************************************************)
(* Copies between the kernel and a process's memory, byte by byte: the     *)
(* loops of copyout(), copyin() and copyinstr() (vm.c) over pages that are *)
(* there, can be allocated on demand, or cannot; what fetchaddr() and      *)
(* fetchstr() (syscall.c) make of them; and the offsets of readi() and     *)
(* writei() (fs.c).  Addresses are words that wrap at 2^W.  What a page    *)
(* fault does to the page table is in the module Vm.                       *)
(***************************************************************************)
EXTENDS Integers, Sequences, FiniteSets

CONSTANTS W, PGSIZE, MAXVA,
          WORD,         \* sizeof(uint64)
          TEXT,         \* the pages below are read-only
          MaxSize       \* bound on psz, for the instance

VARIABLES psz,          \* the process's size
          nul,          \* the addresses in it that hold NUL
          va, len       \* the arguments of a call

Init == psz = 0 /\ nul \in SUBSET (0..MaxSize-1) /\ va \in 0..2^W-1 /\ len \in 0..2*PGSIZE+1
\* sbrk(), lazily, or exec()
Next == psz' \in {0, psz + 1} \cap 0..MaxSize /\ UNCHANGED <<nul, va, len>>
Spec == Init /\ [][Next]_<<psz, nul, va, len>>

PGROUNDDOWN(a) == a - (a % PGSIZE)
Least(a, b) == IF a < b THEN a ELSE b

-----------------------------------------------------------------------------
(* vm.c.  A copy returns whether it succeeded, and what it copied.         *)

\* walkaddr(), else vmfault() with memory to spare: a page that begins below the size.
Present(va0) == va0 < MAXVA /\ va0 < psz
Fails == [ok |-> FALSE, s |-> <<>>]
Page(a) == PGSIZE - (a - PGROUNDDOWN(a))

RECURSIVE Copy(_, _, _)

\* The loop of copyout() and of copyin(), which does not ask for PTE_W; s: the
\* addresses copied.
Copy(a, n, out) ==
  LET va0 == PGROUNDDOWN(a)
      m == Least(Page(a), n)
  IN IF n = 0 THEN [ok |-> TRUE, s |-> <<>>]
     ELSE IF ~ Present(va0) \/ (out /\ va0 < TEXT) THEN Fails
     ELSE LET r == Copy((va0 + PGSIZE) % 2^W, n - m, out) IN [r EXCEPT !.s = [k \in 1..m |-> a + k - 1] \o @]

copyin(a, n) == Copy(a, n, FALSE)

RECURSIVE copyinstr(_, _)

\* A round looks at n bytes for the NUL; without one, it goes on in the next page.
copyinstr(a, max) ==
  LET va0 == PGROUNDDOWN(a)
      n == Least(Page(a), max)
      in == a..a + n - 1
      end == CHOOSE e \in in \cap nul : \A f \in in \cap nul : e <= f
  IN IF max = 0 \/ ~ Present(va0) THEN Fails
     ELSE IF in \cap nul # {} THEN [ok |-> TRUE, s |-> [k \in 1..end - a |-> a + k - 1]]
     ELSE LET r == copyinstr((va0 + PGSIZE) % 2^W, max - n) IN [r EXCEPT !.s = [k \in 1..n |-> a + k - 1] \o @]

-----------------------------------------------------------------------------
(* syscall.c and fs.c.                                                     *)

fetchaddr(addr) == IF addr >= psz \/ (addr + WORD) % 2^W > psz THEN Fails ELSE copyin(addr, WORD)

\* The length of the string, or -1.
fetchstr(addr, max) == IF copyinstr(addr, max).ok THEN Len(copyinstr(addr, max).s) ELSE -1

\* Mutant: no test for overflow.
readi_Wraps(size, off, n) == IF off > size THEN 0 ELSE IF (off + n) % 2^W > size THEN size - off ELSE n

\* How much readi() is to copy, and writei() too if it does not fail.
readi(size, off, n) ==
  IF off > size \/ (off + n) % 2^W < off THEN 0
  ELSE IF (off + n) % 2^W > size THEN size - off ELSE n
writei(size, off, n) ==
  IF off > size \/ (off + n) % 2^W < off \/ (off + n) % 2^W > MAXVA THEN -1 ELSE n

-----------------------------------------------------------------------------
(* Properties.                                                             *)

\* The memory of a process: its size, rounded up to whole pages.
Memory == {a \in 0..2^W-1 : PGROUNDDOWN(a) < psz}
Range == va..va + len - 1

\* copyin() and copyout() succeed exactly if all of the range is memory of the
\* process, and for copyout() writable; what they copied is the range or, when
\* they fail, a beginning of it.  No range wraps to the low addresses.
CopyExact == \A out \in BOOLEAN :
  LET r == Copy(va, len, out) IN
  /\ r.ok <=> Range \subseteq Memory /\ (out => \A a \in Range : PGROUNDDOWN(a) >= TEXT)
  /\ \A k \in 1..Len(r.s) : r.s[k] = va + k - 1
  /\ r.ok => Len(r.s) = len

\* copyinstr() and fetchstr() find the string that begins at va if its NUL is
\* among the max bytes from there, all in the process's memory, and fail else,
\* also where max ends just before the NUL or the memory does.
StrExact ==
  LET Ends == {e \in Range \cap nul : va..e \subseteq Memory} IN
  fetchstr(va, len) = IF Ends = {} THEN -1 ELSE (CHOOSE e \in Ends : \A f \in Ends : e <= f) - va

\* fetchaddr() reads a word exactly if all of it is below the size, though the
\* page may go on after it and addr + 8 may wrap.
FetchExact == fetchaddr(va).ok <=> va + WORD <= psz

\* readi() reads exactly the bytes of the range that the file has, unless the end
\* of the range wraps; writei() accepts no range that wraps, leaves a hole, or
\* is past the largest file.
OffsetsExact ==
  /\ readi(psz, va, len) = IF va + len >= 2^W THEN 0 ELSE Cardinality(Range \cap 0..psz-1)
  /\ writei(psz, va, len) = IF va <= psz /\ va + len <= MAXVA THEN len ELSE -1
=============================================================================
