------------------------------- MODULE Malloc -------------------------------
(***************************************************************************)
(* The user memory allocator, user/umalloc.c: a circular list of free      *)
(* blocks in address order.  An address counts headers, as Header pointers *)
(* do; base is at BASE, below the heap.                                    *)
(***************************************************************************)
EXTENDS Naturals, FiniteSets, FiniteSetsExt

CONSTANTS HEAP,       \* the heap is HEAPSTART..HEAP-1, in headers
          NALLOC,     \* the least sbrk() is asked for: 4096
          HDR,        \* sizeof(Header)
          Requests    \* bytes malloc() is asked for

VARIABLES ptr, size,  \* the fields of the headers
          freep, brk,
          live,       \* blocks the program holds, with what it asked for
          core        \* the addresses malloc() got from sbrk()

vars == <<ptr, size, freep, brk, live, core>>

BASE == 0
HEAPSTART == 2
NULL == HEAP
Addr == 0..HEAP-1

Now == [ptr |-> ptr, size |-> size, freep |-> freep, brk |-> brk, core |-> core]

\* Where free() stops: the block before bp, or the last one if bp is at either end.
RECURSIVE Place(_, _, _)

Place(h, bp, p) ==
  IF bp > p /\ bp < h.ptr[p] THEN p
  ELSE IF p >= h.ptr[p] /\ (bp > p \/ bp < h.ptr[p]) THEN p
  ELSE Place(h, bp, h.ptr[p])

JoinUpper(h, bp, p) ==
  IF bp + h.size[bp] = h.ptr[p]
  THEN [h EXCEPT !.size[bp] = @ + h.size[h.ptr[p]], !.ptr[bp] = h.ptr[h.ptr[p]]]
  ELSE [h EXCEPT !.ptr[bp] = h.ptr[p]]

JoinLower(h, bp, p) ==
  IF p + h.size[p] = bp THEN [h EXCEPT !.size[p] = @ + h.size[bp], !.ptr[p] = h.ptr[bp], !.freep = p]
  ELSE [h EXCEPT !.ptr[p] = bp, !.freep = p]
Link(h, bp, p) == JoinLower(JoinUpper(h, bp, p), bp, p)
Free(h, bp) == Link(h, bp, Place(h, bp, h.freep))

\* sbrk() grows the heap or fails; freep is NULL if it failed.
morecore(h, nu) ==
  LET n == Max({nu, NALLOC}) IN
  IF h.brk + n > HEAP THEN [h EXCEPT !.freep = NULL]
  ELSE Free([h EXCEPT !.size[h.brk] = n, !.brk = @ + n, !.core = @ \cup (h.brk..h.brk + n - 1)], h.brk)

Found(h, at) == [h |-> h, at |-> at]

Take(h, prevp, p, nunits) ==
  IF h.size[p] = nunits THEN Found([h EXCEPT !.ptr[prevp] = h.ptr[p], !.freep = prevp], p)
  ELSE Found([h EXCEPT !.size[p] = @ - nunits, !.size[p + h.size[p] - nunits] = nunits, !.freep = prevp],
             p + h.size[p] - nunits)

\* The loop of malloc(); morecore() leaves freep at the block before the new one.
RECURSIVE Search(_, _, _, _)
Search(h, prevp, p, nunits) ==
  IF h.size[p] >= nunits THEN Take(h, prevp, p, nunits)
  ELSE IF p # h.freep THEN Search(h, p, h.ptr[p], nunits)
  ELSE LET more(m) == IF m.freep = NULL THEN Found(h, NULL)
                      ELSE Search(m, m.freep, m.ptr[m.freep], nunits)
       IN more(morecore(h, nunits))

Started(h) == IF h.freep # NULL THEN h ELSE [h EXCEPT !.ptr[BASE] = BASE, !.size[BASE] = 0, !.freep = BASE]
\* In 64 bits, as sizeof is; morecore() multiplies by HDR again for sbrk(), whose
\* int the requests here fit.
Units(nbytes) == (nbytes + HDR - 1) \div HDR + 1

Init ==
  /\ ptr = [a \in Addr |-> BASE] /\ size = [a \in Addr |-> 0]
  /\ freep = NULL /\ brk = HEAPSTART /\ live = {} /\ core = {}

\* The free blocks, by following the list from base.
RECURSIVE From(_, _, _)
From(next, p, seen) == IF p \in seen THEN seen ELSE From(next, next[p], seen \cup {p})

\* The new state; headers inside a block are the program's bytes now.
Become(h, blocks) == \E fl \in {From(h.ptr, BASE, {})} :
  /\ ptr' = [a \in Addr |-> IF a \in fl THEN h.ptr[a] ELSE BASE]
  /\ size' = [a \in Addr |-> IF a \in fl \cup {b.at : b \in blocks} THEN h.size[a] ELSE 0]
  /\ freep' = h.freep /\ brk' = h.brk /\ core' = h.core /\ live' = blocks

malloc(nbytes) == \E h \in {Started(Now)} : \E r \in {Search(h, h.freep, h.ptr[h.freep], Units(nbytes))} :
  Become(r.h, IF r.at = NULL THEN live ELSE live \cup {[at |-> r.at, req |-> nbytes]})

free(b) == Become(Free(Now, b.at), live \ {b})

\* The program calls sbrk() itself, and the next block is not adjacent.
sbrk == brk < HEAP /\ brk' = brk + 1 /\ UNCHANGED <<ptr, size, freep, live, core>>

Next == (\E n \in Requests : malloc(n)) \/ (\E b \in live : free(b)) \/ sbrk

Spec == Init /\ [][Next]_vars

-----------------------------------------------------------------------------
(* Properties.                                                             *)

FreeList == IF freep = NULL THEN {} ELSE From(ptr, BASE, {})
Units_(a) == a..a + size[a] - 1
Blocks == (FreeList \ {BASE}) \cup {b.at : b \in live}

\* The list is one circle in address order, on which freep is: the search of
\* free() for the place of a block ends.
ListSorted == freep # NULL =>
  /\ freep \in FreeList
  /\ \A p \in FreeList : ptr[p] = IF \E q \in FreeList : q > p THEN Min({q \in FreeList : q > p}) ELSE BASE

\* Free blocks and the program's blocks do not overlap, and together they are all
\* the memory malloc() ever got: nothing is handed out twice, nothing is lost.
BlocksExact ==
  /\ UNION {Units_(a) : a \in Blocks} = core
  /\ MapThenSumSet(LAMBDA a : size[a], Blocks) = Cardinality(core)
  /\ Cardinality(Blocks) = Cardinality(FreeList \ {BASE}) + Cardinality(live)

\* No two free blocks are adjacent: what was freed is joined, in any order of frees.
Coalesced == \A p, q \in FreeList \ {BASE} : p + size[p] # q

\* A block holds what was asked for, behind its header.
BigEnough == \A b \in live : (size[b.at] - 1) * HDR >= b.req
=============================================================================
