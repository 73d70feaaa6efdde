--------------------------------- MODULE Vm ---------------------------------
(***************************************************************************)
(* Who owns the pages of physical memory: kernel/kalloc.c, the user page   *)
(* tables of kernel/vm.c, and the calls that build, grow, copy and free    *)
(* them (kernel/exec.c, kernel/proc.c, sys_sbrk, sys_exec).                *)
(*                                                                         *)
(* An address space is a three-level table with two entries per page, so   *)
(* 8 virtual pages; the highest two are TRAMPOLINE and TRAPFRAME.  A page  *)
(* has PGSIZE bytes.  A call is one step: processes share nothing here but *)
(* the free list, so that all others can do to a call is to leave it fewer *)
(* pages, and every step is given "left", how many it will get.            *)
(***************************************************************************)
EXTENDS Naturals, Sequences, FiniteSets, FiniteSetsExt

CONSTANTS Procs, InitProc,
          NPAGES,        \* pages of physical memory
          PGSIZE, UINT,  \* a page's bytes; the range of a uint64
          MAXARG,
          Programs,      \* executables: segments, see LoadSegs, and how exec finds them, see kexec
          Grow           \* sizes sbrk() is called with

VARIABLES free, space, trapframe, sz, panicked

vars == <<free, space, trapframe, sz, panicked>>

Pages == 1..NPAGES
VPages == 0..7
TRAMPOLINE == 7
TRAPFRAME == 6
trampoline == NPAGES + 1           \* kernel text, not an allocatable page
PGROUNDUP(n) == (n + PGSIZE - 1) \div PGSIZE      \* in pages
None == [pa |-> 0, perm |-> {}]
NoSpace == [root |-> 0, l1 |-> <<0, 0>>, l0 |-> <<0, 0, 0, 0>>, pte |-> [v \in VPages |-> None]]

-----------------------------------------------------------------------------
(* Operators on m = [free, left, s, sz, argv, bad, ok, pg]: the free pages *)
(* and how many of them this call will get, the address space at work and  *)
(* its size, the pages of sys_exec()'s argv, whether a panic happened,     *)
(* whether the last operation succeeded, and the page it returned.         *)

kalloc(m) == IF m.left = 0 THEN [m EXCEPT !.ok = FALSE]
             ELSE [m EXCEPT !.free = @ \ {Min(@)}, !.left = @ - 1, !.pg = Min(m.free)]
kfree(m, pg) == [m EXCEPT !.free = @ \cup {pg}, !.bad = @ \/ pg \notin Pages \ m.free]
OrFree(m, pg) == IF m.ok THEN m ELSE kfree(m, pg)

\* walk() with alloc: the table of level 1 or 0 at index i (from 1), made if it is missing.
Linked(m, l, i) == IF m.ok THEN [m EXCEPT !.s[l][i] = m.pg] ELSE m
Level(m, l, i) == IF ~ m.ok \/ m.s[l][i] # 0 THEN m ELSE Linked(kalloc(m), l, i)
walk(m, v) == Level(Level(m, "l1", v \div 4 + 1), "l0", v \div 2 + 1)

\* walk() without alloc reaches a valid PTE.
ismapped(s, v) == s.l1[v \div 4 + 1] # 0 /\ s.l0[v \div 2 + 1] # 0 /\ s.pte[v].pa # 0
walkaddr(s, v) == v \in VPages /\ ismapped(s, v) /\ "U" \in s.pte[v].perm

SetPte(m, v, pa, perm) ==
  IF ~ m.ok THEN m
  ELSE [m EXCEPT !.s.pte[v] = [pa |-> pa, perm |-> perm], !.bad = @ \/ m.s.pte[v].pa # 0]  \* "mappages: remap"
mappages(m, v, pa, perm) == SetPte(walk(m, v), v, pa, perm)

\* A page of memory at v: kalloc(), then mappages(), or kfree() if there is no
\* page for a table.
Placed(m, v, perm) == IF m.ok THEN OrFree(mappages(m, v, m.pg, perm), m.pg) ELSE m
\* Mutant: the page is not freed when there is no page for a table.
Placed_NoFree(m, v, perm) == IF m.ok THEN mappages(m, v, m.pg, perm) ELSE m
NewPage_NoFree(m, v, perm) == Placed_NoFree(kalloc(m), v, perm)

NewPage(m, v, perm) == Placed(kalloc(m), v, perm)

Freed(m, pas) == [m EXCEPT !.free = @ \cup pas, !.bad = @ \/ pas \cap m.free # {} \/ ~ pas \subseteq Pages]
Cleared(m, vs) == [m EXCEPT !.s.pte = [v \in VPages |-> IF v \in vs THEN None ELSE @[v]]]
Unmap(m, vs, do_free) ==
  Cleared(IF do_free THEN Freed(m, {m.s.pte[v].pa : v \in vs} \ {0}) ELSE m, vs)
uvmunmap(m, from, npages, do_free) == Unmap(m, {v \in VPages : v >= from /\ v < from + npages}, do_free)

uvmdealloc(m, oldsz, newsz) ==
  IF newsz >= oldsz THEN m
  ELSE [uvmunmap(m, PGROUNDUP(newsz), PGROUNDUP(oldsz) - PGROUNDUP(newsz), TRUE) EXCEPT !.sz = newsz]

\* The loop of uvmalloc(), begun at page "from", has come to page a.
RECURSIVE Alloc(_, _, _, _, _)
Alloc(m, from, a, newsz, perm) ==
  IF ~ m.ok THEN [uvmdealloc(m, (a - 1) * PGSIZE, from * PGSIZE) EXCEPT !.sz = m.sz]
  ELSE IF a * PGSIZE >= newsz THEN [m EXCEPT !.sz = newsz, !.ok = newsz # 0]
  ELSE Alloc(NewPage(m, a, perm), from, a + 1, newsz, perm)

\* To size newsz; fails, as it returns 0, with the size and the mappings as they were.
uvmalloc(m, newsz, xperm) ==
  IF ~ m.ok \/ newsz < m.sz THEN m
  ELSE Alloc(m, PGROUNDUP(m.sz), PGROUNDUP(m.sz), newsz, {"R", "U"} \cup xperm)

\* freewalk(): every table page is freed; a leaf that is still mapped panics.
Tables(s) == ({s.root} \cup {s.l1[i] : i \in 1..2} \cup {s.l0[i] : i \in 1..4}) \ {0}
freewalk(m) == [Freed(m, Tables(m.s)) EXCEPT !.s = NoSpace, !.bad = @ \/ \E v \in VPages : ismapped(m.s, v)]
uvmfree(m, size) == freewalk(uvmunmap(m, 0, PGROUNDUP(size), TRUE))

\* The loop of uvmcopy() has come to page v.
RECURSIVE Copy(_, _, _, _)
Copy(m, old, size, v) ==
  IF ~ m.ok \/ v * PGSIZE >= size THEN [m EXCEPT !.pg = v]
  ELSE Copy(IF ismapped(old, v) THEN NewPage(m, v, old.pte[v].perm) ELSE m, old, size, v + 1)
\* Mutant: on failure the pages copied so far are unmapped, not freed.
uvmcopy_Leak(m, old, size) ==
  LET undo(n) == IF n.ok THEN n ELSE uvmunmap(n, 0, n.pg - 1, FALSE) IN undo(Copy(m, old, size, 0))

uvmcopy(m, old, size) ==
  LET undo(n) == IF n.ok THEN n ELSE uvmunmap(n, 0, n.pg - 1, TRUE) IN undo(Copy(m, old, size, 0))

uvmclear(m, v) ==
  IF m.ok THEN [m EXCEPT !.s.pte[v].perm = @ \ {"U"}, !.bad = @ \/ m.s.l0[v \div 2 + 1] = 0] ELSE m

vmfault(m, va) ==
  IF va >= m.sz \/ ismapped(m.s, va \div PGSIZE) THEN [m EXCEPT !.ok = FALSE]
  ELSE NewPage(m, va \div PGSIZE, {"R", "W", "U"})

\* copyout(), copyin(), copyinstr() over the pages from v to last: a page that is
\* not mapped for the user may be one that was never allocated.
Writable(m, v, write) == IF write /\ m.ok /\ "W" \notin m.s.pte[v].perm THEN [m EXCEPT !.ok = FALSE] ELSE m
RECURSIVE CopyPages(_, _, _, _)
CopyPages(m, v, last, write) ==
  IF ~ m.ok \/ v > last THEN m
  ELSE CopyPages(Writable(IF walkaddr(m.s, v) THEN m ELSE vmfault(m, v * PGSIZE), v, write), v + 1, last, write)

\* A page table with the trampoline and the trapframe, or nothing.
proc_pagetable(m, tf) ==
  LET create(n) == IF n.ok THEN [n EXCEPT !.s = [NoSpace EXCEPT !.root = n.pg], !.sz = 0] ELSE n
      tramp(n) == IF n.ok THEN mappages(n, TRAMPOLINE, trampoline, {"R", "X"}) ELSE n
      frame(n) == IF n.ok THEN mappages(n, TRAPFRAME, tf, {"R", "W"}) ELSE n
      undo(n) == IF n.ok \/ n.s.root = 0 THEN n ELSE uvmfree(uvmunmap(n, TRAMPOLINE, 1, FALSE), 0)
  IN undo(frame(tramp(create(kalloc([m EXCEPT !.s = NoSpace])))))

proc_freepagetable(m) ==
  uvmfree(uvmunmap(uvmunmap(m, TRAMPOLINE, 1, FALSE), TRAPFRAME, 1, FALSE), m.sz)

\* The trapframe page and an empty page table, or nothing; pg is the trapframe.
allocproc(m) ==
  LET table(n) == IF n.ok THEN [OrFree(proc_pagetable(n, n.pg), n.pg) EXCEPT !.pg = n.pg] ELSE n
  IN table(kalloc(m))

-----------------------------------------------------------------------------
(* Steps.                                                                  *)

With(left, s, size) ==
  [free |-> free, left |-> left, s |-> s, sz |-> size, argv |-> {}, bad |-> panicked, ok |-> TRUE, pg |-> 0]
Own(p, left) == With(left, space[p], sz[p])
Become(p, m) ==
  /\ free' = m.free /\ panicked' = m.bad
  /\ space' = [space EXCEPT ![p] = m.s]
  /\ sz' = [sz EXCEPT ![p] = m.sz]
Alive(p) == trapframe[p] # 0 /\ ~ panicked
\* How many pages a call that can use at most "most" will get.
Budget(most) == 0..Min({most, Cardinality(free)})

Init == \E m \in {allocproc([free |-> Pages, left |-> NPAGES, s |-> NoSpace, sz |-> 0, argv |-> {},
                             bad |-> FALSE, ok |-> TRUE, pg |-> 0])} :
  /\ free = m.free /\ panicked = FALSE
  /\ space = [p \in Procs |-> IF p = InitProc THEN m.s ELSE NoSpace]
  /\ trapframe = [p \in Procs |-> IF p = InitProc THEN m.pg ELSE 0]
  /\ sz = [p \in Procs |-> 0]

kfork(p, q) ==
  /\ Alive(p) /\ trapframe[q] = 0
  /\ \E left \in Budget(NPAGES) : \E np \in {allocproc(With(left, NoSpace, 0))} :
       IF ~ np.ok THEN Become(q, np) /\ UNCHANGED trapframe
       ELSE \E m \in {uvmcopy(np, space[p], sz[p])} :
         IF m.ok THEN Become(q, [m EXCEPT !.sz = sz[p]]) /\ trapframe' = [trapframe EXCEPT ![q] = np.pg]
         ELSE Become(q, proc_freepagetable(kfree(m, np.pg))) /\ UNCHANGED trapframe  \* freeproc(np)

\* growproc(n), or growproc(-n) if not grow; -n beyond the size wraps round to a
\* larger one, and nothing is freed.
growproc(p, n, grow) ==
  /\ Alive(p) /\ UNCHANGED trapframe
  /\ \E left \in Budget(IF grow THEN 3 * n ELSE 0) :
       Become(p, IF grow THEN IF sz[p] + n > TRAPFRAME * PGSIZE THEN Own(p, left)
                              ELSE uvmalloc(Own(p, left), sz[p] + n, {"W"})
                 ELSE IF n > sz[p] THEN Own(p, left) ELSE uvmdealloc(Own(p, left), sz[p], sz[p] - n))

\* sbrk(n, SBRK_LAZY): only the size changes.
sys_sbrk_lazy(p, n) ==
  /\ Alive(p) /\ sz[p] + n <= TRAPFRAME * PGSIZE
  /\ sz' = [sz EXCEPT ![p] = @ + n]
  /\ UNCHANGED <<free, space, trapframe, panicked>>

\* A page fault in user space.
usertrap_fault(p, v) ==
  /\ Alive(p) /\ ~ walkaddr(space[p], v) /\ UNCHANGED trapframe
  /\ \E left \in Budget(3) : Become(p, vmfault(Own(p, left), v * PGSIZE))

\* A system call copies to or from user memory.
copyuser(p, from, last, write) ==
  /\ Alive(p) /\ UNCHANGED trapframe
  /\ \E left \in Budget(6) : Become(p, CopyPages(Own(p, left), from, last, write))

\* The segments of an executable, each [type, vaddr, memsz, filesz, perm]: the checks
\* of the program header, uvmalloc(), and loadseg(), which needs its pages mapped.
\* file is "short" if readi() gets less than it asks for.
loadseg(m, ph, file) ==
  LET read == {i \in 0..(ph.filesz - 1) : i % PGSIZE = 0} IN
  IF ~ m.ok THEN m
  ELSE [m EXCEPT !.bad = @ \/ \E i \in read : ~ walkaddr(m.s, ((ph.vaddr + i) % UINT) \div PGSIZE),
                 !.ok = file # "short" \/ read = {}]
BadHeader(ph) ==
  \/ ph.memsz < ph.filesz
  \/ (ph.vaddr + ph.memsz) % UINT < ph.vaddr
  \/ ph.vaddr % PGSIZE # 0
RECURSIVE LoadSegs(_, _, _)
LoadSegs(m, segs, file) ==
  IF ~ m.ok \/ segs = <<>> THEN m
  ELSE IF Head(segs).type # "LOAD" THEN LoadSegs(m, Tail(segs), file)
  ELSE IF BadHeader(Head(segs)) THEN [m EXCEPT !.ok = FALSE]
  ELSE LoadSegs(loadseg(uvmalloc(m, (Head(segs).vaddr + Head(segs).memsz) % UINT, Head(segs).perm),
                        Head(segs), file),
                Tail(segs), file)

\* The guard page and the stack, on which the arguments must fit.
Stack(m, fits) ==
  LET alloc(n) == IF n.ok THEN uvmalloc([n EXCEPT !.sz = PGROUNDUP(@) * PGSIZE], (PGROUNDUP(n.sz) + 2) * PGSIZE, {"W"})
                  ELSE n
      guard(n) == IF n.ok THEN uvmclear(n, PGROUNDUP(n.sz) - 2) ELSE n
      args(n) == IF n.ok THEN CopyPages([n EXCEPT !.ok = fits], PGROUNDUP(n.sz) - 1, PGROUNDUP(n.sz) - 1, TRUE) ELSE n
  IN args(guard(alloc(m)))

\* A new address space in place of the old one, or the old one as it was; file is
\* "none" if there is no ELF file of that name.
kexec(m, tf, segs, file, fits) ==
  LET old(n) == [n EXCEPT !.s = m.s, !.sz = m.sz]
      new == proc_pagetable(m, tf)
      n == Stack(LoadSegs(new, segs, file), fits)
  IN IF file = "none" THEN [m EXCEPT !.ok = FALSE]
     ELSE IF ~ new.ok THEN old(new)
     ELSE IF n.ok THEN [proc_freepagetable(old(n)) EXCEPT !.s = n.s, !.sz = n.sz]
     ELSE old(proc_freepagetable(n))

\* The loop of sys_exec() has come to argument i of nargs, and fetches that one into a
\* page of argv; no is the one it cannot fetch.  (The user pages that fetchstr()
\* allocates on demand are those of copyuser() before.)
RECURSIVE Fetch(_, _, _, _)
Fetch(m, i, nargs, no) ==
  LET string(n) == IF n.ok THEN [n EXCEPT !.argv = @ \cup {n.pg}, !.ok = i # no] ELSE n
  IN IF ~ m.ok THEN m
     ELSE IF i >= MAXARG THEN [m EXCEPT !.ok = FALSE]
     ELSE IF i = nargs THEN m
     ELSE Fetch(string(kalloc(m)), i + 1, nargs, no)

freeargs(m) == [Freed(m, m.argv) EXCEPT !.argv = {}]

sys_exec(p, segs, nargs, no, file, fits) ==
  /\ Alive(p) /\ UNCHANGED trapframe
  /\ \E left \in Budget(NPAGES) : \E m \in {Fetch(Own(p, left), 0, nargs, no)} :
       Become(p, freeargs(IF m.ok THEN kexec(m, trapframe[p], segs, file, fits) ELSE m))

\* The parent waits for a process that exited: freeproc().
freeproc(p) ==
  /\ Alive(p) /\ p # InitProc
  /\ Become(p, [proc_freepagetable(kfree(Own(p, 0), trapframe[p])) EXCEPT !.sz = 0])
  /\ trapframe' = [trapframe EXCEPT ![p] = 0]

\* A program is executed with one argument; the loop over the arguments is tried on its
\* own, with a file that does not exist.
Next == \E p \in Procs :
  \/ freeproc(p)
  \/ \E q \in Procs : kfork(p, q)
  \/ \E n \in Grow : growproc(p, n, TRUE) \/ growproc(p, n, FALSE) \/ sys_sbrk_lazy(p, n)
  \/ \E v \in VPages : usertrap_fault(p, v)
  \/ \E v \in 0..TRAPFRAME, write \in BOOLEAN : copyuser(p, v, v + 1, write)
  \/ \E prog \in Programs : sys_exec(p, prog.segs, 1, 1, prog.file, prog.fits)
  \/ \E nargs \in 0..MAXARG : \E no \in 0..nargs : sys_exec(p, <<>>, nargs, no, "none", TRUE)

Spec == Init /\ [][Next]_vars

-----------------------------------------------------------------------------
(* Properties.                                                             *)

Places == {<<"root", 0>>} \cup ({"l1"} \X (1..2)) \cup ({"l0"} \X (1..4)) \cup ({"pte"} \X (0..5))
PageAt(s, x) == CASE x[1] = "root" -> s.root [] x[1] = "l1" -> s.l1[x[2]]
                  [] x[1] = "l0" -> s.l0[x[2]] [] x[1] = "pte" -> s.pte[x[2]].pa
Owned(p) == {x \in Places : PageAt(space[p], x) # 0}

\* Every page is on the free list or has exactly one owner: a trapframe, a table
\* or a user mapping of one process.  No call leaks a page or frees one twice,
\* wherever it runs out of memory.
PagesExact ==
  /\ free \cup UNION {{PageAt(space[p], x) : x \in Owned(p)} \cup ({trapframe[p]} \ {0}) : p \in Procs} = Pages
  /\ Cardinality(free) + Cardinality({p \in Procs : trapframe[p] # 0})
       + MapThenSumSet(LAMBDA p : Cardinality(Owned(p)), Procs) = NPAGES

\* No call panics: nothing is mapped twice, page tables are empty when they are
\* freed, segments are loaded into pages that exist.
NoPanic == ~ panicked

\* A process has no mapping at or above its size other than its trampoline and
\* trapframe, which user code cannot reach; its size stays below them.
Confined == \A p \in Procs : trapframe[p] # 0 =>
  /\ sz[p] <= TRAPFRAME * PGSIZE
  /\ \A v \in 0..5 : v >= PGROUNDUP(sz[p]) => ~ ismapped(space[p], v)
  /\ space[p].pte[TRAMPOLINE] = [pa |-> trampoline, perm |-> {"R", "X"}]
  /\ space[p].pte[TRAPFRAME] = [pa |-> trapframe[p], perm |-> {"R", "W"}]

\* The page below the stack stays out of the user's reach as long as it is mapped:
\* neither a page fault nor a copy makes it accessible, and fork() keeps it so.
GuardStep == \A p \in Procs : \A v \in 0..5 :
  (/\ ismapped(space[p], v) /\ "U" \notin space[p].pte[v].perm
   /\ space'[p].pte[v].pa # 0 /\ space'[p].root = space[p].root)
     => "U" \notin space'[p].pte[v].perm

\* A fork that succeeds gives the child the parent's mappings, with the same
\* permissions and other pages; one that fails leaves no process.
ForkStep == \A p, q \in Procs : kfork(p, q) =>
  IF trapframe'[q] = 0 THEN space'[q] = NoSpace /\ free' = free
  ELSE \A v \in 0..5 : /\ space'[q].pte[v].perm = space[p].pte[v].perm
                       /\ (space'[q].pte[v].pa = 0) = (space[p].pte[v].pa = 0)
=============================================================================
