------------------------------ MODULE FileData ------------------------------
(***************************************************************************)
(* The content of files: the block allocator, bmap(), itrunc(), readi()    *)
(* and writei() of kernel/fs.c, with fileread() and filewrite() of         *)
(* kernel/file.c above them, for processes that share one open file per    *)
(* inode.  A write and a truncation take one step per block, between the   *)
(* lock and the unlock of the inode; the bitmap changes under its buffer's *)
(* lock.                                                                   *)
(* A block is a function from indices to numbers: bytes, or for an         *)
(* indirect block the addresses of blocks, 0 for none.                     *)
(***************************************************************************)
EXTENDS Naturals, Sequences, FiniteSets, FiniteSetsExt

CONSTANTS
  Procs, NoProc, Files,
  NBLOCKS,            \* data blocks of the disk
  BSIZE, NDIRECT, NINDIRECT, MAXOPBLOCKS,
  BPB,                \* bits of a bitmap block
  Vals, MaxCall       \* bytes (not 0), and a bound on the length of a call

VARIABLES
  bitmap, blk,        \* blocks in use, and what each block holds
  addrs, size, lock,  \* of each inode, in the inode table
  dinode,             \* of each inode, addrs and size on the disk
  off,                \* of the open file of each inode
  pc, call,           \* of each process: where it is, and its local variables
  logged,             \* of each process: the blocks its transaction has logged
  got,                \* what the last read returned
  panicked

vars == <<bitmap, blk, addrs, size, lock, dinode, off, pc, call, logged, got, panicked>>

Blocks == 1..NBLOCKS
Words == 0..((IF BSIZE > NINDIRECT THEN BSIZE ELSE NINDIRECT) - 1)
Zero == [w \in Words |-> 0]
MAXFILE == NDIRECT + NINDIRECT
min(a, b) == IF a < b THEN a ELSE b
NoCall == [f |-> "", n |-> 0, v |-> 0, i |-> 0, n1 |-> 0, tot |-> 0]
\* filewrite()'s max: what fits in a transaction
max == ((MAXOPBLOCKS - 1 - 1 - 2) \div 2) * BSIZE

Init ==
  /\ bitmap = {} /\ blk = [b \in Blocks |-> Zero]
  /\ addrs = [f \in Files |-> [i \in 0..NDIRECT |-> 0]]
  /\ size = [f \in Files |-> 0] /\ off = [f \in Files |-> 0]
  /\ lock = [f \in Files |-> NoProc]
  /\ dinode = [f \in Files |-> [addrs |-> addrs[f], size |-> size[f]]]
  /\ pc = [p \in Procs |-> "user"] /\ call = [p \in Procs |-> NoCall]
  /\ logged = [p \in Procs |-> {}]
  /\ got = <<>> /\ panicked = FALSE

-----------------------------------------------------------------------------
(* The allocator, as operators on d = [used, blk, at, log]: the bitmap, the*)
(* blocks, the addresses of one inode and what has been logged.            *)

Disk(f, p) == [used |-> bitmap, blk |-> blk, at |-> addrs[f], log |-> logged[p]]
BBLOCK(b) == <<"bitmap", b \div BPB>>

balloc(d) ==
  LET free == Blocks \ d.used
      b == Min(free)
  IN IF free = {} THEN [addr |-> 0, d |-> d]
     ELSE [addr |-> b,
           d |-> [d EXCEPT !.used = @ \cup {b}, !.blk[b] = Zero,
                           !.log = @ \cup {BBLOCK(b), <<"block", b>>}]]

\* The entry i of addrs[], allocated if there is none.
direct(d, i) ==
  LET r == balloc(d) IN
  IF d.at[i] # 0 THEN [addr |-> d.at[i], d |-> d]
  ELSE IF r.addr = 0 THEN r
  ELSE [addr |-> r.addr, d |-> [r.d EXCEPT !.at[i] = r.addr]]

\* The entry j of the indirect block at a.
indirect(d, a, j) ==
  LET r == balloc(d) IN
  IF d.blk[a][j] # 0 THEN [addr |-> d.blk[a][j], d |-> d]
  ELSE IF r.addr = 0 THEN r
  ELSE [addr |-> r.addr, d |-> [r.d EXCEPT !.blk[a][j] = r.addr, !.log = @ \cup {<<"block", a>>}]]

bmap(d, bn) ==
  LET ind == direct(d, NDIRECT) IN
  IF bn < NDIRECT THEN direct(d, bn)
  ELSE IF ind.addr = 0 THEN ind
  ELSE indirect(ind.d, ind.addr, bn - NDIRECT)

\* The places an inode has blocks in, in the order itrunc() frees them: addrs[], what
\* the indirect block names, and that block.
BlockAt(f, i) == IF i < NDIRECT THEN addrs[f][i]
                 ELSE IF i = MAXFILE \/ addrs[f][NDIRECT] = 0 THEN addrs[f][NDIRECT]
                 ELSE blk[addrs[f][NDIRECT]][i - NDIRECT]
Places(f) == {i \in 0..MAXFILE : BlockAt(f, i) # 0}

\* addrs and size of f, as this step leaves them, go to the disk.
iupdate(f) == dinode' = [dinode EXCEPT ![f] = [addrs |-> addrs'[f], size |-> size'[f]]]

-----------------------------------------------------------------------------
(* filewrite() and writei().                                               *)

Call(p, f, n, v) ==
  /\ pc[p] = "user"
  /\ pc' = [pc EXCEPT ![p] = "chunk"]
  /\ call' = [call EXCEPT ![p] = [NoCall EXCEPT !.f = f, !.n = n, !.v = v]]
  /\ UNCHANGED <<bitmap, blk, addrs, size, lock, dinode, off, logged, got, panicked>>

Return(p) == pc' = [pc EXCEPT ![p] = "user"] /\ call' = [call EXCEPT ![p] = NoCall]

\* begin_op(), ilock() and the checks of writei().
write_begin(p) ==
  LET c == call[p]
      n1 == min(c.n - c.i, max)
  IN /\ pc[p] = "chunk" /\ c.i < c.n /\ lock[c.f] = NoProc
     /\ IF off[c.f] > size[c.f] \/ off[c.f] + n1 > MAXFILE * BSIZE
        THEN Return(p) /\ UNCHANGED lock
        ELSE /\ lock' = [lock EXCEPT ![c.f] = p]
             /\ pc' = [pc EXCEPT ![p] = "block"]
             /\ call' = [call EXCEPT ![p].n1 = n1, ![p].tot = 0]
     /\ UNCHANGED <<bitmap, blk, addrs, size, dinode, off, logged, got, panicked>>

Put(b, from, m, v) == [w \in Words |-> IF w \in from..(from + m - 1) THEN v ELSE b[w]]

\* One round of the loop: bmap(), then either_copyin() of m bytes, of which a
\* failing one copies k.
write_block(p) ==
  LET c == call[p]
      o == off[c.f] + c.tot
      r == bmap(Disk(c.f, p), o \div BSIZE)
      m == min(c.n1 - c.tot, BSIZE - (o % BSIZE))
  IN /\ pc[p] = "block" /\ c.tot < c.n1
     /\ addrs' = [addrs EXCEPT ![c.f] = r.d.at] /\ bitmap' = r.d.used
     /\ IF r.addr = 0
        THEN /\ blk' = r.d.blk
             /\ pc' = [pc EXCEPT ![p] = "done"]
             /\ logged' = [logged EXCEPT ![p] = r.d.log] /\ UNCHANGED call
        ELSE /\ logged' = [logged EXCEPT ![p] = r.d.log \cup {<<"block", r.addr>>}]
             /\ \/ /\ blk' = [r.d.blk EXCEPT ![r.addr] = Put(@, o % BSIZE, m, c.v)]
                   /\ call' = [call EXCEPT ![p].tot = @ + m]
                   /\ UNCHANGED pc
                \/ /\ \E k \in 0..(m - 1) : blk' = [r.d.blk EXCEPT ![r.addr] = Put(@, o % BSIZE, k, c.v)]
                   /\ pc' = [pc EXCEPT ![p] = "done"] /\ UNCHANGED call
     /\ UNCHANGED <<size, lock, dinode, off, got, panicked>>

\* The size, iupdate(), the file's position, iunlock() and end_op().
write_end(p) ==
  LET c == call[p]
      o == off[c.f] + c.tot
  IN /\ pc[p] = "done" \/ (pc[p] = "block" /\ c.tot = c.n1)
     /\ size' = [size EXCEPT ![c.f] = IF o > @ THEN o ELSE @]
     /\ off' = [off EXCEPT ![c.f] = o]
     /\ lock' = [lock EXCEPT ![c.f] = NoProc]
     /\ logged' = [logged EXCEPT ![p] = {}]
     /\ IF c.tot # c.n1 THEN Return(p)
        ELSE /\ pc' = [pc EXCEPT ![p] = "chunk"]
             /\ call' = [call EXCEPT ![p].i = c.i + c.tot, ![p].tot = 0, ![p].n1 = 0]
     /\ UNCHANGED <<bitmap, blk, addrs, got, panicked>> /\ iupdate(c.f)

write_return(p) ==
  /\ pc[p] = "chunk" /\ call[p].i = call[p].n
  /\ Return(p)
  /\ UNCHANGED <<bitmap, blk, addrs, size, lock, dinode, off, logged, got, panicked>>

-----------------------------------------------------------------------------
(* fileread() with readi(): the blocks come from bmap() as in a write; a   *)
(* copyout that fails returns -1 and leaves the position.                  *)

ByteAt(d, o) == d.blk[bmap(d, o \div BSIZE).addr][o % BSIZE]

\* Mutant: readi() does not stop at the end of the file.
fileread_PastEnd(p, f, n) ==
  /\ pc[p] = "user" /\ lock[f] = NoProc /\ off[f] <= size[f]
  /\ off[f] + n <= MAXFILE * BSIZE
  /\ \A o \in off[f]..(off[f] + n - 1) : bmap(Disk(f, p), o \div BSIZE).addr # 0
  /\ got' = [k \in 1..n |-> ByteAt(Disk(f, p), off[f] + k - 1)]
  /\ off' = [off EXCEPT ![f] = @ + n]
  /\ UNCHANGED <<bitmap, blk, addrs, size, lock, dinode, pc, call, logged, panicked>>

fileread(p, f, n) ==
  LET m == IF off[f] > size[f] THEN 0 ELSE min(n, size[f] - off[f]) IN
  /\ pc[p] = "user" /\ lock[f] = NoProc
  /\ got' = [k \in 1..m |-> ByteAt(Disk(f, p), off[f] + k - 1)]
  /\ off' = [off EXCEPT ![f] = @ + m]
  /\ UNCHANGED <<bitmap, blk, addrs, size, lock, dinode, pc, call, logged, panicked>>

-----------------------------------------------------------------------------
(* itrunc(), from an open with O_TRUNC; call.i is the next place.          *)

itrunc(p, f) ==
  /\ pc[p] = "user" /\ lock[f] = NoProc
  /\ lock' = [lock EXCEPT ![f] = p]
  /\ pc' = [pc EXCEPT ![p] = "trunc"]
  /\ call' = [call EXCEPT ![p] = [NoCall EXCEPT !.f = f]]
  /\ UNCHANGED <<bitmap, blk, addrs, size, dinode, off, logged, got, panicked>>

Rest(p) == {i \in Places(call[p].f) : i >= call[p].i}

\* Mutant: the indirect block itself is not freed.
trunc_free_KeepsIndirect(p) ==
  LET f == call[p].f
      i == Min(Rest(p))
      b == BlockAt(f, i)
  IN /\ pc[p] = "trunc" /\ Rest(p) # {}
     /\ bitmap' = (IF i = MAXFILE THEN bitmap ELSE bitmap \ {b}) /\ panicked' = (panicked \/ b \notin bitmap)
     /\ logged' = [logged EXCEPT ![p] = @ \cup {BBLOCK(b)}]
     /\ addrs' = [addrs EXCEPT ![f] = IF i < NDIRECT THEN [@ EXCEPT ![i] = 0]
                                     ELSE IF i = MAXFILE THEN [@ EXCEPT ![NDIRECT] = 0] ELSE @]
     /\ call' = [call EXCEPT ![p].i = i + 1]
     /\ UNCHANGED <<blk, size, lock, dinode, off, pc, got>>

\* bfree() of the next block, which panics on a free one, and its entry in addrs[]; an
\* entry of the indirect block stays.
trunc_free(p) ==
  LET f == call[p].f
      i == Min(Rest(p))
      b == BlockAt(f, i)
  IN /\ pc[p] = "trunc" /\ Rest(p) # {}
     /\ bitmap' = bitmap \ {b} /\ panicked' = (panicked \/ b \notin bitmap)
     /\ logged' = [logged EXCEPT ![p] = @ \cup {BBLOCK(b)}]
     /\ addrs' = [addrs EXCEPT ![f] = IF i < NDIRECT THEN [@ EXCEPT ![i] = 0]
                                     ELSE IF i = MAXFILE THEN [@ EXCEPT ![NDIRECT] = 0] ELSE @]
     /\ call' = [call EXCEPT ![p].i = i + 1]
     /\ UNCHANGED <<blk, size, lock, dinode, off, pc, got>>

trunc_end(p) ==
  LET f == call[p].f IN
  /\ pc[p] = "trunc" /\ Rest(p) = {}
  /\ size' = [size EXCEPT ![f] = 0]
  /\ lock' = [lock EXCEPT ![f] = NoProc]
  /\ logged' = [logged EXCEPT ![p] = {}]
  /\ Return(p)
  /\ UNCHANGED <<bitmap, blk, addrs, off, got, panicked>> /\ iupdate(f)

\* The file is closed and opened again, with f->off = 0.
reopen(p, f) ==
  /\ \A q \in Procs : pc[q] = "user"
  /\ off' = [off EXCEPT ![f] = 0]
  /\ UNCHANGED <<bitmap, blk, addrs, size, lock, dinode, pc, call, logged, got, panicked>>

Write(p) == write_begin(p) \/ write_block(p) \/ write_end(p) \/ write_return(p)

Truncate(p) == trunc_free(p) \/ trunc_end(p)

Next == \E p \in Procs :
  \/ Write(p) \/ Truncate(p)
  \/ \E f \in Files : itrunc(p, f) \/ reopen(p, f)
  \/ \E f \in Files, n \in 0..MaxCall : fileread(p, f, n) \/ \E v \in Vals : Call(p, f, n, v)

Spec == Init /\ [][Next]_vars

-----------------------------------------------------------------------------
(* Properties.                                                             *)

NBlocksOf(f) == (size[f] + BSIZE - 1) \div BSIZE
Truncating(f) == lock[f] # NoProc /\ pc[lock[f]] = "trunc"
\* The places that count: an indirect block still names what itrunc() has freed.
Live(f) == {i \in Places(f) : Truncating(f) => i >= call[lock[f]].i}

\* The bitmap marks exactly the blocks some inode has, and no block is in two
\* places: writes that run out of blocks half-way lose none, and no block is
\* shared by two files or by data and an indirect block, also while a file is
\* being truncated and others take its blocks.
BitmapExact ==
  /\ bitmap = UNION {{BlockAt(f, i) : i \in Live(f)} : f \in Files}
  /\ \A f, g \in Files : \A i \in Live(f), j \in Live(g) :
       BlockAt(f, i) = BlockAt(g, j) => f = g /\ i = j

\* Every byte below the size has a block, so that a read never allocates or stops
\* early; the panics of bfree() and bmap() are not reached; and an inode that nobody
\* has locked is on the disk as it is in memory, so that it can leave the table.
Mapped == /\ \A f \in Files : \A bn \in 0..MAXFILE-1 : bn < NBlocksOf(f) /\ ~ Truncating(f) => BlockAt(f, bn) # 0
          /\ ~ panicked
          /\ \A f \in Files : lock[f] = NoProc => dinode[f] = [addrs |-> addrs[f], size |-> size[f]]

\* A chunk of filewrite() never logs more blocks than a transaction may, even if
\* every block has a bitmap block of its own and the write is not aligned; nor does
\* a truncation, with fewer bitmap blocks than that.
FitsLog == \A p \in Procs : Cardinality(logged[p] \cup {<<"inode", 0>>}) <= MAXOPBLOCKS

\* Nobody reads a file before it is truncated to the end.
Bytes(f) == [k \in 1..(IF Truncating(f) THEN 0 ELSE size[f]) |-> blk[BlockAt(f, (k - 1) \div BSIZE)][(k - 1) % BSIZE]]

B == INSTANCE ByteFile WITH bytes <- [f \in Files |-> Bytes(f)]

\* Reads and writes through blocks, also those that fail half-way and those that
\* share a position, do what they do to a sequence of bytes.
IsByteFile == B!Spec
=============================================================================
