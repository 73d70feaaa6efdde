-------------------------------- MODULE Mkfs --------------------------------
(***************************************************************************)
(* The image builder, mkfs/mkfs.c: a file system with a root directory and *)
(* the files given on the command line, of which only the sizes matter.    *)
(* Blocks are handed out in order from freeblock, and the bit map is       *)
(* written once, at the end.  A size is in units of which a block has      *)
(* BSIZE; a directory entry is one unit.  A step is one call of iappend(), *)
(* with the ialloc() before it.                                            *)
(***************************************************************************)
EXTENDS Naturals, Sequences, FiniteSets

CONSTANTS BSIZE, NDIRECT, NINDIRECT,
          NMETA,                \* the blocks before the data
          FSSIZE,               \* the blocks of the image
          BPB,                  \* the bits of a block of the bit map
          CommandLines          \* the sizes of the files of each

\* main() rounds the root's size up to the end of the block it is in, and a root
\* that just fills its blocks is in one it does not have: no command line has
\* (Len(c) + 2) % BSIZE = 0.  The Makefile's 21 files make 23 entries, of 64 in
\* a block.  Nor has one more files than there are inodes, which ialloc() does not
\* check.

VARIABLES files,        \* of argv, those still to come
          left,         \* what is still to be read of the file at hand
          inode,        \* the inodes written, from inode 1 on
          freeblock, bitmap, pc

vars == <<files, left, inode, freeblock, bitmap, pc>>

ROOTINO == 1
Null(n) == [i \in 0..n-1 |-> 0]
\* ialloc(); blocks is what the indirect block holds.
dinode == [size |-> 0, addrs |-> Null(NDIRECT), indirect |-> 0, blocks |-> Null(NINDIRECT)]

\* Mutant: the indirect block is not written back.
Mapped_NotSaved(a, fbn) ==
  IF fbn < NDIRECT
  THEN IF a.din.addrs[fbn] # 0 THEN a ELSE [a EXCEPT !.din.addrs[fbn] = a.free, !.free = @ + 1]
  ELSE LET b == IF a.din.indirect # 0 THEN a ELSE [a EXCEPT !.din.indirect = a.free, !.free = @ + 1]
       IN [b EXCEPT !.free = @ + 1]

\* The inode's fbn-th block is there, freeblock being the next free one.
Mapped(a, fbn) ==
  LET din == a.din
      free == a.free
  IN IF fbn < NDIRECT
     THEN IF din.addrs[fbn] # 0 THEN a ELSE [a EXCEPT !.din.addrs[fbn] = free, !.free = free + 1]
     ELSE LET i == fbn - NDIRECT
              b == IF din.indirect # 0 THEN a ELSE [a EXCEPT !.din.indirect = free, !.free = free + 1]
          IN IF din.blocks[i] # 0 THEN b ELSE [b EXCEPT !.din.blocks[i] = b.free, !.free = b.free + 1]

RECURSIVE iappend(_, _)

\* rsect() of a block that is not in the image reads nothing, and mkfs dies.  Blocks
\* are taken in order, and each is read before the next is taken.
Beyond(a) == a.free > FSSIZE

\* The loop of iappend(): n1 units go into block fbn.
iappend(a, n) ==
  LET fbn == a.din.size \div BSIZE
      n1 == IF n < (fbn + 1) * BSIZE - a.din.size THEN n ELSE (fbn + 1) * BSIZE - a.din.size
      b == Mapped(a, fbn)
  IN IF n = 0 THEN a
     ELSE IF fbn >= NDIRECT + NINDIRECT THEN [a EXCEPT !.end = "assert"]
     ELSE IF Beyond(b) THEN [a EXCEPT !.end = "die"]
     ELSE iappend([b EXCEPT !.din.size = @ + n1], n - n1)

Append1(ino, all, n, there) ==
  \E a \in {iappend([din |-> all[ino], free |-> freeblock, end |-> there], n)} :
    /\ pc' = a.end
    /\ inode' = IF a.end = there THEN [all EXCEPT ![ino] = a.din] ELSE all
    /\ freeblock' = IF a.end = there THEN a.free ELSE freeblock

-----------------------------------------------------------------------------
(* main().                                                                 *)

Init == /\ files \in CommandLines /\ left = 0 /\ inode = <<dinode>> /\ freeblock = NMETA /\ bitmap = {} /\ pc = "dot"

\* "." and ".."
main_root == /\ pc \in {"dot", "dotdot"}
             /\ Append1(ROOTINO, inode, 1, IF pc = "dot" THEN "dotdot" ELSE "file")
             /\ UNCHANGED <<files, left, bitmap>>

main_file == /\ pc = "file" /\ files # <<>>
             /\ Append1(ROOTINO, Append(inode, dinode), 1, "copy")
             /\ files' = Tail(files) /\ left' = Head(files) /\ UNCHANGED bitmap

\* read() into buf, which may return less than a block.
main_copy == /\ pc = "copy"
             /\ IF left = 0 THEN pc' = "file" /\ UNCHANGED <<left, inode, freeblock>>
                ELSE \E cc \in 1..BSIZE : cc <= left /\ left' = left - cc /\ Append1(Len(inode), inode, cc, "copy")
             /\ UNCHANGED <<files, bitmap>>

\* The root's size is made a multiple of a block's.
FixRoot(size) == (size \div BSIZE + 1) * BSIZE
\* The bit map is one block.
balloc(used) == IF used < BPB THEN bitmap' = 0..used-1 /\ pc' = "exit"
                              ELSE pc' = "assert" /\ UNCHANGED bitmap
main_end == /\ pc = "file" /\ files = <<>>
            /\ inode' = [inode EXCEPT ![ROOTINO].size = FixRoot(@)]
            /\ balloc(freeblock) /\ UNCHANGED <<files, left, freeblock>>

Next == main_root \/ main_file \/ main_copy \/ main_end
Spec == Init /\ [][Next]_vars

-----------------------------------------------------------------------------
(* Properties.                                                             *)

BlockAt(din, fbn) == IF fbn < NDIRECT THEN din.addrs[fbn] ELSE din.blocks[fbn - NDIRECT]
\* The places that name a block: a block of a file, or its indirect block.
Places == (1..Len(inode)) \X (0..NDIRECT + NINDIRECT)
Named(p) == IF p[2] = NDIRECT + NINDIRECT THEN inode[p[1]].indirect ELSE BlockAt(inode[p[1]], p[2])
Used == {p \in Places : Named(p) # 0}

\* No block belongs to two places, none is lost, and none is outside of the image's
\* data blocks, as mkfs ends without an image when they do not suffice; in the image,
\* the bit map has exactly these and the blocks before them.
BlocksExact ==
  /\ \A p, q \in Used : Named(p) = Named(q) => p = q
  /\ {Named(p) : p \in Used} = NMETA..freeblock-1 /\ freeblock <= FSSIZE
  /\ pc = "exit" => bitmap = 0..NMETA-1 \cup {Named(p) : p \in Used}

\* In the image, a file has a block exactly where it has data, so that the kernel
\* meets no hole in it: readi() would have bmap() allocate one.
NoHoles == pc = "exit" => \A i \in 1..Len(inode), fbn \in 0..NDIRECT+NINDIRECT-1 :
  BlockAt(inode[i], fbn) # 0 <=> fbn * BSIZE < inode[i].size
=============================================================================
