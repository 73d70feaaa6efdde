------------------------------ MODULE MCData --------------------------------
(* Descriptors and the blocks of files, side by side: a behaviour is one   *)
(* of a single part, and the other parts stay as they begin.               *)
EXTENDS Descriptors, TLC

CONSTANTS Parts, NoProc, Writers, Inodes    \* processes that write, and the files they write

VARIABLES part, bitmap, blk, addrs, size, lock, dinode, off, pc, call, logged, got, bad

data == <<bitmap, blk, addrs, size, lock, dinode, off, pc, call, logged, got, bad>>

\* Two processes and two files compete for three blocks.
Shared == INSTANCE FileData WITH Procs <- Writers, Files <- Inodes, panicked <- bad, NBLOCKS <- 3, BSIZE <- 1,
  NDIRECT <- 1, NINDIRECT <- 2, MAXOPBLOCKS <- 6, BPB <- 8, Vals <- {1}, MaxCall <- 2
\* Two processes share a file whose chunks are one block.
Position == INSTANCE FileData WITH Procs <- Writers, Files <- {"file"}, panicked <- bad, NBLOCKS <- 3, BSIZE <- 2,
  NDIRECT <- 1, NINDIRECT <- 1, MAXOPBLOCKS <- 6, BPB <- 8, Vals <- {1, 2}, MaxCall <- 3
\* One process, a bitmap block for every block, the real MAXOPBLOCKS.
Chunks == INSTANCE FileData WITH Procs <- {"p"}, Files <- {"file"}, panicked <- bad, NBLOCKS <- 5, BSIZE <- 2,
  NDIRECT <- 1, NINDIRECT <- 3, MAXOPBLOCKS <- 10, BPB <- 1, Vals <- {1}, MaxCall <- 7

Unused == 0
MCInit ==
  /\ part \in Parts /\ Init
  /\ CASE part = "alloc" -> Shared!Init
       [] part = "bytes" -> Position!Init
       [] part = "long" -> Chunks!Init
       [] OTHER -> /\ bitmap = Unused /\ blk = Unused /\ addrs = Unused /\ size = Unused /\ lock = Unused
                   /\ dinode = Unused /\ off = Unused /\ pc = Unused /\ call = Unused /\ logged = Unused /\ got = Unused /\ bad = Unused

MCNext ==
  /\ UNCHANGED part
  /\ \/ part = "fd" /\ Next /\ UNCHANGED data
     \/ part = "alloc" /\ Shared!Next /\ UNCHANGED vars
     \/ part = "bytes" /\ Position!Next /\ UNCHANGED vars
     \/ part = "long" /\ Chunks!Next /\ UNCHANGED vars

MCSpec == MCInit /\ [][MCNext]_<<part, vars, data>>

Symmetry == Permutations(Writers) \cup Permutations(Inodes)

\* What the last read returned makes no difference to what happens next, nor which
\* pipe a file was of before it was closed.
Entries == [f \in Files |-> IF ftable[f].type = "pipe" THEN <<ftable[f]>> ELSE <<ftable[f].ref, ftable[f].type>>]
View == <<part, Entries, ofile, alive, todo, iref, pipe, panicked,
          bitmap, blk, addrs, size, lock, dinode, off, pc, call, logged, bad>>

-----------------------------------------------------------------------------
(* Properties of the parts.                                                *)

\* The bitmap marks exactly the blocks the files have, each of them once; every byte
\* below the size of a file has a block; an unlocked inode is on the disk; a chunk of
\* filewrite() fits in a transaction.
BlocksExact ==
  /\ part = "alloc" => Shared!BitmapExact /\ Shared!Mapped
  /\ part = "bytes" => Position!BitmapExact /\ Position!Mapped
  /\ part = "long" => Chunks!BitmapExact /\ Chunks!Mapped /\ Chunks!FitsLog
\* Reads and writes through blocks, by processes that share a position, do what
\* they do to a sequence of bytes.
IsByteFile == /\ part = "bytes" => Position!B!Init
              /\ [][part = "bytes" => Position!B!Step]_data
=============================================================================
