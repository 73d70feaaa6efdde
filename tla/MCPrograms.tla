----------------------------- MODULE MCPrograms -----------------------------
(* User programs and the libraries they and the kernel share, side by      *)
(* side: a behaviour is one of a single part, chosen at the start, and the *)
(* other parts stay as they begin.                                         *)
EXTENDS Shell, SequencesExt

CONSTANT Parts

VARIABLES part,
          line, result,                                       \* parsecmd()
          prog, pattern, file, pos, buf, out, acc, done,      \* grep, wc, cat
          mem,                                                \* string.c, ulib.c
          fmt, arg,                                           \* printf.c
          ptr, size, freep, brk, live, core,                  \* umalloc.c
          files, left, inode, freeblock, bitmap, pc           \* mkfs.c

parsing == <<line, result>>
filtering == <<prog, pattern, file, pos, buf, out, acc, done>>
formatting == <<fmt, arg>>
heap == <<ptr, size, freep, brk, live, core>>
image == <<files, left, inode, freeblock, bitmap, pc>>

-----------------------------------------------------------------------------
(* The instances.                                                          *)

cat == [type |-> "EXEC", reads |-> TRUE]
echo == [type |-> "EXEC", reads |-> FALSE]
from(c) == [type |-> "REDIR", cmd |-> c, file |-> "in", fd |-> 0]
into(c) == [type |-> "REDIR", cmd |-> c, file |-> "out", fd |-> 1]
pipe(l, r) == [type |-> "PIPE", left |-> l, right |-> r]
list(l, r) == [type |-> "LIST", left |-> l, right |-> r]
back(c) == [type |-> "BACK", cmd |-> c]

\* echo | cat | cat > out
Pipeline == {pipe(echo, pipe(cat, into(cat)))}

\* cat < in | cat > out;  echo & echo
Jobs == INSTANCE Shell WITH NPROC <- 5, Lines <- {pipe(from(cat), into(cat)), list(back(echo), echo)}

\* Every line of up to six tokens; three words are one too many.
Syntax == INSTANCE ShellParse WITH MAXARGS <- 3, MaxLine <- 6, Tokens <- {"a", "|", "&", ";", "<", "+", "(", ")"}

\* Every text of at most three characters, and every pattern of at most four.
Match == INSTANCE Filters WITH BUF <- 2, Newline <- "n", Space <- "s",
  Inputs <- BoundedSeq({"a", "b", "*"}, 3), Patterns <- BoundedSeq({"a", "^", ".", "*", "$"}, 4)

\* Every file of at most six characters, cut by the reads in every way; a line
\* of four characters is too long.
Reads == INSTANCE Filters WITH BUF <- 4, Newline <- "n", Space <- "s",
  Inputs <- BoundedSeq({"a", "s", "n"}, 6), Patterns <- {<<"a">>, <<"^", "a", "*", "$">>}

\* Every memory of five bytes, each NUL, '/', '0' or '9'.
Memory == INSTANCE Strings WITH K <- 5, Chars <- {0, 47, 48, 57}, DIRSIZ <- 2

\* Words of ten bits, of which a signed and an unsigned number need four digits,
\* as both need twenty of 64 bits; formats of five characters.
Printf == INSTANCE Format WITH W <- 10, H <- 5, BUF <- 4, MaxFmt <- 5,
                              Chars <- {"%", "l", "d", "u", "x", "p", "c", "s", "z"}

\* A heap of three sbrk()s; requests of nothing, and of more than NALLOC.
Heap == INSTANCE Malloc WITH HEAP <- 11, NALLOC <- 3, HDR <- 2, Requests <- {0, 2, 5}

\* Blocks of three units, and files of at most four blocks; no file, or two or
\* three, empty, small, filling blocks, with an indirect block, or larger than
\* a file can be, that leave room in the image, fill it or do not fit.  A full image
\* does not fit the bit map.
Image == INSTANCE Mkfs WITH BSIZE <- 3, NDIRECT <- 2, NINDIRECT <- 2, NMETA <- 5, FSSIZE <- 15, BPB <- 15,
  CommandLines <- {<<>>} \cup ({0, 2, 3, 4, 9, 12, 13} \X {0, 5, 7}) \cup ({4} \X {6, 7} \X {0, 3, 8})

-----------------------------------------------------------------------------
(* The parts side by side.                                                 *)

Idle == <<>>
MCInit ==
  /\ part \in Parts
  /\ IF part = "jobs" THEN Jobs!Init ELSE Init
  /\ Syntax!Init /\ Printf!Init /\ Heap!Init
  /\ CASE part = "match" -> Match!Init
       [] part = "reads" -> Reads!Init
       [] OTHER -> /\ prog = Idle /\ pattern = Idle /\ file = Idle /\ pos = Idle
                   /\ buf = Idle /\ out = Idle /\ acc = Idle /\ done = Idle
  /\ IF part = "strings" THEN Memory!Init ELSE mem = Idle
  /\ IF part = "mkfs" THEN Image!Init
     ELSE files = Idle /\ left = Idle /\ inode = Idle /\ freeblock = Idle /\ bitmap = Idle /\ pc = Idle

MCNext ==
  /\ UNCHANGED part
  /\ \/ part = "shell" /\ Next /\ UNCHANGED <<parsing, filtering, mem, formatting, heap, image>>
     \/ part = "jobs" /\ Jobs!Next /\ UNCHANGED <<parsing, filtering, mem, formatting, heap, image>>
     \/ part = "parse" /\ Syntax!Next /\ UNCHANGED <<proc, filtering, mem, formatting, heap, image>>
     \/ part = "match" /\ Match!Next /\ UNCHANGED <<proc, parsing, mem, formatting, heap, image>>
     \/ part = "reads" /\ Reads!Next /\ UNCHANGED <<proc, parsing, mem, formatting, heap, image>>
     \/ part = "strings" /\ Memory!Next /\ UNCHANGED <<proc, parsing, filtering, formatting, heap, image>>
     \/ part = "format" /\ Printf!Next /\ UNCHANGED <<proc, parsing, filtering, mem, heap, image>>
     \/ part = "malloc" /\ Heap!Next /\ UNCHANGED <<proc, parsing, filtering, mem, formatting, image>>
     \/ part = "mkfs" /\ Image!Next /\ UNCHANGED <<proc, parsing, filtering, mem, formatting, heap>>

MCSpec == MCInit /\ [][MCNext]_<<part, proc, parsing, filtering, mem, formatting, heap, image>>

-----------------------------------------------------------------------------
(* Properties of the parts.                                                *)

\* The shell: commands start with their standard descriptors and no others, the ends
\* of a pipeline are where it says, and init has one shell; parsecmd() takes the lines
\* of the grammar in ShellParse and no other, in their order, and ends every word.
ShellExact ==
  /\ part = "shell" => OnlyStdio /\ EndsPlaced /\ OneShell
  /\ part = "jobs" => Jobs!OnlyStdio /\ Jobs!EndsPlaced /\ Jobs!OneShell
  /\ part = "parse" => Syntax!AcceptsGrammar /\ Syntax!TreeInOrder /\ Syntax!EveryWordEnds

\* However read() cuts a file, grep writes the lines that are in the language of the
\* pattern, wc counts and cat copies.
FiltersExact ==
  /\ part = "match" => Match!MatchExact
  /\ part = "reads" => Reads!GrepExact /\ Reads!WcExact /\ Reads!CatExact

\* The libraries do what their definitions say: memory and string functions, digits
\* and formats of both printf()s, and the user allocator, whose free list stays sorted,
\* joined and disjoint from what it handed out.
LibraryExact ==
  /\ part = "strings" => /\ Memory!MoveExact /\ Memory!NcpyExact /\ Memory!SafeExact
                         /\ Memory!CmpExact /\ Memory!AtoiExact /\ Memory!ElemsExact
  /\ part = "format" => Printf!IntExact /\ Printf!UserExact /\ Printf!KernelExact
  /\ part = "malloc" => Heap!ListSorted /\ Heap!BlocksExact /\ Heap!Coalesced /\ Heap!BigEnough

\* mkfs uses every allocated block once, its bitmap marks those, and every block of a
\* file is there.
ImageExact == part = "mkfs" => Image!BlocksExact /\ Image!NoHoles
=============================================================================
