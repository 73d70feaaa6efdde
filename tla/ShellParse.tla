----------------------------- MODULE ShellParse -----------------------------
(***************************************************************************)
(* The parser of the shell, user/sh.c, on sequences of tokens: "a" is a    *)
(* word, "+" is >>.  A word is known by its place in the line, which is    *)
(* what the argv[], eargv[], file and efile pointers are.                  *)
(***************************************************************************)
EXTENDS Naturals, Sequences, SequencesExt, FiniteSetsExt

CONSTANTS MAXARGS, Tokens,
          MaxLine     \* tokens of a line

VARIABLES line, result   \* what parsecmd() made of the line

vars == <<line, result>>

\* A parser state: at is *ps, cmd what was built, bad whether panic() was called.
At(at, cmd) == [at |-> at, cmd |-> cmd, bad |-> FALSE]
Panic(r) == [r EXCEPT !.bad = TRUE]
Nothing == [type |-> "NONE"]

execcmd(argv) == [type |-> "EXEC", argv |-> argv]
redircmd(cmd, file, mode) == [type |-> "REDIR", cmd |-> cmd, file |-> file, mode |-> mode]
pipecmd(left, right) == [type |-> "PIPE", left |-> left, right |-> right]
listcmd(left, right) == [type |-> "LIST", left |-> left, right |-> right]
backcmd(cmd) == [type |-> "BACK", cmd |-> cmd]

\* gettoken() returns the token at *ps, 0 at the end, and moves on; peek() looks.
gettoken(at) == IF at <= Len(line) THEN line[at] ELSE "0"
peek(at, toks) == gettoken(at) \in toks

\* A command on which redirections are put, outermost last.
Redirected(cmd, redirs) == FoldLeft(LAMBDA c, r : redircmd(c, r.file, r.mode), cmd, redirs)

RECURSIVE parseredirs(_)
parseredirs(r) ==
  IF r.bad \/ ~ peek(r.at, {"<", ">", "+"}) THEN r
  ELSE IF gettoken(r.at + 1) # "a" THEN Panic(r)
  ELSE parseredirs([r EXCEPT !.at = @ + 2, !.redirs = Append(@, [file |-> r.at + 1, mode |-> gettoken(r.at)])])

WithRedirs(r) == IF r.bad THEN [at |-> r.at, cmd |-> Nothing, bad |-> TRUE]
                 ELSE At(r.at, Redirected(r.cmd, r.redirs))
NoRedirs(r) == [at |-> r.at, cmd |-> r.cmd, bad |-> r.bad, redirs |-> <<>>]

\* The loop of parseexec(): the words so far are r.argv, as execcmd()'s argv[].
RECURSIVE Args(_)
Args(r) ==
  IF r.bad \/ peek(r.at, {"|", ")", "&", ";", "0"}) THEN r
  ELSE IF gettoken(r.at) # "a" \/ Len(r.cmd.argv) + 1 >= MAXARGS THEN Panic(r)
  ELSE Args(parseredirs([r EXCEPT !.at = @ + 1, !.cmd.argv = Append(@, r.at)]))

Join(r, left, make(_, _)) == IF r.bad THEN r ELSE [r EXCEPT !.cmd = make(left, @)]

RECURSIVE parseline(_), parsepipe(_), parseexec(_), LineRest(_)

BlockEnd(r) ==
  IF r.bad THEN r ELSE IF ~ peek(r.at, {")"}) THEN Panic(r)
  ELSE WithRedirs(parseredirs(NoRedirs([r EXCEPT !.at = @ + 1])))
parseblock(at) == BlockEnd(parseline(at + 1))

parseexec(at) ==
  IF peek(at, {"("}) THEN parseblock(at)
  ELSE WithRedirs(Args(parseredirs(NoRedirs(At(at, execcmd(<<>>))))))

PipeRest(r) ==
  IF r.bad \/ ~ peek(r.at, {"|"}) THEN r ELSE Join(parsepipe(r.at + 1), r.cmd, pipecmd)
parsepipe(at) == PipeRest(parseexec(at))

LineRest(r) ==
  IF r.bad THEN r
  ELSE IF peek(r.at, {"&"}) THEN LineRest(At(r.at + 1, backcmd(r.cmd)))
  ELSE IF peek(r.at, {";"}) THEN Join(parseline(r.at + 1), r.cmd, listcmd)
  ELSE r
parseline(at) == LineRest(parsepipe(at))

\* parsecmd(): nothing may be left over.
parsecmd ==
  LET Whole(r) == IF r.at <= Len(line) THEN Panic(r) ELSE r IN Whole(parseline(1))

RECURSIVE nulterminate(_)
nulterminate(cmd) ==
  CASE cmd.type = "EXEC" -> ToSet(cmd.argv)
    [] cmd.type = "REDIR" -> nulterminate(cmd.cmd) \cup {cmd.file}
    [] cmd.type \in {"PIPE", "LIST"} -> nulterminate(cmd.left) \cup nulterminate(cmd.right)
    [] cmd.type = "BACK" -> nulterminate(cmd.cmd)

Init == line = <<>> /\ result = At(0, Nothing)
\* A longer line is typed.
Type(t) == Len(line) < MaxLine /\ line' = Append(line, t) /\ result' = At(0, Nothing)
Parse == result.at = 0 /\ result' = parsecmd /\ UNCHANGED line
Next == Parse \/ \E t \in Tokens : Type(t)

Spec == Init /\ [][Next]_vars

-----------------------------------------------------------------------------
(* The grammar of command lines, by splitting a line anywhere:             *)
(*    line = pipe {&} [; line]    pipe = exec [| pipe]                     *)
(*    exec = (line) {redir}  or  {word or redir}, with fewer than MAXARGS  *)
(*    words                                                                *)

Redir(s) == Len(s) = 2 /\ s[1] \in {"<", ">", "+"} /\ s[2] = "a"
RECURSIVE IsRedirs(_), IsSimple(_, _), IsExec(_), IsPipe(_), IsLine(_)
IsRedirs(s) == s = <<>> \/ (Len(s) >= 2 /\ Redir(SubSeq(s, 1, 2)) /\ IsRedirs(SubSeq(s, 3, Len(s))))
IsSimple(s, n) ==
  \/ s = <<>> /\ n < MAXARGS
  \/ s # <<>> /\ s[1] = "a" /\ IsSimple(Tail(s), n + 1)
  \/ Len(s) >= 2 /\ Redir(SubSeq(s, 1, 2)) /\ IsSimple(SubSeq(s, 3, Len(s)), n)
IsExec(s) ==
  \/ IsSimple(s, 0)
  \/ s # <<>> /\ s[1] = "(" /\ \E k \in 2..Len(s) : /\ s[k] = ")" /\ IsLine(SubSeq(s, 2, k - 1))
                                                    /\ IsRedirs(SubSeq(s, k + 1, Len(s)))
IsPipe(s) ==
  \/ IsExec(s)
  \/ \E k \in 1..Len(s) : s[k] = "|" /\ IsExec(SubSeq(s, 1, k - 1)) /\ IsPipe(SubSeq(s, k + 1, Len(s)))
IsBacks(s) == \E k \in 0..Len(s) : IsPipe(SubSeq(s, 1, k)) /\ \A i \in k+1..Len(s) : s[i] = "&"
IsLine(s) ==
  \/ IsBacks(s)
  \/ \E k \in 1..Len(s) : s[k] = ";" /\ IsBacks(SubSeq(s, 1, k - 1)) /\ IsLine(SubSeq(s, k + 1, Len(s)))

Words == {i \in DOMAIN line : line[i] = "a"}
Files == {i \in Words : i > 1 /\ line[i - 1] \in {"<", ">", "+"}}

\* parsecmd() accepts exactly the lines of the grammar, and panics on the others.
AcceptsGrammar == result.at > 0 => (~ result.bad <=> IsLine(line))

\* A command and the commands in it.
RECURSIVE Sub(_)
Sub(cmd) == {cmd} \cup CASE cmd.type = "EXEC" -> {} [] cmd.type \in {"REDIR", "BACK"} -> Sub(cmd.cmd)
                         [] OTHER -> Sub(cmd.left) \cup Sub(cmd.right)

\* What is left of an operator in the line is left of it in the tree, arguments
\* keep their order, and a redirection has the file and the mode written next to
\* each other.
TreeInOrder == result.at > 0 /\ ~ result.bad => \A c \in Sub(result.cmd) :
  /\ c.type = "EXEC" => /\ ToSet(c.argv) \cap Files = {}
                        /\ \A i, j \in DOMAIN c.argv : i < j => c.argv[i] < c.argv[j]
  /\ c.type = "REDIR" => c.file \in Files /\ c.mode = line[c.file - 1]
  /\ c.type \in {"PIPE", "LIST"} =>
       \A i \in nulterminate(c.left), j \in nulterminate(c.right) :
         i < j /\ \E k \in i..j : line[k] = IF c.type = "PIPE" THEN "|" ELSE ";"

\* Every word of the line is an argument or a file, and is ended by a NUL.
EveryWordEnds == result.at > 0 /\ ~ result.bad => nulterminate(result.cmd) = Words
=============================================================================
