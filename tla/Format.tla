------------------------------- MODULE Format -------------------------------
(***************************************************************************)
(* Formatted printing: printint() and the format loops of user/printf.c    *)
(* and kernel/printk.c.  Words have W bits; %d and %u take the low H bits  *)
(* of an argument, as int and uint32 do of 64.                             *)
(*                                                                         *)
(* A format is a sequence of characters; what a loop prints is a sequence  *)
(* of items, a character or a conversion, which is given by its text.      *)
(***************************************************************************)
EXTENDS Integers, Sequences, SequencesExt

CONSTANTS W, H,
          BUF,          \* char buf[20] of printint()
          Chars,        \* characters of formats
          MaxFmt

VARIABLES fmt, arg

Init == fmt = <<>> /\ arg = 0
Next == \/ /\ fmt = <<>> /\ arg = 0
           /\ arg' \in 1..2^W-1 /\ UNCHANGED fmt
        \/ /\ arg = 0 /\ Len(fmt) < MaxFmt
           /\ \E ch \in Chars : fmt' = Append(fmt, ch)
           /\ UNCHANGED arg
Spec == Init /\ [][Next]_<<fmt, arg>>

-----------------------------------------------------------------------------
(* printint().                                                             *)

Signed(x, w) == IF x >= 2^(w - 1) THEN x - 2^w ELSE x
\* va_arg(ap, int), uint32 and uint64, as the long long that printint() takes.
VaArg(x, type) == CASE type = "int" -> Signed(x % 2^H, H) [] type = "uint32" -> x % 2^H [] type = "uint64" -> Signed(x, W)

Minus == -1
RECURSIVE Digits(_, _)
\* buf, with its first byte first.
Digits(x, base) == IF x < base THEN <<x>> ELSE <<x % base>> \o Digits(x \div base, base)

\* x is unsigned, so that -xx of the least number is right; the buffer is put
\* out backwards.
printint(xx, base, sgn) ==
  LET neg == sgn /\ xx < 0
  IN Reverse(Digits((IF neg THEN -xx ELSE xx) % 2^W, base) \o IF neg THEN <<Minus>> ELSE <<>>)

-----------------------------------------------------------------------------
(* The loops.  At(f, i) is fmt[i], and NUL past the end.                   *)

At(f, i) == IF i \in 1..Len(f) THEN f[i] ELSE "NUL"
Fits(f, i, text) == \A k \in 1..Len(text) : At(f, i + k - 1) = text[k]

Char(ch) == [char |-> ch]
\* A conversion: its text, the type va_arg() is given and, for printint(), the base and the sign.
Number(text, type, base, sign) == [text |-> text, type |-> type, base |-> base, sign |-> sign]
Other(ch, type) == Number(<<ch>>, type, 0, FALSE)

\* The conversions vprintf() tries, in their order.
UserChain == <<
  Number(<<"d">>, "int", 10, TRUE), Number(<<"l", "d">>, "uint64", 10, TRUE), Number(<<"l", "l", "d">>, "uint64", 10, TRUE),
  Number(<<"u">>, "uint32", 10, FALSE), Number(<<"l", "u">>, "uint64", 10, FALSE), Number(<<"l", "l", "u">>, "uint64", 10, FALSE),
  Number(<<"x">>, "uint32", 16, FALSE), Number(<<"l", "x">>, "uint64", 16, FALSE), Number(<<"l", "l", "x">>, "uint64", 16, FALSE),
  Other("p", "uint64"), Other("c", "uint32"), Other("s", "char *"), Other("%", "none") >>

RECURSIVE vprintf(_, _, _)

\* state: the character before was a % to convert.
vprintf(f, i, state) ==
  IF i > Len(f) THEN <<>>
  ELSE IF ~ state THEN (IF f[i] = "%" THEN <<>> ELSE <<Char(f[i])>>) \o vprintf(f, i + 1, f[i] = "%")
  ELSE LET n == SelectInSeq(UserChain, LAMBDA c : Fits(f, i, c.text))
       IN IF n = 0 THEN <<Char("%"), Char(f[i])>> \o vprintf(f, i + 1, FALSE)
          ELSE <<UserChain[n]>> \o vprintf(f, i + Len(UserChain[n].text), FALSE)

\* Those printk() tries.
KernelChain == <<
  Number(<<"d">>, "int", 10, TRUE), Number(<<"l", "d">>, "uint64", 10, TRUE), Number(<<"l", "l", "d">>, "uint64", 10, TRUE),
  Number(<<"u">>, "uint32", 10, FALSE), Number(<<"l", "u">>, "uint64", 10, FALSE), Number(<<"l", "l", "u">>, "uint64", 10, FALSE),
  Number(<<"x">>, "uint32", 16, FALSE), Number(<<"l", "x">>, "uint64", 16, FALSE), Number(<<"l", "l", "x">>, "uint64", 16, FALSE),
  Other("p", "uint64"), Other("c", "uint32"), Other("s", "char *"), Other("%", "none") >>

RECURSIVE printk(_, _)

\* With pr.lock held; the test of panicking is left out.
printk(f, i) ==
  IF i > Len(f) THEN <<>>
  ELSE IF f[i] # "%" THEN <<Char(f[i])>> \o printk(f, i + 1)
  ELSE IF i = Len(f) THEN <<>>
  ELSE LET n == SelectInSeq(KernelChain, LAMBDA c : Fits(f, i + 1, c.text))
       IN IF n = 0 THEN <<Char("%"), Char(f[i + 1])>> \o printk(f, i + 2)
          ELSE <<KernelChain[n]>> \o printk(f, i + 1 + Len(KernelChain[n].text))

-----------------------------------------------------------------------------
(* Properties.                                                             *)

RECURSIVE Value(_, _)
Value(ds, base) == IF ds = <<>> THEN 0 ELSE Value(Front(ds), base) * base + Last(ds)
\* A number prints as the digits of its value, without leading zeros and with a
\* minus sign when it is negative, for the least number too, and in the buffer
\* printint() has for it.
IntExact == \A t \in {"int", "uint32", "uint64"}, base \in {10, 16}, sgn \in BOOLEAN :
  LET v == VaArg(arg, t)
      s == printint(v, base, sgn)
      neg == s[1] = Minus
      ds == IF neg THEN Tail(s) ELSE s
  IN /\ Len(s) <= BUF
     /\ Len(ds) > 1 => ds[1] # 0
     /\ neg <=> sgn /\ v < 0
     /\ Value(ds, base) = IF neg THEN -v ELSE v % 2^W

IsChar(item) == "char" \in DOMAIN item
Text(items) == FlattenSeq([k \in 1..Len(items) |-> IF IsChar(items[k]) THEN <<items[k].char>> ELSE <<"%">> \o items[k].text])
Letters == {"d", "u", "x"}
\* What a format may have after its %: up to two l's before an integer's letter.
IsConversion(text) == \/ Len(text) = 1 /\ text[1] \in Letters \cup {"p", "c", "s", "%"}
                      \/ Len(text) \in 2..3 /\ Last(text) \in Letters /\ \A k \in 1..Len(text)-1 : text[k] = "l"
Converts(f) == \E n \in 1..3 : n <= Len(f) /\ IsConversion(SubSeq(f, 1, n))
\* An l is for 64 bits, and only d has a sign.
Means(c) == Last(c.text) \in Letters =>
  /\ c.base = (IF Last(c.text) = "x" THEN 16 ELSE 10) /\ c.sign = (Last(c.text) = "d")
  /\ c.type = IF Len(c.text) > 1 THEN "uint64" ELSE IF c.sign THEN "int" ELSE "uint32"
\* Written back, the items are the format, but for a % at its very end; a % that
\* was printed is not one that could be converted; and an integer is read and
\* printed as its conversion says.
Follows(items) ==
  /\ fmt \in {Text(items), Append(Text(items), "%")}
  /\ \A k \in 1..Len(items) :
       /\ IsChar(items[k]) /\ items[k].char = "%" => ~ Converts(Text(SubSeq(items, k + 1, Len(items))))
       /\ ~ IsChar(items[k]) => Means(items[k])

\* vprintf() follows its format: no character is lost, repeated or taken twice
\* where the loop looks two characters ahead, and none past the end is printed.
UserExact == Follows(vprintf(fmt, 1, FALSE))

\* So does printk(), and it prints what vprintf() does.
KernelExact == Follows(printk(fmt, 1)) /\ printk(fmt, 1) = vprintf(fmt, 1, FALSE)
=============================================================================
