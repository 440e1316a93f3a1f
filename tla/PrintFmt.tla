------------------------------ MODULE PrintFmt ------------------------------
(***************************************************************************)
(* vprintfmt() and vsnprintf() of lib/printfmt.c.  A behaviour formats one *)
(* string: Init chooses a list of directives (`asked'), renders it as the  *)
(* format and the arguments the C function gets, and Next reads the format *)
(* character by character, one action per case label.  The properties      *)
(* compare what comes out with what was asked.                             *)
(*                                                                         *)
(* A character is a string; "^" is one that is not printable, "!" one that *)
(* is no conversion.  An int has IntBits bits, a long, a long long and a   *)
(* pointer LongBits; an argument is a bit pattern, as a number.            *)
(***************************************************************************)
EXTENDS Integers, Sequences, SequencesExt, FiniteSets, Powers

CONSTANTS
  IntBits, LongBits,
  IntArgs,         \* the integer arguments
  Widths,          \* the field widths
  NumFlags,        \* the flags of numbers: "", "0", "-"
  Sizes,           \* the sizes of the buffer of vsnprintf()
  MaxDirectives,   \* bound on the directives in a format
  MAXERROR,
  NULL

NoFlag == ""
Blank  == " "

PrintFmtAssumption ==
  /\ IntBits \in Nat \ {0} /\ LongBits \in Nat /\ LongBits > IntBits
  /\ IntArgs \subseteq 0 .. Power(2, LongBits) - 1
  /\ Widths \subseteq 1 .. Power(2, LongBits) - 1 /\ Sizes \subseteq Nat
  /\ NumFlags \subseteq {NoFlag, "0", "-"}
  /\ MaxDirectives \in Nat /\ MAXERROR \in Nat

VARIABLES
  asked,     \* the directives
  fmt, pos,  \* the format, ending in NUL, and the next character of it
  args,      \* the arguments va_arg() has not returned yet
  e,         \* padc, width, precision, lflag and altflag
  size,      \* of the buffer
  b,         \* struct sprintbuf: the buffer so far, cnt
  at         \* "text", "escape" or "done"

vars == <<asked, fmt, pos, args, e, size, b, at>>
-----------------------------------------------------------------------------
Digit == <<"0", "1", "2", "3", "4", "5", "6", "7",
           "8", "9", "a", "b", "c", "d", "e", "f">>

Repeat(c, k) == [i \in 1 .. (IF k > 0 THEN k ELSE 0) |-> c]
Least(m, n) == IF m < n THEN m ELSE n
Low(x, bits) == x % Power(2, bits)
Signed(x, bits) ==
  IF Low(x, bits) < Power(2, bits-1) THEN Low(x, bits) ELSE Low(x, bits) - Power(2, bits)

Bits(lflag) == IF lflag > 0 THEN LongBits ELSE IntBits
getuint(a, lflag) == Low(a, Bits(lflag))
getint(a, lflag)  == Signed(a, Bits(lflag))

Pad(width, digits) == width - Len(digits)

printnum(num, base, width, padc) ==
  LET digits[k \in Nat] == IF k < base THEN <<Digit[k+1]>>
                           ELSE Append(digits[k \div base], Digit[(k % base) + 1])
  IN  Repeat(padc, Pad(width, digits[num])) \o digits[num]

StringOf(p) == IF p = NULL THEN <<"(", "n", "u", "l", "l", ")">> ELSE p

strnlen(p, precision) == IF precision < 0 THEN Len(p) ELSE Least(Len(p), precision)

printstr(p, width, precision, padc, altflag) ==
  LET len   == strnlen(p, precision)
      blank == Repeat(IF padc = "-" THEN Blank ELSE padc, width - len)
      shown == [i \in 1..len |-> IF altflag = 1 /\ p[i] = "^" THEN "?" ELSE p[i]]
  IN  IF padc = "-" THEN shown \o blank ELSE blank \o shown

(* error_string[] has an entry for 1 .. MAXERROR-1; the text is abstract.  *)
printerr(v) ==
  LET err == IF v < 0 THEN -v ELSE v
  IN  IF err >= MAXERROR \/ err = 0
      THEN <<"error">> \o printnum(err, 10, -1, Blank) ELSE <<"message", Digit[err+1]>>

(* sprintputch() for every character of s: what does not fit is counted.   *)
ToTheBrim(s) ==
  [buf |-> SubSeq(b.buf \o s, 1, Least(size, Len(b.buf \o s))),
   cnt |-> b.cnt + Len(s)]
sprintputch(s) ==
  [buf |-> SubSeq(b.buf \o s, 1, Least(size - 1, Len(b.buf \o s))),
   cnt |-> b.cnt + Len(s)]
-----------------------------------------------------------------------------
(* Directives: "text" is a character outside any escape, "cut" an escape   *)
(* that the end of the format cuts short.  A starred width or precision is *)
(* an argument.                                                            *)
D(conv, flag, width, prec, longs, a, star) ==
  {d \in [conv : conv, flag : flag, width : width, prec : prec, longs : longs,
          arg : a, star : star] : d.star => d.width # -1 \/ d.prec # -1}

Strings == {NULL, <<>>, <<"x", "^", "y">>}
INT_MIN(a) == Low(a, IntBits) = Power(2, IntBits-1)

WidthGiven == {-1} \cup Widths      \* -1: none given

Directive ==
  D({"d", "u", "x"}, NumFlags, WidthGiven, {-1}, 0..1, IntArgs, BOOLEAN)
  \cup D({"s"}, {NoFlag, "-", "#"}, WidthGiven, {-1, 2}, {0}, Strings, BOOLEAN)
  \cup D({"p"}, {NoFlag}, {-1}, {-1}, {0}, IntArgs, {FALSE})
  \cup D({"e"}, {NoFlag}, {-1}, {-1}, {0}, {a \in IntArgs : ~INT_MIN(a)}, {FALSE})
  \cup D({"c"}, {NoFlag}, {-1}, {-1}, {0}, {"x"}, {FALSE})
  \cup D({"!", "cut"}, {NoFlag, "0"}, WidthGiven, {-1}, 0..1, {NULL}, BOOLEAN)
  \cup D({"o", "%", "text"}, {NoFlag}, {-1}, {-1}, {0}, {NULL}, {FALSE})

(* The numeral of n, written down place by place. *)
Numeral(n, base) ==
  LET places == CHOOSE k \in 1..LongBits :
                  n < Power(base, k) /\ \A j \in 1 .. k-1 : Power(base, j) <= n
  IN  [i \in 1..places |-> Digit[((n \div Power(base, places-i)) % base) + 1]]

Render(d) ==
  LET given(k, pre) == IF k = -1 THEN <<>>
                       ELSE pre \o IF d.star THEN <<"*">> ELSE Numeral(k, 10)
  IN  IF d.conv = "text" THEN <<"x">>
      ELSE <<"%">> \o (IF d.flag = NoFlag THEN <<>> ELSE <<d.flag>>)
           \o given(d.width, <<>>) \o given(d.prec, <<".">>)
           \o Repeat("l", d.longs)
           \o (IF d.conv = "cut" THEN <<>> ELSE <<d.conv>>)

Arguments(d) ==
  LET given(k) == IF k # -1 /\ d.star THEN <<k>> ELSE <<>>
  IN  given(d.width) \o given(d.prec)
      \o IF d.conv \in {"d", "u", "x", "s", "p", "e", "c"} THEN <<d.arg>> ELSE <<>>

ConcatOf(op(_), s) == FlattenSeq([i \in DOMAIN s |-> op(s[i])])

Fresh == [padc |-> Blank, width |-> -1, precision |-> -1, lflag |-> 0,
          altflag |-> 0]

Init ==
  /\ \E k \in 0..MaxDirectives : asked \in [1..k -> Directive]
  /\ \A i \in 1..Len(asked) : asked[i].conv = "cut" => i = Len(asked)
  /\ fmt = Append(ConcatOf(Render, asked), "NUL")
  /\ args = ConcatOf(Arguments, asked)
  /\ pos = 1 /\ e = Fresh
  /\ size \in Sizes
  /\ b = [buf |-> <<>>, cnt |-> 0]
  /\ at = IF size < 1 THEN "done" ELSE "text"     \* -E_INVAL
-----------------------------------------------------------------------------
ch == fmt[pos]

Put(s) == b' = sprintputch(s)

(* Outside an escape. *)
Literal ==
  /\ at = "text" /\ ch \notin {"%", "NUL"}
  /\ Put(<<ch>>)
  /\ pos' = pos + 1
  /\ UNCHANGED <<asked, fmt, args, e, size, at>>

Return ==
  /\ at = "text" /\ ch = "NUL"
  /\ at' = "done"
  /\ UNCHANGED <<asked, fmt, pos, args, e, size, b>>

StaleWidth == [Fresh EXCEPT !.width = e.width]
Reset == Fresh
Escape ==
  /\ at = "text" /\ ch = "%"
  /\ at' = "escape" /\ pos' = pos + 1
  /\ e' = Reset
  /\ UNCHANGED <<asked, fmt, args, size, b>>

(* The cases that go back to `reswitch'. *)
Case(chars) == at = "escape" /\ ch \in chars
reswitch == UNCHANGED <<asked, fmt, size, b, at>>

SameChar(p) == p
NextChar(p) == p + 1

Flag ==
  /\ Case({"-", "0", "#"})
  /\ e' = IF ch = "#" THEN [e EXCEPT !.altflag = 1] ELSE [e EXCEPT !.padc = ch]
  /\ pos' = NextChar(pos)
  /\ reswitch /\ UNCHANGED args

process_precision(k) ==
  e' = IF e.width < 0 THEN [e EXCEPT !.width = k, !.precision = -1]
       ELSE [e EXCEPT !.precision = k]

Value(c) == CHOOSE k \in 0..9 : Digit[k+1] = c

Count ==
  /\ Case({Digit[k] : k \in 2..10})
  /\ LET digits == {Digit[k] : k \in 1..10}
         end == CHOOSE i \in pos+1 .. Len(fmt) :
                  /\ fmt[i] \notin digits
                  /\ \A j \in pos .. i-1 : fmt[j] \in digits
     IN  /\ process_precision(FoldLeft(LAMBDA k, c : 10 * k + Value(c), 0,
                                       SubSeq(fmt, pos, end - 1)))
         /\ pos' = end
  /\ reswitch /\ UNCHANGED args

Star ==
  /\ Case({"*"})
  /\ process_precision(Head(args))
  /\ args' = Tail(args) /\ pos' = pos + 1
  /\ reswitch

Dot ==
  /\ Case({"."})
  /\ e' = IF e.width < 0 THEN [e EXCEPT !.width = 0] ELSE e
  /\ pos' = pos + 1
  /\ reswitch /\ UNCHANGED args

Long ==
  /\ Case({"l"})
  /\ e' = [e EXCEPT !.lflag = @ + 1]
  /\ pos' = pos + 1
  /\ reswitch /\ UNCHANGED args

(* The conversions: what each prints, and how many arguments it takes.     *)
Conversion(chars, text, taken) ==
  /\ Case(chars)
  /\ Put(text)
  /\ args' = SubSeq(args, taken + 1, Len(args))
  /\ pos' = pos + 1 /\ at' = "text"
  /\ UNCHANGED <<asked, fmt, e, size>>

arg == Head(args)
number(num, base) == printnum(num, base, e.width, e.padc)

printd(num) == IF num < 0 THEN <<"-">> \o number(-num, 10) ELSE number(num, 10)

Decimal   == Conversion({"d"}, printd(getint(arg, e.lflag)), 1)
Unsigned  == Conversion({"u"}, number(getuint(arg, e.lflag), 10), 1)
Hex       == Conversion({"x"}, number(getuint(arg, e.lflag), 16), 1)
Pointer   == Conversion({"p"}, <<"0", "x">> \o number(arg, 16), 1)
Character == Conversion({"c"}, <<arg>>, 1)
Error     == Conversion({"e"}, printerr(Signed(arg, IntBits)), 1)
String    == Conversion({"s"}, printstr(StringOf(arg), e.width, e.precision,
                                        e.padc, e.altflag), 1)
Octal     == Conversion({"o"}, <<"X", "X", "X">>, 0)
Percent   == Conversion({"%"}, <<"%">>, 0)

(* Any other character: the escape is text after all, from behind its "%". *)
BackFrom(i) == CHOOSE j \in 1..i : fmt[j] = "%" /\ \A k \in j+1 .. i : fmt[k] # "%"

Unrecognized ==
  /\ at = "escape"
  /\ ch \in {"!", "NUL"}
  /\ Put(<<"%">>)
  /\ pos' = BackFrom(pos) + 1
  /\ at' = "text"
  /\ UNCHANGED <<asked, fmt, args, e, size>>

Next ==
  \/ Literal \/ Return \/ Escape
  \/ Flag \/ Count \/ Star \/ Dot \/ Long
  \/ Decimal \/ Unsigned \/ Hex \/ Pointer \/ Character \/ Error \/ String
  \/ Octal \/ Percent \/ Unrecognized

Spec == Init /\ [][Next]_vars /\ WF_vars(Next)
-----------------------------------------------------------------------------
Done == at = "done"

(* The format is not read past its end, nor the argument list: va_arg()    *)
(* always has one left.  The buffer has room for the terminating NUL.      *)
TypeOK ==
  /\ Len(asked) <= MaxDirectives
  /\ at \in {"text", "escape", "done"}
  /\ pos \in 1..Len(fmt)
  /\ at = "escape" /\ ch \in {"*", "d", "u", "x", "p", "c", "e", "s"} => args # <<>>
  /\ e.width \in -1 .. Power(2, LongBits)-1 /\ e.precision \in -1 .. Power(2, LongBits)-1
  /\ e.lflag \in Nat /\ e.altflag \in 0..1 /\ e.padc \in {Blank, "0", "-"}
  /\ size = 0 \/ Len(b.buf) < size

(***************************************************************************)
(* What a directive asks for.  A negative number has its sign before the   *)
(* padding; printnum() pads the magnitude.                                 *)
(***************************************************************************)
NumberAsked(d) ==
  IF d.conv = "d" THEN Signed(d.arg, Bits(d.longs)) ELSE Low(d.arg, Bits(d.longs))
Radix(d) == IF d.conv = "x" THEN 16 ELSE 10
Magnitude(d) == Numeral(IF NumberAsked(d) < 0 THEN -NumberAsked(d) ELSE NumberAsked(d), Radix(d))
Sign(d) == IF NumberAsked(d) < 0 THEN <<"-">> ELSE <<>>

Shown(d) ==
  LET text == IF d.arg = NULL THEN <<"(", "n", "u", "l", "l", ")">> ELSE d.arg
      n    == IF d.prec = -1 THEN Len(text) ELSE Least(d.prec, Len(text))
  IN  [i \in 1..n |-> IF text[i] = "^" /\ d.flag = "#" THEN "?" ELSE text[i]]

Expected(d) ==
  LET code == Signed(d.arg, IntBits)
      k    == IF code < 0 THEN -code ELSE code
      fill == IF d.flag = "0" THEN "0" ELSE Blank
  IN
  CASE d.conv \in {"text", "!", "cut"} -> Render(d)
    [] d.conv \in {"d", "u", "x"} ->
         Sign(d) \o Repeat(fill, d.width - Len(Magnitude(d))) \o Magnitude(d)
    [] d.conv = "s" ->
         LET blank == Repeat(Blank, d.width - Len(Shown(d)))
         IN  IF d.flag = "-" THEN Shown(d) \o blank ELSE blank \o Shown(d)
    [] d.conv = "p" -> <<"0", "x">> \o Numeral(d.arg, 16)
    [] d.conv = "e" -> IF k \in 1..MAXERROR-1 THEN <<"message", Digit[k+1]>>
                       ELSE <<"error">> \o Numeral(k, 10)
    [] d.conv = "c" -> <<d.arg>>
    [] d.conv = "o" -> <<"X", "X", "X">>
    [] d.conv = "%" -> <<"%">>

(* vsnprintf() prints what was asked for, escape by escape, each with its  *)
(* own arguments and free of the flags of the one before; an escape it     *)
(* does not know it prints literally.  It stores as much as fits before a  *)
(* NUL and returns the length of the whole.                                *)
PrintsWhatWasAsked ==
  Done /\ size > 0 =>
    LET whole == ConcatOf(Expected, asked)
    IN  /\ b.cnt = Len(whole)
        /\ b.buf = SubSeq(whole, 1, Least(size - 1, Len(whole)))
        /\ args = <<>>

(* It comes to an end, although the default case moves backwards.          *)
Terminates == <>Done

(* "flag to pad on the right" (printfmt.c): a number with "-" is followed  *)
(* by its padding.                                                         *)
Complete == Done /\ b.cnt = Len(b.buf) /\ Len(asked) = 1
PadsOnRight ==
  Complete /\ asked[1].conv \in {"d", "u", "x"} /\ asked[1].flag = "-" =>
    SubSeq(b.buf, 1, Len(Sign(asked[1]) \o Magnitude(asked[1])))
      = Sign(asked[1]) \o Magnitude(asked[1])
=============================================================================
