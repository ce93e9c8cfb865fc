------------------------------- MODULE Printf -------------------------------
(***************************************************************************)
(* The formatting routines that kernel and programs share                  *)
(* (src/lib/printfmt.c).  A format is a sequence of characters, the        *)
(* arguments are a sequence of integers, characters and strings, and the   *)
(* result is the sequence of characters given to putch.                    *)
(***************************************************************************)
EXTENDS CString

LOCAL INSTANCE SequencesExt

CONSTANTS IntBits, LongBits,    \* width of int, and of long and long long
          error_string          \* the messages, by error number

Digits == <<"0", "1", "2", "3", "4", "5", "6", "7", "8", "9", "a", "b", "c", "d", "e", "f">>
Numeral == {Digits[i] : i \in 1..10}
DigitValue(c) == CHOOSE v \in 0..15 : Digits[v + 1] = c

Repeated(c, n) == [i \in 1..(IF n > 0 THEN n ELSE 0) |-> c]

-----------------------------------------------------------------------------
(* Numbers. *)

RECURSIVE printnum_PadAlways(_, _, _, _)
printnum_PadAlways(num, base, width, padc) ==
    Append(IF num >= base THEN printnum_PadAlways(num \div base, base, width, padc)
                          ELSE Repeated(padc, width - 1),
           Digits[(num % base) + 1])
RECURSIVE printnum(_, _, _, _)
printnum(num, base, width, padc) ==
    Append(IF num >= base THEN printnum(num \div base, base, width - 1, padc)
                          ELSE Repeated(padc, width - 1),
           Digits[(num % base) + 1])

\* What va_arg reads: the argument cut to the width of its type.
Bits(lflag) == IF lflag > 0 THEN LongBits ELSE IntBits
getuint(arg, lflag) == arg % 2^Bits(lflag)
getint(arg, lflag) ==
    LET u == getuint(arg, lflag)
    IN IF u < 2^(Bits(lflag) - 1) THEN u ELSE u - 2^Bits(lflag)

-----------------------------------------------------------------------------
(* Strings.  The flags of a directive are a record. *)

Plain == [padc |-> " ", width |-> -1, precision |-> -1, lflag |-> 0, altflag |-> FALSE]

Strnlen(s, precision) ==
    strnlen(Literal(s), 1, IF precision < 0 THEN Len(s) ELSE precision)

\* Padding before, the characters up to the precision, padding behind.
Pad(shown, f) ==
    IF f.width > 0 /\ f.padc # "-" THEN Repeated(f.padc, f.width - Len(shown)) \o shown
    ELSE shown \o Repeated(" ", f.width - Len(shown))
Visible(s, f) == [i \in 1..Len(s) |-> IF f.altflag /\ Code[s[i]] \notin 32..126 THEN "?" ELSE s[i]]

PrintString(s, f) == Pad(Visible(SubSeq(s, 1, Strnlen(s, f.precision)), f), f)

Message(err) == IF err \in DOMAIN error_string THEN error_string[err]
                ELSE <<"e", "r", "r", "o", "r", " ">> \o printnum(err, 10, -1, " ")

PrintSigned(num, f) ==
    (IF num < 0 THEN <<"-">> ELSE <<>>)
    \o printnum(IF num < 0 THEN -num ELSE num, 10, f.width, f.padc)

\* What a directive that takes an argument prints.
Converted(ch, arg, f) ==
    CASE ch = "c" -> <<arg>>
      [] ch = "e" -> PrintString(Message(IF arg < 0 THEN -arg ELSE arg), Plain)
      [] ch = "s" -> PrintString(arg, f)
      [] ch = "d" -> PrintSigned(getint(arg, f.lflag), f)
      [] ch = "u" -> printnum(getuint(arg, f.lflag), 10, f.width, f.padc)
      [] ch = "o" -> printnum(getuint(arg, f.lflag), 8, f.width, f.padc)
      [] ch = "x" -> printnum(getuint(arg, f.lflag), 16, f.width, f.padc)
      [] ch = "p" -> <<"0", "x">> \o printnum(getuint(arg, 1), 16, f.width, f.padc)

\* The first number of a directive is the width, the second the precision.
process_precision(f, n) ==
    IF f.width < 0 THEN [f EXCEPT !.width = n, !.precision = -1] ELSE [f EXCEPT !.precision = n]

\* The numerals in front of fmt, and their value.
Numerals(fmt) == LET stop == {i \in 1..Len(fmt) : fmt[i] \notin Numeral}
                 IN IF stop = {} THEN Len(fmt) ELSE (CHOOSE i \in stop : \A j \in stop : i <= j) - 1
Value(ds, base) == FoldLeft(LAMBDA v, c : v * base + DigitValue(c), 0, ds)

-----------------------------------------------------------------------------
(* The format.  `all' is the format behind the '%' that began the directive. *)

RECURSIVE vprintfmt(_, _), Directive(_, _, _, _)
vprintfmt(fmt, ap) ==
    IF fmt = <<>> THEN <<>>
    ELSE IF Head(fmt) # "%" THEN <<Head(fmt)>> \o vprintfmt(Tail(fmt), ap)
    ELSE Directive(Tail(fmt), ap, Plain, Tail(fmt))

Directive(fmt, ap, f, all) ==
    LET ch == IF fmt = <<>> THEN NUL ELSE Head(fmt)
        rest == IF fmt = <<>> THEN <<>> ELSE Tail(fmt)
        Flag(g) == Directive(rest, ap, g, all)
        n == Numerals(fmt)
    IN CASE ch \in {"-", "0"} -> Flag([f EXCEPT !.padc = ch])
         [] ch \in Numeral \ {"0"} ->
              Directive(SubSeq(fmt, n + 1, Len(fmt)), ap,
                        process_precision(f, Value(SubSeq(fmt, 1, n), 10)), all)
         [] ch = "*" -> Directive(rest, Tail(ap), process_precision(f, Head(ap)), all)
         [] ch = "." -> Flag(IF f.width < 0 THEN [f EXCEPT !.width = 0] ELSE f)
         [] ch = "#" -> Flag([f EXCEPT !.altflag = TRUE])
         [] ch = "l" -> Flag([f EXCEPT !.lflag = @ + 1])
         [] ch \in {"c", "e", "s", "d", "u", "o", "x", "p"} ->
              Converted(ch, Head(ap), f) \o vprintfmt(rest, Tail(ap))
         [] ch = "%" -> <<"%">> \o vprintfmt(rest, ap)
         \* an unknown directive is printed as it stands
         [] OTHER -> <<"%">> \o vprintfmt(all, ap)

-----------------------------------------------------------------------------
(* snprintf: the text into n characters from buf on. *)

sprintputch(b, ch) ==
    IF b.buf < b.ebuf THEN [b EXCEPT !.cnt = @ + 1, !.m[b.buf] = ch, !.buf = @ + 1]
                      ELSE [b EXCEPT !.cnt = @ + 1]

\* For n < 1 it returns -E_INVAL and writes nothing.
vsnprintf(m, buf, n, fmt, ap) ==
    LET b == FoldLeft(sprintputch, [m |-> m, buf |-> buf, ebuf |-> buf + n - 1, cnt |-> 0],
                      vprintfmt(fmt, ap))
    IN [m |-> [b.m EXCEPT ![b.buf] = NUL], ret |-> b.cnt]
=============================================================================
