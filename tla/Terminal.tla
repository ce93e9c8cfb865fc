------------------------------ MODULE Terminal ------------------------------
(***************************************************************************)
(* What a user sees and types.  A program prints through the buffer of     *)
(* src/lib/printf.c and sys_cputs, the kernel puts every character on the  *)
(* serial line and on the screen (src/kern/console.c).  Once the           *)
(* environment is destroyed the kernel's monitor (src/kern/monitor.c)      *)
(* reads lines (src/lib/readline.c), splits them in place, and answers.    *)
(*                                                                         *)
(* The parallel port gets what the serial line gets and is left out.       *)
(* getchar takes a key from the queue of module ConsoleInput.              *)
(***************************************************************************)
EXTENDS Printf, FiniteSets

LOCAL INSTANCE SequencesExt

CONSTANTS Rows, Cols,       \* CRT_ROWS, CRT_COLS
          BufLen,           \* BUFLEN of readline
          MaxArgs,          \* MAXARGS of the monitor
          PrintBuf,         \* the size of struct printbuf's buffer
          Prints,           \* what the program prints: [fmt, ap] records
          Welcome, Prompt, TooMany, Unknown,    \* the monitor's messages
          Commands,         \* the message of each command, by its name
          Keys,             \* the characters typed
          MaxPrints, MaxKeys    \* bounds on calls of cprintf and on keys

CrtSize == Rows * Cols
Whitespace == <<"TAB", "CR", "LF", " ">>

ASSUME TerminalAssumption ==
    /\ Len(Prompt) + BufLen <= CrtSize      \* a line never fills the screen
    /\ PrintBuf > 1 /\ MaxArgs > 1 /\ BufLen > 1

VARIABLES out,      \* crt, pos: crt_buf and crt_pos; wire: the serial line
          print,    \* vcprintf in the program: characters to come, b.buf, all
          mode,     \* who has the console
          buf, i,   \* readline's buffer and its length
          cmd,      \* the line runcmd got and the words it found
          bounds    \* calls of cprintf and keys so far

termVars == <<out, print, mode, buf, i, cmd, bounds>>

-----------------------------------------------------------------------------
(* The console. *)

Scroll_Late(s) ==
    IF s.pos <= CrtSize THEN s
    ELSE [s EXCEPT !.crt = memset(memmove(@, 1, Cols + 1, CrtSize - Cols),
                                  CrtSize - Cols + 1, " ", Cols),
                   !.pos = @ - Cols]
Scroll(s) ==
    IF s.pos < CrtSize THEN s
    ELSE [s EXCEPT !.crt = memset(memmove(@, 1, Cols + 1, CrtSize - Cols),
                                  CrtSize - Cols + 1, " ", Cols),
                   !.pos = @ - Cols]

LineStart(pos) == pos - (pos % Cols)

\* A tab is five spaces, on every device.
RECURSIVE cons_putc(_, _)
cga_putc(s, c) ==
    Scroll(CASE c = "BS" -> IF s.pos > 0 THEN [s EXCEPT !.pos = @ - 1, !.crt[s.pos] = " "] ELSE s
             [] c = "LF" -> [s EXCEPT !.pos = LineStart(@ + Cols)]
             [] c = "CR" -> [s EXCEPT !.pos = LineStart(@)]
             [] c = "TAB" -> FoldLeft(cons_putc, s, Repeated(" ", 5))
             [] OTHER -> [s EXCEPT !.crt[s.pos + 1] = c, !.pos = @ + 1])
cons_putc(s, c) == cga_putc([s EXCEPT !.wire = Append(@, c)], c)

cprintf(s, fmt, ap) == FoldLeft(cons_putc, s, vprintfmt(fmt, ap))
sys_cputs(s, text) == cprintf(s, <<"%", ".", "*", "s">>, <<Len(text), text>>)

Init ==
    /\ out = [crt |-> Repeated(" ", CrtSize), pos |-> 0, wire |-> <<>>]
    /\ print = [busy |-> FALSE, left |-> <<>>, buf |-> <<>>, all |-> <<>>]
    /\ mode = "program"
    /\ buf = Repeated(NUL, BufLen) /\ i = 0
    /\ cmd = [line |-> <<>>, argv |-> <<>>]
    /\ bounds = [prints |-> 0, keys |-> 0]

-----------------------------------------------------------------------------
(* A program prints. *)

UserCprintf(p) ==
    /\ mode = "program" /\ ~print.busy /\ bounds.prints < MaxPrints
    /\ LET text == vprintfmt(p.fmt, p.ap)
       IN print' = [busy |-> TRUE, left |-> text, buf |-> <<>>, all |-> text]
    /\ out' = [out EXCEPT !.wire = <<>>]
    /\ bounds' = [bounds EXCEPT !.prints = @ + 1]
    /\ UNCHANGED <<mode, buf, i, cmd>>

Full(b) == Len(b) = PrintBuf - 1

Store_NotReset(b) ==
    /\ out' = IF Full(b) THEN sys_cputs(out, b) ELSE out
    /\ print' = [print EXCEPT !.left = Tail(@), !.buf = IF Full(b) THEN <<Last(b)>> ELSE b]
Store(b) ==
    /\ out' = IF Full(b) THEN sys_cputs(out, b) ELSE out
    /\ print' = [print EXCEPT !.left = Tail(@), !.buf = IF Full(b) THEN <<>> ELSE b]

putch ==
    /\ mode = "program" /\ print.busy /\ print.left # <<>>
    /\ Store(Append(print.buf, Head(print.left)))
    /\ UNCHANGED <<mode, buf, i, cmd, bounds>>

\* vcprintf prints what is left in the buffer.
CprintfReturns ==
    /\ mode = "program" /\ print.busy /\ print.left = <<>>
    /\ out' = sys_cputs(out, print.buf)
    /\ print' = [print EXCEPT !.busy = FALSE, !.buf = <<>>]
    /\ UNCHANGED <<mode, buf, i, cmd, bounds>>

\* The environment is destroyed, by itself or by an exception in the middle of a call.
EnvDestroyed ==
    /\ mode = "program"
    /\ out' = cprintf([out EXCEPT !.wire = <<>>], Welcome, <<>>)
    /\ print' = [busy |-> FALSE, left |-> <<>>, buf |-> <<>>, all |-> <<>>]
    /\ mode' = "monitor"
    /\ UNCHANGED <<buf, i, cmd, bounds>>

-----------------------------------------------------------------------------
(* The monitor. *)

\* readline prints its prompt.
Readline ==
    /\ mode = "monitor"
    /\ out' = cprintf([out EXCEPT !.wire = <<>>], <<"%", "s">>, <<Prompt>>)
    /\ mode' = "readline" /\ i' = 0
    /\ cmd' = [line |-> <<>>, argv |-> <<>>]
    /\ UNCHANGED <<print, buf, bounds>>

Echo(c) == out' = cons_putc([out EXCEPT !.wire = <<>>], c)
Ends(c) == c \in {"LF", "CR"}
Printable(c) == Code[c] >= 32

Erase == /\ i > 0
         /\ Echo("BS") /\ i' = i - 1
         /\ UNCHANGED <<mode, buf>>
Insert(c) ==
    /\ i < BufLen - 1
    /\ Echo(c) /\ buf' = [buf EXCEPT ![i + 1] = c] /\ i' = i + 1
    /\ UNCHANGED mode
Enter == /\ Echo("LF") /\ buf' = [buf EXCEPT ![i + 1] = NUL] /\ mode' = "runcmd"
         /\ UNCHANGED i

\* DEL at the beginning of a line is a character like any other (its code is 127).
Key(c) ==
    /\ mode = "readline" /\ bounds.keys < MaxKeys
    /\ bounds' = [bounds EXCEPT !.keys = @ + 1]
    /\ IF c \in {"BS", "DEL"} /\ i > 0 THEN Erase
       ELSE IF Printable(c) /\ i < BufLen - 1 THEN Insert(c)
       ELSE IF Ends(c) THEN Enter
       ELSE UNCHANGED <<out, mode, buf, i>>
    /\ UNCHANGED <<print, cmd>>

Space(c) == c # NUL /\ strchr(Literal(Whitespace), 1, c) # 0
FirstFrom(m, p, chars) ==
    CHOOSE q \in p..Len(m) : m[q] \in chars /\ \A r \in p..(q - 1) : m[r] \notin chars
WordStart(m, p) == FirstFrom(m, p, {c \in DOMAIN Code : ~Space(c)})
WordEnd(m, p) == FirstFrom(m, p, {c \in DOMAIN Code : c = NUL \/ Space(c)})

\* The loop of runcmd: white space becomes NUL, words stay where they are.  At the
\* limit of MAXARGS the rest of the line is not looked at.
RECURSIVE Parse_SpacesStay(_, _, _)
Parse_SpacesStay(m, p, argv) ==
    LET q == WordStart(m, p)
    IN IF m[q] = NUL \/ Len(argv) = MaxArgs - 1
       THEN [m |-> m, argv |-> argv, full |-> m[q] # NUL]
       ELSE Parse_SpacesStay(m, WordEnd(m, q), Append(argv, q))
RECURSIVE Parse(_, _, _)
Parse(m, p, argv) ==
    LET q == WordStart(m, p)
        gobbled == memset(m, p, NUL, q - p)
    IN IF m[q] = NUL \/ Len(argv) = MaxArgs - 1
       THEN [m |-> gobbled, argv |-> argv, full |-> m[q] # NUL]
       ELSE Parse(gobbled, WordEnd(m, q), Append(argv, q))

\* What the monitor answers to the words of a line.
Answer(s, m, argv) ==
    LET called == {name \in DOMAIN Commands : strcmp(m, argv[1], Literal(name), 1) = 0}
    IN IF argv = <<>> THEN s
       ELSE IF called # {} THEN cprintf(s, Commands[CHOOSE name \in called : TRUE], <<>>)
       ELSE cprintf(s, Unknown, <<CText(m, argv[1])>>)

Runcmd ==
    /\ mode = "runcmd"
    /\ LET r == Parse(buf, 1, <<>>)
           s == [out EXCEPT !.wire = <<>>]
       IN /\ buf' = r.m
          /\ cmd' = [line |-> CText(buf, 1),
                     argv |-> IF r.full THEN <<>> ELSE r.argv]
          /\ out' = IF r.full THEN cprintf(s, TooMany, <<>>) ELSE Answer(s, r.m, r.argv)
    /\ mode' = "monitor"
    /\ UNCHANGED <<print, i, bounds>>

Next == \/ \E p \in Prints : UserCprintf(p)
        \/ putch \/ CprintfReturns \/ EnvDestroyed
        \/ Readline \/ Runcmd \/ \E c \in Keys : Key(c)

Spec == Init /\ [][Next]_termVars

-----------------------------------------------------------------------------
(* Correctness. *)

\* While a line is typed the cursor is on the screen, right behind the prompt and the
\* line as readline holds it, whatever was wrapped, erased and scrolled; and the line
\* leaves room for its terminator.
ScreenShowsLine ==
    LET text == Prompt \o SubSeq(buf, 1, i)
    IN /\ out.pos \in 0..(CrtSize - 1) /\ Len(out.crt) = CrtSize
       /\ i < BufLen
       /\ mode = "readline" =>
            out.pos >= Len(text) /\ SubSeq(out.crt, out.pos - Len(text) + 1, out.pos) = text

\* Everything a program prints reaches the console complete, once and in order, across
\* the flushes of the buffer: what was sent and what is still to come is what it said
\* (texts without NUL; a tab is followed by the five spaces it is drawn with).
Drawn(text) ==
    FlattenSeq([n \in 1..Len(text) |->
                  IF text[n] = "TAB" THEN <<"TAB">> \o Repeated(" ", 5) ELSE <<text[n]>>])
SaidIsShown ==
    mode = "program" => out.wire \o Drawn(print.buf \o print.left) = Drawn(print.all)

\* The words of the line, by definition: what stands between white space.
IsWord(line, a, b) ==
    /\ \A n \in a..b : ~Space(line[n])
    /\ a > 1 => Space(line[a - 1])
    /\ b < Len(line) => Space(line[b + 1])
WordSpans(line) == {s \in (1..Len(line)) \X (1..Len(line)) : s[1] <= s[2] /\ IsWord(line, s[1], s[2])}

\* A command gets the words of the line, each ended by a NUL, in order and all of them,
\* or the line is refused because it has too many.
ArgvIsWords ==
    LET spans == WordSpans(cmd.line)
    IN IF cmd.argv = <<>> THEN spans = {} \/ Cardinality(spans) >= MaxArgs
       ELSE /\ Len(cmd.argv) = Cardinality(spans) /\ Len(cmd.argv) < MaxArgs
            /\ \A s \in spans : \E n \in 1..Len(cmd.argv) :
                 cmd.argv[n] = s[1] /\ CText(buf, s[1]) = SubSeq(cmd.line, s[1], s[2])
            /\ \A n \in 2..Len(cmd.argv) : cmd.argv[n - 1] < cmd.argv[n]

-----------------------------------------------------------------------------
(* The pure functions against what they promise, for all small inputs: they *)
(* are evaluated once, in the initial state.                                *)

CONSTANTS Bytes,        \* a memory whose characters are all different
          Texts,        \* C strings, as texts
          MaxNum, Widths

Fill == Repeated("#", 8)
AtStart == mode = "program" /\ bounds.prints = 0

\* memmove copies the source as it was before the call, however the two ranges overlap
\* and whether it moves words or bytes; strlcpy and strncpy write size characters at
\* most, the first ones of the source, and strlcpy always ends them with a NUL.
MemoryRight ==
    AtStart =>
      /\ \A n \in 0..Len(Bytes) : \A d, s \in 1..(Len(Bytes) - n + 1) :
           LET after == memmove(Bytes, d, s, n)
           IN \A p \in 1..Len(Bytes) :
                after[p] = IF p \in d..(d + n - 1) THEN Bytes[s + p - d] ELSE Bytes[p]
      /\ \A t \in Texts, size \in 0..5 :
           LET l == strlcpy(Fill, 2, Literal(t), 1, size)
               n == strncpy(Fill, 2, Literal(t), 1, size)
           IN /\ \A p \in (1..8) \ (2..(size + 1)) : l.m[p] = "#" /\ n[p] = "#"
              /\ size > 0 => /\ l.ret = strlen(l.m, 2) /\ l.ret < size
                             /\ CText(l.m, 2) = SubSeq(t, 1, l.ret)
                             /\ l.ret < Len(t) => l.ret = size - 1
              /\ SubSeq(n, 2, size + 1) = SubSeq(t \o Repeated(NUL, size), 1, size)

\* A number is printed with all its digits and no zero in front, after as much padding
\* as the width asks for; a string is cut at the precision; and snprintf keeps to its n
\* characters, ends them, and returns the length of the whole.  Nothing is said of a
\* string with a width: the code pads it, where printfmt.c:14 promises widths for the
\* numeric formats only.
FormatsRight ==
    AtStart =>
      /\ \A num \in 0..MaxNum, base \in {8, 10, 16}, width \in Widths, padc \in {" ", "0"} :
           LET t == printnum(num, base, width, padc)
               digits == CHOOSE n \in 1..Len(t) : base^n > num /\ (n > 1 => base^(n - 1) <= num)
               pad == Len(t) - digits
           IN /\ Value(SubSeq(t, pad + 1, Len(t)), base) = num
              /\ SubSeq(t, 1, pad) = Repeated(padc, pad)
              /\ Len(t) = IF width > digits THEN width ELSE digits
      /\ \A s \in Texts, most \in 0..3 :
           vprintfmt(<<"%", ".", "*", "s">>, <<most, s>>)
             = SubSeq(s, 1, IF Len(s) < most THEN Len(s) ELSE most)
      /\ \A s \in Texts, n \in 1..5 :
           LET r == vsnprintf(Fill, 2, n, <<"%", "s">>, <<s>>)
               kept == IF Len(s) < n THEN Len(s) ELSE n - 1
           IN /\ r.ret = Len(s)
              /\ CText(r.m, 2) = SubSeq(s, 1, kept)
              /\ \A p \in (1..8) \ (2..(kept + 2)) : r.m[p] = "#"
=============================================================================
