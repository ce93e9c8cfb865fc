----------------------------- MODULE MCTerminal -----------------------------
(***************************************************************************)
(* A screen of three rows of four, a line of six characters: a line wraps, *)
(* and scrolls the screen.  The program's buffer holds three characters    *)
(* before it is flushed.  Three words are too many for the monitor.        *)
(***************************************************************************)
EXTENDS Terminal, TLC

Control == [c \in {NUL, "BS", "TAB", "LF", "CR", "ESC"} |->
              CASE c = NUL -> 0 [] c = "BS" -> 8 [] c = "TAB" -> 9 [] c = "LF" -> 10
                [] c = "CR" -> 13 [] c = "ESC" -> 27]
MCCode == Control @@ [c \in {" ", "!", "#", "-", "0", ">", "?", "K"} |->
                        CASE c = " " -> 32 [] c = "!" -> 33 [] c = "#" -> 35 [] c = "-" -> 45
                          [] c = "0" -> 48 [] c = ">" -> 62 [] c = "?" -> 63 [] c = "K" -> 75]
                  @@ [c \in {"a", "b", "c", "d", "e", "f", "g", "h", "DEL"} |->
                        CASE c = "a" -> 97 [] c = "b" -> 98 [] c = "c" -> 99 [] c = "d" -> 100
                          [] c = "e" -> 101 [] c = "f" -> 102 [] c = "g" -> 103 [] c = "h" -> 104
                          [] c = "DEL" -> 127]
MCKeys == {"a", " ", "BS", "DEL", "LF", "ESC"}

\* E_BAD_ENV has a message, E_NO_SYS has none.
MCErrors == [n \in {2} |-> <<"b", "a", "d">>]
Bad(err) == [fmt |-> <<"a", "%", "e", "TAB", "b", "LF">>, ap |-> <<err>>]
MCPrints ==
    {Bad(-2), Bad(7),
     [fmt |-> <<"%", "0", "3", "x", "%", "%", "%", "d", "%", "c">>, ap |-> <<-1, -2, "b">>],
     [fmt |-> <<"%", "l", "u", "%", "p", "%", "5", "o">>, ap |-> <<-1, 3, 9>>],
     [fmt |-> <<"%", "#", "s", "%", "z">>, ap |-> <<<<"a", "ESC">>>>]}

MCWelcome == <<"a", "TAB", "b", "LF">>
MCPrompt == <<"K", ">">>
MCTooMany == <<"!", "LF">>
MCUnknown == <<"?", "%", "s", "LF">>
MCCommands == [name \in {<<"a">>} |-> <<"b", "CR", "c", "LF", "d", "LF">>]

MCBytes == <<"a", "b", "c", "d", "e", "f", "g", "h", "K", ">", "!", "?">>
MCWidths == {-1, 0, 1, 2, 4}
MCTexts == {<<>>, <<"a">>, <<"a", "b">>, <<"a", "b", "c">>, <<"a", "b", "c", "d">>}
=============================================================================
