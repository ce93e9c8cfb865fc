-------------------------- MODULE MCConsoleInput --------------------------
(***************************************************************************)
(* A keyboard with a shift key, two extended modifiers, a letter and an    *)
(* extended character, so that Ctrl-Alt-Del can be typed.                  *)
(***************************************************************************)
EXTENDS ConsoleInput

MCKeys == {"lshift", "ralt", "rctl", "a", "del"}
=============================================================================
