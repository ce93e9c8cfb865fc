---------------------------- MODULE ConsoleInput ----------------------------
(***************************************************************************)
(* Console input (src/kern/console.c): the keyboard driver, which turns    *)
(* the bytes a keyboard sends into characters, the serial port, and the    *)
(* ring buffer both feed.  Interrupts are off in the kernel, so devices    *)
(* are polled, by cons_getc; they go on sending while it polls.            *)
(*                                                                         *)
(* A step of the kernel is one iteration of a loop of cons_intr.  `pc'     *)
(* tells where cons_getc is.  Of the tables of the driver only the entries *)
(* of the keys in Code are there; \h2A is 0x2A.                            *)
(* The serial port exists (serial_exists), and its FIFO is off.            *)
(* Operators Name_Slip are deviations a bug could make of Name: no         *)
(* specification uses them, they show that the properties can fail.        *)
(***************************************************************************)
EXTENDS Integers, Sequences

CONSTANTS CONSBUFSIZE,
          Keys,         \* the keys in use, a subset of DOMAIN Code
          SerialChars,  \* what the other end of the serial line sends
          MaxWire       \* bytes the keyboard keeps until they are read

ASSUME ConsoleAssumption ==
    /\ CONSBUFSIZE \in Nat \ {0} /\ MaxWire \in Nat
    /\ SerialChars \subseteq 0..255

VARIABLES held,         \* the keys that are down
          wire,         \* bytes sent by the keyboard and not yet read
          rx,           \* the byte in the serial port, or NoData
          shift,        \* the flags of kbd_proc_data
          cons,         \* the ring buffer
          pc,           \* where cons_getc is
          mods,         \* history: the modifiers and locks as the user sees them
          typed         \* history: what the user typed and the driver has not read

history == <<mods, typed>>
consoleVars == <<held, wire, rx, shift, cons, pc, mods, typed>>

NoData == -1
NO == 0
KEY_DEL == 233
Modifiers == {"SHIFT", "CTL", "ALT"}
Locks == {"CAPSLOCK", "NUMLOCK", "SCROLLLOCK"}

\* The bytes of a key that is pressed; when it is released the last byte has
\* bit 7 set.  "prtsc" begins with a shift key nobody has pressed.
Code == [lshift |-> <<\h2A>>, rctl |-> <<\hE0, \h1D>>, lctl |-> <<\h1D>>, ralt |-> <<\hE0, \h38>>,
         caps |-> <<\h3A>>, a |-> <<\h1E>>, slash |-> <<\hE0, \h35>>,
         del |-> <<\hE0, \h53>>, prtsc |-> <<\hE0, \h2A>>]
ASSUME KeysAssumption == Keys \subseteq DOMAIN Code
Make(k) == Code[k]
Break(k) == [Code[k] EXCEPT ![Len(Code[k])] = @ + \h80]

-----------------------------------------------------------------------------
(* kbd_proc_data. *)

shiftcode(data) ==
    CASE data \in {\h1D, \h9D} -> {"CTL"}
      [] data \in {\h2A, \h36} -> {"SHIFT"}
      [] data \in {\h38, \hB8} -> {"ALT"}
      [] OTHER -> {}
togglecode(data) ==
    CASE data = \h3A -> {"CAPSLOCK"}
      [] data = \h45 -> {"NUMLOCK"}
      [] data = \h46 -> {"SCROLLLOCK"}
      [] OTHER -> {}

normalmap(data) == CASE data = \h1E -> 97 [] data = \hB5 -> 47 [] data = \hD3 -> KEY_DEL [] OTHER -> NO
shiftmap(data)  == CASE data = \h1E -> 65 [] data = \hB5 -> 47 [] data = \hD3 -> KEY_DEL [] OTHER -> NO
ctlmap(data)    == CASE data = \h1E -> 1 [] data = \hB5 -> (47 - 64) % 256 [] data = \hD3 -> KEY_DEL [] OTHER -> NO

charcode(flags, data) ==
    IF "CTL" \in flags THEN ctlmap(data)
    ELSE IF "SHIFT" \in flags THEN shiftmap(data)
    ELSE normalmap(data)

SwapCase(c) == IF c \in 97..122 THEN c - 32 ELSE IF c \in 65..90 THEN c + 32 ELSE c

Toggled(flags, locks) == (flags \cup locks) \ (flags \cap locks)

\* The release of a key; the code of an extended key is looked up as it is.
Released_EscapeStays(flags, data) ==
    flags \ shiftcode(IF "E0ESC" \in flags THEN data ELSE data % 128)
Released(flags, data) ==
    flags \ (shiftcode(IF "E0ESC" \in flags THEN data ELSE data % 128) \cup {"E0ESC"})

\* The code of a key that is pressed, and the flags then.
Pressed_EscapeIgnored(flags, data) ==
    LET now == flags \ {"E0ESC"}
    IN [flags |-> Toggled(now \cup shiftcode(data), togglecode(data)), data |-> data]
Pressed(flags, data) ==
    LET code == IF "E0ESC" \in flags /\ data < 128 THEN data + 128 ELSE data
        now == flags \ {"E0ESC"}
    IN [flags |-> Toggled(now \cup shiftcode(code), togglecode(code)), data |-> code]

kbd_proc_data(flags, data) ==
    IF data = \hE0 THEN [shift |-> flags \cup {"E0ESC"}, c |-> NO]
    ELSE IF data >= 128 THEN [shift |-> Released(flags, data), c |-> NO]
    ELSE LET p == Pressed(flags, data)
             c == charcode(p.flags, p.data)
         IN [shift |-> p.flags, c |-> IF "CAPSLOCK" \in p.flags THEN SwapCase(c) ELSE c]

\* Ctrl-Alt-Del: the processor is reset.
Reboots(flags, c) == {"CTL", "ALT"} \subseteq flags /\ c = KEY_DEL

-----------------------------------------------------------------------------
(* cons_intr and cons_getc. *)

Next1_WrapsLate(pos) == IF pos = CONSBUFSIZE THEN 0 ELSE pos + 1
Next1(pos) == IF pos + 1 = CONSBUFSIZE THEN 0 ELSE pos + 1

Stored_AdvancesFirst(c) == IF c = 0 THEN cons
             ELSE [cons EXCEPT !.buf[Next1(cons.wpos)] = c, !.wpos = Next1(@)]
Stored(c) == IF c = 0 THEN cons
             ELSE [cons EXCEPT !.buf[cons.wpos] = c, !.wpos = Next1(@)]

cons_getc == /\ pc = "idle" /\ pc' = "serial"
             /\ UNCHANGED <<held, wire, rx, shift, cons, history>>

serial_intr ==
    /\ pc = "serial"
    /\ \/ /\ rx # NoData
          /\ cons' = Stored(rx) /\ rx' = NoData
          /\ UNCHANGED pc
       \/ /\ rx = NoData
          /\ pc' = "kbd"
          /\ UNCHANGED <<cons, rx>>
    /\ UNCHANGED <<held, wire, shift, history>>

kbd_intr ==
    /\ pc = "kbd"
    /\ \/ /\ wire # <<>>
          /\ LET r == kbd_proc_data(shift, Head(wire))
             IN IF Reboots(r.shift, r.c)
                THEN pc' = "reboot" /\ UNCHANGED <<wire, shift, cons, typed>>
                ELSE /\ wire' = Tail(wire)
                     /\ shift' = r.shift /\ cons' = Stored(r.c)
                     /\ typed' = IF r.c = NO THEN typed ELSE SubSeq(typed, 2, Len(typed))
                     /\ UNCHANGED pc
       \/ /\ wire = <<>>
          /\ pc' = "take"
          /\ UNCHANGED <<wire, shift, cons, typed>>
    /\ UNCHANGED <<held, rx, mods>>

take ==
    /\ pc = "take" /\ pc' = "idle"
    /\ cons' = IF cons.rpos = cons.wpos THEN cons
               ELSE [cons EXCEPT !.rpos = Next1(@)]
    /\ UNCHANGED <<held, wire, rx, shift, history>>

-----------------------------------------------------------------------------
(* The user and the devices. *)

KeysOf(m) == CASE m = "SHIFT" -> {"lshift"} [] m = "CTL" -> {"lctl", "rctl"} [] m = "ALT" -> {"ralt"}
ModifierOf == [k \in Keys |-> {m \in Modifiers : k \in KeysOf(m)}]
LockOf == [k \in Keys |-> IF k = "caps" THEN {"CAPSLOCK"} ELSE {}]

\* What the user expects of a key.
KeyChar(k, down) ==
    CASE k = "a" -> IF "CTL" \in down THEN 1
                    ELSE IF ("SHIFT" \in down) # ("CAPSLOCK" \in down) THEN 65 ELSE 97
      [] k = "slash" -> IF "CTL" \in down THEN 239 ELSE 47
      [] k = "del" -> KEY_DEL
      [] OTHER -> NO

\* A key that stays down is sent again and again.
PressKey(k) ==
    /\ Len(wire) + Len(Make(k)) <= MaxWire
    /\ held' = held \cup {k} /\ wire' = wire \o Make(k)
    /\ mods' = Toggled(mods \cup ModifierOf[k], LockOf[k])
    /\ typed' = IF KeyChar(k, mods') = NO THEN typed ELSE Append(typed, KeyChar(k, mods'))
    /\ UNCHANGED <<rx, shift, cons, pc>>

ReleaseKey(k) ==
    /\ k \in held /\ Len(wire) + Len(Break(k)) <= MaxWire
    /\ held' = held \ {k} /\ wire' = wire \o Break(k)
    /\ mods' = mods \ ModifierOf[k]
    /\ UNCHANGED <<rx, shift, cons, pc, typed>>

\* A byte nobody has read is overwritten.
SendSerial(c) == rx' = c /\ UNCHANGED <<held, wire, shift, cons, pc, history>>

ConsoleInit ==
    /\ held = {} /\ wire = <<>> /\ rx = NoData /\ shift = {}
    /\ cons = [buf |-> [i \in 0..(CONSBUFSIZE - 1) |-> 0], rpos |-> 0, wpos |-> 0]
    /\ pc = "idle" /\ mods = {} /\ typed = <<>>

ConsoleNext ==
    /\ pc # "reboot"
    /\ \/ cons_getc \/ serial_intr \/ kbd_intr \/ take
       \/ \E k \in Keys : PressKey(k) \/ ReleaseKey(k)
       \/ \E c \in SerialChars : SendSerial(c)

ConsoleSpec == ConsoleInit /\ [][ConsoleNext]_consoleVars

-----------------------------------------------------------------------------
(* Correctness. *)

\* The variables have their types; the positions stay inside the buffer.
ConsoleTypeOK ==
    /\ held \subseteq Keys /\ Len(wire) <= MaxWire /\ \A i \in DOMAIN wire : wire[i] \in 0..255
    /\ rx \in {NoData} \cup SerialChars
    /\ shift \subseteq Modifiers \cup Locks \cup {"E0ESC"}
    /\ cons.buf \in [0..(CONSBUFSIZE - 1) -> 0..255]
    /\ cons.rpos \in 0..(CONSBUFSIZE - 1) /\ cons.wpos \in 0..(CONSBUFSIZE - 1)
    /\ pc \in {"idle", "serial", "kbd", "take", "reboot"}

\* Whenever the driver has read everything, every key has given its character, and
\* the flags are those the user expects: no escape is pending, and no modifier
\* is stuck, that is down when none of its keys is.
DriverCaughtUp ==
    wire = <<>> =>
       /\ typed = <<>> /\ shift = mods
       /\ \A m \in Modifiers : m \in shift => held \cap KeysOf(m) # {}

\* Key by key the console is an input queue: every key pressed gives its
\* character for the modifiers at that moment, whatever was sent before it and
\* wherever the driver stopped reading, and characters are read in order, until
\* CONSBUFSIZE of them wait and are lost together.
Unread == [i \in 1..((cons.wpos - cons.rpos) % CONSBUFSIZE) |->
             cons.buf[(cons.rpos + i - 1) % CONSBUFSIZE]]
Input == INSTANCE InputQueue WITH
             Capacity <- CONSBUFSIZE, Modifier <- ModifierOf, Toggle <- LockOf,
             CharOf <- KeyChar, queue <- Unread
ImplementsInputQueue == Input!InputSpec
=============================================================================
