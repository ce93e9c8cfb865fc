----------------------------- MODULE InputQueue -----------------------------
(***************************************************************************)
(* What console input promises, key by key: keys pressed become characters *)
(* according to the modifiers at that moment, in order; they wait in a     *)
(* queue with the characters of the serial line, and are taken from its    *)
(* front, one at a time.  A queue that becomes full loses everything.      *)
(***************************************************************************)
EXTENDS Naturals, Sequences

CONSTANTS Capacity, Modifier, Toggle, CharOf(_, _), SerialChars

VARIABLES mods,         \* modifiers that are down, and locks that are on
          typed,        \* characters of keys pressed, still on their way
          queue         \* characters to be read

NoChar == 0
WithChar(s, c) == IF c = NoChar THEN s ELSE Append(s, c)
Enqueued(q, c) == IF c = NoChar THEN q
                  ELSE IF Len(q) + 1 = Capacity THEN <<>>
                  ELSE Append(q, c)

InputInit == mods = {} /\ typed = <<>> /\ queue = <<>>

\* Pressing a key puts its modifier down or turns its lock around.
Press(k) ==
    /\ mods' = LET down == mods \cup Modifier[k]
               IN (down \cup Toggle[k]) \ (down \cap Toggle[k])
    /\ typed' = WithChar(typed, CharOf(k, mods'))
    /\ UNCHANGED queue

Release(k) == mods' = mods \ Modifier[k] /\ UNCHANGED <<typed, queue>>

Arrive == /\ typed # <<>>
          /\ queue' = Enqueued(queue, Head(typed)) /\ typed' = Tail(typed)
          /\ UNCHANGED mods

ArriveSerial == /\ \E c \in SerialChars : queue' = Enqueued(queue, c)
                /\ UNCHANGED <<mods, typed>>

Take == queue # <<>> /\ queue' = Tail(queue) /\ UNCHANGED <<mods, typed>>

InputNext == \/ \E k \in DOMAIN Modifier : Press(k) \/ Release(k)
             \/ Arrive \/ ArriveSerial \/ Take

InputSpec == InputInit /\ [][InputNext]_<<mods, typed, queue>>
=============================================================================
