----------------------------- MODULE FramePool -----------------------------
(***************************************************************************)
(* What the physical page allocator of src/kern/pmap.c promises to the     *)
(* rest of the kernel, without lists, links or flags: every frame of       *)
(* usable memory is either free or part of exactly one unit that a caller  *)
(* holds.  A unit is one small page or one aligned huge page.              *)
(***************************************************************************)
EXTENDS Integers

CONSTANTS NPages,       \* physical frames of 4 KiB
          HugeSize,     \* frames in a huge page (SMALL_PAGES_IN_HUGE)
          Reserved      \* frames the boot code never puts in the pool

VARIABLES free,         \* the frames nobody holds
          held          \* the units handed out: a set of sets of frames

vars == <<free, held>>

Pages == 0..(NPages - 1)
Block(h) == h..(h + HugeSize - 1)
HugeStarts == {h \in Pages : h % HugeSize = 0 /\ h + HugeSize <= NPages}
Units == {{p} : p \in Pages} \cup {Block(h) : h \in HugeStarts}

Init == /\ free = Pages \ Reserved
        /\ held = {}

\* A caller is given a unit made of free frames only.
Allocate(u) == /\ u \subseteq free
               /\ free' = free \ u
               /\ held' = held \cup {u}

\* A caller gives back a unit it holds, and exactly that unit.
GiveBack(u) == /\ u \in held
               /\ free' = free \cup u
               /\ held' = held \ {u}

Next == \E u \in Units : Allocate(u) \/ GiveBack(u)

Spec == Init /\ [][Next]_vars
=============================================================================
