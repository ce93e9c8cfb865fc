---------------------------- MODULE AddressSpace ----------------------------
(***************************************************************************)
(* What the page tables of src/kern/pmap.c amount to for their users: a    *)
(* map from addresses to pages, and the set of pages in use outside the    *)
(* tables.  A page that was mapped is given back at the very step that     *)
(* takes its last mapping away, and a call that fails changes nothing.     *)
(***************************************************************************)
CONSTANTS Addresses,    \* virtual addresses
          Spans,        \* the sets of addresses that one entry can map
          NoPage        \* what an address without a mapping maps to

VARIABLES map,          \* the page at every address
          held          \* pages handed out and not given back

vars == <<map, held>>

Mapped(f) == {f[a] : a \in Addresses} \ {NoPage}

Init == /\ map = [a \in Addresses |-> NoPage]
        /\ held = {}

Take(p) == /\ p \notin held
           /\ held' = held \cup {p}
           /\ UNCHANGED map

GiveBack(p) == /\ p \in held \ Mapped(map)
               /\ held' = held \ {p}
               /\ UNCHANGED map

Overlay(f, V, p) == [a \in Addresses |-> IF a \in V THEN p ELSE f[a]]

\* All addresses of one span map to the same page from now on, or to none.
Change ==
    LET old == map
        new == map'
    IN /\ \E V \in Spans, p \in held \cup {NoPage} : new = Overlay(old, V, p)
       /\ held' = held \ (Mapped(old) \ Mapped(new))

Next == \/ \E p \in held' \ held : Take(p)
        \/ \E p \in held \ held' : GiveBack(p)
        \/ Change

Spec == Init /\ [][Next]_vars
=============================================================================
