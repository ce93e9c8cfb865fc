------------------------------ MODULE AreaSet ------------------------------
(***************************************************************************)
(* What the list of VMAs of src/kern/vma.c amounts to for its environment: *)
(* a set of areas of the address space that do not overlap.  Creating adds *)
(* an area in free space, or has no effect that can be seen; destroying    *)
(* cuts pieces off one area and leaves every other area alone.             *)
(***************************************************************************)
EXTENDS Integers

CONSTANT InitialAreas   \* the areas the loader sets up

VARIABLE areas          \* records with at least va, len, type and perm

Within(n, m) == /\ m.va <= n.va /\ n.va + n.len <= m.va + m.len
                /\ n.type = m.type
                /\ n.perm = m.perm
Apart(m, n) == m.va + m.len <= n.va \/ n.va + n.len <= m.va

Disjoint(A) == \A m, n \in A : m # n => Apart(m, n)

Init == areas = InitialAreas

Create == \E m \in areas' \ areas : areas' = areas \cup {m}

Destroy == \E m \in areas :
              /\ areas \ {m} \subseteq areas'
              /\ \A n \in areas' \ (areas \ {m}) : Within(n, m)

Next == (Create \/ Destroy) /\ Disjoint(areas')

Spec == Init /\ [][Next]_areas
=============================================================================
