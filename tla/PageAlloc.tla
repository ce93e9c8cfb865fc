----------------------------- MODULE PageAlloc -----------------------------
(***************************************************************************)
(* The physical page allocator: the free list of module PageList and the   *)
(* reference counts, as the rest of the kernel uses them (src/kern/pmap.c).*)
(* Operators Name_Slip are deviations a bug could make of Name.            *)
(***************************************************************************)
EXTENDS PageList

CONSTANT MaxRef     \* bound on pp_ref, a uint16_t in the code

ASSUME PageAllocAssumption == MaxRef \in Nat

VARIABLES fl,           \* page_free_list and the list fields of pages[]
          pp_ref,       \* the reference count of every page
          lent          \* pages that page_alloc returned and nobody has freed

vars == <<fl, pp_ref, lent>>

Init == /\ fl = page_init
        /\ pp_ref = [p \in Pages |-> 0]
        /\ lent = {}

-----------------------------------------------------------------------------
(* The operations, as the rest of the kernel calls them. *)

\* A call that returns NULL changes nothing.
AllocPage(wantHuge) ==
    LET r == page_alloc(fl, wantHuge)
    IN /\ r.page # NULL
       /\ fl' = r.fl
       /\ lent' = lent \cup {r.page}
       /\ UNCHANGED pp_ref

\* A mapping or a table entry starts to point to a page that is lent out.
Reference(p) ==
    /\ pp_ref[p] < MaxRef
    /\ pp_ref' = [pp_ref EXCEPT ![p] = @ + 1]
    /\ UNCHANGED <<fl, lent>>

page_decref_TestsOldCount(p) ==
    /\ pp_ref' = [pp_ref EXCEPT ![p] = @ - 1]
    /\ IF pp_ref[p] = 0
       THEN fl' = page_free(fl, 0, p) /\ lent' = lent \ {p}
       ELSE UNCHANGED <<fl, lent>>
page_decref_AlwaysFrees(p) ==
    /\ pp_ref[p] > 0
    /\ pp_ref' = [pp_ref EXCEPT ![p] = @ - 1]
    /\ fl' = page_free(fl, pp_ref[p] - 1, p)
    /\ lent' = lent \ {p}

\* The owner of a reference gives it up; the last one frees the page.
page_decref(p) ==
    /\ pp_ref[p] > 0
    /\ pp_ref' = [pp_ref EXCEPT ![p] = @ - 1]
    /\ IF pp_ref[p] = 1
       THEN /\ fl' = page_free(fl, 0, p)
            /\ lent' = lent \ {p}
       ELSE UNCHANGED <<fl, lent>>

\* A page that was never mapped is freed directly.
FreePage(p) ==
    /\ pp_ref[p] = 0
    /\ fl' = page_free(fl, pp_ref[p], p)
    /\ lent' = lent \ {p}
    /\ UNCHANGED pp_ref

Next == /\ ~fl.panic
        /\ \/ \E wantHuge \in BOOLEAN : AllocPage(wantHuge)
           \/ \E p \in lent : Reference(p) \/ page_decref(p) \/ FreePage(p)

Spec == Init /\ [][Next]_vars

-----------------------------------------------------------------------------
(* Correctness. *)

\* The variables have their types.
TypeOK == /\ fl \in FreeList
          /\ pp_ref \in [Pages -> 0..MaxRef]
          /\ lent \subseteq Pages

\* The list that starts at page_free_list is well linked and holds exactly the
\* pages whose is_available flag is set: no free page is lost, none is on the
\* list twice, and no page in use is on it, whatever splits and merges happened.
FreeListOK == ListSound(fl)

\* Every usable frame belongs to exactly one record that is on the list or lent
\* out, and a referenced page is lent out: no split, merge or decrement loses a
\* frame, hands it out twice, or frees it under a mapping.
FramesPartitioned == Partitioned(fl, pp_ref, lent)

\* page_free's sanity checks never fire when callers only free what they hold.
NoPanic == ~fl.panic

\* page_alloc fails only if there is nothing to give: no free page at all, or,
\* for a huge page, no page on the list that is already merged.
OutOfMemoryIsReal ==
    /\ page_alloc(fl, FALSE).page = NULL => fl.avail = {}
    /\ page_alloc(fl, TRUE).page = NULL => fl.avail \cap fl.huge = {}

\* The allocator implements the pool of frames: page_alloc hands out one small
\* page or one aligned block that was free, page_free takes back what was given.
freeFrames == UNION {Unit(fl, p) : p \in fl.avail}
heldUnits == {Unit(fl, p) : p \in lent}
Pool == INSTANCE FramePool WITH free <- freeFrames, held <- heldUnits
ImplementsFramePool == Pool!Spec
=============================================================================
