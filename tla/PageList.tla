------------------------------ MODULE PageList ------------------------------
(***************************************************************************)
(* The list of free pages and the functions that change it: the array of   *)
(* page_info records, the doubly linked free list threaded through it, and *)
(* huge pages that are split when small pages run out and merged again     *)
(* when a block is freed (src/kern/pmap.c, src/kern/lab1.c).               *)
(*                                                                         *)
(* A page is its index in pages[].  The five list fields of all records    *)
(* are one value, so that the C functions are operators that take the list *)
(* and return the list; the sets `huge' and `avail' are the pages whose    *)
(* is_huge and is_available flags are 1.  An entry beyond the last frame   *)
(* is zero (boot_alloc'ed and cleared), so it is never available.          *)
(* Operators Name_Slip are deviations a bug could make of Name: no         *)
(* specification uses them, they show that the properties can fail.        *)
(***************************************************************************)
EXTENDS Integers

CONSTANTS NPages,       \* npages
          HugeSize,     \* SMALL_PAGES_IN_HUGE, 512 in the code
          Reserved,     \* frames page_init leaves out of the free list
          NULL          \* the null pointer

Pages == 0..(NPages - 1)

ASSUME PageListAssumption ==
    /\ NPages \in Nat
    /\ HugeSize \in Nat /\ HugeSize > 1
    /\ Reserved \subseteq Pages
    /\ NULL \notin Pages

Ptr == Pages \cup {NULL}
FreeList == [head : Ptr, link : [Pages -> Ptr], prev : [Pages -> Ptr],
             huge : SUBSET Pages, avail : SUBSET Pages, panic : BOOLEAN]

-----------------------------------------------------------------------------
(* Blocks of small pages that can form a huge page. *)

HugeStarts == {h \in Pages : h % HugeSize = 0 /\ h + HugeSize <= NPages}
Block(h) == h..(h + HugeSize - 1)
Inner_LastForgotten(h) == (h + 1)..(h + HugeSize - 2)
Inner(h) == (h + 1)..(h + HugeSize - 1)

\* The frames that the page_info record p stands for.
Unit(s, p) == IF p \in s.huge THEN Block(p) ELSE {p}

-----------------------------------------------------------------------------
(* The doubly linked list. *)

\* Take p out of the list.  p's neighbours, or the head, close the gap.
Unlink(s, p) ==
    LET pr == s.prev[p]
        nx == s.link[p]
    IN [s EXCEPT
          !.head  = IF pr = NULL THEN s.link[s.head] ELSE @,
          !.link  = [q \in Pages |-> IF q = p THEN NULL
                                     ELSE IF q = pr THEN nx ELSE s.link[q]],
          !.prev  = [q \in Pages |-> IF q = p THEN NULL
                                     ELSE IF q = nx THEN pr ELSE s.prev[q]],
          !.avail = @ \ {p}]

\* Put p in front of the list and mark it available.
Push(s, p) ==
    [s EXCEPT
       !.head  = p,
       !.link  = [@ EXCEPT ![p] = s.head],
       !.prev  = [q \in Pages |-> IF q = p THEN NULL
                                  ELSE IF q = s.head THEN p ELSE s.prev[q]],
       !.avail = @ \cup {p}]

\* The records a walk along pp_link visits when it stops at a page of `stop':
\* the least set that holds the head and is closed under pp_link outside stop.
\* A list holds available pages only; a walk that left them would be in no set
\* of Closed, and Scan would be all of Pages, which FreeListOK rules out.
Closed(s, stop) ==
    {S \in SUBSET s.avail :
       /\ s.head \in S
       /\ \A q \in S \ stop : s.link[q] # NULL => s.link[q] \in S}
Scan(s, stop) == {p \in Pages : \A S \in Closed(s, stop) : p \in S}

FirstOfKind_HeadOnly(s, wantHuge) ==
    IF s.head # NULL /\ (s.head \in s.huge <=> wantHuge) THEN {s.head} ELSE {}
\* The first page of the wanted kind on the list, as a set of at most one page.
FirstOfKind(s, wantHuge) ==
    LET match == IF wantHuge THEN s.huge ELSE Pages \ s.huge
    IN IF s.head = NULL THEN {} ELSE Scan(s, match) \cap match

-----------------------------------------------------------------------------
(* Splitting and merging huge pages, as one step each: lists of consecutive *)
(* pages in closed form (PageAllocLoops compares them with the C loops).    *)

\* The head h is a huge page: it becomes small and leaves the list, and its
\* inner pages are pushed one by one, so that the last one becomes the head.
Split(s, h) ==
    LET nx == s.link[h]
        last == h + HugeSize - 1
    IN [s EXCEPT
          !.head  = last,
          !.link  = [q \in Pages |-> IF q = h THEN NULL
                                     ELSE IF q = h + 1 THEN nx
                                     ELSE IF q \in Inner(h) THEN q - 1
                                     ELSE s.link[q]],
          !.prev  = [q \in Pages |-> IF q = h \/ q = last THEN NULL
                                     ELSE IF q \in Inner(h) THEN q + 1
                                     ELSE IF q = nx THEN h + 1
                                     ELSE s.prev[q]],
          !.huge  = @ \ Block(h),
          !.avail = (@ \ {h}) \cup Inner(h)]

CanMerge_FirstUnchecked(s, h) ==
    /\ h \in HugeStarts
    /\ Inner(h) \subseteq s.avail
    /\ \A q \in Inner(h + 1) \cap Block(h) : s.prev[q] = q - 1

\* merge_after_free merges only if the pages of the block are available and
\* follow one another on the list in ascending order.
CanMerge(s, h) ==
    /\ h \in HugeStarts
    /\ Block(h) \subseteq s.avail
    /\ \A q \in Inner(h) : s.prev[q] = q - 1

\* Unlink the inner pages; the first page stays where it is and becomes huge.
Merge(s, h) ==
    LET nx == s.link[h + HugeSize - 1]
    IN [s EXCEPT
          !.link  = [q \in Pages |-> IF q = h THEN nx
                                     ELSE IF q \in Inner(h) THEN NULL
                                     ELSE s.link[q]],
          !.prev  = [q \in Pages |-> IF q \in Inner(h) THEN NULL
                                     ELSE IF q = nx THEN h
                                     ELSE s.prev[q]],
          !.huge  = @ \cup {h},
          !.avail = @ \ Inner(h)]

merge_after_free(s, target) ==
    LET huge_start == target - (target % HugeSize)
    IN IF CanMerge(s, huge_start) THEN Merge(s, huge_start) ELSE s

-----------------------------------------------------------------------------
(* The allocator's functions. *)

\* The page page_alloc returns (NULL if there is none) and the list it leaves.
page_alloc(s, wantHuge) ==
    LET found == FirstOfKind(s, wantHuge)
    IN IF found # {}
       THEN LET p == CHOOSE q \in found : TRUE
            IN [page |-> p, fl |-> Unlink(s, p)]
       ELSE IF wantHuge \/ s.head = NULL
            THEN [page |-> NULL, fl |-> s]
            ELSE [page |-> s.head, fl |-> Split(s, s.head)]

\* `ref' is the value of pp->pp_ref at the call.
page_free(s, ref, p) ==
    IF s.link[p] # NULL \/ ref # 0 \/ p \in s.avail
    THEN [s EXCEPT !.panic = TRUE]
    ELSE IF p \in s.huge THEN Push(s, p) ELSE merge_after_free(Push(s, p), p)

-----------------------------------------------------------------------------
(* page_init walks the memory map upwards and pushes every usable page, so  *)
(* the list starts in descending order; initial_merge then makes a huge     *)
(* page of every aligned block that is free.                                *)

InitialHuge == {h \in HugeStarts : Block(h) \cap Reserved = {}}
InitialHeads == {p \in Pages \ Reserved : \A h \in InitialHuge : p \notin Inner(h)}

Greatest(S) == CHOOSE x \in S : \A y \in S : y <= x
Least(S) == CHOOSE x \in S : \A y \in S : x <= y
Below(p) == {q \in InitialHeads : q < p}
Above(p) == {q \in InitialHeads : q > p}

page_init ==
    [head  |-> IF InitialHeads = {} THEN NULL ELSE Greatest(InitialHeads),
     link  |-> [p \in Pages |-> IF p \in InitialHeads /\ Below(p) # {}
                                THEN Greatest(Below(p)) ELSE NULL],
     prev  |-> [p \in Pages |-> IF p \in InitialHeads /\ Above(p) # {}
                                THEN Least(Above(p)) ELSE NULL],
     huge  |-> InitialHuge,
     avail |-> InitialHeads,
     panic |-> FALSE]

-----------------------------------------------------------------------------
(* Correctness of a list. *)

\* The pointers of a list agree with one another and with the flags.
LinksOK(s) ==
    /\ (s.head = NULL) <=> (s.avail = {})
    /\ s.head # NULL => s.head \in s.avail /\ s.prev[s.head] = NULL
    /\ \A p \in s.avail :
         /\ s.prev[p] = NULL => p = s.head
         /\ s.prev[p] # NULL => s.prev[p] \in s.avail /\ s.link[s.prev[p]] = p
         /\ s.link[p] # NULL => s.link[p] \in s.avail /\ s.prev[s.link[p]] = p
    /\ \A p \in Pages \ s.avail : s.link[p] = NULL /\ s.prev[p] = NULL

\* The list that starts at the head is well linked and holds exactly the pages
\* that are marked available.
ListSound(s) == /\ LinksOK(s)
                /\ s.head # NULL => Scan(s, {}) = s.avail

\* Every usable frame belongs to exactly one record that is on the list or in L,
\* the pages that are lent out, and a page with a count is in L.
Partitioned(s, ref, L) ==
    /\ \A p \in Pages : ref[p] > 0 => p \in L
    /\ L \cap s.avail = {}
    /\ s.huge \subseteq HugeStarts
    /\ \A p, q \in s.avail \cup L : p # q => Unit(s, p) \cap Unit(s, q) = {}
    /\ UNION {Unit(s, p) : p \in s.avail \cup L} = Pages \ Reserved
=============================================================================
