--------------------------- MODULE PageAllocLoops ---------------------------
(***************************************************************************)
(* PageAlloc states what splitting, merging and the boot-time set-up do to *)
(* the free list in closed form, which is what its proofs use.  This       *)
(* module writes the same pieces of code as the loops they are in C, one   *)
(* list operation per iteration; that both compute the same on every list  *)
(* the allocator reaches is checked, and proved in PageAllocProofs.        *)
(***************************************************************************)
EXTENDS PageAlloc

\* One iteration of the loop of page_alloc that prepends page[i].
Prepend(s, q) ==
    [s EXCEPT !.head = q,
              !.link = [@ EXCEPT ![q] = s.head],
              !.prev = IF s.head = NULL THEN @ ELSE [@ EXCEPT ![s.head] = q],
              !.huge = @ \ {q},
              !.avail = @ \cup {q}]

SplitLoop(s, h) ==
    LET off == [Unlink(s, h) EXCEPT !.huge = @ \ {h}]
        list[i \in 0..(HugeSize - 1)] == IF i = 0 THEN off ELSE Prepend(list[i - 1], h + i)
        all == list[HugeSize - 1]
    IN [all EXCEPT !.prev[all.head] = NULL]

\* The inner pages of block h are removed page by page, and h becomes huge.
MergeBlock(s, h) ==
    LET list[i \in 0..(HugeSize - 1)] == IF i = 0 THEN s ELSE Unlink(list[i - 1], h + i)
    IN [list[HugeSize - 1] EXCEPT !.huge = @ \cup {h}]

\* merge_after_free: the check and the removals.
MergeLoop(s, target) ==
    LET h == target - (target % HugeSize)
        ok == \A i \in 0..(HugeSize - 1) :
                /\ h + i \in s.avail
                /\ i > 0 => s.prev[h + i] = h + i - 1
    IN IF ok THEN MergeBlock(s, h) ELSE s

\* delete_from_free's search: cur after n rounds, which stops at a page of the wanted
\* kind and at the end of the list.
FindLoop(s, wantHuge) ==
    LET Step(q) == IF q = NULL \/ (q \in s.huge <=> wantHuge) THEN q ELSE s.link[q]
        cur[n \in 0..NPages] == IF n = 0 THEN s.head ELSE Step(cur[n - 1])
    IN cur[NPages]

AllocLoop(s, wantHuge) ==
    LET found == FindLoop(s, wantHuge)
    IN IF found # NULL THEN [page |-> found, fl |-> Unlink(s, found)]
       ELSE IF wantHuge \/ s.head = NULL THEN [page |-> NULL, fl |-> s]
       ELSE [page |-> s.head, fl |-> SplitLoop(s, s.head)]

\* page_init: one pass that pushes, then initial_merge's pass over the blocks.
InitLoop ==
    LET empty == [head |-> NULL, link |-> [p \in Pages |-> NULL],
                  prev |-> [p \in Pages |-> NULL], huge |-> {}, avail |-> {},
                  panic |-> FALSE]
        pushed[n \in 0..NPages] ==
          IF n = 0 THEN empty
          ELSE IF n - 1 \in Reserved THEN pushed[n - 1] ELSE Push(pushed[n - 1], n - 1)
        \* n pages have been visited: a block may end here
        Visited(t, n) == IF n % HugeSize = 0 /\ Block(n - HugeSize) \subseteq t.avail
                         THEN MergeBlock(t, n - HugeSize) ELSE t
        merged[n \in 0..NPages] ==
          IF n = 0 THEN pushed[NPages] ELSE Visited(merged[n - 1], n)
    IN merged[NPages]

\* On every list the allocator reaches, one step of PageAlloc is what the loop
\* in C computes: the search of the list, the split of a huge head, the merge
\* around a page just pushed, and the list page_init builds.
StepsAreTheLoops ==
    /\ page_init = InitLoop
    /\ \A wantHuge \in BOOLEAN : page_alloc(fl, wantHuge) = AllocLoop(fl, wantHuge)
    /\ fl.head \in fl.huge => Split(fl, fl.head) = SplitLoop(fl, fl.head)
    /\ \A p \in lent \ fl.huge :
         merge_after_free(Push(fl, p), p) = MergeLoop(Push(fl, p), p)
=============================================================================
