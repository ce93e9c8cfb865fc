------------------------------ MODULE VmaUnmap ------------------------------
(***************************************************************************)
(* vma_unmap (src/kern/vma.c), the function by which sys_vma_destroy takes *)
(* a range of pages out of the page tables and frees tables that became    *)
(* empty.  Its nested loops run one iteration per step, with the C         *)
(* variables they share: the scan of a table counts with the same i as the *)
(* loop over the levels.  Between two calls, pages are mapped as           *)
(* vma_map_populate and the page fault handler map them.                   *)
(*                                                                         *)
(* Environments map small pages only.  The tlb_invalidate at the end of an *)
(* iteration is given the address of the table entry, a kernel address, so *)
(* that it has no effect on what is cached for the environment.            *)
(***************************************************************************)
EXTENDS PageTables

CONSTANT Ranges     \* the ranges to map and unmap, as sequences of addresses

ASSUME VmaUnmapAssumption ==
    /\ Depth = 4 /\ HugeSize > 2
    /\ \A r \in Ranges : r # <<>> /\ \A k \in DOMAIN r : r[k] \in Vas

VARIABLE call   \* the call of vma_unmap in progress: k counts the addresses vi

Idle_NothingEmpty ==
    [busy |-> FALSE, range |-> <<>>, i |-> 0, k |-> 0, pt |-> NULL, is_empty |-> FALSE]
Idle == [busy |-> FALSE, range |-> <<>>, i |-> 0, k |-> 0, pt |-> NULL, is_empty |-> TRUE]

UnmapInit == Init /\ call = Idle

Levels == 3     \* page tables, page directories, page directory pointer tables

\* The first loop: the pages themselves.
vma_unmap_LastStays(range) ==
    LET removed[n \in 0..Len(range)] ==
          IF n = 0 THEN mem ELSE page_remove(removed[n - 1], range[n])
    IN /\ mem' = removed[Len(range) - 1]
       /\ call' = [Idle EXCEPT !.busy = TRUE, !.range = range, !.k = 1]
vma_unmap(range) ==
    LET removed[n \in 0..Len(range)] ==
          IF n = 0 THEN mem ELSE page_remove(removed[n - 1], range[n])
    IN /\ mem' = removed[Len(range)]
       /\ call' = [Idle EXCEPT !.busy = TRUE, !.range = range, !.k = 1]

\* The entries that lead to the first address of the range, from the top.
va == call.range[1]
Pml4Entry == mem.tab[mem.root][va[1]]
PdpEntry == mem.tab[Pml4Entry.page][va[2]]
PdEntry == mem.tab[PdpEntry.page][va[3]]

\* What `entry' and `pt' point to after the first half of an iteration.
entry == IF call.i = 0 THEN <<PdpEntry.page, va[3]>>
         ELSE IF call.i = 1 THEN <<Pml4Entry.page, va[2]>>
         ELSE <<mem.root, va[1]>>
pt == CASE call.i = 0 -> PdEntry.page
        [] call.i = 1 -> PdpEntry.page
        [] call.i = 2 -> Pml4Entry.page
        [] OTHER -> call.pt

\* The entry to check is reached through entries that are present.
Reached ==
    /\ Present(Pml4Entry)
    /\ call.i \in {0, 1} => Present(PdpEntry)
    /\ call.i = 0 => Present(PdEntry)

InRange == call.busy /\ call.k <= Len(call.range)

\* `continue': go on with the next address.
Skip == /\ InRange /\ ~Reached
        /\ call' = [call EXCEPT !.k = @ + 1]
        /\ UNCHANGED mem

CheckTable_EmptyForgotten ==
    LET used == {j \in Index : Present(mem.tab[pt][j])}
        p == EntryOf(entry).page
    IN /\ InRange /\ Reached
       /\ call' = [call EXCEPT !.k = @ + 1, !.pt = pt,
                     !.i = IF used = {} THEN HugeSize ELSE CHOOSE j \in used : \A l \in used : j <= l]
       /\ mem' = SetEntry(page_decref(mem, p), entry[1], entry[2], Empty)

\* Scan the table.  The entry that leads to it is cleared if no table scanned
\* since the call began held anything.
CheckTable ==
    LET used == {j \in Index : Present(mem.tab[pt][j])}
        empty == call.is_empty /\ used = {}
        p == EntryOf(entry).page
    IN /\ InRange /\ Reached
       /\ call' = [call EXCEPT
                     !.k = @ + 1, !.pt = pt, !.is_empty = empty,
                     !.i = IF used = {} THEN HugeSize
                           ELSE CHOOSE j \in used : \A l \in used : j <= l]
       /\ mem' = IF empty THEN SetEntry(page_decref(mem, p), entry[1], entry[2], Empty)
                 ELSE mem

\* The end of one pass over the range: i++, and once more if i < 3.
NextLevel ==
    /\ call.busy /\ call.k > Len(call.range)
    /\ call' = IF call.i + 1 < Levels THEN [call EXCEPT !.i = @ + 1, !.k = 1] ELSE Idle
    /\ UNCHANGED mem

Unmapping == Skip \/ CheckTable \/ NextLevel

-----------------------------------------------------------------------------
(* Mapping, before and after the call. *)

\* Map a new page at address a, or panic.
MapNew(m, a) ==
    LET new == page_alloc(m.fl, FALSE)
        p == new.page
        inserted == page_insert([m EXCEPT !.fl = new.fl, !.lent = @ \cup {p}], p, a)
    IN IF m.fl.panic \/ p = NULL THEN [m EXCEPT !.fl.panic = TRUE]
       ELSE [inserted EXCEPT !.fl.panic = page_lookup(inserted, a).page # p]

\* A populated area, or for one page what page_fault_load_page does.
vma_map_populate(range) ==
    LET mapped[n \in 0..Len(range)] ==
          IF n = 0 THEN mem ELSE MapNew(mapped[n - 1], range[n])
    IN /\ mem' = mapped[Len(range)]
       /\ UNCHANGED call

-----------------------------------------------------------------------------
UnmapNext ==
    /\ ~mem.fl.panic
    /\ \/ Unmapping
       \/ /\ ~call.busy
          /\ \E range \in Ranges : vma_map_populate(range) \/ vma_unmap(range)

unmapVars == <<mem, call>>
UnmapSpec == UnmapInit /\ [][UnmapNext]_unmapVars
\* A call that has begun goes on: interrupts are disabled in the kernel.
FairUnmapSpec == UnmapSpec /\ WF_unmapVars(Unmapping)

-----------------------------------------------------------------------------
(* Correctness. *)

\* Unmapping a range changes what addresses of the range map to, and nothing
\* else: no table is cleared or freed while it leads to another page.
UnmapKeepsTheRest ==
    [][call.busy \/ call'.busy =>
         \A a \in Vas : (\A k \in DOMAIN call'.range : call'.range[k] # a)
                          => Translation(mem', a) = Translation(mem, a)]_unmapVars

\* Once the pages are removed, and while tables are freed, no address of the
\* range is mapped or cached.
RangeUnmapped ==
    \A k \in DOMAIN call.range :
       /\ Translation(mem, call.range[k]) = NULL
       /\ \A c \in mem.tlb : c.at # call.range[k]

\* When a call for one page returns, the page table the page was in is gone or
\* still holds something: it does not stay behind empty.  Directories may (vma.c:231
\* means to remove them too): the scan of the page table has changed i.
EmptyTableFreed ==
    [][call.busy /\ ~call'.busy /\ Len(call.range) = 1
         /\ Present(Pml4Entry) /\ Present(PdpEntry) /\ Present(PdEntry)
       => mem.tab[PdEntry.page] # NoEntries]_unmapVars

\* vma_unmap returns.
UnmapReturns == call.busy ~> ~call.busy
=============================================================================
