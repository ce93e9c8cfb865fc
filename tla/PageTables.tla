----------------------------- MODULE PageTables -----------------------------
(***************************************************************************)
(* One tree of page tables and the functions that change it: page_walk,    *)
(* page_insert, page_lookup, page_remove, tlb_invalidate (src/kern/pmap.c). *)
(* Tables are pages of the allocator, whose functions are those of module  *)
(* PageList.                                                               *)
(*                                                                         *)
(* An address is the sequence of its Depth table indexes; the code has     *)
(* four levels, the upper ones of which all go through entry_in_table.     *)
(* An entry one level above the last can map a huge page.                  *)
(*                                                                         *)
(* `tlb' holds every translation the processor may have cached: all that   *)
(* were ever written and not flushed since.                                *)
(*                                                                         *)
(* Operators Name_Slip are deviations a bug could make of Name.            *)
(***************************************************************************)
EXTENDS PageList, Sequences, FiniteSets

CONSTANTS Depth,        \* levels of page tables, 4 in the code
          Vas,          \* the addresses that are used
          MaxRef        \* bound on the mappings of one page; pp_ref has 16 bits

Uint16 == 2^16                  \* pp_ref is a uint16_t
Index == 0..(HugeSize - 1)      \* PAGE_TABLE_ENTRIES = SMALL_PAGES_IN_HUGE

ASSUME PageTablesAssumption ==
    /\ Depth \in Nat /\ Depth > 1
    /\ Vas \subseteq [1..Depth -> Index]
    /\ MaxRef \in 1..(Uint16 - 1)

VARIABLE mem    \* fl, ref, lent: the allocator; tab: what the tables
                \* hold; root: env_pml4; tlb: see above

Empty == [page |-> NULL, huge |-> FALSE]
Present(e) == e.page # NULL
NoEntries == [i \in Index |-> Empty]

-----------------------------------------------------------------------------
(* The environment's root table, env_pml4: the first page env_setup_vm gets. *)

Init ==
    LET r == page_alloc(page_init, FALSE)
    IN /\ r.page # NULL
       /\ mem = [fl   |-> r.fl,
                 ref  |-> [p \in Pages |-> IF p = r.page THEN 1 ELSE 0],
                 lent |-> {r.page},
                 tab  |-> [p \in Pages |-> NoEntries],
                 root |-> r.page,
                 tlb  |-> {}]

-----------------------------------------------------------------------------
(* Walking.  A place is an index of a table, in the memory the walk left.   *)

SetEntry(m, t, i, e) == [m EXCEPT !.tab[t][i] = e]

AddTable_StaysFree(w, i, new) ==
    LET t == new.page
    IN IF t = NULL THEN [w EXCEPT !.table = NULL]
       ELSE [m |-> [w.m EXCEPT !.lent = @ \cup {t}, !.ref[t] = @ + 1, !.tab[t] = NoEntries,
                               !.tab[w.table][i] = [page |-> t, huge |-> FALSE]],
             table |-> t]
\* Go down to a new table, which takes the page that page_alloc found.
AddTable(w, i, new) ==
    LET t == new.page
    IN IF t = NULL THEN [w EXCEPT !.table = NULL]
       ELSE [m |-> [w.m EXCEPT !.fl = new.fl,
                               !.lent = @ \cup {t},
                               !.ref[t] = @ + 1,
                               !.tab[t] = NoEntries,
                               !.tab[w.table][i] = [page |-> t, huge |-> FALSE]],
             table |-> t]

\* Go down from table w.table through entry i, to table NULL if that fails.
entry_in_table(w, i, create) ==
    LET e == w.m.tab[w.table][i]
    IN IF Present(e) THEN [w EXCEPT !.table = e.page]
       ELSE IF create THEN AddTable(w, i, page_alloc(w.m.fl, FALSE))
       ELSE [w EXCEPT !.table = NULL]

DescendFrom(w, i, create) == IF w.table = NULL THEN w ELSE entry_in_table(w, i, create)
Descend(w, va, create) ==
    LET down[n \in 0..(Depth - 2)] ==
          IF n = 0 THEN w ELSE DescendFrom(down[n - 1], va[n], create)
    IN down[Depth - 2]

\* mode is "lookup" (create = 0), "normal" (CREATE_NORMAL) or "huge" (CREATE_HUGE).
\* The walk ends in the directory pd or in a page table.
At(w, i) == [m |-> w.m, table |-> w.table, index |-> i]
LastStep(pd, va, mode) ==
    LET i == va[Depth - 1]
    IN IF \/ pd.table = NULL
          \/ mode = "huge"
          \/ mode = "lookup" /\ pd.m.tab[pd.table][i].huge
       THEN At(pd, i)
       ELSE At(entry_in_table(pd, i, mode # "lookup"), va[Depth])

\* A lookup fails if the entry it finds is not present.
Result(place, mode) ==
    IF /\ mode = "lookup" /\ place.table # NULL
       /\ ~Present(place.m.tab[place.table][place.index])
    THEN [place EXCEPT !.table = NULL]
    ELSE place

page_walk(m, va, mode) ==
    Result(LastStep(Descend([m |-> m, table |-> m.root], va, mode # "lookup"), va, mode), mode)

\* The entry that maps va, Empty if there is none.
EntryAt(w) == IF w.table = NULL THEN Empty ELSE w.m.tab[w.table][w.index]
page_lookup(m, va) == EntryAt(page_walk(m, va, "lookup"))

-----------------------------------------------------------------------------
(* Changing. *)

\* Frames taken at boot have count 0, which wraps.
page_decref(m, p) ==
    LET ref == (m.ref[p] - 1) % Uint16
    IN IF ref = 0
       THEN [m EXCEPT !.ref[p] = 0,
                      !.fl = page_free(m.fl, 0, p),
                      !.lent = @ \ {p}]
       ELSE [m EXCEPT !.ref[p] = ref]

\* What is cached for `at', the indexes that lead to an entry, holds for va.
Covers(at, va) == at = SubSeq(va, 1, Len(at))

\* The processor drops what it has cached for va, a huge page included.
tlb_invalidate_LastLevelOnly(m, va) ==
    [m EXCEPT !.tlb = {c \in @ : c.at # va}]
tlb_invalidate(m, va) ==
    [m EXCEPT !.tlb = {c \in @ : ~Covers(c.at, va)}]

RemoveEntry_EntryStays(w, va) ==
    IF w.table = NULL THEN w.m
    ELSE tlb_invalidate(page_decref(w.m, EntryAt(w).page), va)
RemoveEntry(w, va) ==
    IF w.table = NULL THEN w.m
    ELSE tlb_invalidate(SetEntry(page_decref(w.m, EntryAt(w).page), w.table, w.index, Empty), va)
page_remove(m, va) == RemoveEntry(page_walk(m, va, "lookup"), va)

\* A page that page_remove has just freed is taken off the list again.
TakeBack(m, pp) ==
    IF m.ref[pp] = 0 /\ pp \in m.fl.avail
    THEN [m EXCEPT !.fl = Unlink(@, pp), !.lent = @ \cup {pp}]
    ELSE m

\* The processor may cache the new entry e for va.
Map(m, w, e, va) ==
    LET at == IF e.huge THEN SubSeq(va, 1, Depth - 1) ELSE va
    IN SetEntry([m EXCEPT !.ref[e.page] = @ + 1, !.tlb = @ \cup {[at |-> at, page |-> e.page]}],
                w.table, w.index, e)

InsertEntry_NothingRemoved(w, e, va) ==
    IF w.table = NULL THEN w.m ELSE Map(tlb_invalidate(w.m, va), w, e, va)
\* Enter e at the place the walk ended in.
InsertEntry(w, e, va) ==
    IF w.table = NULL THEN w.m
    ELSE Map(TakeBack(IF Present(EntryAt(w)) THEN page_remove(w.m, va) ELSE w.m, e.page),
             w, e, va)

\* The memory after the call, also when it returns -E_NO_MEM.
page_insert(m, pp, va) ==
    LET huge == pp \in m.fl.huge
    IN InsertEntry(page_walk(m, va, IF huge THEN "huge" ELSE "normal"),
                [page |-> pp, huge |-> huge], va)

-----------------------------------------------------------------------------
(* The calls the kernel and its self-checks make.                           *)

\* The tables of the tree, level by level; the other pages in use hold data.
Tables(m) ==
    LET level[n \in 1..Depth] ==
          IF n = 1 THEN {m.root}
          ELSE {m.tab[x[1]][x[2]].page :
                  x \in {y \in level[n - 1] \X Index : ~m.tab[y[1]][y[2]].huge}} \ {NULL}
    IN UNION {level[n] : n \in 1..Depth}
Data(m) == m.lent \ Tables(m)

\* page_walk does not look at PAGE_HUGE when it creates: callers keep small pages
\* out of a mapped huge page, and huge pages out of a slot that has a page table.
KindFits(m, p, va) ==
    LET e == EntryAt(At(Descend([m |-> m, table |-> m.root], va, FALSE), va[Depth - 1]))
    IN Present(e) => (e.huge <=> p \in m.fl.huge)

AllocatePage(huge) ==
    LET r == page_alloc(mem.fl, huge)
    IN /\ r.page # NULL
       /\ mem' = [mem EXCEPT !.fl = r.fl, !.lent = @ \cup {r.page}]

FreePage(p) ==
    /\ mem.ref[p] = 0
    /\ mem' = [mem EXCEPT !.fl = page_free(@, 0, p), !.lent = @ \ {p}]

\* Callers do not insert a page again where it has its only mapping:
\* page_insert would free it first, and page_free might merge it.
InsertPage(p, va) ==
    /\ KindFits(mem, p, va)
    /\ mem.ref[p] < MaxRef
    /\ mem.ref[p] # 1 \/ page_lookup(mem, va).page # p
    /\ mem' = page_insert(mem, p, va)

RemovePage(va) == mem' = page_remove(mem, va)

Next == /\ ~mem.fl.panic
        /\ \/ \E huge \in BOOLEAN : AllocatePage(huge)
           \/ \E p \in Data(mem) : FreePage(p) \/ \E va \in Vas : InsertPage(p, va)
           \/ \E va \in Vas : RemovePage(va)

Spec == Init /\ [][Next]_mem

-----------------------------------------------------------------------------
(* Correctness. *)

\* What the processor finds at va, walking the tables by itself.
Follow(m, t, i) == IF t = NULL THEN NULL ELSE m.tab[t][i].page
Translation(m, va) ==
    LET table[n \in 1..Depth] ==
          IF n = 1 THEN m.root ELSE Follow(m, table[n - 1], va[n - 1])
        pd == table[Depth - 1]
    IN IF pd # NULL /\ m.tab[pd][va[Depth - 1]].huge THEN table[Depth]
       ELSE Follow(m, table[Depth], va[Depth])

EntryOf(x) == mem.tab[x[1]][x[2]]
Entries == {x \in Tables(mem) \X Index : Present(EntryOf(x))}

\* The memory has its type, and so have the tables.
TypeOK ==
    /\ mem.fl \in FreeList
    /\ mem.ref \in [Pages -> 0..MaxRef]
    /\ mem.lent \subseteq Pages
    /\ \A p \in Pages, i \in Index :
         mem.tab[p][i].page \in Pages \cup {NULL} /\ mem.tab[p][i].huge \in BOOLEAN
    /\ \A c \in mem.tlb : c.page \in Pages

\* A page's reference count is the number of entries of the tree that point to
\* it (one for the root): no insertion, replacement or removal, and no walk that
\* ran out of memory half way, leaves a count too high or too low.  Frames that
\* boot_alloc took have no valid count (inc/paging.h).
RefsExact ==
    LET entries == Entries
    IN \A p \in Pages \ Reserved :
         mem.ref[p] = Cardinality({x \in entries : EntryOf(x).page = p})
                      + (IF p = mem.root THEN 1 ELSE 0)

\* The allocator stays sound under what the page table code does to it, and
\* every page an entry points to is in use, with the size the entry gives it.
AllocatorOK ==
    /\ ListSound(mem.fl) /\ Partitioned(mem.fl, mem.ref, mem.lent) /\ ~mem.fl.panic
    /\ \A x \in Entries : EntryOf(x).page \in mem.lent
                          /\ (EntryOf(x).huge <=> EntryOf(x).page \in mem.fl.huge)

\* The tables form a tree of small pages: none is entered twice, none is mapped
\* as data, none is given back while it is in use.
TablesOwned ==
    LET entries == Entries
    IN \A t \in Tables(mem) :
         /\ t \in mem.lent \ mem.fl.huge
         /\ Cardinality({x \in entries : EntryOf(x).page = t}) = IF t = mem.root THEN 0 ELSE 1

\* The processor can only have cached what the tables say: a translation is
\* flushed whenever the entry it came from is cleared or replaced.
TlbCoherent ==
    \A c \in mem.tlb, va \in Vas :
       Covers(c.at, va) => Translation(mem, va) = c.page

\* The tables implement a map from addresses to pages.
HugeSpan(va) == {v \in Vas : Covers(SubSeq(va, 1, Depth - 1), v)}
Space == INSTANCE AddressSpace WITH
            Addresses <- Vas,
            Spans <- {{va} : va \in Vas} \cup {HugeSpan(va) : va \in Vas},
            NoPage <- NULL,
            map <- [va \in Vas |-> Translation(mem, va)],
            held <- Data(mem)
ImplementsAddressSpace == Space!Spec
=============================================================================
