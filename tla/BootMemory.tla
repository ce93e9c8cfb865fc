----------------------------- MODULE BootMemory -----------------------------
(***************************************************************************)
(* mem_init (src/kern/pmap.c): from the boot loader's memory map to a free *)
(* list and a kernel page table.  boot_alloc takes the kernel's own tables *)
(* behind its image, page_init and initial_merge (src/kern/lab1.c) build   *)
(* the free list, the self-checks try it out, boot_map_region maps the     *)
(* kernel, and load_pml4 leaves the mapping that boot.S made of the first  *)
(* LowLimit pages only.  The loops run one page per step.                  *)
(*                                                                         *)
(* A virtual page is <<region, number>>.  The tables above the last level  *)
(* are left out (page_walk is in module PageTables).  initial_merge skips  *)
(* entries below 512 bytes, shorter than every region used here.  What     *)
(* the other checks behind load_pml4 do is left out: they only read the    *)
(* tables, or give back what they take.                                    *)
(***************************************************************************)
EXTENDS Integers, Sequences, FiniteSets

LOCAL INSTANCE SequencesExt

CONSTANTS NPages,       \* a bound on npages
          HugeSize,     \* SMALL_PAGES_IN_HUGE = PAGE_TABLE_ENTRIES
          NULL,
          PageSize,     \* PAGE_SIZE
          Maps,         \* memory maps: sequences of [addr, len, free] records
          MpEntry, ElfHdr, IoHole, KernelLma, KernelEnd,    \* page numbers
          LowLimit,     \* the pages below it are mapped by boot.S
          InfoSize, EnvSize, VmaListSize,   \* bytes: one page_info, envs, one list
          NEnv,
          StackSize,    \* pages of the kernel stack, and of the gap below it
          AllPages      \* pages of the final mapping of 4 GiB

Pages == 0..(NPages - 1)

ASSUME BootMemoryAssumption ==
    /\ PageSize \in Nat \ {0} /\ StackSize \in Nat \ {0} /\ NEnv \in Nat
    /\ {MpEntry, ElfHdr, IoHole, KernelLma, KernelEnd, LowLimit} \subseteq Pages
    /\ KernelLma < KernelEnd /\ NPages <= AllPages
    /\ \A m \in Maps : \A i \in 1..Len(m) : m[i].addr + m[i].len <= NPages * PageSize

VARIABLES mmap,     \* the memory map
          pc,       \* the part of mem_init that runs; "panic" and "fault" end it
          k,        \* iterations its loop has done
          merge,    \* initial_merge's start, start_huge and prev
          chunks,   \* what boot_alloc handed out: [at, pages] records by name
          fl, lent, \* the page allocator, as in PageAlloc
          pt,       \* the frame of the table for a block of virtual pages
          vmap,     \* the frame a virtual page is mapped to
          pp, saved,\* the self-checks' pages by name; the list they "steal" and
                    \* the length the list had before
          written   \* frames the kernel has written to through its mapping

probe == <<pp, saved>>
bootVars == <<mmap, pc, k, merge, chunks, fl, lent, pt, vmap, probe, written>>

Regions == {"USER_PAGES", "USER_ENVS", "USER_VMAS", "KSTACK", "KERNEL_VMA"}
Vpages == Regions \X (0..(AllPages - 1))
Block(va) == <<va[1], va[2] \div HugeSize>>
TableFrames == {pt[b] : b \in {Block(va) : va \in Vpages}} \ {NULL}

Alloc == INSTANCE PageAllocLoops
           WITH Reserved <- {}, MaxRef <- 1,
                pp_ref <- [p \in Pages |-> IF p \in TableFrames THEN 1 ELSE 0]

Names == {"pp0", "pp1", "pp2", "php0", "php1", "p0", "p1", "p2", "p3", "p4"}

EmptyList == [head |-> NULL, link |-> [p \in Pages |-> NULL], prev |-> [p \in Pages |-> NULL],
              huge |-> {}, avail |-> {}, panic |-> FALSE]

Init ==
    /\ mmap \in Maps
    /\ pc = "boot_alloc" /\ k = 0
    /\ merge = [start |-> FALSE, start_huge |-> 0, prev |-> 0]
    /\ chunks = <<>>
    /\ fl = EmptyList /\ lent = {}
    /\ pt = [b \in {Block(va) : va \in Vpages} |-> NULL]
    /\ vmap = [va \in Vpages |-> NULL]
    /\ pp = [name \in Names |-> NULL] /\ saved = [head |-> NULL, length |-> 0]
    /\ written = {}

Goto(label) == pc' = label /\ k' = 0

-----------------------------------------------------------------------------
(* The memory map, in the order of its entries. *)

FreeEntries == SelectSeq(mmap, LAMBDA e : e.free)
highest_addr == Last(FreeEntries).addr + Last(FreeEntries).len
npages == highest_addr \div PageSize

\* The addresses that a loop over the pages of the free entries goes through.
PagesOf(e) == [n \in 1..((e.len + PageSize - 1) \div PageSize) |->
                  [pa |-> e.addr + (n - 1) * PageSize, first |-> n = 1]]
Visits == FlattenSeq([i \in 1..Len(FreeEntries) |-> PagesOf(FreeEntries[i])])
Frame(pa) == pa \div PageSize
pa2pageOK(pa) == Frame(pa) < npages

-----------------------------------------------------------------------------
(* boot_alloc: whole pages behind the kernel's image. *)

RoundUp(n) == (n + PageSize - 1) \div PageSize
boot_alloc(got, n) == [at |-> got.at + got.pages, pages |-> RoundUp(n)]

BootAlloc ==
    /\ pc = "boot_alloc"
    /\ LET kernel == [at |-> KernelLma, pages |-> KernelEnd - KernelLma]
           pml4 == boot_alloc(kernel, PageSize)
           infos == boot_alloc(pml4, InfoSize * npages)
           envs == boot_alloc(infos, EnvSize)
           \* NENV calls, one behind the other
           vmas == [boot_alloc(envs, VmaListSize) EXCEPT !.pages = @ * NEnv]
       IN /\ chunks' = [kernel |-> kernel, kern_pml4 |-> pml4, pages |-> infos, envs |-> envs,
                        vmas |-> vmas]
          /\ written' = UNION {c.at..(c.at + c.pages - 1) : c \in {pml4, infos, envs}}
    /\ Goto("page_init")
    /\ UNCHANGED <<mmap, merge, fl, lent, pt, vmap, probe>>

\* boot_alloc(0): the first page behind everything that was handed out.
end == chunks.vmas.at + chunks.vmas.pages

-----------------------------------------------------------------------------
(* page_init and initial_merge. *)

InUse_ChunksForgotten(pa) ==
    \/ pa \in {0, MpEntry * PageSize, ElfHdr * PageSize}
    \/ pa >= KernelLma * PageSize /\ pa < KernelEnd * PageSize
\* The address is compared, not the page it lies in.
InUse(pa) ==
    \/ pa \in {0, MpEntry * PageSize, ElfHdr * PageSize}
    \/ pa >= KernelLma * PageSize /\ pa < end * PageSize

PageInit ==
    /\ pc = "page_init"
    /\ IF k = Len(Visits) THEN Goto("initial_merge") /\ UNCHANGED fl
       ELSE LET pa == Visits[k + 1].pa
            IN IF ~pa2pageOK(pa) THEN Goto("panic") /\ UNCHANGED fl
               ELSE /\ fl' = IF InUse(pa) THEN fl ELSE Alloc!Push(fl, Frame(pa))
                    /\ k' = k + 1 /\ UNCHANGED pc
    /\ UNCHANGED <<mmap, merge, chunks, lent, pt, vmap, probe, written>>

Track(v) ==
    LET m == IF v.first THEN [merge EXCEPT !.start_huge = 0, !.prev = 0] ELSE merge
        s == IF Frame(v.pa) % HugeSize = 0 /\ v.pa % PageSize = 0
             THEN [m EXCEPT !.start = TRUE, !.start_huge = v.pa] ELSE m
    IN [s EXCEPT !.start = /\ @ /\ Frame(v.pa) \in fl.avail
                           /\ s.start_huge = v.pa \/ v.pa = s.prev + PageSize]

InitialMerge ==
    /\ pc = "initial_merge"
    /\ IF k = Len(Visits) THEN Goto("check_page_free_list") /\ UNCHANGED <<fl, merge>>
       ELSE LET v == Visits[k + 1]
                m == Track(v)
            IN /\ fl' = IF m.start /\ v.pa = m.start_huge + (HugeSize - 1) * PageSize
                        THEN Alloc!MergeBlock(fl, Frame(m.start_huge)) ELSE fl
               /\ merge' = [m EXCEPT !.prev = v.pa]
               /\ k' = k + 1 /\ UNCHANGED pc
    /\ UNCHANGED <<mmap, chunks, lent, pt, vmap, probe, written>>

-----------------------------------------------------------------------------
(* The self-checks of the allocator.  A failed assertion is a panic. *)

\* The list as the sequence of pages that a walk along pp_link meets.
After(s, q) == IF q = NULL THEN NULL ELSE s.link[q]
ListOrder(s) ==
    LET at[n \in 1..Cardinality(s.avail)] == IF n = 1 THEN s.head ELSE After(s, at[n - 1])
    IN SelectSeq(at, LAMBDA q : q # NULL)

\* The list s with its pages in the given order.
Relink(s, order) ==
    LET Beside(p, d) == {i \in 1..Len(order) : i + d \in 1..Len(order) /\ order[i + d] = p}
        At(S) == IF S = {} THEN NULL ELSE order[CHOOSE i \in S : TRUE]
    IN [s EXCEPT !.head = IF order = <<>> THEN NULL ELSE order[1],
                 !.link = [p \in Pages |-> At(Beside(p, -1))],
                 !.prev = [p \in Pages |-> At(Beside(p, 1))]]

LowFirst_Swapped(s) ==
    LET order == ListOrder(s)
    IN Relink(s, SelectSeq(order, LAMBDA p : p >= LowLimit)
                 \o SelectSeq(order, LAMBDA p : p < LowLimit))
\* "Move pages with lower addresses first in the free list".
LowFirst(s) ==
    LET order == ListOrder(s)
    IN Relink(s, SelectSeq(order, LAMBDA p : p < LowLimit)
                 \o SelectSeq(order, LAMBDA p : p >= LowLimit))

ListAsserts(s) ==
    /\ \A p \in s.avail : p \notin {0, IoHole, KernelLma - 1, KernelLma}
                          /\ (p < KernelLma \/ p >= end)
    /\ \E p \in s.avail : p < KernelLma
    /\ \E p \in s.avail : p >= KernelLma

\* check_page_free_list(1) writes to the low pages that should be free.
CheckPageFreeList ==
    /\ pc = "check_page_free_list"
    /\ IF fl.head # NULL /\ ListAsserts(LowFirst(fl))
       THEN /\ fl' = LowFirst(fl)
            /\ written' = written \cup {p \in fl.avail : p < LowLimit}
            /\ saved' = [saved EXCEPT !.length = Cardinality(fl.avail)]
            /\ Goto("check_page_alloc")
       ELSE Goto("panic") /\ UNCHANGED <<fl, saved, written>>
    /\ UNCHANGED <<mmap, merge, chunks, lent, pt, vmap, pp>>

\* check_page_alloc and check_page try the allocator out: one call per step, its
\* results in named variables.  "steal" empties page_free_list but not the flags of
\* the pages on it, "restore" gives the list back, "none" asserts that page_alloc
\* finds nothing, "distinct" that the small pages differ, "apart" the huge ones,
\* "length" that the list is as long as before.
Op(op, arg) == [op |-> op, arg |-> arg]
Each(op, names) == [i \in 1..Len(names) |-> Op(op, names[i])]
Pp == <<"pp0", "pp1", "pp2">>
Php == <<"php0", "php1">>

check_page_alloc ==
    Each("alloc", Pp) \o <<Op("distinct", Pp), Op("steal", ""), Op("none", "")>>
    \o Each("free", Pp) \o Each("alloc", Pp) \o <<Op("distinct", Pp), Op("none", "")>>
    \o <<Op("free", "pp0"), Op("again", "pp0"), Op("restore", "")>>
    \o Each("free", Pp) \o <<Op("length", "")>>
    \o <<Op("alloc", "pp0"), Op("huge", "php0"), Op("alloc", "pp1")>>
    \o Each("free", <<"php0", "pp0", "pp1">>)
    \o Each("huge", Php) \o <<Op("apart", Php)>> \o Each("free", Php) \o <<Op("length", "")>>

\* page_insert and page_remove only move check_page's five pages to and from the
\* stolen list (they are checked in module PageTables).
Five == <<"p0", "p1", "p2", "p3", "p4">>
check_page ==
    Each("alloc", Five) \o <<Op("distinct", Five), Op("steal", ""), Op("none", ""),
                              Op("restore", "")>> \o Each("free", Five)

Length(s) == Len(ListOrder(s))
Holds(op, arg) ==
    CASE op = "none" -> Alloc!AllocLoop(fl, FALSE).page = NULL
      [] op = "distinct" -> \A i, j \in DOMAIN arg : i # j => pp[arg[i]] # pp[arg[j]]
      [] op = "apart" -> \A i, j \in DOMAIN arg :
                           pp[arg[i]] > pp[arg[j]] => pp[arg[i]] - pp[arg[j]] >= HugeSize
      [] op = "length" -> Length(fl) = saved.length
      [] OTHER -> TRUE

\* The checks write to some of the small pages they get; all count as written.
AllocOp(x, new) ==
    IF new.page = NULL \/ (x.op = "again" /\ new.page # pp[x.arg])
    THEN Goto("panic") /\ UNCHANGED <<fl, pp, written>>
    ELSE /\ fl' = new.fl /\ pp' = [pp EXCEPT ![x.arg] = new.page]
         /\ written' = IF x.op = "huge" THEN written ELSE written \cup {new.page}
         /\ k' = k + 1 /\ UNCHANGED pc
FreeOp(x) ==
    /\ fl' = Alloc!page_free(fl, 0, pp[x.arg]) /\ k' = k + 1
    /\ UNCHANGED <<pc, pp, written>>

CheckStep(x) ==
    CASE x.op \in {"alloc", "again", "huge"} ->
           AllocOp(x, Alloc!AllocLoop(fl, x.op = "huge")) /\ UNCHANGED saved
      [] x.op = "free" -> FreeOp(x) /\ UNCHANGED saved
      [] x.op = "steal" -> /\ saved' = [saved EXCEPT !.head = fl.head]
                           /\ fl' = [fl EXCEPT !.head = NULL]
                           /\ k' = k + 1 /\ UNCHANGED <<pc, pp, written>>
      [] x.op = "restore" -> /\ fl' = [fl EXCEPT !.head = saved.head]
                             /\ k' = k + 1 /\ UNCHANGED <<pc, saved, pp, written>>
      [] OTHER -> /\ IF Holds(x.op, x.arg) THEN k' = k + 1 /\ UNCHANGED pc ELSE Goto("panic")
                  /\ UNCHANGED <<fl, saved, pp, written>>

RunCheck(label, script, next) ==
    /\ pc = label
    /\ IF k = Len(script) THEN Goto(next) /\ UNCHANGED <<fl, saved, pp, written>>
       ELSE CheckStep(script[k + 1])
    /\ UNCHANGED <<mmap, merge, chunks, lent, pt, vmap>>

CheckPageAlloc == RunCheck("check_page_alloc", check_page_alloc, "check_page")
CheckPage == RunCheck("check_page", check_page, "boot_map_region")

-----------------------------------------------------------------------------
(* The kernel's page table. *)

\* size pages at virtual page <<region, at>>; frame NULL makes the table only.
Region(region, at, size, frame) ==
    [n \in 1..size |-> [va |-> <<region, at + n - 1>>,
                        frame |-> IF frame = NULL THEN NULL ELSE frame + n - 1]]

\* What mem_init maps before load_pml4, the image's segment as boot_map_kernel does.
BeforeLoad ==
    Region("USER_PAGES", 0, chunks.pages.pages, chunks.pages.at)
    \o Region("USER_ENVS", 0, chunks.envs.pages, chunks.envs.at)
    \o Region("USER_VMAS", 0, chunks.vmas.pages, chunks.vmas.at)
    \o Region("KSTACK", StackSize, StackSize, KernelLma)
    \o Region("KSTACK", 0, StackSize, NULL)
    \o Region("KERNEL_VMA", 0, npages, 0)
    \o Region("KERNEL_VMA", KernelLma, KernelEnd - KernelLma, KernelLma)
AfterLoad == Region("KERNEL_VMA", 0, AllPages, 0)

\* One iteration: page_walk makes the missing table (and clears it), the entry is set.
\* The result of page_walk is not looked at: without a table NULL is written through.
boot_map_region_TableStaysFree(va, frame) ==
    LET new == Alloc!AllocLoop(fl, FALSE)
        needed == pt[Block(va)] = NULL
    IN /\ lent' = IF needed THEN lent \cup {new.page} ELSE lent
       /\ pt' = IF needed THEN [pt EXCEPT ![Block(va)] = new.page] ELSE pt
       /\ vmap' = IF frame = NULL THEN vmap ELSE [vmap EXCEPT ![va] = frame]
       /\ k' = k + 1
       /\ UNCHANGED <<pc, fl, written>>
boot_map_region(va, frame) ==
    LET new == Alloc!AllocLoop(fl, FALSE)
        needed == pt[Block(va)] = NULL
    IN IF needed /\ new.page = NULL
       THEN Goto("fault") /\ UNCHANGED <<fl, lent, pt, vmap, written>>
       ELSE /\ IF needed
               THEN /\ fl' = new.fl /\ lent' = lent \cup {new.page}
                    /\ pt' = [pt EXCEPT ![Block(va)] = new.page]
                    /\ written' = written \cup {new.page}
               ELSE UNCHANGED <<fl, lent, pt, written>>
            /\ vmap' = IF frame = NULL THEN vmap ELSE [vmap EXCEPT ![va] = frame]
            /\ k' = k + 1 /\ UNCHANGED pc

MapAll(label, work, next) ==
    /\ pc = label
    /\ IF k = Len(work) THEN Goto(next) /\ UNCHANGED <<fl, lent, pt, vmap, written>>
       ELSE boot_map_region(work[k + 1].va, work[k + 1].frame)
    /\ UNCHANGED <<mmap, merge, chunks, probe>>

BootMap == MapAll("boot_map_region", BeforeLoad, "load_pml4")

\* The walk of check_va2pa, and what check_kern_pml4 asserts of it: each chunk at its
\* place, memory at KERNEL_VMA, the stack above an unmapped page, and no region without
\* a table.
check_va2pa(va) == IF pt[Block(va)] = NULL THEN NULL ELSE vmap[va]
check_kern_pml4 ==
    LET MappedFrom(region, at, size, frame) ==
          \A n \in 0..(size - 1) : check_va2pa(<<region, at + n>>) = frame + n
    IN /\ MappedFrom("USER_PAGES", 0, chunks.pages.pages, chunks.pages.at)
       /\ MappedFrom("USER_ENVS", 0, chunks.envs.pages, chunks.envs.at)
       /\ MappedFrom("KERNEL_VMA", 0, npages, 0)
       /\ MappedFrom("KSTACK", StackSize, StackSize, KernelLma)
       /\ check_va2pa(<<"KSTACK", StackSize - 1>>) = NULL
       /\ \A region \in Regions : \E b \in DOMAIN pt : b[1] = region /\ pt[b] # NULL

\* check_kern_pml4, load_pml4, check_page_free_list(0).
LoadPml4 ==
    /\ pc = "load_pml4"
    /\ IF check_kern_pml4 /\ ListAsserts(fl) THEN Goto("map_4G") ELSE Goto("panic")
    /\ UNCHANGED <<mmap, merge, chunks, fl, lent, pt, vmap, probe, written>>

BootMap4G == MapAll("map_4G", AfterLoad, "done")

Next == \/ BootAlloc \/ PageInit \/ InitialMerge
        \/ CheckPageFreeList \/ CheckPageAlloc \/ CheckPage
        \/ BootMap \/ LoadPml4 \/ BootMap4G

Spec == Init /\ [][Next]_bootVars

-----------------------------------------------------------------------------
(* Correctness. *)

Usable(m) == {p \in Pages : /\ \E i \in 1..Len(m) : m[i].free /\ m[i].addr <= p * PageSize
                                                   /\ p * PageSize < m[i].addr + m[i].len
                            /\ ~InUse(p * PageSize)}
ListBuilt == pc \notin {"boot_alloc", "page_init", "check_page_alloc", "check_page", "panic"}


\* Until load_pml4 the kernel writes only to memory that boot.S has mapped: the page
\* tables and the pages the self-checks write to come from low memory (pmap.c:938).
WritesAreMapped ==
    pc \notin {"map_4G", "done"} => \A p \in written : p < LowLimit

\* After mem_init every region is mapped to its frames, the whole of memory at
\* KERNEL_VMA, the gap below the stack not at all, and the tables that say so are
\* not free; the later mappings leave the earlier ones as they were.
KernelMapped ==
    pc = "done" =>
      /\ \A i \in 1..Len(BeforeLoad) : vmap[BeforeLoad[i].va] = BeforeLoad[i].frame
      /\ \A p \in 0..(AllPages - 1) : vmap[<<"KERNEL_VMA", p>>] = p
      /\ Cardinality(TableFrames) = Cardinality({b \in DOMAIN pt : pt[b] # NULL})
      /\ \A t \in TableFrames : t \in lent /\ t \notin UNION {Alloc!Unit(fl, p) : p \in fl.avail}

\* No assertion of the self-checks fails, and the free pages suffice for the tables, so
\* that no NULL is written through, if free memory ends with a whole page: otherwise
\* npages leaves its last page out and pa2page panics on it (pmap.c:147, pmap.h:87).
NothingFails == pc \notin {"panic", "fault"} /\ ~fl.panic

\* What page_init puts on the list is free memory from its first to its last byte, as
\* the memory map says (pmap.c:341).
OnlyFreeMemory ==
    ListBuilt =>
      \A p \in fl.avail, i \in 1..Len(mmap) :
         ~mmap[i].free => \/ (p + 1) * PageSize <= mmap[i].addr
                          \/ mmap[i].addr + mmap[i].len <= p * PageSize
=============================================================================
