------------------------------ MODULE Process ------------------------------
(***************************************************************************)
(* The one user environment at work (src/kern/idt.c, src/kern/syscall.c):  *)
(* its list of areas, as in VmaList, and the pages that are mapped for it. *)
(* Pages are mapped when they are first used, by the page fault handler,   *)
(* which fills them from the program's image, or at once by                *)
(* sys_vma_create; sys_cputs lets the kernel read them.                    *)
(*                                                                         *)
(* Page tables are what AddressSpace says, but for sys_vma_destroy: when   *)
(* it takes more than one page vma_unmap may give back tables that are in  *)
(* use (see VmaUnmap), so that any other page may be lost with them.  A    *)
(* byte of a page is Zero, the k-th byte of the image (k > 0), Written by  *)
(* the user, or Garbage the kernel copied from somewhere else.             *)
(* Operators Name_Slip are deviations a bug could make of Name: no         *)
(* specification uses them, they show that the properties can fail.        *)
(***************************************************************************)
EXTENDS VmaList, FiniteSets

CONSTANTS FileVa,       \* where the segment's bytes are in kernel memory
          FileSize,     \* p_filesz
          MaxPages,     \* pages that can be mapped before memory runs out
          Touched,      \* the addresses the user's instructions use
          Lengths,      \* values of the len argument of sys_cputs
          Written, Garbage, NotMapped

ASSUME ProcessAssumption ==
    /\ FileVa \in Nat /\ FileSize \in Nat
    /\ FileSize <= BinarySize
    /\ MaxPages \in Nat
    /\ Touched \subseteq 0..(UserTop - 1) /\ Lengths \subseteq 0..(WordSize - 1)
    /\ Written \notin Int /\ Garbage \notin Int /\ Written # Garbage
    /\ NotMapped \notin [perm : Perms \cup {"r", "rw"},
                        bytes : [0..(PageSize - 1) -> Nat \cup {Written, Garbage}]]

VARIABLE pages          \* the page at every page address, or NotMapped

Zero == 0
PageVas == {a \in 0..(UserTop - 1) : a % PageSize = 0}
PageRange(a) == a..(a + PageSize - 1)
Mapped == {a \in PageVas : pages[a] # NotMapped}
Byte(a) == pages[ROUNDDOWN(a)].bytes[a % PageSize]

\* Mapping pages at the addresses `new', one after the other: page_alloc comes
\* before the page that is replaced is given back.
RunsOut_FirstPageOnly(new) == new # {} /\ Cardinality(Mapped) >= MaxPages
RunsOut(new) ==
    \E p \in new : Cardinality(Mapped \cup {q \in new : q < p}) >= MaxPages

ProcessInit == Init /\ pages = [a \in PageVas |-> NotMapped]

ZeroBytes == [o \in 0..(PageSize - 1) |-> Zero]

-----------------------------------------------------------------------------
(* Page faults. *)

Least(a, b) == IF a < b THEN a ELSE b
Greatest(a, b) == IF a > b THEN a ELSE b

\* What a byte of kernel memory contains, as far as the program is concerned.
KernelByte(k) == IF k \in FileVa..(FileVa + FileSize - 1) THEN k - FileVa + 1 ELSE Garbage

\* The addresses that page_fault_load_page computes for the page at `start',
\* for mem_va, mem_size, file_va and file_size of a binary area.
va_dst_start(mem_va, start) == Greatest(mem_va, start)
va_dst_end(mem_va, mem_size, start) == Least(mem_va + mem_size, start + PageSize)
va_src_start_NotShifted(mem_va, file_va, start) == file_va
va_src_start(mem_va, file_va, start) == Greatest(file_va, start + (file_va - mem_va))
va_src_end_LastByteLost(mem_va, file_va, file_size, start) ==
    Least(file_va + file_size - 1, start + PageSize + (file_va - mem_va))
va_src_end(mem_va, file_va, file_size, start) ==
    Least(file_va + file_size, start + PageSize + (file_va - mem_va))

\* The bytes of the page after the copy.
CopiedBytes(mem_va, mem_size, file_va, file_size, start) ==
    LET dst == va_dst_start(mem_va, start)
        src == va_src_start(mem_va, file_va, start)
        src_size == va_src_end(mem_va, file_va, file_size, start) - src
        dst_size == va_dst_end(mem_va, mem_size, start) - dst
        copy_size == Least(src_size, dst_size)
    IN [o \in 0..(PageSize - 1) |->
          IF src_size > 0 /\ start + o \in dst..(dst + copy_size - 1)
          THEN KernelByte(src + (start + o - dst))
          ELSE Zero]

\* For what is left behind a cut, file_va is NULL and file_size 0, and the
\* addresses leave nothing to copy.
LoadedPage(m, start) ==
    [perm |-> m.perm,
     bytes |-> IF m.type = "binary" /\ m.file
               THEN CopiedBytes(BinaryVa, BinarySize, FileVa, FileSize, start)
               ELSE ZeroBytes]

\* page_fault_handler, for a page that is not present: load it, or destroy the
\* environment; without memory the kernel panics.
PageFault(a) ==
    LET start == ROUNDDOWN(a)
        found == vma_lookup(vmas, start)
    IN /\ UNCHANGED vmas
       /\ IF found = {} THEN status' = "destroyed" /\ UNCHANGED pages
          ELSE IF RunsOut({start})
          THEN status' = "panic" /\ UNCHANGED pages
          ELSE /\ pages' = [pages EXCEPT ![start] = LoadedPage(vmas[FirstIn(found)], start)]
               /\ UNCHANGED status

-----------------------------------------------------------------------------
(* What the environment does. *)

Read(a) == ROUNDDOWN(a) \notin Mapped /\ PageFault(a)

\* A protection violation always destroys the environment.
Write(a) ==
    LET p == ROUNDDOWN(a)
    IN \/ p \notin Mapped /\ PageFault(a)
       \/ /\ p \in Mapped /\ pages[p].perm = "rw"
          /\ pages' = [pages EXCEPT ![p].bytes[a % PageSize] = Written]
          /\ UNCHANGED <<vmas, status>>
       \/ /\ p \in Mapped /\ pages[p].perm # "rw"
          /\ status' = "destroyed"
          /\ UNCHANGED <<vmas, pages>>

\* vma_map_populate maps new pages over whatever is mapped there.
VmaCreate(size, perm, populate) ==
    LET r == Created(vmas, size, perm)
        new == IF ~populate \/ NoNeighbour \/ r.ret = -1 THEN {}
               ELSE {p \in PageVas : r.ret <= p /\ p < Wrap(r.ret + ROUNDUP(size))}
    IN IF RunsOut(new)
       THEN status' = "panic" /\ vmas' = r.vmas /\ UNCHANGED pages
       ELSE /\ sys_vma_create(size, perm)
            /\ pages' = [p \in PageVas |-> IF p \in new
                                           THEN [perm |-> perm, bytes |-> ZeroBytes]
                                           ELSE pages[p]]

\* The pages vma_unmap may leave when it takes those from `from' to `to': all
\* others, if it takes no more than one.
Left(from, to) ==
    LET others == {p \in Mapped : p < from \/ to <= p}
    IN IF to <= from + PageSize THEN {others} ELSE SUBSET others

VmaDestroy_RoundsOut(va, size) ==
    /\ sys_vma_destroy(va, size)
    /\ \E left \in Left(ROUNDDOWN(va), ROUNDUP(Wrap(va + size))) :
          pages' = [p \in PageVas |-> IF status' = "running" /\ p \notin left THEN NotMapped
                                      ELSE pages[p]]
VmaDestroy(va, size) ==
    /\ sys_vma_destroy(va, size)
    /\ \E left \in Left(ROUNDUP(va), RangeEnd(va, size)) :
          pages' = [p \in PageVas |-> IF status' = "running" /\ p \notin left THEN NotMapped
                                      ELSE pages[p]]

\* user_mem_check: every page of the range must be mapped.  When the end of the
\* range wraps there is no such page.  It also looks at the first word of each page:
\* a page that begins with the bytes of a kernel address is refused, which zeros
\* never do.  What it finds above USER_TOP is left open.
user_mem_check(s, len) ==
    LET end == ROUNDUP(Wrap(s + len))
        range == {p \in PageVas : ROUNDDOWN(s) <= p /\ p < end}
    IN IF ~(range \subseteq Mapped) THEN {FALSE}
       ELSE IF end <= UserTop /\ \A p \in range : pages[p].bytes = ZeroBytes THEN {TRUE}
       ELSE BOOLEAN

\* The number of characters printfmt takes len for, an int.  A length that large can
\* become any number, or a negative one, which means no limit.
Precision(len) == IF len < UserTop THEN {len} ELSE 0..UserTop

\* "%.*s" stops at a zero byte or after so many characters, when it has read one
\* byte more, and above USER_TOP, where there are zeros.  If it comes to a page that
\* is not present, the kernel's page fault is handled like the user's, and the
\* environment goes on.
sys_cputs(s, len) ==
    \E ok \in user_mem_check(s, len), n \in Precision(len) :
       LET last == FirstIn({a \in s..UserTop : \/ a = UserTop \/ a = s + n
                                               \/ ROUNDDOWN(a) \notin Mapped
                                               \/ Byte(a) = Zero})
       IN IF ~ok THEN status' = "destroyed" /\ UNCHANGED <<vmas, pages>>
          ELSE IF last < UserTop /\ ROUNDDOWN(last) \notin Mapped THEN PageFault(last)
          ELSE UNCHANGED <<vmas, status, pages>>

ProcessNext ==
    /\ status = "running"
    /\ \/ \E a \in Touched : Read(a) \/ Write(a) \/ \E len \in Lengths : sys_cputs(a, len)
       \/ \E size \in CreateSizes, perm \in Perms, populate \in BOOLEAN :
             VmaCreate(size, perm, populate)
       \/ \E va \in Touched, size \in DestroySizes : VmaDestroy(va, size)

processVars == <<vmas, status, pages>>
ProcessSpec == ProcessInit /\ [][ProcessNext]_processVars

-----------------------------------------------------------------------------
(* Correctness. *)

\* What the program's image says of address a.
ImageByte(a) == IF a \in BinaryVa..(BinaryVa + FileSize - 1) THEN a - BinaryVa + 1 ELSE Zero

\* The pages have their types, and there are never more of them than there is
\* memory for: running out stops the kernel.
ProcessTypeOK ==
    /\ status \in {"running", "panic", "null pointer", "destroyed"}
    /\ DOMAIN pages = PageVas
    /\ \A p \in Mapped : /\ pages[p].perm \in Perms \cup {"r", "rw"}
                         /\ DOMAIN pages[p].bytes = 0..(PageSize - 1)
    /\ Cardinality(Mapped) <= MaxPages

\* Whatever part of the program's area is left, its mapped pages hold the bytes
\* of the image at their addresses, and zeros around them, where the user did
\* not write.
ProgramPagesRight ==
    \A i \in Visible(vmas), p \in Mapped :
       vmas[i].file /\ Contains(vmas[i], p) =>
         \A a \in PageRange(p) : Byte(a) \in {ImageByte(a), Written}

\* No page ever holds a byte of the image at another address, or other kernel
\* memory: page_fault_load_page copies inside the file and inside the page.
OnlyOwnBytes ==
    \A p \in PageVas : pages[p] # NotMapped =>
       \A o \in 0..(PageSize - 1) :
          pages[p].bytes[o] \in {Zero, Written, ImageByte(p + o)}

\* A call that takes several pages, for which vma_unmap is wrong (vma.c:271).
UnmapsSeveral ==
    \E va \in Touched, size \in DestroySizes :
       ROUNDUP(va) + PageSize < RangeEnd(va, size) /\ VmaDestroy(va, size)

\* What the user wrote stays: no system call or fault changes or takes away a
\* page of an area, unless it destroys the area there.  Only a call that
\* destroys several pages may take others with them.
DataStays ==
    [][\/ \A p \in Mapped :
            vma_lookup(vmas, p) # {} /\ vma_lookup(vmas', p) # {} =>
               /\ p \in Mapped'
               /\ \A a \in PageRange(p) : Byte(a)' \in {Byte(a), Written}
       \/ UnmapsSeveral]_processVars

\* "Anonymous VMAs are zero-initialized" (inc/env.h:65): where sys_vma_create makes
\* a new area, the user finds zeros.
NewAreasAreZero ==
    [][\A p \in PageVas :
         vma_lookup(vmas, p) = {} /\ vma_lookup(vmas', p) # {} =>
            pages'[p] = NotMapped \/ pages'[p].bytes = ZeroBytes]_processVars
=============================================================================
