------------------------------ MODULE VmaList ------------------------------
(***************************************************************************)
(* The virtual memory areas of one environment (src/kern/vma.c) and the    *)
(* two system calls that change them (src/kern/syscall.c).                 *)
(*                                                                         *)
(* The 128 records of the environment form one doubly linked list: areas   *)
(* in use, sorted by address, then unused records.  The list is the        *)
(* sequence `vmas' here; a record that no longer is on the list is lost.   *)
(* Searches stop at the first unused record, so an area behind one can not *)
(* be seen.  Addresses are bytes; pages have PageSize bytes.  Addresses    *)
(* and sizes are unsigned words: every sum and difference of the code      *)
(* wraps at WordSize, and so do those below.                               *)
(* Operators Name_Slip are deviations a bug could make of Name: no         *)
(* specification uses them, they show that the properties can fail.         *)
(***************************************************************************)
EXTENDS Integers, Sequences

CONSTANTS WordSize,     \* 2^64, the values of a uintptr_t or size_t
          PageSize,     \* PAGE_SIZE, a power of two in the code
          UserTop,      \* USER_TOP
          Slots,        \* records per environment, 128 in the code
          BinaryVa,     \* p_va and p_memsz of the program's segment
          BinarySize,
          Perms,        \* values of the perm argument
          CreateSizes,  \* values of the size argument of sys_vma_create
          DestroySizes  \* values of the size argument of sys_vma_destroy

ASSUME VmaListAssumption ==
    /\ PageSize \in Nat \ {0}
    /\ UserTop \in Nat /\ UserTop % PageSize = 0 /\ BinaryVa \in Nat /\ BinarySize \in Nat
    /\ Slots \in Nat /\ Slots > 4
    /\ 3 * PageSize < BinaryVa /\ BinaryVa + BinarySize <= UserTop - 3 * PageSize
    /\ WordSize \in Nat /\ WordSize % PageSize = 0 /\ 2 * (UserTop + PageSize) <= WordSize
    /\ CreateSizes \subseteq 0..(WordSize - 1) /\ DestroySizes \subseteq 0..(WordSize - 1)

VARIABLES vmas,         \* the list that starts at env->vma
          status        \* "running", or how the kernel stopped

vars == <<vmas, status>>

\* What a word holds of the number n.
Wrap(n) == n % WordSize

ROUNDDOWN(a) == a - (a % PageSize)
ROUNDUP(a) == ROUNDDOWN(Wrap(a + PageSize - 1))

UNUSED == "unused"
\* `file' tells whether file_va points into the program's image.
Vma(type, va, len, perm, file) ==
    [type |-> type, va |-> va, len |-> len, perm |-> perm, file |-> file]
End(m) == Wrap(m.va + m.len)
Contains(m, a) == m.va <= a /\ a < End(m)
FirstIn(I) == CHOOSE i \in I : \A j \in I : i <= j

\* The indexes of s before the first unused record: the areas searches see.
Visible(s) ==
    LET unused == {i \in DOMAIN s : s[i].type = UNUSED}
    IN IF unused = {} THEN DOMAIN s ELSE 1..(FirstIn(unused) - 1)

\* The areas of s that contain address a as far as a search can tell.
vma_lookup(s, a) == {i \in Visible(s) : Contains(s[i], a)}

-----------------------------------------------------------------------------
(* The list operations. *)

RemoveNth(s, i) == SubSeq(s, 1, i - 1) \o SubSeq(s, i + 1, Len(s))
InsertAfter(s, i, m) == SubSeq(s, 1, i) \o <<m>> \o SubSeq(s, i + 1, Len(s))

\* The record goes to the end, and keeps its length.  (It also keeps fields
\* nobody reads before vma_insert sets them: no permission and no file here.)
vma_make_unused_InPlace(s, i) ==
    [s EXCEPT ![i] = Vma(UNUSED, 0, s[i].len, "none", FALSE)]
vma_make_unused(s, i) ==
    Append(RemoveNth(s, i), Vma(UNUSED, 0, s[i].len, "none", FALSE))

\* The record at the end of the list is taken for the new area m.  It is put
\* before the first area it precedes with room to spare, or before the first
\* unused record, or at the end; if no place fits the record stays off the list.
Places_NextUnchecked(s, m) ==
    {i \in 1..(Len(s) - 1) : End(s[i]) <= m.va}
Places(s, m) ==
    {i \in 1..(Len(s) - 1) :
        /\ End(s[i]) <= m.va
        /\ s[i + 1].type = UNUSED \/ End(m) < s[i + 1].va}

vma_insert(s, m) ==
    LET rest == SubSeq(s, 1, Len(s) - 1)
        places == Places(rest, m)
    IN CASE s[Len(s)].type # UNUSED ->
               [ok |-> FALSE, vmas |-> s]
         [] OTHER ->
               IF rest[1].type = UNUSED \/ End(m) < rest[1].va
               THEN [ok |-> TRUE, vmas |-> <<m>> \o rest]
               ELSE IF places # {}
               THEN [ok |-> TRUE, vmas |-> InsertAfter(rest, FirstIn(places), m)]
               ELSE IF End(rest[Len(rest)]) <= m.va
               THEN [ok |-> TRUE, vmas |-> Append(rest, m)]
               ELSE [ok |-> FALSE, vmas |-> rest]

\* The record vma_insert makes of an arbitrary range: whole pages.
Rounded_EndKept(type, va, size, perm, file) ==
    LET start == ROUNDDOWN(va)
    IN Vma(type, start, Wrap(va + size - start), perm, file)
Rounded(type, va, size, perm, file) ==
    LET start == ROUNDDOWN(va)
    IN Vma(type, start, Wrap(ROUNDUP(Wrap(va + size)) - start), perm, file)

\* The address for a new area of `size' bytes: just below the first area, or
\* after the first area that is followed by a large enough hole; -1 if none.
vma_get_vmem(s, size) ==
    LET after(i) == ROUNDUP(End(s[i]))
        holes == {i \in 1..(Len(s) - 1) :
                    s[i + 1].type = UNUSED \/ size <= Wrap(s[i + 1].va - after(i))}
        i == FirstIn(holes)
    IN IF s[1].type = UNUSED THEN 0
       ELSE IF size <= s[1].va THEN s[1].va - size
       ELSE IF holes = {} \/ (s[i + 1].type = UNUSED /\ size > Wrap(UserTop - after(i)))
       THEN -1
       ELSE after(i)

-----------------------------------------------------------------------------
(* What env_setup_vma and load_icode leave: the program, its stack, and two *)
(* pages at UTEMP.                                                          *)

UTEMP == PageSize
StackVa == UserTop - 3 * PageSize

InitialVmas ==
    <<Vma("anon", UTEMP, PageSize, "r", FALSE),
      Vma("anon", UTEMP + PageSize, PageSize, "rw", FALSE),
      Rounded("binary", BinaryVa, BinarySize, "rw", TRUE),
      Vma("anon", StackVa, PageSize, "rw", FALSE)>>
    \o [i \in 1..(Slots - 4) |-> Vma(UNUSED, 0, 0, "none", FALSE)]

Init == /\ vmas = InitialVmas
        /\ status = "running"

-----------------------------------------------------------------------------
(* The system calls. *)

\* The new list and the address returned, -1 for an error.  An address that is
\* negative as a signed word counts as one.
Created(s, size, perm) ==
    LET va == vma_get_vmem(s, ROUNDUP(size))
        r == vma_insert(s, Rounded("anon", va, size, perm, FALSE))
    IN IF va = -1 \/ 2 * va >= WordSize THEN [ret |-> -1, vmas |-> s]
       ELSE [ret |-> IF r.ok THEN va ELSE -1, vmas |-> r.vmas]

\* Taking the only record of a list dereferences its null prev pointer.
NoNeighbour == Len(vmas) = 1 /\ vmas[1].type = UNUSED
sys_vma_create(size, perm) ==
    IF NoNeighbour
    THEN status' = "null pointer" /\ UNCHANGED vmas
    ELSE vmas' = Created(vmas, size, perm).vmas /\ UNCHANGED status

\* Record i ends at `end'.
KeepFirst_LastPageStays(s, i, end) == [s EXCEPT ![i].len = Wrap(end + PageSize - s[i].va)]
KeepFirst(s, i, end) == [s EXCEPT ![i].len = Wrap(end - s[i].va)]

\* What destroying [from, to) does to the list, when record i contains va.
\* `to' can be below `from': when the range lies inside a page, and when
\* va + size wraps.  size_rounded then is close to WordSize, and what is
\* destroyed is as good as nothing, or the area grows downwards.
Cut(s, i, from, to) ==
    LET m == s[i]
        size_rounded == Wrap(to - from)
        shorter == KeepFirst(s, i, from)
    IN IF from = m.va /\ size_rounded = m.len THEN vma_make_unused(s, i)
       ELSE IF from = m.va THEN [s EXCEPT ![i].va = to, ![i].len = Wrap(@ - size_rounded)]
       ELSE IF to = End(m) THEN shorter
       ELSE vma_insert(shorter, Vma(m.type, to, Wrap(End(m) - to), m.perm, FALSE)).vmas

\* The end of the pages that lie in the range.
RangeEnd(va, size) == ROUNDDOWN(Wrap(va + size))

\* The new list and how the kernel goes on.
Destroyed(s, va, size) ==
    LET from == ROUNDUP(va)
        to == RangeEnd(va, size)
        found == vma_lookup(s, va)
        i == FirstIn(found)
    IN IF found = {} \/ to > End(s[i])
       THEN [status |-> "panic", vmas |-> s]
       ELSE IF Len(s) = 1 /\ from = s[1].va /\ to = End(s[1])
       THEN [status |-> "null pointer", vmas |-> s]
       ELSE [status |-> "running", vmas |-> Cut(s, i, from, to)]

sys_vma_destroy(va, size) ==
    LET r == Destroyed(vmas, va, size) IN vmas' = r.vmas /\ status' = r.status

Create == \E size \in CreateSizes, perm \in Perms : sys_vma_create(size, perm)
Destroy == \E va \in 0..(WordSize - 1), size \in DestroySizes : sys_vma_destroy(va, size)

Next == status = "running" /\ (Create \/ Destroy)

Spec == Init /\ [][Next]_vars

-----------------------------------------------------------------------------
(* Correctness. *)

\* The callers that the properties need: no new area is larger than the address
\* space of the user, and no range that is destroyed goes on behind the last word.
\* The code checks neither (syscall.c:107, 138): it is right only for these.
NoWrap == /\ \A size \in CreateSizes : size <= UserTop
          /\ \A size \in DestroySizes : UserTop + size <= WordSize

\* The records are made of the values the code can store, and there are never
\* more of them than slots.
TypeOK ==
    /\ Len(vmas) \in 1..Slots
    /\ \A i \in DOMAIN vmas :
         /\ vmas[i].type \in {"anon", "binary", UNUSED}
         /\ vmas[i].va \in 0..(WordSize - 1) /\ vmas[i].len \in 0..(WordSize - 1)
         /\ vmas[i].va % PageSize = 0 /\ vmas[i].len % PageSize = 0
         /\ vmas[i].perm \in Perms \cup {"r", "rw", "none"}
         /\ vmas[i].file \in BOOLEAN
    /\ status \in {"running", "panic", "null pointer"}

\* The areas a search can see come in address order and never share a byte:
\* vma_lookup finds the one area of an address, and the subtractions by which
\* vma_get_vmem measures the holes between areas do not wrap.  It needs NoWrap.
VisibleSorted ==
    \A i, j \in Visible(vmas) : i < j => End(vmas[i]) <= vmas[j].va

\* After sys_vma_destroy no area that can be seen covers a page of the range
\* that the call made of its arguments (va_start and va_end, syscall.c:137).
DestroyUncovers ==
    \A va \in 0..(WordSize - 1), size \in DestroySizes :
       ROUNDUP(va) < RangeEnd(va, size) =>
         LET r == Destroyed(vmas, va, size)
         IN r.status = "running" =>
              \A i \in Visible(r.vmas) :
                 \/ End(r.vmas[i]) <= ROUNDUP(va)
                 \/ RangeEnd(va, size) <= r.vmas[i].va

\* Creating an area never changes what another address is mapped to, and
\* destroying part of one never touches another one.  It needs NoWrap.
VisibleAreas(s) == {s[i] : i \in Visible(s)}
Areas == INSTANCE AreaSet WITH areas <- VisibleAreas(vmas),
                               InitialAreas <- VisibleAreas(InitialVmas)
ImplementsAreaSet == Areas!Spec
=============================================================================
