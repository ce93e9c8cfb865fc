--------------------------- MODULE ProcessProofs ---------------------------
(***************************************************************************)
(* What the pages of an environment hold, for every size of pages, every   *)
(* place and size of the program, and any number of areas and calls.  No   *)
(* page ever holds a byte that is not its own.  If no sum of the calls     *)
(* wraps (NoWrap, see VmaList), what is left of the program holds the      *)
(* bytes of the image; and what the environment wrote stays as long as the *)
(* area there, unless several pages are destroyed at once somewhere else.  *)
(***************************************************************************)
EXTENDS Process, VmaListProofs, FiniteSetTheorems

\* Where page_fault_load_page copies anything, n bytes at most, it writes inside the page and
\* reads inside the file.
THEOREM CopyInside ==
    ASSUME NEW start \in Int,
           va_src_end(BinaryVa, FileVa, FileSize, start) > va_src_start(BinaryVa, FileVa, start),
           NEW n \in Int,
           n <= va_src_end(BinaryVa, FileVa, FileSize, start) - va_src_start(BinaryVa, FileVa, start),
           n <= va_dst_end(BinaryVa, BinarySize, start) - va_dst_start(BinaryVa, start)
    PROVE  /\ start <= va_dst_start(BinaryVa, start)
           /\ va_dst_start(BinaryVa, start) + n <= start + PageSize
           /\ FileVa <= va_src_start(BinaryVa, FileVa, start)
           /\ va_src_start(BinaryVa, FileVa, start) + n <= FileVa + FileSize
           /\ va_src_start(BinaryVa, FileVa, start) - FileVa
                = va_dst_start(BinaryVa, start) - BinaryVa
    BY VmaListAssumption, ProcessAssumption
    DEF va_src_end, va_src_start, va_dst_start, va_dst_end, Least, Greatest

\* The bytes of the file are those of the image.
LEMMA FileByte ==
    ASSUME NEW k, k \in FileVa..(FileVa + FileSize - 1)
    PROVE  KernelByte(k) = k - FileVa + 1
BY DEF KernelByte

\* The byte at every address of the page is the one the image has for that
\* address: the copy neither shifts nor omits anything.
LEMMA CopyRight ==
    ASSUME NEW start \in Int, NEW o \in 0..(PageSize - 1)
    PROVE  CopiedBytes(BinaryVa, BinarySize, FileVa, FileSize, start)[o] = ImageByte(start + o)
<1> DEFINE dst == va_dst_start(BinaryVa, start)
           src == va_src_start(BinaryVa, FileVa, start)
           src_size == va_src_end(BinaryVa, FileVa, FileSize, start) - src
           dst_size == va_dst_end(BinaryVa, BinarySize, start) - dst
           copy_size == Least(src_size, dst_size)
           copied == src_size > 0 /\ start + o \in dst..(dst + copy_size - 1)
<1>1. CopiedBytes(BinaryVa, BinarySize, FileVa, FileSize, start)[o]
        = IF copied THEN KernelByte(src + (start + o - dst)) ELSE Zero
  BY DEF CopiedBytes
<1>2. /\ dst = IF BinaryVa > start THEN BinaryVa ELSE start
      /\ src = FileVa + (dst - BinaryVa)
      /\ src_size = (IF BinaryVa + FileSize < start + PageSize
                     THEN BinaryVa + FileSize ELSE start + PageSize) - dst
      /\ copy_size = src_size
  BY VmaListAssumption, ProcessAssumption
  DEF va_src_end, va_src_start, va_dst_start, va_dst_end, Least, Greatest
<1>3. copied <=> start + o \in BinaryVa..(BinaryVa + FileSize - 1)
  <2> HIDE DEF dst, src, src_size, copy_size
  <2> QED BY <1>2, VmaListAssumption, ProcessAssumption
<1>4. CASE copied
  <2>1. src + (start + o - dst) = FileVa + (start + o - BinaryVa)
    <3> HIDE DEF dst, src, src_size, copy_size
    <3>1. dst \in Int /\ src = FileVa + (dst - BinaryVa)
      BY <1>2, VmaListAssumption, ProcessAssumption
    <3> QED BY <3>1, VmaListAssumption, ProcessAssumption
  <2>2. start + o \in BinaryVa..(BinaryVa + FileSize - 1)
    BY <1>3, <1>4
  <2>3. KernelByte(FileVa + (start + o - BinaryVa)) = start + o - BinaryVa + 1
    <3> DEFINE k == FileVa + (start + o - BinaryVa)
    <3>1. k \in FileVa..(FileVa + FileSize - 1)
      BY <2>2, VmaListAssumption, ProcessAssumption
    <3>2. k - FileVa + 1 = start + o - BinaryVa + 1
      BY <2>2, VmaListAssumption, ProcessAssumption
    <3>3. KernelByte(k) = k - FileVa + 1
      <4> HIDE DEF k
      <4> QED BY <3>1, FileByte
    <3> QED BY <3>2, <3>3, Zenon
  <2>4. ImageByte(start + o) = start + o - BinaryVa + 1
    BY <2>2, VmaListAssumption, ProcessAssumption DEF ImageByte
  <2> HIDE DEF copied, dst, src
  <2> QED BY <1>1, <1>4, <2>1, <2>3, <2>4, Zenon
<1>5. CASE ~copied
  BY <1>1, <1>3, <1>5 DEF ImageByte
<1> QED BY <1>4, <1>5

-----------------------------------------------------------------------------
(* The invariant: what a page may hold, and the types that an update of one  *)
(* of its bytes rests on.                                                    *)

PageOK(p, page) ==
    /\ "bytes" \in DOMAIN page
    /\ DOMAIN page.bytes = 0..(PageSize - 1)
    /\ \A o \in 0..(PageSize - 1) : page.bytes[o] \in {Zero, Written, ImageByte(p + o)}

PagesOK == /\ DOMAIN pages = PageVas
           /\ \A p \in PageVas : pages[p] # NotMapped => PageOK(p, pages[p])

\* A page of zeros is right everywhere.
LEMMA ZerosOK ==
    ASSUME NEW p, NEW perm
    PROVE  PageOK(p, [perm |-> perm, bytes |-> ZeroBytes])
BY DEF PageOK, ZeroBytes

\* So is the page that page_fault_load_page makes, for whatever area.
LEMMA LoadedOK ==
    ASSUME NEW m, NEW start \in Int
    PROVE  PageOK(start, LoadedPage(m, start))
<1>1. CASE m.type = "binary" /\ m.file
  <2> DEFINE bytes == CopiedBytes(BinaryVa, BinarySize, FileVa, FileSize, start)
  <2>1. LoadedPage(m, start) = [perm |-> m.perm, bytes |-> bytes]
    BY <1>1, Zenon DEF LoadedPage
  <2>2. DOMAIN bytes = 0..(PageSize - 1)
    BY DEF CopiedBytes
  <2>3. \A o \in 0..(PageSize - 1) : bytes[o] = ImageByte(start + o)
    BY CopyRight
  <2> HIDE DEF bytes
  <2> QED BY <2>1, <2>2, <2>3 DEF PageOK
<1>2. CASE ~(m.type = "binary" /\ m.file)
  <2>1. LoadedPage(m, start) = [perm |-> m.perm, bytes |-> ZeroBytes]
    BY <1>2, Zenon DEF LoadedPage
  <2> QED BY <2>1, ZerosOK
<1> QED BY <1>1, <1>2

LEMMA FaultKeeps ==
    ASSUME PagesOK, NEW a \in Int, PageFault(a)
    PROVE  PagesOK'
<1> DEFINE start == ROUNDDOWN(a)
           new(m) == [pages EXCEPT ![start] = LoadedPage(m, start)]
<1>1. start \in Int
  BY VmaListAssumption DEF ROUNDDOWN
<1>2. CASE UNCHANGED pages
  BY <1>2, Zenon DEF PagesOK, PageVas, ROUNDDOWN
<1>3. ASSUME NEW m, pages' = new(m)
      PROVE  PagesOK'
  <2> HIDE DEF start
  <2>1. DOMAIN pages' = PageVas
    BY <1>3 DEF PagesOK
  <2>2. ASSUME NEW p \in PageVas, pages'[p] # NotMapped
        PROVE  PageOK(p, pages'[p])
    <3>1. CASE p = start
      BY <1>1, <1>3, <3>1, LoadedOK DEF PagesOK
    <3>2. CASE p # start
      BY <1>3, <2>2, <3>2 DEF PagesOK
    <3> QED BY <3>1, <3>2
  <2> QED BY <2>1, <2>2 DEF PagesOK
<1>4. UNCHANGED pages \/ \E m : pages' = new(m)
  BY Zenon DEF PageFault
<1> QED BY <1>2, <1>3, <1>4

\* The user writes a byte of a page it has.
LEMMA WriteKeeps ==
    ASSUME PagesOK, NEW p \in Mapped, NEW k,
           pages' = [pages EXCEPT ![p].bytes[k] = Written]
    PROVE  PagesOK'
<1>1. DOMAIN pages' = PageVas
  BY DEF PagesOK
<1>2. ASSUME NEW q \in PageVas, pages'[q] # NotMapped
      PROVE  PageOK(q, pages'[q])
  <2>1. CASE q = p
    <3> DEFINE bytes == [pages[p].bytes EXCEPT ![k] = Written]
    <3>1. p \in PageVas /\ PageOK(p, pages[p])
      BY DEF Mapped, PagesOK
    <3>2. pages'[p] = [pages[p] EXCEPT !.bytes = bytes]
      BY <3>1 DEF PagesOK
    <3>3. /\ "bytes" \in DOMAIN pages'[p]
          /\ pages'[p].bytes = bytes
      BY <3>1, <3>2 DEF PageOK
    <3>4. DOMAIN bytes = 0..(PageSize - 1)
      BY <3>1 DEF PageOK
    <3>5. ASSUME NEW o \in 0..(PageSize - 1)
          PROVE  bytes[o] \in {Zero, Written, ImageByte(p + o)}
      BY <3>1 DEF PageOK
    <3> HIDE DEF bytes
    <3> QED BY <2>1, <3>3, <3>4, <3>5 DEF PageOK
  <2>2. CASE q # p
    BY <1>2, <2>2 DEF PagesOK
  <2> QED BY <2>1, <2>2
<1> QED BY <1>1, <1>2 DEF PagesOK

\* Mapping pages of zeros, as vma_map_populate does.
LEMMA MapKeeps ==
    ASSUME PagesOK, NEW new, NEW perm,
           pages' = [p \in PageVas |-> IF p \in new
                                      THEN [perm |-> perm, bytes |-> ZeroBytes]
                                      ELSE pages[p]]
    PROVE  PagesOK'
<1>1. DOMAIN pages' = PageVas
  OBVIOUS
<1>2. ASSUME NEW p \in PageVas, pages'[p] # NotMapped
      PROVE  PageOK(p, pages'[p])
  BY <1>2, ZerosOK DEF PagesOK
<1> QED BY <1>1, <1>2 DEF PagesOK

-----------------------------------------------------------------------------
LEMMA InitPagesOK == ProcessInit => PagesOK
BY DEF ProcessInit, PagesOK

\* Printing a string of the user changes nothing, or the kernel's reads end in a fault at
\* an address of the user.
LEMMA CputsReads ==
    ASSUME NEW s \in 0..(UserTop - 1), NEW len \in 0..(WordSize - 1), sys_cputs(s, len)
    PROVE  \/ status' = "destroyed" /\ UNCHANGED <<vmas, pages>>
           \/ UNCHANGED <<vmas, status, pages>>
           \/ \E a \in s..UserTop : a < UserTop /\ ROUNDDOWN(a) \notin Mapped /\ PageFault(a)
<1> DEFINE stops(n) == {a \in s..UserTop : \/ a = UserTop \/ a = s + n
                                          \/ ROUNDDOWN(a) \notin Mapped \/ Byte(a) = Zero}
<1>1. ASSUME NEW n PROVE FirstIn(stops(n)) \in s..UserTop
  <2>1. UserTop \in stops(n) /\ stops(n) \subseteq Nat
    BY VmaListAssumption
  <2>2. FirstIn(stops(n)) \in stops(n)
    <3> HIDE DEF stops
    <3> QED BY <2>1, LeastExists
  <2> QED BY <2>2
<1>2. \E n : \/ status' = "destroyed" /\ UNCHANGED <<vmas, pages>>
             \/ /\ FirstIn(stops(n)) < UserTop /\ ROUNDDOWN(FirstIn(stops(n))) \notin Mapped
                /\ PageFault(FirstIn(stops(n)))
             \/ UNCHANGED <<vmas, status, pages>>
  BY Zenon DEF sys_cputs
<1> HIDE DEF stops
<1> QED BY <1>1, <1>2

LEMMA NextPagesOK == PagesOK /\ [ProcessNext]_processVars => PagesOK'
<1> SUFFICES ASSUME PagesOK, [ProcessNext]_processVars
             PROVE  PagesOK'
  OBVIOUS
<1>1. CASE UNCHANGED processVars
  BY <1>1 DEF processVars, PagesOK
<1>2. ASSUME NEW a \in Touched, Read(a)
      PROVE  PagesOK'
  BY <1>2, FaultKeeps, ProcessAssumption DEF Read
<1>3. ASSUME NEW a \in Touched, Write(a)
      PROVE  PagesOK'
  <2>1. CASE PageFault(a)
    BY <2>1, FaultKeeps, ProcessAssumption
  <2>2. CASE /\ ROUNDDOWN(a) \in Mapped
             /\ pages' = [pages EXCEPT ![ROUNDDOWN(a)].bytes[a % PageSize] = Written]
    BY <2>2, WriteKeeps
  <2>3. CASE UNCHANGED pages
    BY <2>3 DEF PagesOK
  <2> QED BY <1>3, <2>1, <2>2, <2>3, Zenon DEF Write
<1>4. ASSUME NEW a \in Touched, NEW len \in Lengths, sys_cputs(a, len)
      PROVE  PagesOK'
  <2>1. ASSUME NEW last, last < UserTop, last \in a..UserTop, PageFault(last)
        PROVE  PagesOK'
    <3>1. last \in Int
      BY <2>1
    <3> QED BY <2>1, <3>1, FaultKeeps
  <2>2. CASE UNCHANGED pages
    BY <2>2 DEF PagesOK
  <2>3. a \in 0..(UserTop - 1) /\ len \in 0..(WordSize - 1)
    BY ProcessAssumption
  <2> QED BY <1>4, <2>1, <2>2, <2>3, CputsReads
<1>5. ASSUME NEW size \in CreateSizes, NEW perm \in Perms, NEW populate \in BOOLEAN,
             VmaCreate(size, perm, populate)
      PROVE  PagesOK'
  <2>1. CASE UNCHANGED pages
    BY <2>1 DEF PagesOK
  <2>2. ASSUME NEW new,
               pages' = [p \in PageVas |-> IF p \in new
                                          THEN [perm |-> perm, bytes |-> ZeroBytes]
                                          ELSE pages[p]]
        PROVE  PagesOK'
    BY <2>2, MapKeeps
  <2>3. \/ UNCHANGED pages
        \/ \E new : pages' = [p \in PageVas |-> IF p \in new
                                          THEN [perm |-> perm, bytes |-> ZeroBytes]
                                          ELSE pages[p]]
    BY <1>5, Zenon DEF VmaCreate
  <2> QED BY <2>1, <2>2, <2>3
<1>6. ASSUME NEW va \in Touched, NEW size \in DestroySizes, VmaDestroy(va, size)
      PROVE  PagesOK'
  <2>1. PICK left : pages' = [p \in PageVas |-> IF status' = "running" /\ p \notin left
                                               THEN NotMapped ELSE pages[p]]
    BY <1>6, Zenon DEF VmaDestroy
  <2>2. DOMAIN pages' = PageVas
    BY <2>1
  <2>3. ASSUME NEW p \in PageVas, pages'[p] # NotMapped
        PROVE  PageOK(p, pages'[p])
    BY <2>1, <2>3 DEF PagesOK
  <2> QED BY <2>2, <2>3 DEF PagesOK
<1> QED BY <1>1, <1>2, <1>3, <1>4, <1>5, <1>6 DEF ProcessNext

\* The invariant: every mapped page is a page of right bytes.
THEOREM PagesInvariance == ProcessSpec => []PagesOK
<1>1. ProcessInit => PagesOK
  BY InitPagesOK
<1>2. PagesOK /\ [ProcessNext]_processVars => PagesOK'
  BY NextPagesOK
<1> QED BY <1>1, <1>2, PTL DEF ProcessSpec

\* No page ever holds a byte of the image at another address, or bytes from
\* elsewhere in the kernel, whatever the sizes and alignments of the segment.
THEOREM OnlyOwnBytesCorrect == ProcessSpec => []OnlyOwnBytes
<1>1. PagesOK => OnlyOwnBytes
  BY DEF PagesOK, PageOK, OnlyOwnBytes
<1> QED BY <1>1, PagesInvariance, PTL

-----------------------------------------------------------------------------
(* Addresses and pages. *)

\* Page addresses are the whole ones below USER_TOP.
LEMMA PageAddresses ==
  /\ PageVas = {a \in Whole : a < UserTop}
  /\ \A a \in 0..(UserTop - 1) : ROUNDDOWN(a) \in PageVas
<1>1. UserTop \in Nat
  BY VmaListAssumption
<1>2. PageVas = {a \in Whole : a < UserTop}
  BY <1>1 DEF PageVas, Whole
<1>3. ASSUME NEW a \in 0..(UserTop - 1) PROVE ROUNDDOWN(a) \in PageVas
  <2>1. a \in Nat /\ a < UserTop
    BY <1>1
  <2>2. ROUNDDOWN(a) \in Whole /\ ROUNDDOWN(a) <= a /\ ROUNDDOWN(a) \in Nat
    BY <2>1, Rounding DEF Whole
  <2>3. ROUNDDOWN(a) < UserTop
    <3> HIDE DEF Whole
    <3> QED BY <1>1, <2>1, <2>2, SMT
  <2> QED BY <1>2, <2>2, <2>3
<1> QED BY <1>2, <1>3

\* The address of a byte tells its page and its place there.
LEMMA ByteAddress ==
  ASSUME NEW p \in PageVas, NEW a \in PageRange(p)
  PROVE  ROUNDDOWN(a) = p /\ a % PageSize = a - p /\ a - p \in 0..(PageSize - 1)
<1> DEFINE r == ROUNDDOWN(a)
<1>1. PageSize \in Nat /\ PageSize > 0 /\ p \in Nat /\ p \in Whole
  BY VmaListAssumption, PageAddresses DEF Whole
<1>2. a \in Nat /\ p <= a /\ a < p + PageSize
  BY <1>1 DEF PageRange
<1>3. r \in Whole /\ r \in Nat /\ p <= r /\ r <= a /\ r = a - (a % PageSize)
  BY <1>1, <1>2, Rounding DEF Whole, ROUNDDOWN
<1>4. r - p \in Whole
  BY <1>1, <1>3, WholeSums
<1> HIDE DEF r
<1>5. r - p \in 0..(PageSize - 1)
  BY <1>1, <1>2, <1>3
<1>6. r - p = 0
  <2>1. (r - p) % PageSize = r - p
    BY <1>1, <1>5, SMT
  <2> QED BY <1>4, <2>1 DEF Whole
<1>7. a % PageSize \in Int
  BY <1>1, <1>2, SMT
<1> QED BY <1>1, <1>2, <1>3, <1>6, <1>7 DEF r

-----------------------------------------------------------------------------
(* The areas.  An area in use has one of the user's permissions, and only    *)
(* the program's area is backed by the file.                                 *)

Program(s) ==
    \A k \in Seen(s) : /\ s[k].perm \in Perms \cup {"r", "rw"}
                       /\ s[k].file => s[k].type = "binary"

LEMMA InitialProgram == Program(InitialVmas)
<1> DEFINE a == Vma("anon", UTEMP, PageSize, "r", FALSE)
           b == Vma("anon", UTEMP + PageSize, PageSize, "rw", FALSE)
           c == Rounded("binary", BinaryVa, BinarySize, "rw", TRUE)
           d == Vma("anon", StackVa, PageSize, "rw", FALSE)
           e == Vma(UNUSED, 0, 0, "none", FALSE)
           R == {a, b, c, d, e}
<1>1. \A m \in R :
        \/ m.type = UNUSED
        \/ m.perm \in Perms \cup {"r", "rw"} /\ (m.file => m.type = "binary")
  <2>1. c.type = "binary" /\ c.perm = "rw"
    BY DEF Rounded, Vma
  <2>2. /\ a.perm = "r" /\ ~ a.file /\ b.perm = "rw" /\ ~ b.file
        /\ d.perm = "rw" /\ ~ d.file /\ e.type = UNUSED
    BY DEF Vma
  <2> HIDE DEF a, b, c, d, e
  <2> QED BY <2>1, <2>2
<1>2. InitialVmas \in Seq(R)
  <2> DEFINE rest == [k \in 1..(Slots - 4) |-> e]
  <2>1. InitialVmas = <<a, b, c, d>> \o rest
    BY DEF InitialVmas
  <2> HIDE DEF a, b, c, d, e
  <2>2. <<a, b, c, d>> \in Seq(R)
    OBVIOUS
  <2>3. rest \in Seq(R)
    <3>1. Slots - 4 \in Nat
      BY VmaListAssumption
    <3> QED BY <3>1
  <2> HIDE DEF rest, R
  <2> QED BY <2>1, <2>2, <2>3, ConcatProperties
<1> HIDE DEF R
<1>3. ASSUME NEW k \in Seen(InitialVmas) PROVE InitialVmas[k] \in R /\ InitialVmas[k].type # UNUSED
  <2>1. k \in 1..Len(InitialVmas) /\ k \in 1..k
    BY DEF Seen
  <2> QED BY <1>2, <2>1, ElementOfSeq DEF Seen, Used
<1> QED BY <1>1, <1>3 DEF Program

\* A search finds the one area that contains the address, if there is one.
LEMMA LookupFinds ==
  ASSUME NEW s, Good(s), NEW a \in Nat
  PROVE  /\ vma_lookup(s, a) = {i \in Seen(s) : Contains(s[i], a)}
         /\ vma_lookup(s, a) # {} => FirstIn(vma_lookup(s, a)) \in vma_lookup(s, a)
         /\ \A i, j \in vma_lookup(s, a) : i = j
<1>1. s \in Seq(Records) /\ Sorted(s)
  BY DEF Good
<1>2. vma_lookup(s, a) = {i \in Seen(s) : Contains(s[i], a)}
  BY <1>1, VisibleIsSeen DEF vma_lookup
<1>3. vma_lookup(s, a) \subseteq Nat
  BY <1>2 DEF Seen
<1>4. ASSUME NEW i \in Seen(s), NEW j \in Seen(s), Contains(s[i], a), Contains(s[j], a)
      PROVE  ~ (i < j)
  <2> SUFFICES ASSUME i < j PROVE FALSE
    OBVIOUS
  <2>1. i \in 1..Len(s) /\ j \in 1..Len(s)
    BY DEF Seen
  <2>2. End(s[i]) \in Nat /\ s[j].va \in Nat
    BY <1>1, <2>1, Fields
  <2>3. End(s[i]) <= s[j].va /\ a < End(s[i]) /\ s[j].va <= a
    BY <1>1, <1>4 DEF Sorted, Contains
  <2> HIDE DEF End
  <2> QED BY <2>2, <2>3
<1>5. ASSUME NEW i \in vma_lookup(s, a), NEW j \in vma_lookup(s, a) PROVE i = j
  <2>1. i \in Nat /\ j \in Nat /\ ~ (i < j) /\ ~ (j < i)
    BY <1>2, <1>3, <1>4
  <2> QED BY <2>1
<1> QED BY <1>2, <1>3, <1>5, LeastExists

-----------------------------------------------------------------------------
(* The invariant. *)

PageTypes == [perm : Perms \cup {"r", "rw"},
              bytes : [0..(PageSize - 1) -> Nat \cup {Written, Garbage}]]

Typed == /\ pages \in [PageVas -> PageTypes \cup {NotMapped}]
         /\ Cardinality(Mapped) <= MaxPages
         /\ status \in {"running", "panic", "null pointer", "destroyed"}

\* Every page that is mapped in an area of the program holds the image there.
ImagePage(p, page) == \A o \in 0..(PageSize - 1) : page.bytes[o] \in {ImageByte(p + o), Written}
ProgramRight ==
    \A i \in Seen(vmas), p \in Mapped :
       vmas[i].file /\ Contains(vmas[i], p) => ImagePage(p, pages[p])

ProcessIInv == Good(vmas) /\ Program(vmas) /\ Typed /\ PagesOK /\ ProgramRight

\* The step of DataStays.
DataKept ==
    \A p \in Mapped :
       vma_lookup(vmas, p) # {} /\ vma_lookup(vmas', p) # {} =>
          /\ p \in Mapped'
          /\ \A a \in PageRange(p) : Byte(a)' \in {Byte(a), Written}

Same(p) == /\ p \in Mapped /\ p \in Mapped'
           /\ \A o \in 0..(PageSize - 1) : pages'[p].bytes[o] \in {pages[p].bytes[o], Written}

\* Data stays where each page stays, but for what the user writes, or its area was or is none.
LEMMA SameKeepsData ==
  ASSUME \A p \in Mapped : Same(p) \/ vma_lookup(vmas, p) = {} \/ vma_lookup(vmas', p) = {}
  PROVE  DataKept
<1> SUFFICES ASSUME NEW p \in Mapped, vma_lookup(vmas, p) # {}, vma_lookup(vmas', p) # {}
             PROVE  /\ p \in Mapped'
                    /\ \A a \in PageRange(p) : Byte(a)' \in {Byte(a), Written}
  BY DEF DataKept
<1>1. Same(p)
  OBVIOUS
<1>2. ASSUME NEW a \in PageRange(p) PROVE Byte(a)' \in {Byte(a), Written}
  <2>1. ROUNDDOWN(a) = p /\ a % PageSize = a - p /\ a - p \in 0..(PageSize - 1)
    BY ByteAddress DEF Mapped
  <2>2. Byte(a) = pages[p].bytes[a - p] /\ Byte(a)' = pages'[p].bytes[a - p]
    BY <2>1 DEF Byte
  <2> QED BY <1>1, <2>1, <2>2 DEF Same
<1> QED BY <1>1, <1>2 DEF Same

\* What is left of the program is part of what was there.
Shrinks == \A j \in Seen(vmas') : vmas'[j].file =>
              \E i \in Seen(vmas) : /\ vmas[i].file
                                    /\ \A a \in Nat : Contains(vmas'[j], a) => Contains(vmas[i], a)

\* The image stays right if pages are only written by the user, or hold the image
\* when they are new, or lie outside the program's areas.
LEMMA RightStays ==
  ASSUME ProgramRight, Shrinks, PageVas \subseteq Nat,
         \A p \in Mapped' : \/ Same(p) \/ ImagePage(p, pages'[p])
                            \/ \A i \in Seen(vmas) : vmas[i].file => ~ Contains(vmas[i], p)
  PROVE  ProgramRight'
<1> SUFFICES ASSUME NEW j \in Seen(vmas'), NEW p \in Mapped', vmas'[j].file, Contains(vmas'[j], p)
             PROVE  ImagePage(p, pages'[p])
  BY DEF ProgramRight, ImagePage, ImageByte, Contains, End, Zero, Seen, Used
<1>1. PICK i \in Seen(vmas) : vmas[i].file /\ Contains(vmas[i], p)
  BY DEF Shrinks, Mapped
<1>2. CASE Same(p)
  <2>1. ImagePage(p, pages[p])
    BY <1>1, <1>2 DEF ProgramRight, Same
  <2> QED BY <1>2, <2>1 DEF ImagePage, Same
<1> QED BY <1>1, <1>2

\* Mapping no more pages than there are, one after the other.
LEMMA MappedFinite ==
  ASSUME NEW S, S \subseteq PageVas
  PROVE  IsFiniteSet(S) /\ Cardinality(S) \in Nat
<1>1. UserTop \in Nat
  BY VmaListAssumption
<1>2. IsFiniteSet(0..(UserTop - 1))
  BY <1>1, FS_Interval
<1>3. S \in SUBSET (0..(UserTop - 1))
  BY DEF PageVas
<1>4. IsFiniteSet(S)
  BY <1>2, <1>3, FS_Subset
<1> QED BY <1>4, FS_CardinalityType

LEMMA EnoughMemory ==
  ASSUME NEW new, new \subseteq PageVas, ~ RunsOut(new), Cardinality(Mapped) <= MaxPages
  PROVE  Cardinality(Mapped \cup new) <= MaxPages
<1>1. CASE new = {}
  <2>1. Mapped \cup new = Mapped
    BY <1>1
  <2> QED BY <2>1
<1>2. CASE new # {}
  <2>1. new \subseteq Nat /\ \A q \in new : q < UserTop /\ UserTop \in Nat
    BY PageAddresses, VmaListAssumption DEF Whole
  \* The last page that is mapped.
  <2>2. PICK p \in new : \A q \in new : q <= p
    <3> DEFINE T == {UserTop - q : q \in new}
    <3>1. T \subseteq Nat /\ T # {}
      <4>1. ASSUME NEW q \in new PROVE UserTop - q \in Nat
        BY ONLY <2>1
      <4> QED BY ONLY <1>2, <4>1
    <3>2. PICK x \in T : \A y \in T : x <= y
      <4> HIDE DEF T
      <4> QED BY <3>1, LeastExists
    <3>3. PICK p \in new : x = UserTop - p
      OBVIOUS
    <3>4. \A q \in new : UserTop - p <= UserTop - q
      BY <3>2, <3>3
    <3>5. \A q \in new : q <= p
      BY <2>1, <3>4
    <3> QED BY <3>5
  <2> DEFINE before == Mapped \cup {q \in new : q < p}
  <2>3. Cardinality(before) < MaxPages
    <3>1. ~ (Cardinality(before) >= MaxPages)
      BY DEF RunsOut
    <3>2. Cardinality(before) \in Nat
      BY MappedFinite DEF Mapped
    <3> QED BY <3>1, <3>2, ProcessAssumption
  <2>4. Mapped \cup new = before \cup {p}
    <3>1. ASSUME NEW q \in new PROVE q < p \/ q = p
      BY <2>1, <2>2
    <3> HIDE DEF Mapped
    <3> QED BY <3>1
  <2>5. IsFiniteSet(before) /\ Cardinality(before) \in Nat
    BY MappedFinite DEF Mapped
  <2> HIDE DEF before
  <2>6. Cardinality(before \cup {p}) <= Cardinality(before) + 1
    <3>1. Cardinality(before \cup {p}) = IF p \in before THEN Cardinality(before)
                                         ELSE Cardinality(before) + 1
      BY ONLY <2>5, FS_AddElement
    <3> QED BY ONLY <2>5, <3>1
  <2>7. Cardinality(before \cup {p}) \in Nat
    BY <2>4, MappedFinite DEF Mapped
  <2>8. Cardinality(before \cup {p}) <= MaxPages
    <3>1. MaxPages \in Nat
      BY ProcessAssumption
    <3> QED BY <3>1, <2>3, <2>5, <2>6, <2>7
  <2> QED BY <2>4, <2>8
<1> QED BY <1>1, <1>2

-----------------------------------------------------------------------------
(* The steps. *)

Kept == Good(vmas') /\ Program(vmas') /\ Typed' /\ ProgramRight' /\ (DataKept \/ UnmapsSeveral)

\* A loaded page is a page, and in the program's area it is the image.
LEMMA LoadedRight ==
  ASSUME NEW m, NEW start \in Int
  PROVE  /\ m.perm \in Perms \cup {"r", "rw"} => LoadedPage(m, start) \in PageTypes
         /\ m.type = "binary" /\ m.file => ImagePage(start, LoadedPage(m, start))
<1> DEFINE O == 0..(PageSize - 1)
<1>1. CASE m.type = "binary" /\ m.file
  <2> DEFINE bytes == CopiedBytes(BinaryVa, BinarySize, FileVa, FileSize, start)
  <2>1. LoadedPage(m, start) = [perm |-> m.perm, bytes |-> bytes]
    BY <1>1, Zenon DEF LoadedPage
  <2>2. bytes = [o \in O |-> bytes[o]]
    BY DEF CopiedBytes
  <2>3. \A o \in O : bytes[o] = ImageByte(start + o)
    BY CopyRight
  <2>4. \A o \in O : ImageByte(start + o) \in Nat
    BY VmaListAssumption, ProcessAssumption DEF ImageByte, Zero
  <2> HIDE DEF bytes
  <2>5. bytes \in [O -> Nat \cup {Written, Garbage}]
    <3>1. \A o \in O : bytes[o] \in Nat \cup {Written, Garbage}
      BY <2>3, <2>4
    <3> HIDE DEF O
    <3> QED BY <2>2, <3>1
  <2> QED BY <2>1, <2>3, <2>5 DEF PageTypes, ImagePage
<1>2. CASE ~ (m.type = "binary" /\ m.file)
  <2>1. LoadedPage(m, start) = [perm |-> m.perm, bytes |-> ZeroBytes]
    BY <1>2, Zenon DEF LoadedPage
  <2>2. ZeroBytes \in [O -> Nat \cup {Written, Garbage}]
    BY DEF ZeroBytes, Zero
  <2> QED BY <1>2, <2>1, <2>2 DEF PageTypes
<1> QED BY <1>1, <1>2

\* Nothing that matters here changes when no page and no area does.
LEMMA StopKeeps ==
  ASSUME ProcessIInv, UNCHANGED <<vmas, pages>>, 
         status' \in {"running", "panic", "null pointer", "destroyed"}
  PROVE  Kept
<1>1. Good(vmas') /\ Program(vmas') /\ Typed'
  BY DEF ProcessIInv, Typed, Mapped
<1>2. ProgramRight'
  BY DEF ProcessIInv, ProgramRight, Mapped, ImagePage
<1>3. \A p \in Mapped : Same(p)
  BY DEF Same, Mapped
<1> QED BY <1>1, <1>2, <1>3, SameKeepsData DEF Kept

\* A page fault loads a page where none is, the right one for the area there.
LEMMA FaultKept ==
  ASSUME ProcessIInv, status = "running",
         NEW a \in 0..(UserTop - 1), ROUNDDOWN(a) \notin Mapped, PageFault(a)
  PROVE  Kept
<1> DEFINE start == ROUNDDOWN(a)
           found == vma_lookup(vmas, start)
           m == vmas[FirstIn(found)]
<1>1. start \in PageVas /\ start \in Nat
  BY PageAddresses DEF Whole
<1>2. CASE found = {}
  BY <1>2, StopKeeps DEF PageFault
<1>3. CASE found # {} /\ RunsOut({start})
  BY <1>3, StopKeeps DEF PageFault
<1>4. CASE found # {} /\ ~ RunsOut({start})
  <2>1. /\ vmas' = vmas /\ status' = status
        /\ pages' = [pages EXCEPT ![start] = LoadedPage(m, start)]
    BY <1>4 DEF PageFault
  <2>2. PICK i \in Seen(vmas) : /\ m = vmas[i] /\ Contains(vmas[i], start)
                                /\ \A j \in Seen(vmas) : Contains(vmas[j], start) => j = i
    <3>1. /\ found = {j \in Seen(vmas) : Contains(vmas[j], start)}
          /\ FirstIn(found) \in found /\ \A j, k \in found : j = k
      BY <1>1, <1>4, LookupFinds DEF ProcessIInv
    <3> HIDE DEF found
    <3> QED BY <3>1
  <2> HIDE DEF start, found, m
  <2>3. LoadedPage(m, start) \in PageTypes
    BY <1>1, <2>2, LoadedRight DEF ProcessIInv, Program
  <2>4. LoadedPage(m, start) # NotMapped
    BY <2>3, ProcessAssumption DEF PageTypes
  <2>5. pages \in [PageVas -> PageTypes \cup {NotMapped}]
    BY DEF ProcessIInv, Typed
  <2>6. /\ pages' \in [PageVas -> PageTypes \cup {NotMapped}]
        /\ pages'[start] = LoadedPage(m, start)
        /\ \A p \in PageVas : p # start => pages'[p] = pages[p]
    BY <1>1, <2>1, <2>3, <2>5
  <2>7. Mapped' = Mapped \cup {start}
    BY <1>1, <2>4, <2>6 DEF Mapped
  <2>8. Cardinality(Mapped') <= MaxPages
    <3>1. {start} \subseteq PageVas /\ ~ RunsOut({start})
      BY <1>1, <1>4 DEF start
    <3>2. Cardinality(Mapped \cup {start}) <= MaxPages
      BY <3>1, EnoughMemory DEF ProcessIInv, Typed
    <3> QED BY <2>7, <3>2
  <2>9. Typed'
    BY <2>1, <2>6, <2>8 DEF Typed
  <2>10. \A p \in Mapped : Same(p)
    BY <2>6, <2>7 DEF Same, Mapped, start
  <2>11. ProgramRight'
    <3>1. Shrinks
      BY <2>1 DEF Shrinks
    <3>2. \/ ImagePage(start, pages'[start])
          \/ \A j \in Seen(vmas) : vmas[j].file => ~ Contains(vmas[j], start)
      <4>1. CASE m.file
        <5>1. m.type = "binary"
          BY <2>2, <4>1 DEF ProcessIInv, Program
        <5> QED BY <1>1, <2>6, <4>1, <5>1, LoadedRight
      <4>2. CASE ~ m.file
        BY <2>2, <4>2
      <4> QED BY <4>1, <4>2
    <3>3. \A p \in Mapped' : \/ Same(p) \/ ImagePage(p, pages'[p])
                            \/ \A j \in Seen(vmas) : vmas[j].file => ~ Contains(vmas[j], p)
      BY <2>7, <2>10, <3>2
    <3>4. PageVas \subseteq Nat
      BY PageAddresses DEF Whole
    <3> QED BY <3>1, <3>3, <3>4, RightStays DEF ProcessIInv
  <2>12. Good(vmas') /\ Program(vmas')
    BY <2>1 DEF ProcessIInv
  <2>13. DataKept
    BY <2>10, SameKeepsData
  <2> QED BY <2>9, <2>11, <2>12, <2>13 DEF Kept
<1> QED BY <1>2, <1>3, <1>4


-----------------------------------------------------------------------------
\* The user writes a byte of a page it may write.
LEMMA WriteKept ==
  ASSUME ProcessIInv, NEW p \in Mapped, NEW k, UNCHANGED <<vmas, status>>,
         pages' = [pages EXCEPT ![p].bytes[k] = Written]
  PROVE  Kept
<1> DEFINE page == [pages[p] EXCEPT !.bytes[k] = Written]
<1>1. /\ pages \in [PageVas -> PageTypes \cup {NotMapped}]
      /\ p \in PageVas /\ pages[p] \in PageTypes
  BY DEF ProcessIInv, Typed, Mapped
<1>2. /\ page \in PageTypes
      /\ \A o \in 0..(PageSize - 1) : page.bytes[o] \in {pages[p].bytes[o], Written}
  BY <1>1 DEF PageTypes
<1>3. page # NotMapped
  BY <1>2, ProcessAssumption DEF PageTypes
<1>4. /\ pages' \in [PageVas -> PageTypes \cup {NotMapped}] /\ pages'[p] = page
      /\ \A q \in PageVas : q # p => pages'[q] = pages[q]
  <2>1. pages' = [pages EXCEPT ![p] = page]
    BY <1>1
  <2> HIDE DEF page
  <2> QED BY <1>1, <1>2, <2>1
<1> HIDE DEF page
<1>5. Mapped' = Mapped
  BY <1>1, <1>3, <1>4 DEF Mapped
<1>6. \A q \in Mapped : Same(q)
  BY <1>2, <1>4, <1>5 DEF Same, Mapped
<1>7. Typed'
  BY <1>4, <1>5 DEF ProcessIInv, Typed
<1>8. Shrinks
  BY DEF Shrinks
<1>9. PageVas \subseteq Nat
  BY PageAddresses DEF Whole
<1>10. ProgramRight'
  BY <1>5, <1>6, <1>8, <1>9, RightStays DEF ProcessIInv
<1>11. DataKept
  BY <1>6, SameKeepsData
<1> QED BY <1>7, <1>10, <1>11 DEF Kept, ProcessIInv

\* What a new area adds to the list: an area of the user, not of the program.
LEMMA AddsKeeps ==
  ASSUME NEW s, Good(s), Program(s), ~ (Len(s) = 1 /\ s[1].type = UNUSED),
         NEW size \in 0..UserTop, NEW perm \in Perms
  PROVE  LET t == Created(s, size, perm).vmas
         IN /\ Good(t) /\ Program(t)
            /\ \A j \in Seen(t) : t[j].file => \E i \in Seen(s) : s[i] = t[j]
<1> DEFINE va == vma_get_vmem(s, ROUNDUP(size))
           m == Rounded("anon", va, size, perm, FALSE)
           t == Created(s, size, perm).vmas
<1>1. Good(t) /\ (t = s \/ AddsOnly(s, m, t))
  BY CreatedGood
<1>2. m.perm = perm /\ ~ m.file
  BY DEF Rounded, Vma
<1> HIDE DEF m, t
<1>3. \A j \in Seen(t) : t[j] = m \/ \E i \in Seen(s) : t[j] = s[i]
  BY <1>1 DEF AddsOnly
<1>4. Program(t)
  BY <1>2, <1>3 DEF Program
<1>5. \A j \in Seen(t) : t[j].file => \E i \in Seen(s) : s[i] = t[j]
  BY <1>2, <1>3
<1> QED BY <1>1, <1>4, <1>5 DEF t

\* vma_map_populate maps its pages where no area was before.
LEMMA CreateKept ==
  ASSUME NoWrap, ProcessIInv, status = "running", NEW size \in CreateSizes, NEW perm \in Perms,
         NEW populate \in BOOLEAN, VmaCreate(size, perm, populate)
  PROVE  Kept
<1> DEFINE r == Created(vmas, size, perm)
           room == {p \in PageVas : r.ret <= p /\ p < Wrap(r.ret + ROUNDUP(size))}
           new == IF ~ populate \/ NoNeighbour \/ r.ret = -1 THEN {} ELSE room
           filled == [p \in PageVas |-> IF p \in new THEN [perm |-> perm, bytes |-> ZeroBytes]
                                        ELSE pages[p]]
<1>0. size \in 0..UserTop /\ Good(vmas) /\ Program(vmas) /\ Typed
  BY VmaListAssumption DEF ProcessIInv, NoWrap
<1>1. IF RunsOut(new) THEN status' = "panic" /\ vmas' = r.vmas /\ UNCHANGED pages
      ELSE sys_vma_create(size, perm) /\ pages' = filled
  BY Zenon DEF VmaCreate
<1>2. /\ pages \in [PageVas -> PageTypes \cup {NotMapped}]
      /\ Cardinality(Mapped) <= MaxPages
      /\ new \subseteq PageVas
  BY <1>0 DEF Typed
\* The room is free.
<1>3. ASSUME NEW p \in new, NEW i \in Seen(vmas) PROVE ~ Contains(vmas[i], p)
  <2> DEFINE va == vma_get_vmem(vmas, ROUNDUP(size))
  <2>1. r.ret # -1 /\ p \in room
    BY <1>3
  <2>2. va # -1 /\ r.ret = va
    BY <2>1 DEF Created
  <2>3. ROUNDUP(size) \in 0..UserTop
    BY <1>0, Rounding, VmaListAssumption DEF Whole
  <2>4. /\ va \in Nat /\ va + ROUNDUP(size) <= UserTop
        /\ End(vmas[i]) <= va \/ va + ROUNDUP(size) <= vmas[i].va
    BY <1>0, <2>2, <2>3, VmemIsFree
  <2>5. p \in Nat /\ va <= p /\ p < va + ROUNDUP(size)
    <3>1. Wrap(va + ROUNDUP(size)) = va + ROUNDUP(size)
      <4> HIDE DEF va
      <4> QED BY <2>3, <2>4, UserFits
    <3> QED BY <2>1, <2>2, <3>1, PageAddresses DEF Whole
  <2>7. vmas[i].va \in Nat /\ End(vmas[i]) \in Nat
    <3>1. vmas \in Seq(Records) /\ i \in 1..Len(vmas)
      BY <1>0 DEF Good, Seen
    <3> QED BY <3>1, Fields
  <2> HIDE DEF va, End, r, new, room
  <2> QED BY <2>3, <2>4, <2>5, <2>7 DEF Contains
<1>4. \A p \in new : vma_lookup(vmas, p) = {}
  <2> SUFFICES ASSUME NEW p \in new PROVE vma_lookup(vmas, p) = {}
    OBVIOUS
  <2>1. p \in Nat
    BY <1>2, PageAddresses DEF Whole
  <2>2. vma_lookup(vmas, p) = {i \in Seen(vmas) : Contains(vmas[i], p)}
    BY <1>0, <2>1, LookupFinds
  <2> QED BY <1>3, <2>2
\* The list.
<1>5. /\ Good(vmas') /\ Program(vmas') /\ Shrinks
      /\ status' \in {"running", "panic", "null pointer", "destroyed"}
  <2>1. CASE NoNeighbour
    <3>1. new = {} /\ ~ RunsOut(new)
      BY <2>1 DEF RunsOut
    <3>2. vmas' = vmas /\ status' = "null pointer"
      BY <1>1, <2>1, <3>1 DEF sys_vma_create
    <3> QED BY <1>0, <3>2 DEF Shrinks
  <2>2. CASE ~ NoNeighbour
    <3>1. vmas' = r.vmas /\ status' \in {"running", "panic"}
      BY <1>1, <2>2 DEF sys_vma_create
    <3>2. /\ Good(vmas') /\ Program(vmas')
          /\ \A j \in Seen(vmas') : vmas'[j].file => \E i \in Seen(vmas) : vmas[i] = vmas'[j]
      BY <1>0, <2>2, <3>1, AddsKeeps DEF NoNeighbour
    <3> QED BY <3>1, <3>2 DEF Shrinks
  <2> QED BY <2>1, <2>2
\* The pages.
<1>6. PageVas \subseteq Nat
  BY PageAddresses DEF Whole
<1>7. CASE RunsOut(new)
  <2>1. UNCHANGED pages
    BY <1>1, <1>7
  <2>2. \A p \in Mapped : Same(p)
    BY <2>1 DEF Same, Mapped
  <2>3. Mapped' = Mapped
    BY <2>1 DEF Mapped
  <2>4. ProgramRight'
    BY <1>5, <1>6, <2>2, <2>3, RightStays DEF ProcessIInv
  <2>5. Typed'
    BY <1>2, <1>5, <2>1, <2>3 DEF Typed
  <2> QED BY <1>5, <2>2, <2>4, <2>5, SameKeepsData DEF Kept
<1>8. CASE ~ RunsOut(new)
  <2> HIDE DEF new
  <2>1. pages' = filled
    BY <1>1, <1>8
  <2> DEFINE zeros == [perm |-> perm, bytes |-> ZeroBytes]
  <2>2. zeros \in PageTypes
    BY DEF PageTypes, ZeroBytes, Zero
  <2>3. zeros # NotMapped
    BY <2>2, ProcessAssumption DEF PageTypes
  <2> HIDE DEF zeros
  <2>4. /\ pages' \in [PageVas -> PageTypes \cup {NotMapped}]
        /\ \A p \in PageVas : pages'[p] = IF p \in new THEN zeros ELSE pages[p]
    BY <1>2, <2>1, <2>2 DEF zeros
  <2>5. Mapped' = Mapped \cup new
    BY <1>2, <2>3, <2>4 DEF Mapped
  <2>6. Typed'
    BY <1>2, <1>5, <1>8, <2>4, <2>5, EnoughMemory DEF Typed
  <2>7. \A p \in Mapped : p \notin new => Same(p)
    BY <2>4, <2>5 DEF Same, Mapped
  <2>8. ProgramRight'
    BY <1>3, <1>5, <1>6, <2>5, <2>7, RightStays DEF ProcessIInv
  <2>9. DataKept
    BY <1>4, <2>7, SameKeepsData
  <2> QED BY <1>5, <2>6, <2>8, <2>9 DEF Kept
<1> QED BY <1>7, <1>8

\* sys_vma_destroy takes away pages of no area that is left, if it is for one page.
LEMMA DestroyKept ==
  ASSUME NoWrap, ProcessIInv, status = "running", NEW va \in Touched, NEW size \in DestroySizes,
         VmaDestroy(va, size)
  PROVE  Kept
<1> DEFINE r == Destroyed(vmas, va, size)
           from == ROUNDUP(va)
           to == RangeEnd(va, size)
           others == {p \in Mapped : p < from \/ to <= p}
<1>0. /\ va \in Nat /\ size \in Nat /\ UserTop + size <= WordSize /\ va < UserTop
      /\ Good(vmas) /\ Program(vmas) /\ Typed
  <2>1. va \in Nat /\ size \in Nat /\ va < UserTop
    BY VmaListAssumption, ProcessAssumption
  <2>2. UserTop + size <= WordSize
    BY DEF NoWrap
  <2> QED BY <2>1, <2>2 DEF ProcessIInv
<1>1. /\ vmas' = r.vmas /\ status' = r.status
      /\ \E left \in Left(from, to) :
            pages' = [p \in PageVas |-> IF status' = "running" /\ p \notin left THEN NotMapped
                                       ELSE pages[p]]
  BY DEF VmaDestroy, sys_vma_destroy
\* What is left: the other pages, when the call is for one page.
<1>a. from \in Nat /\ to \in Nat
  <2>1. PageSize \in Nat /\ PageSize > 0 /\ UserTop \in Nat /\ WordSize \in Nat
    BY VmaListAssumption
  <2>2. from \in Nat /\ va <= from /\ from \in Whole
    BY <1>0, <2>1, Rounding DEF Whole
  <2>3. va + size \in Nat /\ va + size < WordSize
    BY <1>0, <2>1
  <2>4. to = ROUNDDOWN(va + size)
    BY <2>3, Fits DEF RangeEnd
  <2>5. to \in Nat /\ to <= va + size /\ to \in Whole
    BY <2>3, <2>4, Rounding DEF Whole
  <2> QED BY <2>2, <2>5
<1>b. PICK left : /\ left \subseteq others /\ (to <= from + PageSize => left = others)
                  /\ pages' = [p \in PageVas |-> IF status' = "running" /\ p \notin left
                                                 THEN NotMapped ELSE pages[p]]
  <2> HIDE DEF from, to, r
  <2> QED BY <1>1, <1>a DEF Left
<1> DEFINE gone == {p \in PageVas : p \notin left}
<1>2. /\ Good(vmas') /\ status' \in {"running", "panic", "null pointer"}
      /\ (from < to /\ status' = "running") =>
           \A j \in Seen(vmas') : End(vmas'[j]) <= from \/ to <= vmas'[j].va
      /\ vmas' = vmas \/ \E i \in Seen(vmas) : CutsOnly(vmas, i, vmas')
  <2> HIDE DEF r
  <2> QED BY <1>0, <1>1, DestroyedGood DEF r
<1> HIDE DEF r
<1>3. /\ from \in Nat /\ to \in Nat /\ PageVas \subseteq Nat
      /\ pages \in [PageVas -> PageTypes \cup {NotMapped}]
      /\ Cardinality(Mapped) <= MaxPages
  BY <1>0, <1>a, PageAddresses DEF Whole, Typed
<1> HIDE DEF from, to
\* No area that is left contains an address of the range.
<1>4. ASSUME status' = "running", to <= from + PageSize, NEW p \in Mapped, p \in gone
      PROVE  vma_lookup(vmas', p) = {}
  <2>1. p \in Nat /\ from <= p /\ p < to
    BY <1>3, <1>4, <1>b DEF Mapped
  <2>2. vma_lookup(vmas', p) = {j \in Seen(vmas') : Contains(vmas'[j], p)}
    BY <1>2, <2>1, LookupFinds
  <2>3. ASSUME NEW j \in Seen(vmas') PROVE ~ Contains(vmas'[j], p)
    <3>1. vmas' \in Seq(Records) /\ j \in 1..Len(vmas')
      BY <1>2 DEF Good, Seen
    <3>2. vmas'[j].va \in Nat /\ End(vmas'[j]) \in Nat
      BY <3>1, Fields
    <3>3. from < to
      BY <1>3, <2>1
    <3>4. End(vmas'[j]) <= from \/ to <= vmas'[j].va
      BY <1>2, <1>4, <3>3
    <3> HIDE DEF End
    <3> QED BY <1>3, <2>1, <3>2, <3>4 DEF Contains
  <2> QED BY <2>2, <2>3
\* What is left of the areas.
<1>5. Program(vmas') /\ Shrinks
  <2>1. CASE vmas' = vmas
    BY <1>0, <2>1 DEF Shrinks
  <2>2. ASSUME NEW i \in Seen(vmas), CutsOnly(vmas, i, vmas')
        PROVE  Program(vmas') /\ Shrinks
    <3>1. \A j \in Seen(vmas') : Piece(vmas'[j], vmas[i]) \/ \E k \in Seen(vmas) : vmas'[j] = vmas[k]
      BY <2>2 DEF CutsOnly
    <3>2. Program(vmas')
      BY <1>0, <3>1 DEF Program, Piece
    <3>3. ASSUME NEW j \in Seen(vmas'), Piece(vmas'[j], vmas[i]), NEW a \in Nat,
                 Contains(vmas'[j], a)
          PROVE  Contains(vmas[i], a)
      <4>1. vmas' \in Seq(Records) /\ j \in 1..Len(vmas') /\ vmas \in Seq(Records) /\ i \in 1..Len(vmas)
        BY <1>0, <1>2 DEF Good, Seen
      <4>2. vmas'[j].va \in Nat /\ End(vmas'[j]) \in Nat /\ vmas[i].va \in Nat /\ End(vmas[i]) \in Nat
        BY <4>1, Fields
      <4> HIDE DEF End
      <4> QED BY <3>3, <4>2 DEF Piece, Contains
    <3>4. Shrinks
      BY <3>1, <3>3 DEF Shrinks, Piece
    <3> QED BY <3>2, <3>4
  <2> QED BY <1>2, <2>1, <2>2
<1>6. /\ pages' \in [PageVas -> PageTypes \cup {NotMapped}]
      /\ \A p \in PageVas : pages'[p] = IF status' = "running" /\ p \in gone THEN NotMapped
                                        ELSE pages[p]
  BY <1>b, <1>3
<1>7. Mapped' \subseteq Mapped
  BY <1>6 DEF Mapped
<1>8. Typed'
  <2>1. IsFiniteSet(Mapped) /\ Cardinality(Mapped) \in Nat /\ Cardinality(Mapped') \in Nat
    BY MappedFinite DEF Mapped
  <2>2. Cardinality(Mapped') <= Cardinality(Mapped)
    BY <1>7, <2>1, FS_Subset
  <2>3. Cardinality(Mapped') <= MaxPages
    BY <1>3, <2>1, <2>2, ProcessAssumption
  <2> QED BY <1>2, <1>6, <2>3 DEF Typed
<1>9. ASSUME NEW p \in Mapped, ~ (status' = "running" /\ p \in gone) PROVE Same(p)
  BY <1>6, <1>9 DEF Same, Mapped
<1>10. \A p \in Mapped' : Same(p)
  BY <1>6, <1>7, <1>9 DEF Mapped
<1>11. ProgramRight'
  BY <1>3, <1>5, <1>10, RightStays DEF ProcessIInv
<1>12. CASE to <= from + PageSize
  <2>1. DataKept
    BY <1>4, <1>9, <1>12, SameKeepsData
  <2> QED BY <1>2, <1>5, <1>8, <1>11, <2>1 DEF Kept
<1>13. CASE from + PageSize < to
  <2>1. UnmapsSeveral
    BY <1>13 DEF UnmapsSeveral, from, to
  <2> QED BY <1>2, <1>5, <1>8, <1>11, <2>1 DEF Kept
<1>14. PageSize \in Nat
  BY VmaListAssumption
<1> QED BY <1>3, <1>12, <1>13, <1>14

-----------------------------------------------------------------------------
(* The theorems. *)

LEMMA StepKept ==
  ASSUME NoWrap, ProcessIInv, ProcessNext
  PROVE  Kept
<1>0. status = "running" /\ status \in {"running", "panic", "null pointer", "destroyed"}
  BY DEF ProcessNext
<1>1. ASSUME NEW a \in Touched, Read(a) PROVE Kept
  BY <1>0, <1>1, FaultKept, ProcessAssumption DEF Read
<1>2. ASSUME NEW a \in Touched, Write(a) PROVE Kept
  <2>1. CASE ROUNDDOWN(a) \notin Mapped /\ PageFault(a)
    BY <1>0, <2>1, FaultKept, ProcessAssumption
  <2>2. CASE /\ ROUNDDOWN(a) \in Mapped /\ UNCHANGED <<vmas, status>>
             /\ pages' = [pages EXCEPT ![ROUNDDOWN(a)].bytes[a % PageSize] = Written]
    BY <2>2, WriteKept
  <2>3. CASE status' = "destroyed" /\ UNCHANGED <<vmas, pages>>
    BY <2>3, StopKeeps
  <2> QED BY <1>2, <2>1, <2>2, <2>3, Zenon DEF Write
<1>3. ASSUME NEW a \in Touched, NEW len \in Lengths, sys_cputs(a, len) PROVE Kept
  <2>1. CASE status' = "destroyed" /\ UNCHANGED <<vmas, pages>>
    BY <2>1, StopKeeps
  <2>2. ASSUME NEW last \in a..UserTop, last < UserTop, ROUNDDOWN(last) \notin Mapped,
               PageFault(last)
        PROVE  Kept
    <3>1. last \in 0..(UserTop - 1)
      BY <2>2, ProcessAssumption, VmaListAssumption
    <3> QED BY <1>0, <2>2, <3>1, FaultKept
  <2>3. CASE UNCHANGED <<vmas, status, pages>>
    BY <1>0, <2>3, StopKeeps
  <2>4. a \in 0..(UserTop - 1) /\ len \in 0..(WordSize - 1)
    BY ProcessAssumption
  <2> QED BY <1>3, <2>1, <2>2, <2>3, <2>4, CputsReads
<1>4. ASSUME NEW size \in CreateSizes, NEW perm \in Perms, NEW populate \in BOOLEAN,
             VmaCreate(size, perm, populate)
      PROVE  Kept
  BY <1>0, <1>4, CreateKept
<1>5. ASSUME NEW va \in Touched, NEW size \in DestroySizes, VmaDestroy(va, size) PROVE Kept
  BY <1>0, <1>5, DestroyKept
<1> QED BY <1>1, <1>2, <1>3, <1>4, <1>5 DEF ProcessNext

LEMMA NextProcessIInv ==
  ASSUME NoWrap, ProcessIInv, [ProcessNext]_processVars
  PROVE  ProcessIInv'
<1>1. PagesOK'
  BY NextPagesOK DEF ProcessIInv
<1>2. CASE ProcessNext
  BY <1>1, <1>2, StepKept DEF Kept, ProcessIInv
<1>3. CASE UNCHANGED processVars
  BY <1>1, <1>3, StopKeeps DEF processVars, Kept, ProcessIInv, Typed
<1> QED BY <1>2, <1>3

LEMMA InitProcessIInv == ProcessInit => ProcessIInv
<1> SUFFICES ASSUME ProcessInit PROVE ProcessIInv
  OBVIOUS
<1>1. Good(vmas) /\ Program(vmas)
  BY InitIInv, InitialProgram DEF ProcessInit, Init, IInv
<1>2. Mapped = {} /\ pages \in [PageVas -> PageTypes \cup {NotMapped}]
  BY DEF ProcessInit, Mapped
<1>3. Typed
  <2>1. Cardinality({}) = 0
    BY FS_EmptySet
  <2> QED BY <1>2, <2>1, ProcessAssumption DEF Typed, ProcessInit, Init
<1>4. ProgramRight
  BY <1>2 DEF ProgramRight
<1> QED BY <1>1, <1>3, <1>4, InitPagesOK DEF ProcessIInv

\* As long as no sum of the calls wraps, the areas, the pages that are mapped in them and
\* what they hold fit together at every step of the environment and of the kernel for it.
THEOREM ProcessInvariance == ASSUME NoWrap PROVE ProcessSpec => []ProcessIInv
<1> QED BY InitProcessIInv, NextProcessIInv, PTL DEF ProcessSpec

\* There are never more pages than there is memory, and every page has a permission the user
\* asked for or load_icode gave it (page_fault_load_page, vma_map_populate),
\* as long as no sum of the calls wraps.
THEOREM ProcessTypeCorrect == ASSUME NoWrap PROVE ProcessSpec => []ProcessTypeOK
<1>1. ProcessIInv => ProcessTypeOK
  <2> SUFFICES ASSUME ProcessIInv PROVE ProcessTypeOK
    OBVIOUS
  <2>1. Typed
    BY DEF ProcessIInv
  <2>2. \A p \in Mapped : pages[p] \in PageTypes
    BY <2>1 DEF Typed, Mapped
  <2>3. DOMAIN pages = PageVas
    BY <2>1 DEF Typed
  <2> QED BY <2>1, <2>2, <2>3 DEF Typed, ProcessTypeOK, PageTypes
<1> QED BY <1>1, ProcessInvariance, PTL

\* Wherever the program's segment lies and whatever was cut off its area, a page that is
\* mapped there holds the bytes of the image at their addresses, or the user's.  No sum of
\* the calls may wrap; how many pages they destroy, and what vma_unmap loses with them,
\* does not matter.
THEOREM ProgramPagesCorrect == ASSUME NoWrap PROVE ProcessSpec => []ProgramPagesRight
<1>1. ProcessIInv => ProgramPagesRight
  <2> SUFFICES ASSUME ProcessIInv, NEW i \in Visible(vmas), NEW p \in Mapped,
                      vmas[i].file, Contains(vmas[i], p), NEW a \in PageRange(p)
               PROVE  Byte(a) \in {ImageByte(a), Written}
    BY DEF ProgramPagesRight
  <2>1. i \in Seen(vmas)
    BY VisibleIsSeen DEF ProcessIInv, Good
  <2>2. ImagePage(p, pages[p])
    BY <2>1 DEF ProcessIInv, ProgramRight
  <2>3. ROUNDDOWN(a) = p /\ a % PageSize = a - p /\ a - p \in 0..(PageSize - 1)
    BY ByteAddress DEF Mapped
  <2>4. p + (a - p) = a
    BY PageAddresses DEF Mapped, Whole, PageRange
  <2>5. Byte(a) = pages[p].bytes[a - p]
    BY <2>3 DEF Byte
  <2> QED BY <2>2, <2>3, <2>4, <2>5 DEF ImagePage
<1> QED BY <1>1, ProcessInvariance, PTL

\* If no sum of the calls wraps, what the user wrote stays until it destroys the page it
\* is in: no page fault, no new area and no destroy of one page elsewhere changes it or
\* takes it away, whatever came before.  A destroy of several pages may take it away: there
\* vma_unmap is wrong (vma.c:271).
THEOREM DataStaysCorrect == ASSUME NoWrap PROVE ProcessSpec => DataStays
<1>1. ProcessIInv /\ [ProcessNext]_processVars =>
         DataKept \/ UnmapsSeveral \/ UNCHANGED processVars
  BY StepKept DEF Kept
<1> QED BY <1>1, ProcessInvariance, PTL DEF ProcessSpec, DataStays, DataKept
=============================================================================
