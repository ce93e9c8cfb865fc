-------------------------- MODULE EnvironmentProofs --------------------------
(***************************************************************************)
(* Theorems about Environments, for every memory, size of a table and set  *)
(* of addresses: the counts, the tables that an environment shares with    *)
(* the kernel, and what is free after env_free.  Each has the hypothesis   *)
(* SinglePages: the environment unmaps pages one at a time.  It could      *)
(* destroy several in one call, where vma_unmap is wrong (vma.c:271).      *)
(***************************************************************************)
EXTENDS Environments, VmaUnmapProofs

Entry == [page : Ptr, huge : BOOLEAN]

\* Pages in use are not among those that boot_alloc took.
LEMMA NotReserved ==
  ASSUME NEW s, NEW L, Good(s, L)
  PROVE  L \cap Reserved = {}
<1>1. Tiled(s, s.avail \cup L) /\ L \subseteq Pages
  BY DEF Good
<1>2. s.huge \subseteq HugeStarts /\ \A p \in L : Unit(s, p) \subseteq Pages \ Reserved
  BY <1>1 DEF Tiled
<1>3. \A p \in L : p \in Unit(s, p)
  BY <1>1, <1>2, UnitHasPage
<1> QED BY <1>2, <1>3

-----------------------------------------------------------------------------
(* What mem_init leaves.                                                    *)

\* A memory in which tables are added below kern_pml4.
Booting(m) ==
    /\ m \in Memory /\ Good(m.fl, m.lent)
    /\ \A p \in Pages : m.ref[p] = IF p \in m.lent THEN 1 ELSE 0

\* What is read from a free list.
LEMMA BootAlloc ==
  ASSUME NEW m, Booting(m), NEW r, r = page_alloc(m.fl, FALSE), r.page # NULL
  PROVE  /\ AllocatedBy(m, {}, r, FALSE)
         /\ r.page \notin Reserved
<1>1. /\ m \in Memory /\ Good(m.fl, m.lent)
      /\ \A p \in Pages : m.ref[p] = IF p \in m.lent THEN 1 ELSE 0
  BY DEF Booting
<1>2. m.lent \subseteq Pages
  BY <1>1 DEF Good
<1>3. /\ r.page \in Pages \ m.lent /\ Good(r.fl, m.lent \cup {r.page})
      /\ r.page \in r.fl.huge <=> FALSE
      /\ SameUnits(m.fl, r.fl, m.lent)
  BY <1>1, AllocGood, AllocKind, AllocSame
<1>4. \A p \in m.lent : p \in r.fl.huge <=> p \in m.fl.huge
  BY <1>1, <1>2, <1>3, SameKinds
<1>5. r.fl \in FreeList /\ m.ref[r.page] = 0
  BY <1>1, <1>3 DEF Good, Linked
<1>6. r.page \notin Reserved
  <2>1. (m.lent \cup {r.page}) \cap Reserved = {}
    BY <1>3, NotReserved
  <2> QED BY <2>1
<1> QED BY <1>3, <1>4, <1>5, <1>6 DEF AllocatedBy

\* A new table, which entry i of t leads to.
BootStepped(m, t, i, w) ==
    /\ w = [m |-> w.m, table |-> w.table] /\ w.m \in Memory
    /\ w.table # NULL =>
         /\ Booting(w.m) /\ w.table \in Pages \ (m.lent \cup Reserved)
         /\ w.m.lent = m.lent \cup {w.table} /\ w.m.tlb = m.tlb
         /\ \A u \in Pages, j \in Index :
              w.m.tab[u][j] = IF u = w.table THEN Empty
                              ELSE IF u = t /\ j = i THEN [page |-> w.table, huge |-> FALSE]
                              ELSE m.tab[u][j]

\* entry_in_table, creating, where nothing is entered yet.
LEMMA BootStep ==
  ASSUME NEW m, Booting(m), NEW t \in m.lent \cup Reserved, NEW i \in Index,
         m.tab[t][i] = Empty, NEW w, w = entry_in_table([m |-> m, table |-> t], i, TRUE)
  PROVE  BootStepped(m, t, i, w)
<1> DEFINE r == page_alloc(m.fl, FALSE)
<1>1. w = AddTable([m |-> m, table |-> t], i, r)
  <2>1. ~Present(m.tab[t][i])
    BY DEF Present, Empty
  <2> QED BY <2>1, CreatingStep
<1>2. CASE r.page = NULL
  <2> DEFINE w0 == [m |-> m, table |-> t]
  <2>1. w = [w0 EXCEPT !.table = NULL]
    BY <1>1, <1>2 DEF AddTable
  <2>2. w0 = [m |-> m, table |-> t]
    OBVIOUS
  <2> HIDE DEF w0
  <2>3. w.table = NULL /\ w = [m |-> w.m, table |-> w.table] /\ w.m = m
    BY <2>1, <2>2
  <2> QED BY <2>3 DEF BootStepped, Booting
<1>3. CASE r.page # NULL
  <2>1. r = page_alloc(m.fl, FALSE)
    OBVIOUS
  <2> HIDE DEF r
  <2>2. AllocatedBy(m, {}, r, FALSE) /\ r.page \notin Reserved
    BY <1>3, <2>1, BootAlloc
  <2>3. m \in Memory /\ m.lent \subseteq Pages
    BY DEF Booting, Good
  <2>4. t \in Pages /\ t # r.page
    BY <2>2, <2>3, PageListAssumption DEF AllocatedBy
  <2>5. w.m \in Memory /\ AddsTable(m, w.m, t, i, r) /\ w.table = r.page
    <3> DEFINE x == AddTable([m |-> m, table |-> t], i, r)
    <3>1. x.m \in Memory /\ AddsTable(m, x.m, t, i, r) /\ x.table = r.page
      BY <2>2, <2>3, <2>4, AddTableFields
    <3> HIDE DEF x
    <3>2. w = x
      BY <1>1 DEF x
    <3> QED BY <3>1, <3>2
  <2>6. w = [m |-> w.m, table |-> w.table]
    <3> DEFINE n == [m EXCEPT !.fl = r.fl, !.lent = @ \cup {r.page}, !.ref[r.page] = @ + 1,
                              !.tab[r.page] = NoEntries,
                              !.tab[t][i] = [page |-> r.page, huge |-> FALSE]]
    <3>1. w = [m |-> n, table |-> r.page]
      BY <1>1, <1>3 DEF AddTable
    <3> HIDE DEF n
    <3> QED BY <3>1
  <2>7. r.page \in Pages \ m.lent /\ Good(r.fl, m.lent \cup {r.page})
    BY <2>2 DEF AllocatedBy
  <2>8. /\ w.m.fl = r.fl /\ w.m.lent = m.lent \cup {r.page} /\ w.m.tlb = m.tlb
        /\ \A p \in Pages : w.m.ref[p] = IF p = r.page THEN m.ref[p] + 1 ELSE m.ref[p]
        /\ \A u \in Pages, j \in Index :
             w.m.tab[u][j] = IF u = r.page THEN Empty
                             ELSE IF u = t /\ j = i THEN [page |-> r.page, huge |-> FALSE]
                             ELSE m.tab[u][j]
    BY <2>5 DEF AddsTable
  <2>9. ASSUME NEW p \in Pages PROVE w.m.ref[p] = IF p \in w.m.lent THEN 1 ELSE 0
    <3>1. m.ref[p] = IF p \in m.lent THEN 1 ELSE 0
      BY DEF Booting
    <3>2. w.m.ref[p] = IF p = r.page THEN m.ref[p] + 1 ELSE m.ref[p]
      BY <2>8
    <3>3. CASE p = r.page
      <4>1. p \notin m.lent /\ p \in w.m.lent
        BY <2>7, <2>8, <3>3
      <4>2. m.ref[p] = 0
        BY <3>1, <4>1
      <4>3. w.m.ref[p] = m.ref[p] + 1
        BY ONLY <3>2, <3>3
      <4>4. w.m.ref[p] = 1
        BY ONLY <4>2, <4>3
      <4> QED BY ONLY <4>1, <4>4
    <3>4. CASE p # r.page
      <4>1. p \in w.m.lent <=> p \in m.lent
        BY <2>8, <3>4
      <4> QED BY <3>1, <3>2, <3>4, <4>1
    <3> QED BY <3>3, <3>4
  <2>10. Booting(w.m)
    BY <2>5, <2>7, <2>8, <2>9 DEF Booting
  <2>11. w.table \in Pages \ (m.lent \cup Reserved)
    BY ONLY <2>2, <2>5, <2>7
  <2>12. w.m.lent = m.lent \cup {w.table} /\ w.m.tlb = m.tlb
    BY ONLY <2>5, <2>8
  <2>13. ASSUME NEW u \in Pages, NEW j \in Index
         PROVE  w.m.tab[u][j] = IF u = w.table THEN Empty
                                ELSE IF u = t /\ j = i THEN [page |-> w.table, huge |-> FALSE]
                                ELSE m.tab[u][j]
    BY ONLY <2>5, <2>8, u \in Pages, j \in Index
  <2> QED BY ONLY <2>5, <2>6, <2>10, <2>11, <2>12, <2>13 DEF BootStepped
<1> QED BY <1>2, <1>3

\* The walk from kern_pml4, whose first two steps go down to the directory.
LEMMA BootWalk ==
  ASSUME NEW m, m.root = KernPml4, NEW at
  PROVE  LET w0 == [m |-> m, table |-> KernPml4]
             w1 == entry_in_table(w0, at[1], TRUE)
             w2 == DescendFrom(w1, at[2], TRUE)
         IN page_walk(m, at, "normal")
              = At(IF w2.table = NULL THEN w2 ELSE entry_in_table(w2, at[3], TRUE),
                   IF w2.table = NULL THEN at[3] ELSE at[4])
<1> DEFINE w0 == [m |-> m, table |-> KernPml4]
           w1 == entry_in_table(w0, at[1], TRUE)
           w2 == DescendFrom(w1, at[2], TRUE)
<1>1. Depth = 4
  BY VmaUnmapAssumption
<1>2. KernPml4 # NULL
  BY EnvironmentsAssumption, PageListAssumption
<1> HIDE DEF w0
<1>3. PICK f : IsDescent(f, w0, at, TRUE) /\ Descend(w0, at, TRUE) = f[Depth - 2]
  BY DescentExists
<1> USE DEF w0
<1>4. Descend(w0, at, TRUE) = w2
  <2>1. f[0] = w0 /\ f[1] = DescendFrom(f[0], at[1], TRUE) /\ f[2] = DescendFrom(f[1], at[2], TRUE)
    <3>1. 1 \in 1..(Depth - 2) /\ 2 \in 1..(Depth - 2) /\ 1 - 1 = 0 /\ 2 - 1 = 1
      BY <1>1
    <3> HIDE DEF w0
    <3>2. \A n \in 1..(Depth - 2) : f[n] = DescendFrom(f[n - 1], at[n], TRUE)
      BY <1>3 DEF IsDescent
    <3>3. f[1] = DescendFrom(f[1 - 1], at[1], TRUE) /\ f[2] = DescendFrom(f[2 - 1], at[2], TRUE)
      BY <3>1, <3>2
    <3> QED BY <1>3, <3>1, <3>3 DEF IsDescent
  <2>2. DescendFrom(w0, at[1], TRUE) = w1
    BY <1>2 DEF DescendFrom
  <2> HIDE DEF w0, w1, w2
  <2>3. Depth - 2 = 2
    BY <1>1
  <2>4. Descend(w0, at, TRUE) = f[2]
    BY ONLY <1>3, <2>3
  <2>5. w2 = DescendFrom(w1, at[2], TRUE)
    BY DEF w2
  <2> QED BY <2>1, <2>2, <2>4, <2>5
<1> HIDE DEF w1, w2
<1>5. page_walk(m, at, "normal") = LastStep(w2, at, "normal")
  BY <1>4 DEF page_walk, Result, w0
<1>6. LastStep(w2, at, "normal")
        = IF w2.table = NULL THEN At(w2, at[3]) ELSE At(entry_in_table(w2, at[3], TRUE), at[4])
  <2>1. Depth - 1 = 3 /\ "normal" # "huge" /\ "normal" # "lookup"
    BY <1>1
  <2> QED BY <1>1, <2>1 DEF LastStep
<1> QED BY <1>5, <1>6 DEF w0, w1, w2
\* k1, k2 and k3 are the tables from kern_pml4 to the entry for USER_PAGES, and nothing
\* else is entered.
ChainOf(m, k1, k2, k3) ==
    /\ m.lent = {k1, k2, k3}
    /\ k1 \in Pages \ Reserved /\ k2 \in Pages \ Reserved /\ k3 \in Pages \ Reserved
    /\ k1 # k2 /\ k1 # k3 /\ k2 # k3
    /\ \A p \in Pages, i \in Index :
         m.tab[p][i] = IF p = KernPml4 /\ i = SharedVa[1] THEN [page |-> k1, huge |-> FALSE]
                       ELSE IF p = k1 /\ i = SharedVa[2] THEN [page |-> k2, huge |-> FALSE]
                       ELSE IF p = k2 /\ i = SharedVa[3] THEN [page |-> k3, huge |-> FALSE]
                       ELSE Empty

\* A new table is empty.
LEMMA BootNext ==
  ASSUME NEW m, NEW t, NEW i, NEW w, BootStepped(m, t, i, w), w.table # NULL, NEW j \in Index
  PROVE  Booting(w.m) /\ w.table \in w.m.lent /\ w.m.tab[w.table][j] = Empty
BY DEF BootStepped

\* Whatever comes of it is a memory.
LEMMA BootWalks ==
  ASSUME NEW m, Booting(m), m.root = KernPml4,
         \A p \in Pages, i \in Index : m.tab[p][i] = Empty
  PROVE  page_walk(m, SharedVa, "normal").m \in Memory
<1> DEFINE w0 == [m |-> m, table |-> KernPml4]
           w1 == entry_in_table(w0, SharedVa[1], TRUE)
           w2 == DescendFrom(w1, SharedVa[2], TRUE)
           w3 == IF w2.table = NULL THEN w2 ELSE entry_in_table(w2, SharedVa[3], TRUE)
           w == page_walk(m, SharedVa, "normal")
<1>1. /\ SharedVa[1] \in Index /\ SharedVa[2] \in Index /\ SharedVa[3] \in Index
      /\ KernPml4 \in Reserved /\ KernPml4 \in Pages
  BY EnvironmentsAssumption, VmaUnmapAssumption, PageListAssumption
<1>2. w = At(w3, IF w2.table = NULL THEN SharedVa[3] ELSE SharedVa[4])
  BY BootWalk
<1> HIDE DEF w
<1>3. w.m = w3.m
  <2> HIDE DEF w3
  <2> QED BY <1>2 DEF At
<1>4. BootStepped(m, KernPml4, SharedVa[1], w1)
  <2>1. m.tab[KernPml4][SharedVa[1]] = Empty
    BY <1>1
  <2> QED BY <1>1, <2>1, BootStep
<1> HIDE DEF w1
<1>5. CASE w1.table = NULL
  <2>1. w3 = w1
    BY <1>5 DEF DescendFrom
  <2> QED BY <1>3, <1>4, <2>1 DEF BootStepped, w
<1>6. CASE w1.table # NULL
  <2>1. BootStepped(w1.m, w1.table, SharedVa[2], w2)
    <3>1. w2 = entry_in_table([m |-> w1.m, table |-> w1.table], SharedVa[2], TRUE)
      BY <1>4, <1>6 DEF DescendFrom, BootStepped
    <3> HIDE DEF w2
    <3>2. Booting(w1.m) /\ w1.table \in w1.m.lent /\ w1.m.tab[w1.table][SharedVa[2]] = Empty
      BY <1>1, <1>4, <1>6, BootNext
    <3> QED BY <1>1, <3>1, <3>2, BootStep
  <2> HIDE DEF w2
  <2>2. CASE w2.table = NULL
    BY <1>3, <2>1, <2>2 DEF BootStepped, w
  <2>3. CASE w2.table # NULL
    <3>1. BootStepped(w2.m, w2.table, SharedVa[3], w3)
      <4>1. w3 = entry_in_table([m |-> w2.m, table |-> w2.table], SharedVa[3], TRUE)
        BY <2>1, <2>3 DEF BootStepped
      <4> HIDE DEF w3
      <4>2. Booting(w2.m) /\ w2.table \in w2.m.lent /\ w2.m.tab[w2.table][SharedVa[3]] = Empty
        BY <1>1, <2>1, <2>3, BootNext
      <4> QED BY <1>1, <4>1, <4>2, BootStep
    <3> HIDE DEF w3
    <3> QED BY <1>3, <3>1 DEF BootStepped, w
  <2> QED BY <2>2, <2>3
<1> QED BY <1>5, <1>6

\* It creates three tables, or ends without one.
LEMMA BootChain ==
  ASSUME NEW m, Booting(m), m.root = KernPml4, m.lent = {},
         \A p \in Pages, i \in Index : m.tab[p][i] = Empty,
         NEW w, w = page_walk(m, SharedVa, "normal"), w.table # NULL
  PROVE  /\ Booting(w.m) /\ w.m.tlb = m.tlb /\ w.index = SharedVa[4]
         /\ \E k1, k2 : ChainOf(w.m, k1, k2, w.table)
<1> DEFINE w0 == [m |-> m, table |-> KernPml4]
           w1 == entry_in_table(w0, SharedVa[1], TRUE)
           w2 == DescendFrom(w1, SharedVa[2], TRUE)
           w3 == IF w2.table = NULL THEN w2 ELSE entry_in_table(w2, SharedVa[3], TRUE)
<1>1. /\ SharedVa[1] \in Index /\ SharedVa[2] \in Index /\ SharedVa[3] \in Index
      /\ KernPml4 \in Reserved /\ KernPml4 \in Pages /\ NULL \notin Pages
  BY EnvironmentsAssumption, VmaUnmapAssumption, PageListAssumption
<1>2. BootStepped(m, KernPml4, SharedVa[1], w1)
  <2>1. m.tab[KernPml4][SharedVa[1]] = Empty
    BY <1>1
  <2> QED BY <1>1, <2>1, BootStep
<1>3. w = At(w3, IF w2.table = NULL THEN SharedVa[3] ELSE SharedVa[4])
  BY BootWalk
<1> HIDE DEF w1
<1>4. w.table = w3.table /\ w.m = w3.m
  <2> HIDE DEF w3
  <2> QED BY <1>3 DEF At
<1>5. w2.table # NULL
  BY <1>4
<1>6. w1.table # NULL
  BY <1>5 DEF DescendFrom
<1>7. w1 = [m |-> w1.m, table |-> w1.table] /\ w2 = entry_in_table(w1, SharedVa[2], TRUE)
  BY <1>2, <1>6 DEF DescendFrom, BootStepped
<1> DEFINE m1 == w1.m
           k1 == w1.table
<1>8. /\ Booting(m1) /\ k1 \in Pages \ Reserved /\ m1.lent = {k1} /\ m1.tlb = m.tlb
      /\ \A p \in Pages, i \in Index :
           m1.tab[p][i] = IF p = KernPml4 /\ i = SharedVa[1] THEN [page |-> k1, huge |-> FALSE]
                          ELSE Empty
  <2>1. /\ Booting(m1) /\ k1 \in Pages \ (m.lent \cup Reserved)
        /\ m1.lent = m.lent \cup {k1} /\ m1.tlb = m.tlb
        /\ \A u \in Pages, j \in Index :
             m1.tab[u][j] = IF u = k1 THEN Empty
                            ELSE IF u = KernPml4 /\ j = SharedVa[1] THEN [page |-> k1, huge |-> FALSE]
                            ELSE m.tab[u][j]
    BY <1>2, <1>6 DEF BootStepped
  <2> HIDE DEF m1, k1
  <2>2. m1.lent = {k1} /\ k1 \in Pages \ Reserved /\ k1 # KernPml4
    BY <1>1, <2>1
  <2>3. ASSUME NEW p \in Pages, NEW i \in Index
        PROVE  m1.tab[p][i] = IF p = KernPml4 /\ i = SharedVa[1] THEN [page |-> k1, huge |-> FALSE]
                              ELSE Empty
    <3>1. m.tab[p][i] = Empty
      OBVIOUS
    <3> QED BY ONLY <2>1, <2>2, <2>3, <3>1
  <2> QED BY <2>1, <2>2, <2>3
<1>9. BootStepped(m1, k1, SharedVa[2], w2)
  <2>1. m1.tab[k1][SharedVa[2]] = Empty /\ k1 \in m1.lent \cup Reserved
    BY <1>1, <1>8
  <2>2. w2 = entry_in_table([m |-> m1, table |-> k1], SharedVa[2], TRUE)
    BY <1>7
  <2> HIDE DEF w2, m1, k1
  <2> QED BY <1>1, <1>8, <2>1, <2>2, BootStep
<1> HIDE DEF w2
<1> DEFINE m2 == w2.m
           k2 == w2.table
<1>10. /\ Booting(m2) /\ k2 \in Pages \ Reserved /\ k2 # k1 /\ m2.lent = {k1, k2}
       /\ m2.tlb = m.tlb
       /\ \A p \in Pages, i \in Index :
            m2.tab[p][i] = IF p = KernPml4 /\ i = SharedVa[1] THEN [page |-> k1, huge |-> FALSE]
                           ELSE IF p = k1 /\ i = SharedVa[2] THEN [page |-> k2, huge |-> FALSE]
                           ELSE Empty
  <2>1. /\ Booting(m2) /\ k2 \in Pages \ (m1.lent \cup Reserved)
        /\ m2.lent = m1.lent \cup {k2} /\ m2.tlb = m1.tlb
        /\ \A u \in Pages, j \in Index :
             m2.tab[u][j] = IF u = k2 THEN Empty
                            ELSE IF u = k1 /\ j = SharedVa[2] THEN [page |-> k2, huge |-> FALSE]
                            ELSE m1.tab[u][j]
    BY <1>5, <1>9 DEF BootStepped
  <2> HIDE DEF m1, k1, m2, k2
  <2>2. k2 \in Pages \ Reserved /\ k2 # k1 /\ m2.lent = {k1, k2} /\ k2 # KernPml4 /\ k1 # KernPml4
    BY <1>1, <1>8, <2>1
  <2>3. ASSUME NEW p \in Pages, NEW i \in Index
        PROVE  m2.tab[p][i] = IF p = KernPml4 /\ i = SharedVa[1] THEN [page |-> k1, huge |-> FALSE]
                              ELSE IF p = k1 /\ i = SharedVa[2] THEN [page |-> k2, huge |-> FALSE]
                              ELSE Empty
    <3>1. m1.tab[p][i] = IF p = KernPml4 /\ i = SharedVa[1] THEN [page |-> k1, huge |-> FALSE]
                         ELSE Empty
      BY <1>8
    <3>2. m2.tab[p][i] = IF p = k2 THEN Empty
                         ELSE IF p = k1 /\ i = SharedVa[2] THEN [page |-> k2, huge |-> FALSE]
                         ELSE m1.tab[p][i]
      BY <2>1
    <3> QED BY ONLY <2>2, <3>1, <3>2
  <2> QED BY <1>8, <2>1, <2>2, <2>3
<1>11. BootStepped(m2, k2, SharedVa[3], w3)
  <2>1. m2.tab[k2][SharedVa[3]] = Empty /\ k2 \in m2.lent \cup Reserved
    <3> HIDE DEF m2, k2, k1
    <3> QED BY <1>1, <1>10
  <2>2. w3 = entry_in_table(w2, SharedVa[3], TRUE)
    BY <1>5
  <2>3. w2 = [m |-> m2, table |-> k2]
    BY <1>9 DEF BootStepped
  <2> HIDE DEF w3, m2, k2
  <2>4. w3 = entry_in_table([m |-> m2, table |-> k2], SharedVa[3], TRUE)
    BY <2>2, <2>3
  <2> QED BY <1>1, <1>10, <2>1, <2>4, BootStep
<1> HIDE DEF w3
<1>12. /\ Booting(w.m) /\ w.table \in Pages \ (m2.lent \cup Reserved)
       /\ w.m.lent = m2.lent \cup {w.table} /\ w.m.tlb = m2.tlb
       /\ \A u \in Pages, j \in Index :
             w.m.tab[u][j] = IF u = w.table THEN Empty
                             ELSE IF u = k2 /\ j = SharedVa[3] THEN [page |-> w.table, huge |-> FALSE]
                             ELSE m2.tab[u][j]
  <2>1. w3.table # NULL /\ w3.table = w.table /\ w3.m = w.m
    BY <1>4
  <2> HIDE DEF m2, k2
  <2>2. /\ Booting(w3.m) /\ w3.table \in Pages \ (m2.lent \cup Reserved)
        /\ w3.m.lent = m2.lent \cup {w3.table} /\ w3.m.tlb = m2.tlb
        /\ \A u \in Pages, j \in Index :
             w3.m.tab[u][j] = IF u = w3.table THEN Empty
                              ELSE IF u = k2 /\ j = SharedVa[3] THEN [page |-> w3.table, huge |-> FALSE]
                              ELSE m2.tab[u][j]
    BY ONLY <1>11, <2>1 DEF BootStepped
  <2> DEFINE x == w3.m
             k == w3.table
  <2>3. w.m = x /\ w.table = k
    BY <2>1
  <2>4. /\ Booting(x) /\ k \in Pages \ (m2.lent \cup Reserved)
        /\ x.lent = m2.lent \cup {k} /\ x.tlb = m2.tlb
        /\ \A u \in Pages, j \in Index :
             x.tab[u][j] = IF u = k THEN Empty
                           ELSE IF u = k2 /\ j = SharedVa[3] THEN [page |-> k, huge |-> FALSE]
                           ELSE m2.tab[u][j]
    BY <2>2
  <2> HIDE DEF x, k
  <2>5. Booting(w.m)
    BY ONLY <2>3, <2>4
  <2>6. ASSUME NEW u \in Pages, NEW j \in Index
        PROVE  w.m.tab[u][j] = IF u = w.table THEN Empty
                               ELSE IF u = k2 /\ j = SharedVa[3] THEN [page |-> w.table, huge |-> FALSE]
                               ELSE m2.tab[u][j]
    <3>1. x.tab[u][j] = IF u = k THEN Empty
                        ELSE IF u = k2 /\ j = SharedVa[3] THEN [page |-> k, huge |-> FALSE]
                        ELSE m2.tab[u][j]
      BY ONLY <2>4, u \in Pages, j \in Index
    <3> QED BY ONLY <2>3, <3>1
  <2>7. w.table \in Pages \ (m2.lent \cup Reserved) /\ w.m.lent = m2.lent \cup {w.table} /\ w.m.tlb = m2.tlb
    BY ONLY <2>3, <2>4
  <2> QED BY ONLY <2>5, <2>6, <2>7
<1> HIDE DEF m1, k1, m2, k2
<1>13. ChainOf(w.m, k1, k2, w.table)
  <2> DEFINE k3 == w.table
  <2>1. /\ k3 \in Pages \ Reserved /\ k3 # k1 /\ k3 # k2 /\ w.m.lent = {k1, k2, k3}
        /\ k3 # KernPml4 /\ k2 # KernPml4 /\ k1 # KernPml4
    BY <1>1, <1>8, <1>10, <1>12
  <2>2. ASSUME NEW p \in Pages, NEW i \in Index
        PROVE  w.m.tab[p][i] =
                 IF p = KernPml4 /\ i = SharedVa[1] THEN [page |-> k1, huge |-> FALSE]
                 ELSE IF p = k1 /\ i = SharedVa[2] THEN [page |-> k2, huge |-> FALSE]
                 ELSE IF p = k2 /\ i = SharedVa[3] THEN [page |-> k3, huge |-> FALSE]
                 ELSE Empty
    <3>1. m2.tab[p][i] = IF p = KernPml4 /\ i = SharedVa[1] THEN [page |-> k1, huge |-> FALSE]
                         ELSE IF p = k1 /\ i = SharedVa[2] THEN [page |-> k2, huge |-> FALSE]
                         ELSE Empty
      BY <1>10
    <3>2. w.m.tab[p][i] = IF p = k3 THEN Empty
                          ELSE IF p = k2 /\ i = SharedVa[3] THEN [page |-> k3, huge |-> FALSE]
                          ELSE m2.tab[p][i]
      BY <1>12
    <3> HIDE DEF k3
    <3> QED BY ONLY <1>10, <2>1, <3>1, <3>2
  <2> HIDE DEF k3
  <2> QED BY <1>8, <1>10, <2>1, <2>2 DEF ChainOf, k3
<1>14. w.index = SharedVa[4]
  BY <1>3, <1>5 DEF At
<1> QED BY <1>10, <1>12, <1>13, <1>14

\* The tables from kern_pml4 to pages[].
SharedChain(k1, k2, k3) ==
    /\ KernelTables = {k1, k2, k3}
    /\ k1 \in Pages \ Reserved /\ k2 \in Pages \ Reserved /\ k3 \in Pages \ Reserved
    /\ k1 # k2 /\ k1 # k3 /\ k2 # k3
    /\ \A p \in Pages, i \in Index :
         Booted.tab[p][i] =
           IF p = KernPml4 /\ i = SharedVa[1] THEN [page |-> k1, huge |-> FALSE]
           ELSE IF p = k1 /\ i = SharedVa[2] THEN [page |-> k2, huge |-> FALSE]
           ELSE IF p = k2 /\ i = SharedVa[3] THEN [page |-> k3, huge |-> FALSE]
           ELSE IF p = k3 /\ i = SharedVa[4] THEN [page |-> PagesArray, huge |-> FALSE]
           ELSE Empty

\* What the boot leaves if it finds pages for the tables.
BootOK ==
    /\ Booted \in [fl : FreeList, ref : [Pages -> 0..MaxRef], lent : SUBSET Pages,
                   tab : [Pages -> [Index -> Entry]], root : {NULL}, tlb : {{}}]
    /\ Good(Booted.fl, KernelTables)
    /\ \A p \in Pages : Booted.ref[p] = IF p \in KernelTables THEN 1 ELSE 0
    /\ \E k1, k2, k3 : SharedChain(k1, k2, k3)

\* It does, or the kernel panics.
LEMMA BootWell == ASSUME ~Booted.fl.panic PROVE BootOK
<1> DEFINE m0 == [fl |-> page_init, ref |-> [p \in Pages |-> 0], lent |-> {},
                  tab |-> [p \in Pages |-> NoEntries], root |-> NULL, tlb |-> {}]
           z == [m0 EXCEPT !.root = KernPml4]
           w == page_walk(z, SharedVa, "normal")
           n == [w.m EXCEPT !.root = NULL]
           e == [page |-> PagesArray, huge |-> FALSE]
<1>1. /\ KernPml4 \in Pages /\ PagesArray \in Pages /\ NULL \notin Pages
      /\ PagesArray \in Reserved /\ SharedVa[4] \in Index
  BY EnvironmentsAssumption, VmaUnmapAssumption, PageListAssumption
<1>2. /\ Booting(z) /\ z.root = KernPml4 /\ z.lent = {} /\ z.tlb = {}
      /\ \A p \in Pages, i \in Index : z.tab[p][i] = Empty
  <2>1. Good(page_init, {}) /\ page_init \in FreeList
    <3>1. Linked(page_init) /\ Tiled(page_init, InitialHeads)
      BY InitLinked, InitTiled
    <3>2. page_init.avail = InitialHeads /\ page_init.panic = FALSE
      BY DEF page_init
    <3> HIDE DEF m0
    <3>3. page_init.avail \cup {} = InitialHeads
      BY <3>2
    <3> QED BY <3>1, <3>2, <3>3 DEF Good, Linked
  <2>2. z = [fl |-> page_init, ref |-> [p \in Pages |-> 0], lent |-> {},
             tab |-> [p \in Pages |-> NoEntries], root |-> KernPml4, tlb |-> {}]
    OBVIOUS
  <2>3. NoEntries \in [Index -> [page : Ptr, huge : BOOLEAN]]
    BY DEF NoEntries, Empty, Ptr
  <2>4. 0 \in 0..MaxRef
    BY Bounds
  <2> HIDE DEF z
  <2>5. z \in Memory
    BY <1>1, <2>1, <2>2, <2>3, <2>4 DEF Memory
  <2>6. \A p \in Pages, i \in Index : z.tab[p][i] = Empty
    BY <2>2 DEF NoEntries
  <2> QED BY <2>1, <2>2, <2>5, <2>6 DEF Booting
<1>3. Booted = IF w.table = NULL THEN [n EXCEPT !.fl.panic = TRUE]
               ELSE SetEntry(n, w.table, w.index, e)
  <2>1. Booted = boot_map_region(m0, SharedVa, PagesArray) /\ m0.root = NULL
    BY DEF Booted
  <2> HIDE DEF m0
  <2> QED BY <2>1 DEF boot_map_region
<1> HIDE DEF z, w
<1>4. w.table # NULL
  <2> SUFFICES ASSUME w.table = NULL PROVE Booted.fl.panic
    OBVIOUS
  <2>1. Booted = [n EXCEPT !.fl.panic = TRUE]
    BY <1>3
  <2>2. w.m \in Memory
    BY <1>2, BootWalks DEF w
  <2>3. w.m.fl \in FreeList /\ w.m = [fl |-> w.m.fl, ref |-> w.m.ref, lent |-> w.m.lent,
                                    tab |-> w.m.tab, root |-> w.m.root, tlb |-> w.m.tlb]
    BY <2>2 DEF Memory
  <2>4. Booted.fl = [w.m.fl EXCEPT !.panic = TRUE]
    BY <2>1, <2>3
  <2> QED BY <2>3, <2>4 DEF FreeList
<1>5. w.m \in Memory /\ Booting(w.m) /\ w.m.tlb = {} /\ w.index = SharedVa[4]
  <2>1. Booting(w.m) /\ w.m.tlb = z.tlb /\ w.index = SharedVa[4]
    BY <1>2, <1>4, BootChain DEF w
  <2>2. w.m \in Memory
    BY <2>1 DEF Booting
  <2> QED BY ONLY <1>2, <2>1, <2>2
<1>6. PICK k1, k2 : ChainOf(w.m, k1, k2, w.table)
  BY <1>2, <1>4, BootChain DEF w
<1>7. /\ w.m.fl \in FreeList /\ w.m.ref \in [Pages -> 0..MaxRef] /\ w.m.lent \subseteq Pages
      /\ w.m.tab \in [Pages -> [Index -> Entry]]
      /\ w.m = [fl |-> w.m.fl, ref |-> w.m.ref, lent |-> w.m.lent,
                tab |-> w.m.tab, root |-> w.m.root, tlb |-> w.m.tlb]
  BY <1>5 DEF Memory, Entry
<1> DEFINE k3 == w.table
           b  == SetEntry(n, k3, w.index, e)
<1>8. /\ k1 \in Pages \ Reserved /\ k2 \in Pages \ Reserved /\ k3 \in Pages \ Reserved
      /\ k1 # k2 /\ k1 # k3 /\ k2 # k3 /\ w.m.lent = {k1, k2, k3}
  BY <1>6 DEF ChainOf
<1>9. /\ Booted = [fl |-> w.m.fl, ref |-> w.m.ref, lent |-> w.m.lent, root |-> NULL,
                  tab |-> [w.m.tab EXCEPT ![k3][SharedVa[4]] = e], tlb |-> {}]
  <2>1. Booted = [n EXCEPT !.tab[k3][SharedVa[4]] = e]
    BY <1>3, <1>4, <1>5 DEF SetEntry
  <2>2. n = [fl |-> w.m.fl, ref |-> w.m.ref, lent |-> w.m.lent, tab |-> w.m.tab, root |-> NULL,
             tlb |-> {}]
    <3>1. PICK f, c, l, t, r, x :
             w.m = [fl |-> f, ref |-> c, lent |-> l, tab |-> t, root |-> r, tlb |-> x]
      BY <1>7
    <3>2. n = [fl |-> f, ref |-> c, lent |-> l, tab |-> t, root |-> NULL, tlb |-> x]
      BY <3>1
    <3>3. w.m.fl = f /\ w.m.ref = c /\ w.m.lent = l /\ w.m.tab = t /\ w.m.tlb = x
      BY <3>1
    <3> HIDE DEF n
    <3> QED BY <1>5, <3>2, <3>3
  <2> HIDE DEF n, e
  <2> QED BY <2>1, <2>2
<1>10. /\ Booted.fl = w.m.fl /\ Booted.ref = w.m.ref /\ Booted.lent = w.m.lent
       /\ Booted.tab = [w.m.tab EXCEPT ![k3][SharedVa[4]] = e]
  BY <1>9
<1>11. e \in Entry
  BY <1>1 DEF Entry, Ptr
<1> HIDE DEF e, k3, n
<1>12. Booted.tab \in [Pages -> [Index -> Entry]]
  BY <1>1, <1>7, <1>8, <1>10, <1>11
<1>13. ASSUME NEW p \in Pages, NEW i \in Index
       PROVE  Booted.tab[p][i] = IF p = k3 /\ i = SharedVa[4] THEN e ELSE w.m.tab[p][i]
  BY <1>1, <1>7, <1>8, <1>10, <1>11
<1>14. SharedChain(k1, k2, k3)
  <2>1. ASSUME NEW p \in Pages, NEW i \in Index
        PROVE  Booted.tab[p][i] =
                 IF p = KernPml4 /\ i = SharedVa[1] THEN [page |-> k1, huge |-> FALSE]
                 ELSE IF p = k1 /\ i = SharedVa[2] THEN [page |-> k2, huge |-> FALSE]
                 ELSE IF p = k2 /\ i = SharedVa[3] THEN [page |-> k3, huge |-> FALSE]
                 ELSE IF p = k3 /\ i = SharedVa[4] THEN e
                 ELSE Empty
    <3>1. w.m.tab[p][i] = IF p = KernPml4 /\ i = SharedVa[1] THEN [page |-> k1, huge |-> FALSE]
                          ELSE IF p = k1 /\ i = SharedVa[2] THEN [page |-> k2, huge |-> FALSE]
                          ELSE IF p = k2 /\ i = SharedVa[3] THEN [page |-> k3, huge |-> FALSE]
                          ELSE Empty
      BY <1>6 DEF ChainOf, k3
    <3>2. KernPml4 # k3
      BY <1>8, EnvironmentsAssumption
    <3> QED BY <1>8, <1>13, <3>1, <3>2
  <2>2. KernelTables = {k1, k2, k3}
    BY <1>8, <1>10 DEF KernelTables
  <2> QED BY <1>8, <2>1, <2>2 DEF SharedChain, e
<1>15. Good(Booted.fl, KernelTables) /\ \A p \in Pages : Booted.ref[p] = IF p \in KernelTables THEN 1 ELSE 0
  BY <1>5, <1>10 DEF Booting, KernelTables
<1>16. Booted \in [fl : FreeList, ref : [Pages -> 0..MaxRef], lent : SUBSET Pages,
                   tab : [Pages -> [Index -> Entry]], root : {NULL}, tlb : {{}}]
  BY <1>7, <1>9, <1>10, <1>12
<1> QED BY <1>14, <1>15, <1>16 DEF BootOK

-----------------------------------------------------------------------------
(* The tables of an environment, and those it sees of the kernel.            *)

\* What no entry of the environment's own tables may change or lead to.
Kernels == KernelTables \cup {KernPml4}

\* The environment's own tables are those of o.  In memory are the kernel's as well, and
\* the upper entries of the root lead to them.
Mine(o, p, i) == p \notin Kernels /\ (p = o.root => i < UserTop)
SharedEntry(p, i) == IF p \in Kernels THEN Booted.tab[p][i] ELSE Booted.tab[KernPml4][i]
SeesTables(m, o) ==
    /\ m \in Memory /\ o \in Memory
    /\ m.lent = o.lent /\ m.root = o.root /\ m.tlb = o.tlb
    /\ \A p \in Pages : m.ref[p] = IF p \in KernelTables THEN 1 ELSE o.ref[p]
    /\ \A p \in Pages, i \in Index :
         m.tab[p][i] = IF Mine(o, p, i) THEN o.tab[p][i] ELSE SharedEntry(p, i)
Sees(m, o) == SeesTables(m, o) /\ m.fl = o.fl

\* The own tables are a tree that maps small pages, and the kernel's are none of it.
OwnTree(o, T, way) ==
    /\ State(o, T, way) /\ SmallLeaves(Leaves(o, T, way))
    /\ KernelTables \subseteq Unmapped(o, T, way)

\* An own table says the same in both, and does not lead to the kernel's.
LEMMA OwnTables2 ==
  ASSUME NEW o, NEW T, NEW way, OwnTree(o, T, way)
  PROVE  /\ T \subseteq Pages \ Kernels /\ o.root \in T /\ KernelTables \subseteq o.lent
         /\ KernPml4 \notin o.lent
         /\ \A t \in T, i \in Index : o.tab[t][i].page \notin Kernels
<1>1. /\ State(o, T, way) /\ KernelTables \subseteq (o.lent \ T) \ PagesOf(Leaves(o, T, way))
  BY DEF OwnTree, Unmapped
<1>2. /\ T \subseteq o.lent /\ T \subseteq Pages /\ o.root \in T /\ Good(o.fl, o.lent)
      /\ Tree(o, T, way)
  BY <1>1, Parts
<1>3. KernPml4 \notin o.lent
  BY <1>2, NotReserved, EnvironmentsAssumption
<1>4. ASSUME NEW t \in T, NEW i \in Index PROVE o.tab[t][i].page \notin Kernels
  <2>1. CASE ~Present(o.tab[t][i])
    <3>1. NULL \notin Kernels
      BY <1>1, <1>2, EnvironmentsAssumption, PageListAssumption DEF Kernels, Good
    <3> QED BY <2>1, <3>1 DEF Present
  <2>2. CASE Present(o.tab[t][i]) /\ IsLeaf(o, way, t, i)
    <3>1. o.tab[t][i].page \in o.lent
      BY <1>2, <2>2 DEF Tree, EntryOK
    <3>2. LeafRecord(o, way, t, i) \in Leaves(o, T, way)
      BY <1>1, <2>2, LeafRecords
    <3>3. o.tab[t][i].page \in PagesOf(Leaves(o, T, way))
      BY <3>2 DEF PagesOf, LeafRecord
    <3> QED BY <1>1, <1>3, <3>1, <3>3 DEF Kernels
  <2>3. CASE Present(o.tab[t][i]) /\ ~IsLeaf(o, way, t, i)
    <3>1. o.tab[t][i].page \in T
      BY <1>2, <2>3 DEF Tree, EntryOK
    <3> QED BY <1>1, <1>2, <1>3, <3>1 DEF Kernels
  <2> QED BY <2>1, <2>2, <2>3
<1> QED BY <1>1, <1>2, <1>3, <1>4 DEF Kernels

\* An address of the environment goes through own entries.
LEMMA OwnEntries ==
  ASSUME NEW o, NEW T, NEW way, OwnTree(o, T, way), NEW a \in Vas, NEW n \in 1..Depth,
         NEW t \in T, way[t] = Prefix(a, n - 1)
  PROVE  a[n] \in Index /\ Mine(o, t, a[n])
<1>1. State(o, T, way) /\ t \notin Kernels
  BY OwnTables2 DEF OwnTree
<1>2. Len(way[t]) = n - 1 /\ a[n] \in Index
  BY <1>1, OnTheWay
<1>3. ASSUME t = o.root PROVE a[n] < UserTop
  <2>1. way[t] = <<>>
    BY <1>1, <1>3, Parts DEF Tree
  <2>2. n = 1
    <3>1. Depth \in Nat
      BY Bounds
    <3> QED BY <1>2, <2>1, <3>1
  <2> QED BY <2>2, EnvironmentsAssumption
<1> QED BY <1>1, <1>2, <1>3 DEF Mine

\* An entry that is the environment's own says the same in both.
LEMMA SameEntry ==
  ASSUME NEW m, NEW o, SeesTables(m, o), NEW p \in Pages, NEW i \in Index, Mine(o, p, i)
  PROVE  m.tab[p][i] = o.tab[p][i]
BY DEF SeesTables

-----------------------------------------------------------------------------
(* Both change in the same way. *)

\* A page that page_alloc found is neither the kernel's nor the root.
LEMMA NewIsMine ==
  ASSUME NEW o, NEW T, NEW way, OwnTree(o, T, way), NEW k \in BOOLEAN, NEW r, AllocatedBy(o, T, r, k)
  PROVE  r.page \in Pages \ Kernels /\ r.page # o.root
<1>1. /\ r.page \in Pages \ o.lent /\ Good(r.fl, o.lent \cup {r.page})
  BY DEF AllocatedBy
<1>2. r.page \notin Reserved
  <2>1. (o.lent \cup {r.page}) \cap Reserved = {}
    BY <1>1, NotReserved
  <2> QED BY <2>1
<1>3. State(o, T, way) /\ T \subseteq o.lent /\ o.root \in T /\ KernelTables \subseteq o.lent
  BY OwnTables2, Parts DEF OwnTree
<1> QED BY <1>1, <1>2, <1>3, EnvironmentsAssumption DEF Kernels

\* A table is added.
LEMMA SeesAdded ==
  ASSUME NEW m, NEW o, Sees(m, o), NEW T, NEW way, OwnTree(o, T, way), NEW r,
         AllocatedBy(o, T, r, FALSE), NEW t \in T, NEW i \in Index, Mine(o, t, i),
         NEW m2 \in Memory, AddsTable(m, m2, t, i, r), NEW o2 \in Memory, AddsTable(o, o2, t, i, r)
  PROVE  Sees(m2, o2)
<1>1. r.page \in Pages \ Kernels /\ r.page # o.root
  <2>1. FALSE \in BOOLEAN
    OBVIOUS
  <2> QED BY <2>1, NewIsMine
<1>2. t \in Pages
  BY OwnTables2
<1>3. /\ m2.fl = o2.fl /\ m2.lent = o2.lent /\ m2.root = o2.root /\ m2.tlb = o2.tlb
      /\ o2.root = o.root
  BY DEF Sees, SeesTables, AddsTable
<1>4. ASSUME NEW p \in Pages PROVE m2.ref[p] = IF p \in KernelTables THEN 1 ELSE o2.ref[p]
  BY <1>1 DEF Sees, SeesTables, AddsTable, Kernels
<1>5. ASSUME NEW p \in Pages, NEW j \in Index
      PROVE  m2.tab[p][j] = IF Mine(o2, p, j) THEN o2.tab[p][j] ELSE SharedEntry(p, j)
  <2>1. Mine(o2, p, j) <=> Mine(o, p, j)
    BY <1>3 DEF Mine
  <2>2. m2.tab[p][j] = IF p = r.page THEN Empty
                       ELSE IF p = t /\ j = i THEN [page |-> r.page, huge |-> FALSE]
                       ELSE m.tab[p][j]
    BY ONLY AddsTable(m, m2, t, i, r), p \in Pages, j \in Index DEF AddsTable
  <2>3. o2.tab[p][j] = IF p = r.page THEN Empty
                       ELSE IF p = t /\ j = i THEN [page |-> r.page, huge |-> FALSE]
                       ELSE o.tab[p][j]
    BY ONLY AddsTable(o, o2, t, i, r), p \in Pages, j \in Index DEF AddsTable
  <2>4. m.tab[p][j] = IF Mine(o, p, j) THEN o.tab[p][j] ELSE SharedEntry(p, j)
    BY DEF Sees, SeesTables
  <2>5. Mine(o, r.page, j)
    BY <1>1 DEF Mine
  <2> QED BY <2>1, <2>2, <2>3, <2>4, <2>5
<1> QED BY <1>3, <1>4, <1>5 DEF Sees, SeesTables

\* A leaf is entered.
LEMMA SeesMapped ==
  ASSUME NEW m, NEW o, Sees(m, o), NEW t \in Pages, NEW i \in Index, Mine(o, t, i),
         NEW e, e.page \in Pages \ Kernels, NEW at,
         NEW m2 \in Memory, AddsLeaf(m, m2, t, i, e, at), NEW o2 \in Memory, AddsLeaf(o, o2, t, i, e, at)
  PROVE  Sees(m2, o2)
<1>1. /\ m2.fl = o2.fl /\ m2.lent = o2.lent /\ m2.root = o2.root /\ m2.tlb = o2.tlb
      /\ o2.root = o.root
  BY DEF Sees, SeesTables, AddsLeaf
<1>2. ASSUME NEW p \in Pages PROVE m2.ref[p] = IF p \in KernelTables THEN 1 ELSE o2.ref[p]
  BY DEF Sees, SeesTables, AddsLeaf, Kernels
<1>3. ASSUME NEW p \in Pages, NEW j \in Index
      PROVE  m2.tab[p][j] = IF Mine(o2, p, j) THEN o2.tab[p][j] ELSE SharedEntry(p, j)
  <2>1. Mine(o2, p, j) <=> Mine(o, p, j)
    BY <1>1 DEF Mine
  <2>2. /\ m2.tab[p][j] = IF p = t /\ j = i THEN e ELSE m.tab[p][j]
        /\ o2.tab[p][j] = IF p = t /\ j = i THEN e ELSE o.tab[p][j]
    BY DEF AddsLeaf
  <2>3. m.tab[p][j] = IF Mine(o, p, j) THEN o.tab[p][j] ELSE SharedEntry(p, j)
    BY DEF Sees, SeesTables
  <2> QED BY <2>1, <2>2, <2>3
<1> QED BY <1>1, <1>2, <1>3 DEF Sees, SeesTables

\* A leaf is dropped.
LEMMA SeesDropped ==
  ASSUME NEW m, NEW o, Sees(m, o), NEW t \in Pages, NEW i \in Index, Mine(o, t, i), NEW a,
         o.tab[t][i].page \in Pages \ Kernels,
         NEW m2 \in Memory, DropsLeaf(m, m2, t, i, a), NEW o2 \in Memory, DropsLeaf(o, o2, t, i, a)
  PROVE  Sees(m2, o2)
<1> DEFINE q == o.tab[t][i].page
<1>1. m.tab[t][i].page = q /\ m.ref[q] = o.ref[q] /\ q \notin KernelTables
  BY SameEntry DEF Sees, SeesTables, Kernels
<1> HIDE DEF q
<1>2. /\ m2.root = o2.root /\ m2.tlb = o2.tlb /\ o2.root = o.root
  BY DEF Sees, SeesTables, DropsLeaf
<1>3. m2.fl = o2.fl /\ m2.lent = o2.lent
  <2>1. /\ o.ref[q] = 1 => o2.fl = page_free(o.fl, 0, q) /\ o2.lent = o.lent \ {q}
        /\ o.ref[q] # 1 => o2.fl = o.fl /\ o2.lent = o.lent
    BY DEF DropsLeaf, q
  <2>2. /\ m.ref[q] = 1 => m2.fl = page_free(m.fl, 0, q) /\ m2.lent = m.lent \ {q}
        /\ m.ref[q] # 1 => m2.fl = m.fl /\ m2.lent = m.lent
    BY <1>1 DEF DropsLeaf
  <2>3. m.fl = o.fl /\ m.lent = o.lent
    BY DEF Sees, SeesTables
  <2> QED BY <1>1, <2>1, <2>2, <2>3
<1>4. ASSUME NEW p \in Pages PROVE m2.ref[p] = IF p \in KernelTables THEN 1 ELSE o2.ref[p]
  <2>1. m2.ref[p] = IF p = q THEN m.ref[p] - 1 ELSE m.ref[p]
    BY <1>1 DEF DropsLeaf
  <2>2. o2.ref[p] = IF p = q THEN o.ref[p] - 1 ELSE o.ref[p]
    BY DEF DropsLeaf, q
  <2>3. m.ref[p] = IF p \in KernelTables THEN 1 ELSE o.ref[p]
    BY DEF Sees, SeesTables
  <2> QED BY <1>1, <2>1, <2>2, <2>3
<1>5. ASSUME NEW p \in Pages, NEW j \in Index
      PROVE  m2.tab[p][j] = IF Mine(o2, p, j) THEN o2.tab[p][j] ELSE SharedEntry(p, j)
  <2>1. Mine(o2, p, j) <=> Mine(o, p, j)
    BY <1>2 DEF Mine
  <2>2. /\ m2.tab[p][j] = IF p = t /\ j = i THEN Empty ELSE m.tab[p][j]
        /\ o2.tab[p][j] = IF p = t /\ j = i THEN Empty ELSE o.tab[p][j]
    BY DEF DropsLeaf
  <2>3. m.tab[p][j] = IF Mine(o, p, j) THEN o.tab[p][j] ELSE SharedEntry(p, j)
    BY DEF Sees, SeesTables
  <2> QED BY <2>1, <2>2, <2>3
<1> QED BY <1>2, <1>3, <1>4, <1>5 DEF Sees, SeesTables

\* A table is given back.
LEMMA SeesCleared ==
  ASSUME NEW m, NEW o, Sees(m, o), NEW t \in Pages, NEW i \in Index, Mine(o, t, i),
         o.tab[t][i].page \in Pages \ Kernels,
         NEW m2 \in Memory, DropsTable(m, m2, t, i), NEW o2 \in Memory, DropsTable(o, o2, t, i)
  PROVE  Sees(m2, o2)
<1> DEFINE q == o.tab[t][i].page
<1>1. m.tab[t][i].page = q /\ q \notin KernelTables
  BY SameEntry DEF Sees, Kernels
<1> HIDE DEF q
<1>2. /\ m2.root = o2.root /\ m2.tlb = o2.tlb /\ o2.root = o.root
      /\ m2.fl = o2.fl /\ m2.lent = o2.lent
  BY <1>1 DEF Sees, SeesTables, DropsTable, q
<1>3. ASSUME NEW p \in Pages PROVE m2.ref[p] = IF p \in KernelTables THEN 1 ELSE o2.ref[p]
  <2>1. m2.ref[p] = IF p = q THEN 0 ELSE m.ref[p]
    BY <1>1 DEF DropsTable
  <2>2. o2.ref[p] = IF p = q THEN 0 ELSE o.ref[p]
    BY DEF DropsTable, q
  <2>3. m.ref[p] = IF p \in KernelTables THEN 1 ELSE o.ref[p]
    BY DEF Sees, SeesTables
  <2> QED BY <1>1, <2>1, <2>2, <2>3
<1>4. ASSUME NEW p \in Pages, NEW j \in Index
      PROVE  m2.tab[p][j] = IF Mine(o2, p, j) THEN o2.tab[p][j] ELSE SharedEntry(p, j)
  <2>1. Mine(o2, p, j) <=> Mine(o, p, j)
    BY <1>2 DEF Mine
  <2>2. /\ m2.tab[p][j] = IF p = t /\ j = i THEN Empty ELSE m.tab[p][j]
        /\ o2.tab[p][j] = IF p = t /\ j = i THEN Empty ELSE o.tab[p][j]
    BY DEF DropsTable
  <2>3. m.tab[p][j] = IF Mine(o, p, j) THEN o.tab[p][j] ELSE SharedEntry(p, j)
    BY DEF Sees, SeesTables
  <2> QED BY <2>1, <2>2, <2>3
<1> QED BY <1>2, <1>3, <1>4 DEF Sees, SeesTables

-----------------------------------------------------------------------------
(* Walks. *)

\* More tables: the tree is still the environment's own.
LEMMA OwnGrown ==
  ASSUME NEW o, NEW T, NEW way, OwnTree(o, T, way), NEW o2, NEW T2, NEW way2,
         State(o2, T2, way2), Grown(o, T, way, o2, T2, way2)
  PROVE  OwnTree(o2, T2, way2)
<1>1. Leaves(o2, T2, way2) = Leaves(o, T, way) /\ o2.lent \ T2 = o.lent \ T
  BY DEF Grown
<1>2. Unmapped(o2, T2, way2) = Unmapped(o, T, way)
  BY <1>1 DEF Unmapped
<1> QED BY <1>1, <1>2 DEF OwnTree

\* What page_alloc finds for one it finds for the other.
LEMMA AllocatedToo ==
  ASSUME NEW m, NEW o, Sees(m, o), NEW T, NEW way, OwnTree(o, T, way),
         page_alloc(o.fl, FALSE).page # NULL
  PROVE  /\ AllocatedBy(o, T, page_alloc(o.fl, FALSE), FALSE)
         /\ AllocatedBy(m, {}, page_alloc(m.fl, FALSE), FALSE)
         /\ page_alloc(m.fl, FALSE) = page_alloc(o.fl, FALSE)
<1> DEFINE r == page_alloc(o.fl, FALSE)
<1>1. AllocatedBy(o, T, r, FALSE)
  <2>1. \A k \in BOOLEAN : page_alloc(o.fl, k).page # NULL => AllocatedBy(o, T, page_alloc(o.fl, k), k)
    BY Allocated DEF OwnTree
  <2> QED BY <2>1
<1>2. m.fl = o.fl /\ m.lent = o.lent /\ page_alloc(m.fl, FALSE) = r
  BY DEF Sees, SeesTables
<1> HIDE DEF r
<1>3. r.page \notin KernelTables
  <2>1. FALSE \in BOOLEAN
    OBVIOUS
  <2> QED BY <1>1, <2>1, NewIsMine DEF Kernels
<1>4. m.ref[r.page] = 0
  BY <1>1, <1>3 DEF AllocatedBy, Sees, SeesTables
<1>5. AllocatedBy(m, {}, r, FALSE)
  BY <1>1, <1>2, <1>4 DEF AllocatedBy
<1> QED BY <1>1, <1>2, <1>5 DEF r

\* Two walks that have gone the same way.
Both(wm, wo, a, n) ==
    /\ wm = [m |-> wm.m, table |-> wm.table] /\ wo = [m |-> wo.m, table |-> wo.table]
    /\ wm.table = wo.table /\ Sees(wm.m, wo.m)
    /\ \E T, way : /\ OwnTree(wo.m, T, way)
                   /\ wo.table # NULL => wo.table \in T /\ way[wo.table] = Prefix(a, n)

\* A new table on the way.
LEMMA BothCreate ==
  ASSUME NEW m, NEW o, Sees(m, o), NEW T, NEW way, OwnTree(o, T, way), NEW a \in Vas,
         NEW n \in 1..(Depth - 1), NEW t \in T, way[t] = Prefix(a, n - 1), NEW i, i = a[n],
         ~Present(o.tab[t][i]),
         NEW wm, wm = entry_in_table([m |-> m, table |-> t], i, TRUE),
         NEW wo, wo = entry_in_table([m |-> o, table |-> t], i, TRUE)
  PROVE  Both(wm, wo, a, n)
<1> DEFINE r == page_alloc(o.fl, FALSE)
           wm0 == [m |-> m, table |-> t]
           wo0 == [m |-> o, table |-> t]
<1>1. /\ i \in Index /\ Mine(o, t, i) /\ State(o, T, way) /\ t \in Pages
      /\ m.fl = o.fl /\ m \in Memory /\ o \in Memory /\ T \subseteq o.lent
  <2>1. n \in 1..Depth
    BY Bounds
  <2> QED BY <2>1, OwnEntries, OwnTables2, Parts DEF OwnTree, Sees, SeesTables
<1>2. ~Present(m.tab[t][i])
  BY <1>1, SameEntry DEF Sees
<1>3. wm = AddTable(wm0, i, r) /\ wo = AddTable(wo0, i, r)
  BY <1>1, <1>2, CreatingStep
<1>4. WalkTo(o, T, way, a, n, wo)
  <2>1. ~IsLeaf(o, way, t, i)
    BY DEF IsLeaf
  <2> QED BY <1>1, <2>1, CreateStep
<1>5. PICK T2, way2 : /\ OwnTree(wo.m, T2, way2)
                      /\ wo.table # NULL => wo.table \in T2 /\ way2[wo.table] = Prefix(a, n)
  BY <1>4, OwnGrown DEF WalkTo
<1>6. wo = [m |-> wo.m, table |-> wo.table]
  BY <1>4 DEF WalkTo
<1>7. CASE r.page = NULL
  <2>1. wm = [wm0 EXCEPT !.table = NULL] /\ wo = [wo0 EXCEPT !.table = NULL]
    BY <1>3, <1>7 DEF AddTable
  <2>2. wm0 = [m |-> m, table |-> t] /\ wo0 = [m |-> o, table |-> t]
    OBVIOUS
  <2> HIDE DEF wm0, wo0
  <2>3. wm.m = m /\ wo.m = o /\ wm.table = NULL /\ wo.table = NULL /\ wm = [m |-> wm.m, table |-> wm.table]
    BY <2>1, <2>2
  <2> QED BY <1>5, <1>6, <2>3 DEF Both
<1>8. CASE r.page # NULL
  <2>1. AllocatedBy(o, T, r, FALSE) /\ AllocatedBy(m, {}, r, FALSE)
    BY <1>1, <1>8, AllocatedToo
  <2> HIDE DEF r
  <2>2. t # r.page
    BY <1>1, <2>1 DEF AllocatedBy
  <2> DEFINE xm == AddTable(wm0, i, r)
             xo == AddTable(wo0, i, r)
  <2>3. xm.m \in Memory /\ AddsTable(m, xm.m, t, i, r) /\ xm.table = r.page
    BY <1>1, <2>1, <2>2, AddTableFields
  <2>4. xo.m \in Memory /\ AddsTable(o, xo.m, t, i, r) /\ xo.table = r.page
    BY <1>1, <2>1, <2>2, AddTableFields
  <2>5. xm = [m |-> xm.m, table |-> xm.table]
    <3> DEFINE x == [m EXCEPT !.fl = r.fl, !.lent = @ \cup {r.page}, !.ref[r.page] = @ + 1,
                              !.tab[r.page] = NoEntries,
                              !.tab[t][i] = [page |-> r.page, huge |-> FALSE]]
    <3>1. xm = [m |-> x, table |-> r.page]
      BY <1>8 DEF AddTable
    <3> HIDE DEF x, xm
    <3> QED BY <3>1
  <2> HIDE DEF xm, xo
  <2>6. Sees(xm.m, xo.m)
    BY <1>1, <2>1, <2>3, <2>4, SeesAdded
  <2>7. wm = xm /\ wo = xo
    BY <1>3 DEF xm, xo
  <2>8. wm.table = wo.table /\ Sees(wm.m, wo.m) /\ wm = [m |-> wm.m, table |-> wm.table]
    BY <2>3, <2>4, <2>5, <2>6, <2>7
  <2> QED BY <1>5, <1>6, <2>8 DEF Both
<1> QED BY <1>7, <1>8

\* One step down.
LEMMA BothStep ==
  ASSUME NEW wm, NEW wo, NEW a \in Vas, NEW n \in 1..(Depth - 1), Both(wm, wo, a, n - 1),
         NEW create \in BOOLEAN
  PROVE  Both(DescendFrom(wm, a[n], create), DescendFrom(wo, a[n], create), a, n)
<1> DEFINE m == wm.m
           o == wo.m
           t == wo.table
           i == a[n]
           xm == DescendFrom(wm, i, create)
           xo == DescendFrom(wo, i, create)
<1>1. /\ wm = [m |-> m, table |-> t] /\ wo = [m |-> o, table |-> t] /\ wm.table = t /\ Sees(m, o)
  BY DEF Both
<1>2. PICK T, way : OwnTree(o, T, way) /\ (t # NULL => t \in T /\ way[t] = Prefix(a, n - 1))
  BY DEF Both
<1>3. CASE t = NULL
  <2>1. xm = wm /\ xo = wo
    BY <1>1, <1>3 DEF DescendFrom
  <2>2. Both(wm, wo, a, n)
    <3> HIDE DEF m, o, t, i, xm, xo
    <3> QED BY <1>1, <1>2, <1>3 DEF Both, m, o, t
  <2> HIDE DEF xm, xo
  <2>3. Both(xm, xo, a, n)
    BY ONLY <2>1, <2>2
  <2> QED BY <2>3 DEF xm, xo, i
<1>4. CASE t # NULL
  <2>1. /\ xm = entry_in_table([m |-> m, table |-> t], i, create)
        /\ xo = entry_in_table([m |-> o, table |-> t], i, create)
    BY <1>1, <1>4 DEF DescendFrom
  <2> HIDE DEF m, o, t, i, xm, xo
  <2>2. /\ t \in T /\ way[t] = Prefix(a, n - 1) /\ State(o, T, way) /\ t \in Pages
    BY <1>2, <1>4, Parts DEF OwnTree
  <2>3. i \in Index /\ Mine(o, t, i) /\ Len(way[t]) = n - 1 /\ n - 1 < Depth - 1 /\ n \in 1..Depth
    <3>1. n \in 1..Depth /\ n - 1 < Depth - 1
      BY Bounds
    <3>2. i = a[n]
      BY DEF i
    <3> QED BY <1>2, <2>2, <3>1, <3>2, OwnEntries, OnTheWay
  <2>4. m.tab[t][i] = o.tab[t][i]
    BY <1>1, <2>2, <2>3, SameEntry DEF Sees
  <2>5. CASE Present(o.tab[t][i])
    <3> DEFINE q == o.tab[t][i].page
    <3>1. xm = [m |-> m, table |-> q] /\ xo = [m |-> o, table |-> q]
      <4>1. CASE create = TRUE
        BY <2>1, <2>4, <2>5, <4>1, CreatingStep
      <4>2. CASE create = FALSE
        BY <2>1, <2>4, <2>5, <4>2, LookupStep
      <4> QED BY <4>1, <4>2
    <3>2. q \in T /\ ~IsLeaf(o, way, t, i)
      BY <1>2, <2>2, <2>3, <2>5, NoHugeLeaf DEF OwnTree
    <3>3. way[q] = Append(way[t], i)
      <4>1. EntryOK(o, T, way, t, i)
        <5>1. Tree(o, T, way)
          BY <2>2, Parts DEF OwnTree
        <5> QED BY ONLY <2>2, <2>3, <2>5, <5>1 DEF Tree
      <4> QED BY ONLY <3>2, <4>1 DEF EntryOK
    <3>4. Prefix(a, n) = Append(Prefix(a, n - 1), a[n])
      BY <2>2, <2>3, OnTheWay, PrefixStep
    <3>5. way[q] = Prefix(a, n)
      BY <2>2, <3>3, <3>4 DEF i
    <3> HIDE DEF q
    <3>6. /\ xm.m = m /\ xo.m = o /\ xm.table = q /\ xo.table = q
          /\ xm = [m |-> xm.m, table |-> xm.table] /\ xo = [m |-> xo.m, table |-> xo.table]
      BY <3>1
    <3>7. OwnTree(xo.m, T, way) /\ xo.table \in T /\ way[xo.table] = Prefix(a, n) /\ Sees(xm.m, xo.m)
      BY <1>1, <1>2, <3>2, <3>5, <3>6
    <3>8. xm.table = xo.table
      BY <3>6
    <3>9. Both(xm, xo, a, n)
      BY ONLY <3>6, <3>7, <3>8 DEF Both
    <3> QED BY <3>9 DEF xm, xo, i
  <2>6. CASE ~Present(o.tab[t][i]) /\ ~create
    <3>1. xm = [m |-> m, table |-> NULL] /\ xo = [m |-> o, table |-> NULL]
      <4>1. create = FALSE
        BY <2>6
      <4> QED BY <2>1, <2>4, <2>6, <4>1, LookupStep
    <3>2. /\ xm.m = m /\ xo.m = o /\ xm.table = NULL /\ xo.table = NULL
          /\ xm = [m |-> xm.m, table |-> xm.table] /\ xo = [m |-> xo.m, table |-> xo.table]
      BY <3>1
    <3>3. OwnTree(xo.m, T, way) /\ Sees(xm.m, xo.m)
      BY <1>1, <1>2, <3>2
    <3>4. Both(xm, xo, a, n)
      BY ONLY <3>2, <3>3 DEF Both
    <3> QED BY <3>4 DEF xm, xo, i
  <2>7. CASE ~Present(o.tab[t][i]) /\ create
    <3>1. create = TRUE /\ i = a[n]
      BY <2>7 DEF i
    <3>2. Both(xm, xo, a, n)
      BY <1>1, <1>2, <2>1, <2>2, <2>7, <3>1, BothCreate
    <3> QED BY <3>2 DEF xm, xo, i
  <2> QED BY <2>5, <2>6, <2>7
<1> QED BY <1>3, <1>4

\* There are two steps to the directory.
LEMMA DescendTwo ==
  ASSUME NEW w, NEW a, NEW create
  PROVE  Descend(w, a, create) = DescendFrom(DescendFrom(w, a[1], create), a[2], create)
<1>1. Depth - 2 = 2
  BY VmaUnmapAssumption
<1>2. PICK f : IsDescent(f, w, a, create) /\ Descend(w, a, create) = f[Depth - 2]
  BY DescentExists
<1>3. f[0] = w /\ \A n \in 1..2 : f[n] = DescendFrom(f[n - 1], a[n], create)
  BY <1>1, <1>2 DEF IsDescent
<1>4. 1 \in 1..2 /\ 2 \in 1..2 /\ 1 - 1 = 0 /\ 2 - 1 = 1
  OBVIOUS
<1>5. f[1] = DescendFrom(f[1 - 1], a[1], create) /\ f[2] = DescendFrom(f[2 - 1], a[2], create)
  BY <1>3, <1>4
<1> QED BY <1>1, <1>2, <1>3, <1>4, <1>5

\* The walks down to the directory.
LEMMA BothDescend ==
  ASSUME NEW m, NEW o, Sees(m, o), NEW T, NEW way, OwnTree(o, T, way), NEW a \in Vas,
         NEW create \in BOOLEAN
  PROVE  Both(Descend([m |-> m, table |-> m.root], a, create),
              Descend([m |-> o, table |-> o.root], a, create), a, 2)
<1> DEFINE wm == [m |-> m, table |-> m.root]
           wo == [m |-> o, table |-> o.root]
           xm == DescendFrom(wm, a[1], create)
           xo == DescendFrom(wo, a[1], create)
<1>1. /\ 1 \in 1..(Depth - 1) /\ 2 \in 1..(Depth - 1) /\ 1 - 1 = 0 /\ 2 - 1 = 1
  BY VmaUnmapAssumption
<1>2. o.root \in T /\ way[o.root] = Prefix(a, 0) /\ m.root = o.root
  BY OwnTables2, Parts, PrefixEnds, PageTablesAssumption DEF OwnTree, Tree, Sees, SeesTables, Address
<1>3. Both(wm, wo, a, 0)
  <2>1. /\ wm.m = m /\ wo.m = o /\ wm.table = o.root /\ wo.table = o.root
        /\ wm = [m |-> wm.m, table |-> wm.table] /\ wo = [m |-> wo.m, table |-> wo.table]
    BY <1>2
  <2> HIDE DEF wm, wo
  <2> QED BY <1>2, <2>1 DEF Both
<1> HIDE DEF wm, wo
<1>4. Both(xm, xo, a, 1)
  BY <1>1, <1>3, BothStep
<1> HIDE DEF xm, xo
<1>5. Both(DescendFrom(xm, a[2], create), DescendFrom(xo, a[2], create), a, 2)
  BY <1>1, <1>4, BothStep
<1> QED BY <1>5, DescendTwo DEF xm, xo, wm, wo

\* Two walks that have ended in the same place, in a page table.
PlaceBoth(wm, wo, a) ==
    /\ wm.table = wo.table /\ wm.index = wo.index /\ Sees(wm.m, wo.m)
    /\ \E T, way : /\ OwnTree(wo.m, T, way)
                   /\ wo.table # NULL => /\ wo.table \in T /\ way[wo.table] = Prefix(a, 3)
                                         /\ wo.index = a[4]

\* They have ended nowhere.
LEMMA BothNowhere ==
  ASSUME NEW wm, NEW wo, NEW a, NEW T, NEW way, Sees(wm.m, wo.m), OwnTree(wo.m, T, way),
         wm.table = NULL, wo.table = NULL, wm.index = wo.index
  PROVE  PlaceBoth(wm, wo, a)
BY DEF PlaceBoth

\* The last step is done.
LEMMA BothAt ==
  ASSUME NEW xm, NEW xo, NEW a \in Vas, Both(xm, xo, a, 3), NEW mode
  PROVE  PlaceBoth(Result(At(xm, a[4]), mode), Result(At(xo, a[4]), mode), a)
<1> DEFINE wm == At(xm, a[4])
           wo == At(xo, a[4])
<1>1. /\ xm.table = xo.table /\ Sees(xm.m, xo.m)
  BY DEF Both
<1>2. PICK T, way : /\ OwnTree(xo.m, T, way)
                    /\ xo.table # NULL => xo.table \in T /\ way[xo.table] = Prefix(a, 3)
  BY DEF Both
<1>3. /\ wm.m = xm.m /\ wm.table = xo.table /\ wm.index = a[4]
      /\ wo.m = xo.m /\ wo.table = xo.table /\ wo.index = a[4]
      /\ wm = [m |-> xm.m, table |-> xo.table, index |-> a[4]]
      /\ wo = [m |-> xo.m, table |-> xo.table, index |-> a[4]]
  BY <1>1 DEF At
<1> HIDE DEF wm, wo
<1>4. PlaceBoth(wm, wo, a)
  BY <1>1, <1>2, <1>3 DEF PlaceBoth
<1>5. PlaceBoth([wm EXCEPT !.table = NULL], [wo EXCEPT !.table = NULL], a)
  <2> DEFINE ym == [wm EXCEPT !.table = NULL]
             yo == [wo EXCEPT !.table = NULL]
  <2>1. ym.m = xm.m /\ yo.m = xo.m /\ ym.table = NULL /\ yo.table = NULL /\ ym.index = yo.index
    BY <1>3
  <2> HIDE DEF ym, yo
  <2>2. PlaceBoth(ym, yo, a)
    BY <1>1, <1>2, <2>1, BothNowhere
  <2> QED BY <2>2 DEF ym, yo
<1>6. xo.table # NULL => xm.m.tab[xo.table][a[4]] = xo.m.tab[xo.table][a[4]]
  <2> SUFFICES ASSUME xo.table # NULL PROVE xm.m.tab[xo.table][a[4]] = xo.m.tab[xo.table][a[4]]
    OBVIOUS
  <2>1. 4 \in 1..Depth /\ 4 - 1 = 3 /\ xo.table \in T /\ xo.table \in Pages
    BY <1>2, VmaUnmapAssumption, OwnTables2
  <2>2. a[4] \in Index /\ Mine(xo.m, xo.table, a[4])
    BY <1>2, <2>1, OwnEntries
  <2> QED BY <1>1, <2>1, <2>2, SameEntry DEF Sees
<1>7. \/ Result(wm, mode) = wm /\ Result(wo, mode) = wo
      \/ Result(wm, mode) = [wm EXCEPT !.table = NULL] /\ Result(wo, mode) = [wo EXCEPT !.table = NULL]
  BY <1>3, <1>6 DEF Result
<1> QED BY <1>4, <1>5, <1>7 DEF wm, wo

\* The whole walk.
LEMMA BothWalk ==
  ASSUME NEW m, NEW o, Sees(m, o), NEW T, NEW way, OwnTree(o, T, way), NEW a \in Vas,
         NEW mode \in {"lookup", "normal"}
  PROVE  PlaceBoth(page_walk(m, a, mode), page_walk(o, a, mode), a)
<1> DEFINE c == mode # "lookup"
           xm == Descend([m |-> m, table |-> m.root], a, c)
           xo == Descend([m |-> o, table |-> o.root], a, c)
<1>1. Both(xm, xo, a, 2)
  <2>1. c \in BOOLEAN
    OBVIOUS
  <2> HIDE DEF c
  <2> QED BY <2>1, BothDescend
<1>2. /\ page_walk(m, a, mode) = Result(LastStep(xm, a, mode), mode)
      /\ page_walk(o, a, mode) = Result(LastStep(xo, a, mode), mode)
  BY DEF page_walk
<1> HIDE DEF xm, xo
<1>3. /\ xm.table = xo.table /\ Sees(xm.m, xo.m)
  BY <1>1 DEF Both
<1>4. PICK T1, way1 : /\ OwnTree(xo.m, T1, way1)
                      /\ xo.table # NULL => xo.table \in T1 /\ way1[xo.table] = Prefix(a, 2)
  BY <1>1 DEF Both
<1>5. /\ Depth - 1 = 3 /\ Depth = 4 /\ mode # "huge"
      /\ 3 \in 1..Depth /\ 3 - 1 = 2 /\ 3 \in 1..(Depth - 1)
  BY VmaUnmapAssumption
<1>6. CASE xo.table = NULL
  <2> DEFINE ym == At(xm, a[3])
             yo == At(xo, a[3])
  <2>1. LastStep(xm, a, mode) = ym /\ LastStep(xo, a, mode) = yo
    BY <1>3, <1>5, <1>6 DEF LastStep
  <2>2. ym.m = xm.m /\ yo.m = xo.m /\ ym.table = NULL /\ yo.table = NULL /\ ym.index = yo.index
    BY <1>3, <1>6 DEF At
  <2> HIDE DEF ym, yo
  <2>3. Result(ym, mode) = ym /\ Result(yo, mode) = yo
    BY <2>2 DEF Result
  <2>4. PlaceBoth(ym, yo, a)
    BY <1>3, <1>4, <2>2, BothNowhere
  <2> QED BY <1>2, <2>1, <2>3, <2>4
<1>7. CASE xo.table # NULL
  <2>1. /\ xo.table \in T1 /\ way1[xo.table] = Prefix(a, 2) /\ xo.table \in Pages
        /\ State(xo.m, T1, way1) /\ SmallLeaves(Leaves(xo.m, T1, way1))
    BY <1>4, <1>7, OwnTables2 DEF OwnTree
  <2>2. a[3] \in Index /\ Mine(xo.m, xo.table, a[3])
    BY <1>4, <1>5, <2>1, OwnEntries
  <2>3. xm.m.tab[xo.table][a[3]] = xo.m.tab[xo.table][a[3]]
    BY <1>3, <2>1, <2>2, SameEntry DEF Sees
  <2> DEFINE e == xo.m.tab[xo.table][a[3]]
  <2>4. CASE mode = "lookup" /\ e.huge
    <3>1. ~Present(e)
      BY <2>1, <2>2, <2>4, NoHugeLeaf
    <3> DEFINE ym == At(xm, a[3])
               yo == At(xo, a[3])
    <3>2. LastStep(xm, a, mode) = ym /\ LastStep(xo, a, mode) = yo
      BY <1>3, <1>5, <2>3, <2>4 DEF LastStep
    <3>3. /\ ym = [m |-> xm.m, table |-> xo.table, index |-> a[3]]
          /\ yo = [m |-> xo.m, table |-> xo.table, index |-> a[3]]
      BY <1>3 DEF At
    <3> HIDE DEF ym, yo
    <3> DEFINE zm == Result(ym, mode)
               zo == Result(yo, mode)
    <3>4. zm = [ym EXCEPT !.table = NULL] /\ zo = [yo EXCEPT !.table = NULL]
      BY <1>7, <2>3, <2>4, <3>1, <3>3 DEF Result
    <3> HIDE DEF zm, zo
    <3>5. zm.m = xm.m /\ zo.m = xo.m /\ zm.table = NULL /\ zo.table = NULL /\ zm.index = zo.index
      BY <3>3, <3>4
    <3>6. PlaceBoth(zm, zo, a)
      BY <1>3, <1>4, <3>5, BothNowhere
    <3> QED BY <1>2, <3>2, <3>6 DEF zm, zo
  <2>5. CASE mode # "lookup" \/ ~e.huge
    <3> DEFINE ym == DescendFrom(xm, a[3], c)
               yo == DescendFrom(xo, a[3], c)
    <3>1. LastStep(xm, a, mode) = At(ym, a[4]) /\ LastStep(xo, a, mode) = At(yo, a[4])
      BY <1>3, <1>5, <1>7, <2>3, <2>5 DEF LastStep, DescendFrom
    <3>2. Both(ym, yo, a, 3)
      <4>1. c \in BOOLEAN /\ Both(xm, xo, a, 3 - 1)
        BY <1>1, <1>5
      <4> HIDE DEF c
      <4> QED BY <1>5, <4>1, BothStep
    <3> HIDE DEF ym, yo
    <3> QED BY <1>2, <3>1, <3>2, BothAt
  <2> QED BY <2>4, <2>5
<1> QED BY <1>6, <1>7

\* A lookup changes nothing, whatever the tables say.
LEMMA LookupKeeps ==
  ASSUME NEW m, NEW a
  PROVE  page_walk(m, a, "lookup").m = m
<1> DEFINE w0 == [m |-> m, table |-> m.root]
           x == Descend(w0, a, FALSE)
<1>1. ASSUME NEW t, NEW i
      PROVE  \E u : DescendFrom([m |-> m, table |-> t], i, FALSE) = [m |-> m, table |-> u]
  <2>1. CASE t = NULL
    BY <2>1 DEF DescendFrom
  <2>2. CASE t # NULL
    BY <2>2, LookupStep DEF DescendFrom
  <2> QED BY <2>1, <2>2
<1>2. PICK t : x = [m |-> m, table |-> t]
  <2>1. PICK u : DescendFrom(w0, a[1], FALSE) = [m |-> m, table |-> u]
    BY <1>1
  <2> HIDE DEF w0
  <2>2. x = DescendFrom([m |-> m, table |-> u], a[2], FALSE)
    BY <2>1, DescendTwo
  <2> QED BY <1>1, <2>2
<1>3. page_walk(m, a, "lookup") = Result(LastStep(x, a, "lookup"), "lookup")
  BY DEF page_walk
<1> HIDE DEF x
<1>4. \E u, j : LastStep(x, a, "lookup") = [m |-> m, table |-> u, index |-> j]
  <2> DEFINE i == a[Depth - 1]
  <2>1. PICK v : entry_in_table(x, i, FALSE) = [m |-> m, table |-> v]
    BY <1>2, LookupStep
  <2>2. \/ LastStep(x, a, "lookup") = At(x, i)
        \/ LastStep(x, a, "lookup") = At(entry_in_table(x, i, FALSE), a[Depth])
    BY DEF LastStep
  <2> HIDE DEF i
  <2>3. At(x, i) = [m |-> m, table |-> t, index |-> i]
    BY <1>2 DEF At
  <2> DEFINE z == entry_in_table(x, i, FALSE)
  <2>4. At(z, a[Depth]) = [m |-> m, table |-> v, index |-> a[Depth]]
    <3>1. z = [m |-> m, table |-> v]
      BY <2>1
    <3> HIDE DEF z
    <3>2. z.m = m /\ z.table = v
      BY <3>1
    <3> QED BY <3>2 DEF At
  <2> QED BY <2>2, <2>3, <2>4
<1>5. PICK u, j : LastStep(x, a, "lookup") = [m |-> m, table |-> u, index |-> j]
  BY <1>4
<1> DEFINE y == LastStep(x, a, "lookup")
<1> HIDE DEF y
<1>6. Result(y, "lookup") = y \/ Result(y, "lookup") = [y EXCEPT !.table = NULL]
  BY DEF Result
<1>7. y = [m |-> m, table |-> u, index |-> j]
  BY <1>5 DEF y
<1> QED BY <1>3, <1>6, <1>7 DEF y

-----------------------------------------------------------------------------
(* Calls. *)

\* A lookup finds the same.
LEMMA BothLookup ==
  ASSUME NEW m, NEW o, Sees(m, o), NEW T, NEW way, OwnTree(o, T, way), NEW a \in Vas
  PROVE  page_lookup(m, a) = page_lookup(o, a)
<1> DEFINE wm == page_walk(m, a, "lookup")
           wo == page_walk(o, a, "lookup")
<1>1. PlaceBoth(wm, wo, a)
  <2>1. "lookup" \in {"lookup", "normal"}
    OBVIOUS
  <2> QED BY <2>1, BothWalk
<1>2. page_lookup(m, a) = EntryAt(wm) /\ page_lookup(o, a) = EntryAt(wo)
  BY DEF page_lookup
<1> HIDE DEF wm, wo
<1>3. wm.table = wo.table /\ wm.index = wo.index /\ Sees(wm.m, wo.m)
  BY <1>1 DEF PlaceBoth
<1>4. PICK T1, way1 : /\ OwnTree(wo.m, T1, way1)
                      /\ wo.table # NULL => /\ wo.table \in T1 /\ way1[wo.table] = Prefix(a, 3)
                                            /\ wo.index = a[4]
  BY <1>1 DEF PlaceBoth
<1>5. CASE wo.table = NULL
  BY <1>2, <1>3, <1>5 DEF EntryAt
<1>6. CASE wo.table # NULL
  <2>1. 4 \in 1..Depth /\ 4 - 1 = 3 /\ wo.table \in T1 /\ wo.table \in Pages
    BY <1>4, <1>6, VmaUnmapAssumption, OwnTables2
  <2>2. a[4] \in Index /\ Mine(wo.m, wo.table, a[4])
    BY <1>4, <1>6, <2>1, OwnEntries
  <2>3. wm.m.tab[wo.table][a[4]] = wo.m.tab[wo.table][a[4]]
    BY <1>3, <2>1, <2>2, SameEntry DEF Sees
  <2> QED BY <1>2, <1>3, <1>4, <1>6, <2>3 DEF EntryAt
<1> QED BY <1>5, <1>6

\* page_remove unmaps the same.
LEMMA BothRemove ==
  ASSUME NEW m, NEW o, Sees(m, o), NEW T, NEW way, OwnTree(o, T, way), NEW a \in Vas
  PROVE  Sees(page_remove(m, a), page_remove(o, a))
<1> DEFINE wm == page_walk(m, a, "lookup")
           wo == page_walk(o, a, "lookup")
           xm == RemoveEntry(wm, a)
           xo == RemoveEntry(wo, a)
<1>1. PlaceBoth(wm, wo, a) /\ wm.m = m /\ wo.m = o
  <2>1. "lookup" \in {"lookup", "normal"}
    OBVIOUS
  <2> QED BY <2>1, BothWalk, LookupKeeps
<1>2. page_remove(m, a) = xm /\ page_remove(o, a) = xo
  BY DEF page_remove
<1>3. wo.table # NULL => LeafFor(o, T, way, wo.table, wo.index, a)
  BY Lookup DEF OwnTree
<1> HIDE DEF wm, wo
<1>4. wm.table = wo.table /\ wm.index = wo.index
  BY <1>1 DEF PlaceBoth
<1>5. PICK T1, way1 : /\ OwnTree(o, T1, way1)
                      /\ wo.table # NULL => /\ wo.table \in T1 /\ way1[wo.table] = Prefix(a, 3)
                                            /\ wo.index = a[4]
  BY <1>1 DEF PlaceBoth
<1>6. CASE wo.table = NULL
  BY <1>1, <1>2, <1>4, <1>6 DEF RemoveEntry
<1>7. CASE wo.table # NULL
  <2> DEFINE t == wo.table
             i == wo.index
             q == o.tab[t][i].page
  <2>1. 4 \in 1..Depth /\ 4 - 1 = 3 /\ t \in T1
    BY <1>5, <1>7, VmaUnmapAssumption
  <2>2. i \in Index /\ Mine(o, t, i)
    BY <1>5, <1>7, <2>1, OwnEntries
  <2>3. LeafFor(o, T, way, t, i, a) /\ State(o, T, way) /\ t \in T /\ t \in Pages
    BY <1>3, <1>7, Parts DEF OwnTree, LeafFor
  <2> HIDE DEF t, i
  <2>4. Present(o.tab[t][i]) /\ q \in o.lent /\ q \in Pages /\ q \notin Kernels
    <3>1. Present(o.tab[t][i])
      BY <2>3 DEF LeafFor, IsLeaf
    <3>2. q \in o.lent /\ o.lent \subseteq Pages
      BY <2>2, <2>3, <3>1, Parts DEF Tree, EntryOK
    <3> QED BY <2>2, <2>3, <3>1, <3>2, OwnTables2
  <2>5. o.ref[q] # 0
    <3>1. o.ref[q] > 0
      BY <2>2, <2>3, <2>4, InUse
    <3>2. o.ref \in [Pages -> 0..MaxRef]
      BY <2>3, Parts, Fields
    <3> QED BY <2>4, <3>1, <3>2, Bounds
  <2>6. FreedIn(o, q, page_free(o.fl, 0, q))
    BY <2>3, <2>4, Freed
  <2>7. /\ m \in Memory /\ o \in Memory /\ m.fl = o.fl /\ m.lent = o.lent /\ m.ref[q] = o.ref[q]
    BY <2>4 DEF Sees, SeesTables, Kernels
  <2>8. FreedIn(m, q, page_free(m.fl, 0, q))
    BY <2>6, <2>7 DEF FreedIn
  <2>9. m.tab[t][i].page = q
    BY <2>2, <2>3, SameEntry DEF Sees
  <2>10. wm.m = m /\ wm.table = t /\ wm.index = i /\ wo.m = o /\ wo.table = t /\ wo.index = i
    BY <1>1, <1>4 DEF t, i
  <2> HIDE DEF q, xm, xo
  <2>11. xo \in Memory /\ DropsLeaf(o, xo, t, i, a)
    BY <2>2, <2>3, <2>4, <2>5, <2>6, <2>7, <2>10, RemoveFields DEF q, xo
  <2>12. xm \in Memory /\ DropsLeaf(m, xm, t, i, a)
    BY <2>2, <2>3, <2>4, <2>5, <2>7, <2>8, <2>9, <2>10, RemoveFields DEF xm
  <2>13. Sees(xm, xo)
    BY <2>2, <2>3, <2>4, <2>11, <2>12, SeesDropped DEF q
  <2> QED BY <1>2, <2>13 DEF xm, xo
<1> QED BY <1>6, <1>7

\* Removing keeps the tree the environment's own.
LEMMA OwnRemoved ==
  ASSUME NEW o, NEW T, NEW way, OwnTree(o, T, way), NEW a \in Vas
  PROVE  OwnTree(page_remove(o, a), T, way)
<1> DEFINE n == page_remove(o, a)
<1>1. n = page_remove(o, a)
  OBVIOUS
<1> HIDE DEF n
<1>2. /\ State(n, T, way) /\ SmallLeaves(Leaves(n, T, way))
      /\ Unmapped(n, T, way) = Unmapped(o, T, way)
  BY <1>1, RemovesOne DEF OwnTree
<1>3. OwnTree(n, T, way)
  BY <1>2 DEF OwnTree
<1> QED BY <1>1, <1>3

\* A new small page is mapped in both, or in neither.
LEMMA BothInsert ==
  ASSUME NEW m, NEW o, Sees(m, o), NEW T, NEW way, OwnTree(o, T, way), NEW a \in Vas,
         NEW p \in o.lent \ T, p \notin o.fl.huge, o.ref[p] = 0, p \notin Kernels
  PROVE  Sees(page_insert(m, p, a), page_insert(o, p, a))
<1> DEFINE wm == page_walk(m, a, "normal")
           wo == page_walk(o, a, "normal")
           e == [page |-> p, huge |-> FALSE]
           xm == InsertEntry(wm, e, a)
           xo == InsertEntry(wo, e, a)
<1>1. page_insert(m, p, a) = xm /\ page_insert(o, p, a) = xo
  <2>1. p \notin m.fl.huge
    BY DEF Sees
  <2>2. (p \in m.fl.huge) = FALSE /\ (p \in o.fl.huge) = FALSE
    BY <2>1
  <2> QED BY <2>2 DEF page_insert
<1>2. PlaceBoth(wm, wo, a)
  <2>1. "normal" \in {"lookup", "normal"}
    OBVIOUS
  <2> QED BY <2>1, BothWalk
<1>3. State(o, T, way) /\ SmallLeaves(Leaves(o, T, way))
  BY DEF OwnTree
<1>4. PICK T2, way2 : /\ State(wo.m, T2, way2) /\ Grown(o, T, way, wo.m, T2, way2)
                      /\ wo.table # NULL => NewPlace(wo.m, T2, way2, wo, FALSE, a)
  <2>1. Fits(o, T, way, FALSE, a)
    <3>1. KindFits(o, p, a)
      BY <1>3, SmallFits
    <3>2. Fits(o, T, way, p \in o.fl.huge, a)
      BY <1>3, <3>1, KindsFit
    <3>3. (p \in o.fl.huge) = FALSE
      OBVIOUS
    <3> QED BY <3>2, <3>3
  <2>2. \A h \in BOOLEAN : Fits(o, T, way, h, a) =>
          LET w == page_walk(o, a, IF h THEN "huge" ELSE "normal")
          IN \E T2, way2 : /\ State(w.m, T2, way2) /\ Grown(o, T, way, w.m, T2, way2)
                           /\ w.table # NULL => NewPlace(w.m, T2, way2, w, h, a)
    BY <1>3, CreatingWalk
  <2> QED BY <2>1, <2>2
<1> HIDE DEF wm, wo
<1>5. wm.table = wo.table /\ wm.index = wo.index /\ Sees(wm.m, wo.m)
  BY <1>2 DEF PlaceBoth
<1>6. CASE wo.table = NULL
  BY <1>1, <1>5, <1>6 DEF InsertEntry
<1>7. CASE wo.table # NULL
  <2> DEFINE t == wo.table
             i == wo.index
             o1 == wo.m
             m1 == wm.m
             o3 == IF Present(EntryAt(wo)) THEN page_remove(o1, a) ELSE o1
             m3 == IF Present(EntryAt(wm)) THEN page_remove(m1, a) ELSE m1
  <2>1. OwnTree(o1, T2, way2) /\ State(o1, T2, way2) /\ NewPlace(o1, T2, way2, wo, FALSE, a)
    BY <1>4, <1>7, OwnGrown
  <2>2. PICK T1, way1 : OwnTree(o1, T1, way1) /\ t \in T1 /\ way1[t] = Prefix(a, 3) /\ i = a[4]
    BY <1>2, <1>7 DEF PlaceBoth
  <2>3. t \in Pages /\ i \in Index /\ Mine(o1, t, i)
    <3>1. 4 \in 1..Depth /\ 4 - 1 = 3
      BY VmaUnmapAssumption
    <3> QED BY <2>2, <3>1, OwnEntries, OwnTables2
  <2>4. m1.tab[t][i] = o1.tab[t][i]
    BY <1>5, <2>3, SameEntry DEF Sees
  <2>5. EntryAt(wo) = o1.tab[t][i] /\ EntryAt(wm) = o1.tab[t][i]
    BY <1>5, <1>7, <2>4 DEF EntryAt
  <2>6. xo = Map(TakeBack(o3, p), wo, e, a) /\ xm = Map(TakeBack(m3, p), wm, e, a)
    BY <1>5, <1>7 DEF InsertEntry
  <2>7. p \in o1.lent \ T2 /\ o1.ref[p] = 0
    BY <1>4 DEF Grown
  <2> HIDE DEF xm, xo, t, i, o1, m1
  <2>8. /\ Sees(m3, o3) /\ State(o3, T2, way2) /\ o3.root = o1.root
        /\ p \in o3.lent /\ o3.ref[p] = 0
    <3>1. CASE ~Present(o1.tab[t][i])
      <4>1. o3 = o1 /\ m3 = m1
        BY <2>5, <3>1
      <4> HIDE DEF o3, m3
      <4> QED BY <1>5, <2>1, <2>7, <4>1 DEF m1, o1
    <3>2. CASE Present(o1.tab[t][i])
      <4>1. o3 = page_remove(o1, a) /\ m3 = page_remove(m1, a)
        BY <2>5, <3>2
      <4> HIDE DEF o3, m3
      <4>2. Sees(m3, o3)
        BY <1>5, <2>1, <4>1, BothRemove DEF m1, o1
      <4>3. LeafFor(o1, T2, way2, t, i, a)
        BY <2>1, <3>2 DEF NewPlace, t, i
      <4> DEFINE at == Append(way2[t], i)
      <4>4. Leads(way2, t, i, at)
        BY DEF Leads
      <4> HIDE DEF at
      <4>5. /\ State(o3, T2, way2)
            /\ \A x \in o1.lent : /\ o3.ref[x] <= o1.ref[x]
                                  /\ x # o1.tab[t][i].page \/ o1.ref[x] # 1 => x \in o3.lent
        BY <2>1, <4>1, <4>3, <4>4, RemovesLeaf
      <4>6. p \in o3.lent /\ o3.ref[p] <= 0
        BY <2>7, <4>5
      <4>7. o3.ref \in [Pages -> 0..MaxRef] /\ p \in Pages
        BY <4>5, <4>6, Parts, Fields
      <4>8. o3.ref[p] = 0
        <5>1. o3.ref[p] \in 0..MaxRef /\ MaxRef \in Nat
          BY <4>7, Bounds
        <5> QED BY <4>6, <5>1
      <4>9. o3.root = o1.root
        BY <2>1, <4>5, Parts DEF Tree
      <4> QED BY <4>2, <4>5, <4>6, <4>8, <4>9
    <3> QED BY <3>1, <3>2
  <2> HIDE DEF o3, m3
  <2>9. /\ m3 \in Memory /\ o3 \in Memory /\ p \in Pages /\ m3.ref[p] = o3.ref[p] /\ m3.fl = o3.fl
        /\ Good(o3.fl, o3.lent)
    BY <2>8, Parts DEF Sees, SeesTables, Kernels
  <2>10. TakeBack(o3, p) = o3 /\ TakeBack(m3, p) = m3
    BY <2>8, <2>9 DEF TakeBack, Good
  <2>11. /\ e \in [page : Pages, huge : BOOLEAN] /\ e.page = p /\ e.huge = FALSE
         /\ m3.ref[p] < MaxRef /\ o3.ref[p] < MaxRef
    BY <2>8, <2>9, Bounds
  <2> HIDE DEF e
  <2>12. wm.table = t /\ wm.index = i /\ wo.table = t /\ wo.index = i
    BY <1>5 DEF t, i
  <2>13. Map(m3, wm, e, a) \in Memory /\ AddsLeaf(m3, Map(m3, wm, e, a), t, i, e, EntryWay(e.huge, a))
    BY <2>3, <2>9, <2>11, <2>12, MapFields
  <2>14. Map(o3, wo, e, a) \in Memory /\ AddsLeaf(o3, Map(o3, wo, e, a), t, i, e, EntryWay(e.huge, a))
    BY <2>3, <2>9, <2>11, <2>12, MapFields
  <2>15. Mine(o3, t, i) /\ e.page \in Pages \ Kernels
    BY <2>3, <2>8, <2>9, <2>11 DEF Mine
  <2>16. Sees(Map(m3, wm, e, a), Map(o3, wo, e, a))
    BY <2>3, <2>8, <2>13, <2>14, <2>15, SeesMapped
  <2>17. Sees(xm, xo)
    BY <2>6, <2>10, <2>16
  <2> QED BY <1>1, <2>17 DEF xm, xo
<1> QED BY <1>6, <1>7

\* The allocator's list and the pages that it has lent are others.
Taken(m, fl, L) == [m EXCEPT !.fl = fl, !.lent = L]

\* The free list, and what is lent out, change together.
LEMMA BothTake ==
  ASSUME NEW m, NEW o, Sees(m, o), NEW fl \in FreeList, NEW L \in SUBSET Pages
  PROVE  /\ Sees(Taken(m, fl, L), Taken(o, fl, L)) /\ Taken(o, fl, L).fl = fl
         /\ Taken(o, fl, L).lent = L /\ Taken(o, fl, L).ref = o.ref
<1> DEFINE m2 == Taken(m, fl, L)
           o2 == Taken(o, fl, L)
<1>1. m \in Memory /\ o \in Memory
  BY DEF Sees, SeesTables
<1>2. ASSUME NEW x, x \in Memory
      PROVE  /\ Taken(x, fl, L) \in Memory /\ Taken(x, fl, L).fl = fl /\ Taken(x, fl, L).lent = L
             /\ Taken(x, fl, L).ref = x.ref /\ Taken(x, fl, L).tab = x.tab
             /\ Taken(x, fl, L).root = x.root /\ Taken(x, fl, L).tlb = x.tlb
  BY <1>2 DEF Memory, Taken
<1>3. /\ m2 \in Memory /\ m2.fl = fl /\ m2.lent = L /\ m2.ref = m.ref /\ m2.tab = m.tab
      /\ m2.root = m.root /\ m2.tlb = m.tlb
  BY <1>1, <1>2
<1>4. /\ o2 \in Memory /\ o2.fl = fl /\ o2.lent = L /\ o2.ref = o.ref /\ o2.tab = o.tab
      /\ o2.root = o.root /\ o2.tlb = o.tlb
  BY <1>1, <1>2
<1> HIDE DEF m2, o2
<1>5. \A p \in Pages, i \in Index : Mine(o2, p, i) <=> Mine(o, p, i)
  BY <1>4 DEF Mine
<1>6. Sees(m2, o2)
  BY <1>3, <1>4, <1>5 DEF Sees, SeesTables
<1> QED BY <1>4, <1>6 DEF m2, o2

\* Nothing but the flag of a panic is set.
LEMMA BothFlag ==
  ASSUME NEW m, NEW o, Sees(m, o), NEW b \in BOOLEAN
  PROVE  Sees([m EXCEPT !.fl.panic = b], [o EXCEPT !.fl.panic = b])
<1> DEFINE m2 == [m EXCEPT !.fl.panic = b]
           o2 == [o EXCEPT !.fl.panic = b]
<1>1. m \in Memory /\ o \in Memory
  BY DEF Sees, SeesTables
<1>2. ASSUME NEW x, NEW y, x \in Memory, y = [x EXCEPT !.fl.panic = b]
      PROVE  /\ y \in Memory /\ y.fl = [x.fl EXCEPT !.panic = b] /\ y.lent = x.lent /\ y.ref = x.ref
             /\ y.tab = x.tab /\ y.root = x.root /\ y.tlb = x.tlb
  <2>1. x.fl \in FreeList
    BY <1>2, Fields
  <2>2. [x.fl EXCEPT !.panic = b] \in FreeList
    BY <2>1 DEF FreeList
  <2> QED BY <1>2, <2>2 DEF Memory
<1>3. /\ m2 \in Memory /\ m2.fl = [m.fl EXCEPT !.panic = b] /\ m2.lent = m.lent /\ m2.ref = m.ref
      /\ m2.tab = m.tab /\ m2.root = m.root /\ m2.tlb = m.tlb
  BY <1>1, <1>2
<1>4. /\ o2 \in Memory /\ o2.fl = [o.fl EXCEPT !.panic = b] /\ o2.lent = o.lent /\ o2.ref = o.ref
      /\ o2.tab = o.tab /\ o2.root = o.root /\ o2.tlb = o.tlb
  BY <1>1, <1>2
<1> HIDE DEF m2, o2
<1>5. \A p \in Pages, i \in Index : Mine(o2, p, i) <=> Mine(o, p, i)
  BY <1>4 DEF Mine
<1>6. Sees(m2, o2)
  BY <1>3, <1>4, <1>5 DEF Sees, SeesTables
<1> QED BY <1>6 DEF m2, o2

\* Mapping a new page.
LEMMA BothMapNew ==
  ASSUME NEW m, NEW o, Sees(m, o), NEW T, NEW way, OwnTree(o, T, way), NEW a \in Vas
  PROVE  Sees(MapNew(m, a), MapNew(o, a))
<1> DEFINE r == page_alloc(o.fl, FALSE)
           p == r.page
           m1 == [m EXCEPT !.fl = r.fl, !.lent = @ \cup {p}]
           o1 == [o EXCEPT !.fl = r.fl, !.lent = @ \cup {p}]
           mi == page_insert(m1, p, a)
           oi == page_insert(o1, p, a)
           mwrong == page_lookup(mi, a).page # p
           owrong == page_lookup(oi, a).page # p
<1>1. State(o, T, way) /\ SmallLeaves(Leaves(o, T, way)) /\ KernelTables \subseteq Unmapped(o, T, way)
  BY DEF OwnTree
<1>2. m.fl = o.fl /\ m.lent = o.lent /\ ~o.fl.panic /\ page_alloc(m.fl, FALSE) = r
  BY <1>1, Parts DEF Sees, SeesTables, Good
<1>3. CASE p = NULL
  <2>1. MapNew(m, a) = [m EXCEPT !.fl.panic = TRUE] /\ MapNew(o, a) = [o EXCEPT !.fl.panic = TRUE]
    BY <1>2, <1>3 DEF MapNew
  <2>2. \A b \in BOOLEAN : Sees([m EXCEPT !.fl.panic = b], [o EXCEPT !.fl.panic = b])
    BY BothFlag
  <2> QED BY <2>1, <2>2
<1>4. CASE p # NULL
  <2>1. AllocatedBy(o, T, r, FALSE)
    BY <1>4, AllocatedToo
  <2>2. /\ MapNew(m, a) = [mi EXCEPT !.fl.panic = mwrong]
        /\ MapNew(o, a) = [oi EXCEPT !.fl.panic = owrong]
    BY <1>2, <1>4 DEF MapNew
  <2>3. /\ Sees(m1, o1) /\ o1.fl = r.fl /\ o1.lent = o.lent \cup {p} /\ o1.ref = o.ref
    <3>1. r.fl \in FreeList /\ p \in Pages /\ o.lent \subseteq Pages
      BY <1>1, <2>1, Parts DEF AllocatedBy
    <3> DEFINE fl == r.fl
               L == o.lent \cup {p}
    <3>2. L \in SUBSET Pages
      BY <3>1
    <3>3. m1 = Taken(m, fl, L) /\ o1 = Taken(o, fl, L)
      BY <1>2 DEF Taken
    <3> HIDE DEF L, r, p, mi, oi, mwrong, owrong, m1, o1, fl
    <3>4. fl \in FreeList
      BY <3>1 DEF fl
    <3>5. /\ Sees(Taken(m, fl, L), Taken(o, fl, L)) /\ Taken(o, fl, L).fl = fl
          /\ Taken(o, fl, L).lent = L /\ Taken(o, fl, L).ref = o.ref
      BY <3>2, <3>4, BothTake
    <3> QED BY <3>3, <3>5 DEF fl, L
  <2>4. /\ State(o1, T, way) /\ Leaves(o1, T, way) = Leaves(o, T, way)
        /\ o1.lent \ T = (o.lent \ T) \cup {p}
    <3> DEFINE y == o1
    <3>1. Takes(o, y, r) /\ r.page # NULL
      BY <1>4 DEF Takes
    <3> HIDE DEF y, o1, r, p
    <3>2. State(y, T, way) /\ Leaves(y, T, way) = Leaves(o, T, way)
          /\ y.lent \ T = (o.lent \ T) \cup {r.page}
      BY <1>1, <3>1, TakesSmall DEF r
    <3> QED BY <3>2 DEF y, p
  <2> HIDE DEF m1, o1, r, p, mwrong, owrong
  <2>5. /\ p \in o1.lent \ T /\ p \notin o1.fl.huge /\ o1.ref[p] = 0 /\ p \notin Kernels
        /\ p \notin o.lent /\ p # NULL
    <3>1. r.page \notin Kernels
      <4>1. FALSE \in BOOLEAN
        OBVIOUS
      <4> QED BY <2>1, <4>1, NewIsMine
    <3> QED BY <1>4, <2>1, <2>3, <2>4, <3>1 DEF AllocatedBy, p
  <2>6. OwnTree(o1, T, way)
    <3>1. SmallLeaves(Leaves(o1, T, way)) /\ Unmapped(o, T, way) \subseteq Unmapped(o1, T, way)
      BY <1>1, <2>4, <2>5, MappedLent DEF Unmapped
    <3> QED BY <1>1, <2>4, <3>1 DEF OwnTree
  <2>7. Sees(mi, oi)
    BY <2>3, <2>5, <2>6, BothInsert
  <2>8. SmallLeaves(Leaves(o1, T, way))
    BY <2>6 DEF OwnTree
  <2>9. PICK T2, way2 : /\ State(oi, T2, way2) /\ SmallLeaves(Leaves(oi, T2, way2))
                        /\ \/ Grown(o1, T, way, oi, T2, way2)
                           \/ Remapped(o1, T, way, oi, T2, way2, a, p)
    BY <2>4, <2>5, <2>8, InsertsSmall
  <2> HIDE DEF mi, oi
  <2>10. OwnTree(oi, T2, way2)
    <3>1. HasNew(o, T, way, o1, p)
      BY <2>4, <2>5 DEF HasNew
    <3>2. MapsOrAdds(o, T, way, o1, p, a, oi, T2, way2)
      BY <1>1, <3>1, NewlyMapped
    <3>3. Unmapped(o, T, way) \subseteq Unmapped(oi, T2, way2)
      BY <2>9, <3>2 DEF MapsOrAdds
    <3> QED BY <1>1, <2>9, <3>3 DEF OwnTree
  <2>11. page_lookup(mi, a) = page_lookup(oi, a)
    BY <2>7, <2>10, BothLookup
  <2>12. mwrong = owrong /\ owrong \in BOOLEAN
    BY <2>11 DEF mwrong, owrong
  <2> QED BY <2>2, <2>7, <2>12, BothFlag
<1> QED BY <1>3, <1>4

\* A table is taken out of the tree.
LEMMA BothCleared ==
  ASSUME NEW m, NEW o, Sees(m, o), NEW T, NEW way, OwnTree(o, T, way), NEW t \in T, NEW i \in Index,
         Mine(o, t, i), Present(o.tab[t][i]), ~IsLeaf(o, way, t, i)
  PROVE  Sees(EntryCleared(m, t, i), EntryCleared(o, t, i))
<1> DEFINE q == o.tab[t][i].page
           xm == EntryCleared(m, t, i)
           xo == EntryCleared(o, t, i)
<1>1. /\ State(o, T, way) /\ t \in Pages /\ T \subseteq o.lent /\ T \subseteq Pages
      /\ m \in Memory /\ o \in Memory /\ m.fl = o.fl /\ m.lent = o.lent
  BY Parts DEF OwnTree, Sees, SeesTables
<1>2. q \in T /\ o.ref[q] = 1
  BY <1>1, CountedOnce
<1>3. q \in Pages \ Kernels /\ q \in o.lent
  BY <1>1, <1>2, OwnTables2
<1>4. FreedIn(o, q, page_free(o.fl, 0, q))
  BY <1>1, <1>3, Freed
<1>5. FreedIn(m, q, page_free(m.fl, 0, q))
  BY <1>1, <1>4 DEF FreedIn
<1>6. m.tab[t][i].page = q /\ m.ref[q] = 1
  <2>1. m.tab[t][i] = o.tab[t][i]
    BY <1>1, SameEntry DEF Sees
  <2>2. m.ref[q] = o.ref[q]
    BY <1>3 DEF Sees, SeesTables, Kernels
  <2> QED BY <1>2, <2>1, <2>2
<1>7. xo \in Memory /\ DropsTable(o, xo, t, i)
  BY <1>1, <1>2, <1>3, <1>4, ClearedFields
<1>8. xm \in Memory /\ DropsTable(m, xm, t, i)
  BY <1>1, <1>3, <1>5, <1>6, ClearedFields
<1> HIDE DEF xm, xo
<1>9. Sees(xm, xo)
  BY <1>1, <1>3, <1>7, <1>8, SeesCleared
<1> QED BY <1>9 DEF xm, xo
-----------------------------------------------------------------------------
(* What is read of the tables.                                              *)

\* One step down the way to an address of the environment.
LEMMA FollowsSame ==
  ASSUME NEW m, NEW o, SeesTables(m, o), NEW T, NEW way, OwnTree(o, T, way), NEW a \in Vas,
         NEW n \in 1..3, NEW t, t = NULL \/ (t \in T /\ way[t] = Prefix(a, n - 1)),
         NEW u, u = Follow(o, t, a[n])
  PROVE  /\ Follow(m, t, a[n]) = u
         /\ u = NULL \/ (u \in T /\ way[u] = Prefix(a, n))
         /\ t # NULL => m.tab[t][a[n]] = o.tab[t][a[n]] /\ u = o.tab[t][a[n]].page
<1>1. State(o, T, way) /\ SmallLeaves(Leaves(o, T, way)) /\ T \subseteq Pages /\ Depth = 4
  BY Parts, VmaUnmapAssumption DEF OwnTree
<1>2. CASE t = NULL
  BY <1>2 DEF Follow
<1>3. CASE t # NULL
  <2>1. t \in T /\ way[t] = Prefix(a, n - 1) /\ n \in 1..Depth
    BY <1>1, <1>3
  <2>2. a[n] \in Index /\ Mine(o, t, a[n])
    BY <2>1, OwnEntries
  <2>3. m.tab[t][a[n]] = o.tab[t][a[n]]
    BY <1>1, <2>1, <2>2, SameEntry
  <2>4. Follow(m, t, a[n]) = u /\ u = o.tab[t][a[n]].page
    BY <1>3, <2>3 DEF Follow
  <2>5. ~Present(o.tab[t][a[n]]) => u = NULL
    BY <2>4 DEF Present
  <2>6. ASSUME Present(o.tab[t][a[n]])
        PROVE  u \in T /\ way[u] = Prefix(a, n)
    <3>1. a \in Address
      BY PageTablesAssumption DEF Address
    <3>2. Len(way[t]) = n - 1 /\ Prefix(a, n) = Append(way[t], a[n])
      BY <2>1, <3>1, PrefixStep
    <3>3. ~IsLeaf(o, way, t, a[n])
      BY <1>1, <2>1, <2>2, <2>6, <3>2, NoHugeLeaf
    <3>4. u \in T /\ way[u] = Append(way[t], a[n])
      <4>1. State(o, T, way)
        BY DEF OwnTree
      <4>2. t \in T /\ a[n] \in Index
        BY <1>1, <2>1, <2>2
      <4>3. \A q : q = o.tab[t][a[n]].page => q \in T /\ way[q] = Append(way[t], a[n])
        BY ONLY <2>6, <3>3, <4>1, <4>2, CountedOnce
      <4> QED BY ONLY <2>4, <4>3
    <3> QED BY <3>2, <3>4
  <2> QED BY <1>3, <2>3, <2>4, <2>5, <2>6
<1> QED BY <1>2, <1>3

\* The processor's four steps.
LEMMA TraceFour ==
  ASSUME NEW m, NEW a, NEW p, p = Follow(m, m.root, a[1]), NEW d, d = Follow(m, p, a[2]),
         NEW t, t = Follow(m, d, a[3])
  PROVE  Translation(m, a) = IF d # NULL /\ m.tab[d][a[3]].huge THEN t ELSE Follow(m, t, a[4])
<1>1. Depth = 4
  BY VmaUnmapAssumption
<1>2. PICK f : IsTrace(f, m, a) /\ Translation(m, a) = EndOfTrace(f, m, a)
  BY TraceExists
<1>3. f[1] = m.root /\ f[2] = Follow(m, f[1], a[1]) /\ f[3] = Follow(m, f[2], a[2])
      /\ f[4] = Follow(m, f[3], a[3])
  BY <1>1, <1>2 DEF IsTrace
<1> QED BY <1>1, <1>2, <1>3 DEF EndOfTrace

\* An address of the environment is mapped to the same page in both.
LEMMA TranslationSame ==
  ASSUME NEW m, NEW o, SeesTables(m, o), NEW T, NEW way, OwnTree(o, T, way), NEW a \in Vas
  PROVE  Translation(m, a) = Translation(o, a)
<1>1. /\ State(o, T, way) /\ SmallLeaves(Leaves(o, T, way)) /\ T \subseteq Pages /\ Depth = 4
      /\ a \in Address /\ o.root \in T /\ way[o.root] = Prefix(a, 0) /\ m.root = o.root
      /\ NULL \notin Pages
  <2>1. a \in Address
    BY PageTablesAssumption DEF Address
  <2>2. State(o, T, way)
    BY DEF OwnTree
  <2> QED BY <2>1, <2>2, Parts, Bounds, PrefixEnds, VmaUnmapAssumption DEF OwnTree, SeesTables, Tree
<1> DEFINE p == Follow(o, o.root, a[1])
           d == Follow(o, p, a[2])
           t == Follow(o, d, a[3])
<1>2. Translation(o, a) = IF d # NULL /\ o.tab[d][a[3]].huge THEN t ELSE Follow(o, t, a[4])
  BY TraceFour
<1>3. Follow(m, m.root, a[1]) = p /\ (p = NULL \/ (p \in T /\ way[p] = Prefix(a, 1)))
  BY <1>1, FollowsSame
<1> HIDE DEF p
<1>4. Follow(m, p, a[2]) = d /\ (d = NULL \/ (d \in T /\ way[d] = Prefix(a, 2)))
  BY <1>1, <1>3, FollowsSame
<1> HIDE DEF d
<1>5. /\ Follow(m, d, a[3]) = t /\ (t = NULL \/ (t \in T /\ way[t] = Prefix(a, 3)))
      /\ d # NULL => m.tab[d][a[3]] = o.tab[d][a[3]]
  BY <1>1, <1>4, FollowsSame
<1> HIDE DEF t
<1>6. Follow(m, t, a[4]) = Follow(o, t, a[4])
  <2>1. ASSUME t # NULL PROVE m.tab[t][a[4]] = o.tab[t][a[4]]
    <3>1. t \in T /\ way[t] = Prefix(a, 4 - 1) /\ 4 \in 1..Depth
      BY <1>1, <1>5, <2>1
    <3>2. a[4] \in Index /\ Mine(o, t, a[4])
      BY <3>1, OwnEntries
    <3> QED BY <1>1, <3>1, <3>2, SameEntry
  <2> QED BY <2>1 DEF Follow
<1>7. Translation(m, a) = IF d # NULL /\ m.tab[d][a[3]].huge THEN t ELSE Follow(m, t, a[4])
  BY <1>3, <1>4, <1>5, TraceFour
<1> QED BY <1>2, <1>5, <1>6, <1>7

\* The entries that lead to an address are the same in both.
LEMMA LeadingSame ==
  ASSUME NEW m, NEW o, SeesTables(m, o), NEW T, NEW way, OwnTree(o, T, way), NEW a \in Vas
  PROVE  /\ Entry1(m, a) = Entry1(o, a)
         /\ Present(Entry1(o, a)) => Entry2(m, a) = Entry2(o, a)
         /\ Present(Entry1(o, a)) /\ Present(Entry2(o, a)) => Entry3(m, a) = Entry3(o, a)
         /\ Leading(o, a) =>
              /\ Entry3(o, a).page \in T
              /\ m.tab[Entry3(o, a).page] = o.tab[Entry3(o, a).page]
<1>1. /\ State(o, T, way) /\ SmallLeaves(Leaves(o, T, way)) /\ T \subseteq Pages /\ Depth = 4
      /\ a \in Address /\ o.root \in T /\ way[o.root] = Prefix(a, 0) /\ m.root = o.root
      /\ NULL \notin Pages /\ way[o.root] = <<>> /\ m \in Memory /\ o \in Memory
  <2>1. a \in Address
    BY PageTablesAssumption DEF Address
  <2>2. State(o, T, way)
    BY DEF OwnTree
  <2> QED BY <2>1, <2>2, Parts, Bounds, PrefixEnds, VmaUnmapAssumption DEF OwnTree, SeesTables, Tree
<1> DEFINE p == Entry1(o, a).page
           d == Entry2(o, a).page
           t == Entry3(o, a).page
<1>2. Entry1(m, a) = Entry1(o, a) /\ (p = NULL \/ (p \in T /\ way[p] = Prefix(a, 1)))
  <2>1. Follow(o, o.root, a[1]) = p
    BY <1>1 DEF Follow, Entry1
  <2>2. m.tab[o.root][a[1]] = o.tab[o.root][a[1]] /\ (p = NULL \/ (p \in T /\ way[p] = Prefix(a, 1)))
    BY <1>1, <2>1, FollowsSame
  <2> QED BY <1>1, <2>2 DEF Entry1
<1>3. ASSUME p # NULL
      PROVE  Entry2(m, a) = Entry2(o, a) /\ (d = NULL \/ (d \in T /\ way[d] = Prefix(a, 2)))
  <2> DEFINE x == p
  <2>1. x \in T /\ way[x] = Prefix(a, 1) /\ x # NULL /\ Follow(o, x, a[2]) = d
    BY <1>1, <1>2, <1>3 DEF Follow, Entry2
  <2>2. Entry2(m, a) = m.tab[x][a[2]] /\ Entry2(o, a) = o.tab[x][a[2]]
    BY <1>2 DEF Entry2
  <2> HIDE DEF x, d
  <2>3. m.tab[x][a[2]] = o.tab[x][a[2]] /\ (d = NULL \/ (d \in T /\ way[d] = Prefix(a, 2)))
    BY <1>1, <2>1, FollowsSame
  <2> QED BY <2>2, <2>3 DEF x, d
<1>4. ASSUME p # NULL, d # NULL
      PROVE  Entry3(m, a) = Entry3(o, a) /\ (t = NULL \/ (t \in T /\ way[t] = Prefix(a, 3)))
  <2> DEFINE x == d
  <2>1. x \in T /\ way[x] = Prefix(a, 2) /\ x # NULL /\ Follow(o, x, a[3]) = t
    BY <1>1, <1>3, <1>4 DEF Follow, Entry3
  <2>2. Entry3(m, a) = m.tab[x][a[3]] /\ Entry3(o, a) = o.tab[x][a[3]]
    BY <1>3, <1>4 DEF Entry3
  <2> HIDE DEF x, t
  <2>3. m.tab[x][a[3]] = o.tab[x][a[3]] /\ (t = NULL \/ (t \in T /\ way[t] = Prefix(a, 3)))
    BY <1>1, <2>1, FollowsSame
  <2> QED BY <2>2, <2>3 DEF x, t
<1>5. ASSUME Leading(o, a)
      PROVE  t \in T /\ m.tab[t] = o.tab[t]
  <2> DEFINE x == t
  <2>1. x \in T /\ way[x] = Prefix(a, 3)
    BY <1>1, <1>3, <1>4, <1>5 DEF Leading, Present
  <2>2. Len(way[x]) = 3 /\ x # o.root /\ x \in Pages /\ x \notin Kernels
    <3>1. Len(Prefix(a, 3)) = 3
      BY <1>1, PrefixStep
    <3>2. Len(way[o.root]) = 0
      BY <1>1
    <3>3. T \subseteq Pages \ Kernels
      BY OwnTables2
    <3> HIDE DEF x
    <3>4. Len(way[x]) = 3
      BY ONLY <2>1, <3>1
    <3>5. x # o.root
      BY ONLY <3>2, <3>4
    <3> QED BY ONLY <2>1, <3>3, <3>4, <3>5
  <2> HIDE DEF x
  <2>3. \A i \in Index : m.tab[x][i] = o.tab[x][i]
    BY <2>2, SameEntry DEF Mine
  <2>4. m.tab[x] = [i \in Index |-> m.tab[x][i]] /\ o.tab[x] = [i \in Index |-> o.tab[x][i]]
    BY <1>1, <2>2 DEF Memory
  <2>5. m.tab[x] = o.tab[x]
    BY <2>3, <2>4
  <2> QED BY <2>1, <2>5 DEF x
<1> QED BY <1>2, <1>3, <1>4, <1>5 DEF Present

\* So is what a call for the address looks at.
LEMMA PlaceSame ==
  ASSUME NEW m, NEW o, SeesTables(m, o), NEW T, NEW way, OwnTree(o, T, way), NEW a \in Vas
  PROVE  /\ \A l \in Nat : AllPresent(m, a, l) <=> AllPresent(o, a, l)
         /\ \A l \in 0..2 : AllPresent(o, a, l) => PlaceOf(m, a, l) = PlaceOf(o, a, l)
         /\ Leading(m, a) <=> Leading(o, a)
         /\ NotLeftEmpty(m, a) <=> NotLeftEmpty(o, a)
<1>1. /\ Entry1(m, a) = Entry1(o, a)
      /\ Present(Entry1(o, a)) => Entry2(m, a) = Entry2(o, a)
      /\ Present(Entry1(o, a)) /\ Present(Entry2(o, a)) => Entry3(m, a) = Entry3(o, a)
      /\ Leading(o, a) => m.tab[Entry3(o, a).page] = o.tab[Entry3(o, a).page]
  BY LeadingSame
<1>2. m.root = o.root
  BY DEF SeesTables
<1>3. \A l \in Nat : AllPresent(m, a, l) <=> AllPresent(o, a, l)
  <2> SUFFICES ASSUME NEW l \in Nat PROVE AllPresent(m, a, l) <=> AllPresent(o, a, l)
    OBVIOUS
  <2>1. CASE l = 0
    BY <1>1, <2>1 DEF AllPresent
  <2>2. CASE l = 1
    BY <1>1, <2>2 DEF AllPresent
  <2>3. CASE l \notin {0, 1}
    BY <1>1, <2>3 DEF AllPresent
  <2> QED BY <2>1, <2>2, <2>3
<1>4. \A l \in 0..2 : AllPresent(o, a, l) => PlaceOf(m, a, l) = PlaceOf(o, a, l)
  <2> SUFFICES ASSUME NEW l \in 0..2, AllPresent(o, a, l) PROVE PlaceOf(m, a, l) = PlaceOf(o, a, l)
    OBVIOUS
  <2>1. CASE l = 0
    BY <1>1, <2>1 DEF AllPresent, PlaceOf
  <2>2. CASE l = 1
    BY <1>1, <2>2 DEF AllPresent, PlaceOf
  <2>3. CASE l = 2
    BY <1>2, <2>3 DEF PlaceOf
  <2> QED BY <2>1, <2>2, <2>3
<1>5. Leading(m, a) <=> Leading(o, a)
  BY <1>1 DEF Leading
<1>6. NotLeftEmpty(m, a) <=> NotLeftEmpty(o, a)
  BY <1>1, <1>5 DEF NotLeftEmpty, Leading
<1> QED BY <1>3, <1>4, <1>5, <1>6
-----------------------------------------------------------------------------
(* Steps of vma_unmap. *)

\* What is said of a call is the same in both.
LEMMA CallSame ==
  ASSUME NEW m, NEW o, SeesTables(m, o), NEW T, NEW way, OwnTree(o, T, way), NEW a \in Vas, NEW c
  PROVE  CallOK(m, c, a) <=> CallOK(o, c, a)
BY TranslationSame, PlaceSame DEF CallOK

\* An iteration that is over without a check.
LEMMA BothSkip ==
  ASSUME NEW m, NEW o, SeesTables(m, o), NEW T, NEW way, OwnTree(o, T, way), NEW a \in Vas,
         NEW c, CallOK(o, c, a), NEW c2, Skips(m, c, c2, a)
  PROVE  Skips(o, c, c2, a)
<1>1. c.i \in Nat
  BY CallTypes DEF CallOK
<1> QED BY <1>1, PlaceSame DEF Skips

\* A table that is checked, and perhaps given back.
LEMMA BothScan ==
  ASSUME NEW m, NEW o, Sees(m, o), NEW T, NEW way, OwnTree(o, T, way), NEW a \in Vas,
         NEW c, CallOK(o, c, a), NEW m2, NEW c2, Scans(m, c, m2, c2, a)
  PROVE  \E o2 : Scans(o, c, o2, c2, a) /\ Sees(m2, o2)
<1> DEFINE t  == PlaceOf(o, a, c.i)[1]
           i  == PlaceOf(o, a, c.i)[2]
           p  == o.tab[t][i].page
           used(x) == {j \in Index : Present(x.tab[p][j])}
           empty == c.is_empty /\ used(o) = {}
           o2 == IF empty THEN EntryCleared(o, t, i) ELSE o
<1>1. c.k = 1 /\ c.i \in 0..2 /\ AllPresent(o, a, c.i) /\ PlaceOf(m, a, c.i) = PlaceOf(o, a, c.i)
  <2>1. c.k = 1 /\ c.i \in 0..2 /\ AllPresent(m, a, c.i)
    BY CallTypes DEF CallOK, Scans
  <2>2. SeesTables(m, o)
    BY DEF Sees
  <2> QED BY <2>1, <2>2, PlaceSame
<1>2. State(o, T, way) /\ SmallLeaves(Leaves(o, T, way)) /\ SeesTables(m, o)
  BY DEF OwnTree, Sees
<1>3. LeadsTo(o, a, t, i)
  BY <1>1, Pointed
<1>4. /\ t \in T /\ i \in Index /\ (t = o.root => i = a[1])
      /\ Present(o.tab[t][i]) /\ ~IsLeaf(o, way, t, i)
  BY <1>2, <1>3, LeadingPlace
<1>5. Mine(o, t, i)
  BY <1>4, OwnTables2, EnvironmentsAssumption DEF Mine
<1>6. m.tab[t][i] = o.tab[t][i] /\ p \in T
  <2>1. p \in T /\ t \in Pages
    BY <1>2, <1>4, CountedOnce, OwnTables2
  <2>2. SeesTables(m, o)
    BY DEF Sees
  <2>3. m.tab[t][i] = o.tab[t][i]
    <3> HIDE DEF t, i
    <3> QED BY ONLY <1>4, <1>5, <2>1, <2>2, SameEntry
  <2> QED BY ONLY <2>1, <2>3
<1>7. used(m) = used(o)
  <2>1. \A j \in Index : Mine(o, p, j)
    <3>1. p # o.root /\ p \notin Kernels
      <4>1. State(o, T, way) /\ T \subseteq Pages \ Kernels
        BY OwnTables2 DEF OwnTree
      <4>2. p # o.root
        BY ONLY <1>4, <4>1, CountedOnce
      <4> HIDE DEF p
      <4> QED BY ONLY <1>6, <4>1, <4>2
    <3> QED BY <3>1 DEF Mine
  <2>2. p \in Pages
    BY <1>6, OwnTables2
  <2>3. \A j \in Index : m.tab[p][j] = o.tab[p][j]
    <3>1. SeesTables(m, o)
      BY DEF Sees
    <3> HIDE DEF p
    <3> QED BY ONLY <2>1, <2>2, <3>1, SameEntry
  <2> QED BY <2>3
<1>8. /\ c2 = [c EXCEPT !.k = 2, !.pt = p, !.is_empty = empty, !.i = ScanEnd(used(o))]
      /\ m2 = IF empty THEN EntryCleared(m, t, i) ELSE m
  BY <1>1, <1>6, <1>7 DEF Scans
<1>9. Scans(o, c, o2, c2, a)
  BY <1>1, <1>8 DEF Scans
<1>10. Sees(m2, o2)
  <2> HIDE DEF empty, t, i
  <2>1. Sees(EntryCleared(m, t, i), EntryCleared(o, t, i))
    BY <1>4, <1>5, BothCleared
  <2> QED BY <1>8, <2>1
<1> QED BY <1>9, <1>10
-----------------------------------------------------------------------------
(* An environment is created. *)

\* What env_setup_vm and load_icode make of the memory.
Loaded(root, page) == Taken(env_setup_vm(Booted, root), page.fl,
                            env_setup_vm(Booted, root).lent \cup {page.page})

\* The two pages they take.
LEMMA TwoPages ==
  ASSUME BootOK, NEW root, root = page_alloc(Booted.fl, FALSE), root.page # NULL,
         NEW page, page = page_alloc(root.fl, FALSE), page.page # NULL
  PROVE  /\ root.page \in Pages \ Kernels /\ page.page \in Pages /\ page.page \notin Kernels
         /\ page.page # root.page /\ Good(page.fl, KernelTables \cup {root.page, page.page})
         /\ root.page \notin page.fl.huge /\ page.fl \in FreeList
<1> DEFINE q == root.page
           s == page.page
           L == KernelTables \cup {q}
<1>1. Good(Booted.fl, KernelTables) /\ FALSE \in BOOLEAN
  BY DEF BootOK
<1>2. q \in Pages \ KernelTables /\ Good(root.fl, L) /\ q \notin root.fl.huge
  BY <1>1, AllocGood, AllocKind
<1> HIDE DEF q, s, L
<1>3. s \in Pages \ L /\ Good(page.fl, L \cup {s}) /\ SameUnits(root.fl, page.fl, L)
  BY <1>2, AllocGood, AllocSame DEF s
<1>4. q \in L /\ L \subseteq Pages
  BY <1>2 DEF L, Good
<1>5. q \in page.fl.huge <=> q \in root.fl.huge
  BY <1>2, <1>3, <1>4, SameKinds
<1>6. q \notin Reserved /\ s \notin Reserved
  <2>1. (L \cup {s}) \cap Reserved = {}
    BY <1>3, NotReserved
  <2> QED BY <1>4, <2>1
<1>7. L \cup {s} = KernelTables \cup {q, s}
  BY DEF L
<1>8. page.fl \in FreeList
  BY <1>3 DEF Good, Linked
<1>9. KernPml4 \in Reserved
  BY EnvironmentsAssumption
<1>10. Good(page.fl, KernelTables \cup {q, s})
  BY <1>3, <1>7
<1> QED BY <1>2, <1>3, <1>5, <1>6, <1>8, <1>9, <1>10 DEF Kernels, q, s, L

\* The fields of the memory then.
IsLoaded(m, t, page) ==
    /\ m \in Memory /\ m.fl = page.fl /\ m.root = t /\ m.tlb = {}
    /\ m.lent = KernelTables \cup {t, page.page}
    /\ \A p \in Pages : m.ref[p] = IF p \in KernelTables \cup {t} THEN 1 ELSE 0
    /\ \A p \in Pages, i \in Index :
         m.tab[p][i] = IF p = t THEN IF i < UserTop THEN Empty ELSE Booted.tab[KernPml4][i]
                       ELSE Booted.tab[p][i]

\* They are these.
LEMMA LoadedFields ==
  ASSUME BootOK, NEW root, NEW page, root.page \in Pages \ Kernels, page.page \in Pages,
         page.fl \in FreeList, NEW m, m = Loaded(root, page)
  PROVE  IsLoaded(m, root.page, page)
<1> DEFINE t == root.page
           upper == [i \in Index |-> IF i < UserTop THEN Empty ELSE Booted.tab[KernPml4][i]]
           x == env_setup_vm(Booted, root)
<1>1. /\ Booted \in [fl : FreeList, ref : [Pages -> 0..MaxRef], lent : SUBSET Pages,
                     tab : [Pages -> [Index -> Entry]], root : {NULL}, tlb : {{}}]
      /\ \A p \in Pages : Booted.ref[p] = IF p \in KernelTables THEN 1 ELSE 0
      /\ Booted.lent = KernelTables
  BY DEF BootOK, KernelTables
<1>2. t \in Pages /\ t \notin KernelTables /\ KernPml4 \in Pages /\ KernelTables \subseteq Pages
  BY <1>1, EnvironmentsAssumption, PageListAssumption DEF Kernels, Pages
<1>3. upper \in [Index -> Entry] /\ Empty \in Entry
  BY <1>1, <1>2 DEF Entry, Empty, Ptr
<1>4. x = [fl |-> root.fl, ref |-> [Booted.ref EXCEPT ![t] = @ + 1], lent |-> KernelTables \cup {t},
           tab |-> [Booted.tab EXCEPT ![t] = upper], root |-> t, tlb |-> {}]
  <2> DEFINE b == Booted
  <2>1. /\ b = [fl |-> b.fl, ref |-> b.ref, lent |-> b.lent, tab |-> b.tab, root |-> b.root,
                tlb |-> b.tlb]
        /\ b.lent = KernelTables /\ b.tlb = {}
    BY <1>1
  <2>2. x = [b EXCEPT !.fl = root.fl, !.lent = @ \cup {t}, !.ref[t] = @ + 1, !.root = t,
                      !.tab[t] = [i \in Index |-> IF i < UserTop THEN Empty ELSE b.tab[KernPml4][i]]]
    BY DEF env_setup_vm
  <2> HIDE DEF b, x
  <2>3. x = [fl |-> root.fl, ref |-> [b.ref EXCEPT ![t] = @ + 1], lent |-> b.lent \cup {t},
             tab |-> [b.tab EXCEPT ![t] = [i \in Index |-> IF i < UserTop THEN Empty
                                                          ELSE b.tab[KernPml4][i]]],
             root |-> t, tlb |-> b.tlb]
    BY <2>1, <2>2
  <2> QED BY <2>1, <2>3 DEF b
<1> HIDE DEF x, upper
<1>5. /\ m = [fl |-> page.fl, ref |-> x.ref, lent |-> x.lent \cup {page.page}, tab |-> x.tab,
              root |-> x.root, tlb |-> x.tlb]
  BY <1>4 DEF Loaded, Taken, x
<1>6. /\ x.ref = [Booted.ref EXCEPT ![t] = @ + 1] /\ x.lent = KernelTables \cup {t}
      /\ x.tab = [Booted.tab EXCEPT ![t] = upper] /\ x.root = t /\ x.tlb = {}
  BY <1>4
<1>7. /\ x.ref \in [Pages -> 0..MaxRef]
      /\ \A p \in Pages : x.ref[p] = IF p \in KernelTables \cup {t} THEN 1 ELSE 0
  BY <1>1, <1>2, <1>6, Bounds
<1>8. /\ x.tab \in [Pages -> [Index -> Entry]]
      /\ \A p \in Pages : x.tab[p] = IF p = t THEN upper ELSE Booted.tab[p]
  BY <1>1, <1>2, <1>3, <1>6
<1>9. \A p \in Pages, i \in Index :
         x.tab[p][i] = IF p = t THEN IF i < UserTop THEN Empty ELSE Booted.tab[KernPml4][i]
                       ELSE Booted.tab[p][i]
  BY <1>8 DEF upper
<1>10. m \in Memory
  BY <1>2, <1>6, <1>5, <1>7, <1>8 DEF Memory, Entry
<1>11. m.lent = KernelTables \cup {root.page, page.page}
  BY <1>6, <1>5
<1> QED BY <1>5, <1>6, <1>7, <1>9, <1>10, <1>11 DEF IsLoaded

\* The environment's tree is a root without entries, and it sees the kernel's tables.
LEMMA Created ==
  ASSUME BootOK, NEW root, root = page_alloc(Booted.fl, FALSE), root.page # NULL,
         NEW page, page = page_alloc(root.fl, FALSE), page.page # NULL
  PROVE  \E o : /\ Sees(Loaded(root, page), o)
                /\ SmallTree(o, KernelTables \cup {page.page})
<1> DEFINE t == root.page
           m == Loaded(root, page)
           o == [fl |-> m.fl, ref |-> [p \in Pages |-> IF p = t THEN 1 ELSE 0], lent |-> m.lent,
                 tab |-> [p \in Pages |-> NoEntries], root |-> t, tlb |-> {}]
<1>1. /\ t \in Pages \ Kernels /\ page.page \in Pages /\ page.page \notin Kernels /\ page.page # t
      /\ Good(page.fl, KernelTables \cup {t, page.page}) /\ t \notin page.fl.huge
      /\ page.fl \in FreeList
  BY TwoPages
<1> HIDE DEF m
<1>2. IsLoaded(m, t, page)
  <2>1. m = Loaded(root, page)
    BY DEF m
  <2> QED BY <1>1, <2>1, LoadedFields
<1>3. /\ m \in Memory /\ m.fl = page.fl /\ m.root = t /\ m.tlb = {}
      /\ m.lent = KernelTables \cup {t, page.page}
      /\ \A p \in Pages : m.ref[p] = IF p \in KernelTables \cup {t} THEN 1 ELSE 0
      /\ \A p \in Pages, i \in Index :
           m.tab[p][i] = IF p = t THEN IF i < UserTop THEN Empty ELSE Booted.tab[KernPml4][i]
                         ELSE Booted.tab[p][i]
  BY <1>2 DEF IsLoaded
<1> HIDE DEF t
<1>4. /\ o.fl = m.fl /\ o.ref = [p \in Pages |-> IF p = t THEN 1 ELSE 0] /\ o.lent = m.lent
      /\ o.tab = [p \in Pages |-> NoEntries] /\ o.root = t /\ o.tlb = {}
      /\ o = [fl |-> o.fl, ref |-> o.ref, lent |-> o.lent, tab |-> o.tab, root |-> o.root,
              tlb |-> o.tlb]
  OBVIOUS
<1> HIDE DEF o
<1>5. o \in Memory
  <2>1. o.ref \in [Pages -> 0..MaxRef]
    BY <1>4, Bounds
  <2>2. NoEntries \in [Index -> [page : Ptr, huge : BOOLEAN]]
    BY DEF NoEntries, Empty, Ptr
  <2>3. o.tab \in [Pages -> [Index -> [page : Ptr, huge : BOOLEAN]]]
    BY <1>4, <2>2
  <2>4. o.fl \in FreeList /\ o.lent \subseteq Pages /\ o.root \in Pages
        /\ o.tlb \subseteq [at : Seq(Index), page : Pages]
    BY <1>1, <1>3, <1>4, Fields
  <2> QED BY <1>4, <2>1, <2>3, <2>4 DEF Memory
<1>6. /\ \A p \in Pages : o.ref[p] = IF p = o.root THEN 1 ELSE 0
      /\ \A p \in Pages, i \in Index : o.tab[p][i] = Empty /\ o.tab[p][i].page = NULL
  BY <1>4 DEF NoEntries, Empty
<1>7. SmallTree(o, KernelTables \cup {page.page})
  <2>1. Good(o.fl, o.lent) /\ o.root \in o.lent \ o.fl.huge
    <3>1. o.fl = page.fl /\ o.lent = KernelTables \cup {t, page.page} /\ o.root = t
      BY <1>3, <1>4
    <3>2. Good(page.fl, KernelTables \cup {t, page.page}) /\ t \notin page.fl.huge
      BY <1>1
    <3> QED BY ONLY <3>1, <3>2
  <2>2. PICK way : State(o, {o.root}, way) /\ Leaves(o, {o.root}, way) = {}
    BY <1>4, <1>5, <1>6, <2>1, RootOnly
  <2>3. SmallLeaves(Leaves(o, {o.root}, way)) /\ PagesOf(Leaves(o, {o.root}, way)) = {}
    BY <2>2 DEF SmallLeaves, PagesOf
  <2>4. o.lent \ {o.root} = KernelTables \cup {page.page}
    <3>1. /\ o.lent = KernelTables \cup {t, page.page} /\ o.root = t
          /\ t \notin KernelTables /\ page.page # t
      BY <1>1, <1>3, <1>4 DEF Kernels
    <3> QED BY ONLY <3>1
  <2>5. Unmapped(o, {o.root}, way) = KernelTables \cup {page.page}
    BY <2>3, <2>4 DEF Unmapped
  <2> QED BY ONLY <2>2, <2>3, <2>5 DEF SmallTree
<1>8. Sees(m, o)
  <2>1. \A p \in Pages : m.ref[p] = IF p \in KernelTables THEN 1 ELSE o.ref[p]
    BY <1>1, <1>3, <1>4, <1>6
  <2>2. PICK k1, k2, k3 : SharedChain(k1, k2, k3)
    BY DEF BootOK
  <2>3. \A p \in Pages, i \in Index : p \notin Kernels => Booted.tab[p][i] = Empty
    BY <2>2 DEF SharedChain, Kernels
  <2>4. \A p \in Pages, i \in Index :
          m.tab[p][i] = IF Mine(o, p, i) THEN o.tab[p][i] ELSE SharedEntry(p, i)
    BY <1>1, <1>3, <1>4, <1>6, <2>3 DEF Mine, SharedEntry
  <2> QED BY <1>3, <1>4, <1>5, <2>1, <2>4 DEF Sees, SeesTables
<1> QED BY <1>7, <1>8 DEF m
-----------------------------------------------------------------------------
(* An environment maps and unmaps pages. *)

\* Memory m and call c while an environment lives; U is lent out, but not to its tree.
LiveIn(m, c, U) ==
    \/ c = Idle /\ \E o : Sees(m, o) /\ SmallTree(o, U)
    \/ c = Idle /\ \E o, V : Sees(m, Panicked(o)) /\ SmallTree(o, V) /\ U \subseteq V
    \/ \E o : Sees(m, o) /\ SmallTree(o, U) /\ \E a \in Vas : CallOK(o, c, a)

\* If the kernel's tables are not in the tree, it is the environment's own.
LEMMA OwnSmall ==
  ASSUME NEW o, NEW U, SmallTree(o, U), KernelTables \subseteq U
  PROVE  \E T, way : OwnTree(o, T, way) /\ Unmapped(o, T, way) = U
BY DEF SmallTree, OwnTree

\* A step of a call.
LEMMA LiveUnmapping ==
  ASSUME NEW U, KernelTables \subseteq U, NEW o, Sees(mem, o), SmallTree(o, U),
         NEW a \in Vas, CallOK(o, call, a), Unmapping
  PROVE  LiveIn(mem', call', U)
<1>1. PICK T, way : OwnTree(o, T, way)
  BY OwnSmall
<1>2. Calling(call, a) /\ SeesTables(mem, o)
  BY DEF CallOK, Sees
<1>3. CASE Skip
  <2>1. mem' = mem /\ Skips(mem, call, call', a)
    BY <1>2, <1>3, SkipStep
  <2>2. CallOK(o, call', a)
    BY <1>1, <1>2, <2>1, BothSkip, Skipped
  <2> QED BY <2>1, <2>2 DEF LiveIn
<1>4. CASE CheckTable
  <2>1. Scans(mem, call, mem', call', a)
    BY <1>2, <1>4, CheckStep
  <2>2. PICK o2 : Scans(o, call, o2, call', a) /\ Sees(mem', o2)
    BY <1>1, <2>1, BothScan
  <2>3. SmallTree(o2, U) /\ CallOK(o2, call', a)
    BY <2>2, Scanned
  <2> QED BY <2>2, <2>3 DEF LiveIn
<1>5. CASE NextLevel
  <2>1. mem' = mem /\ (call' = Idle \/ CallOK(o, call', a))
    BY <1>2, <1>5, LevelStep, Risen
  <2> QED BY <2>1 DEF LiveIn
<1> QED BY <1>3, <1>4, <1>5 DEF Unmapping

\* A page is mapped, or a call begins.
LEMMA LiveBetween ==
  ASSUME SinglePages, NEW U, KernelTables \subseteq U, call = Idle, NEW o, Sees(mem, o), SmallTree(o, U),
         NEW range \in Ranges, vma_map_populate(range) \/ vma_unmap(range)
  PROVE  LiveIn(mem', call', U)
<1>1. PICK T, way : OwnTree(o, T, way)
  BY OwnSmall
<1>2. PICK a \in Vas : range = <<a>>
  BY DEF SinglePages
<1>3. CASE vma_map_populate(range)
  <2>1. mem' = MapNew(mem, a) /\ call' = Idle
    BY <1>2, <1>3, PopulateStep
  <2>2. Sees(mem', MapNew(o, a))
    BY <1>1, <2>1, BothMapNew
  <2>3. \/ SmallTree(MapNew(o, a), U)
        \/ \E n, V : MapNew(o, a) = Panicked(n) /\ SmallTree(n, V) /\ U \subseteq V
    BY Populated
  <2> QED BY <2>1, <2>2, <2>3 DEF LiveIn
<1>4. CASE vma_unmap(range)
  <2>1. mem' = page_remove(mem, a) /\ call' = Begun(a)
    BY <1>2, <1>4, BeginStep
  <2>2. Sees(mem', page_remove(o, a))
    BY <1>1, <2>1, BothRemove
  <2>3. SmallTree(page_remove(o, a), U) /\ CallOK(page_remove(o, a), call', a)
    BY <2>1, Begins
  <2> QED BY <2>2, <2>3 DEF LiveIn
<1> QED BY <1>3, <1>4

\* While the flag is not set, memory is that of a tree.
LEMMA LiveNow ==
  ASSUME NEW m, NEW c, NEW U, LiveIn(m, c, U), ~m.fl.panic
  PROVE  \E o : /\ Sees(m, o) /\ SmallTree(o, U)
                /\ c = Idle \/ \E a \in Vas : CallOK(o, c, a)
<1>1. ASSUME NEW o, NEW V, Sees(m, Panicked(o)), SmallTree(o, V) PROVE FALSE
  <2>1. m.fl = Panicked(o).fl
    BY <1>1 DEF Sees
  <2> QED BY <1>1, <2>1, PanickedIs
<1> QED BY <1>1 DEF LiveIn

\* Whatever the environment does, it lives on in such a memory.
LEMMA LiveStep ==
  ASSUME SinglePages, NEW U, KernelTables \subseteq U, LiveIn(mem, call, U), UnmapNext
  PROVE  LiveIn(mem', call', U)
<1>1. PICK o : /\ Sees(mem, o) /\ SmallTree(o, U)
               /\ call = Idle \/ \E a \in Vas : CallOK(o, call, a)
  BY LiveNow DEF UnmapNext
<1>2. CASE Unmapping
  <2>1. call.busy
    BY <1>2 DEF Unmapping, Skip, CheckTable, NextLevel, InRange
  <2>2. PICK a \in Vas : CallOK(o, call, a)
    BY <1>1, <2>1, CallsAre
  <2> QED BY <1>1, <1>2, <2>2, LiveUnmapping
<1>3. CASE ~call.busy /\ \E range \in Ranges : vma_map_populate(range) \/ vma_unmap(range)
  <2>1. call = Idle
    BY <1>1, <1>3, CallsAre
  <2> QED BY <1>1, <1>3, <2>1, LiveBetween
<1> QED BY <1>2, <1>3 DEF UnmapNext
-----------------------------------------------------------------------------
(* What the processor sees of the tables. *)

\* While an environment lives, its tables are its own tree with the kernel's below.
LEMMA LiveTables ==
  ASSUME NEW m, NEW c, NEW U, LiveIn(m, c, U), KernelTables \subseteq U
  PROVE  \E o, T, way : SeesTables(m, o) /\ OwnTree(o, T, way)
<1>1. ASSUME NEW o, NEW V, Sees(m, Panicked(o)), SmallTree(o, V), U \subseteq V
      PROVE  \E T, way : SeesTables(m, o) /\ OwnTree(o, T, way)
  <2>1. PICK T, way : OwnTree(o, T, way)
    BY <1>1, OwnSmall
  <2> DEFINE x == Panicked(o)
  <2>2. o \in Memory
    BY <2>1, Parts DEF OwnTree
  <2>3. x.lent = o.lent /\ x.root = o.root /\ x.tlb = o.tlb /\ x.ref = o.ref /\ x.tab = o.tab
    BY <2>2 DEF Panicked, Memory
  <2>4. SeesTables(m, x)
    BY <1>1 DEF Sees
  <2> HIDE DEF x
  <2>5. SeesTables(m, o)
    BY <2>2, <2>3, <2>4 DEF SeesTables, Mine
  <2> QED BY <2>1, <2>5
<1>2. ASSUME NEW o, Sees(m, o), SmallTree(o, U)
      PROVE  \E T, way : SeesTables(m, o) /\ OwnTree(o, T, way)
  BY <1>2, OwnSmall DEF Sees
<1> QED BY <1>1, <1>2 DEF LiveIn

\* What the tables T of the tree o, and the kernel's, say in memory m.
Combined(m, o, T, k1, k2, k3) ==
    /\ m.root = o.root
    /\ m.tab[o.root][SharedVa[1]] = [page |-> k1, huge |-> FALSE]
    /\ ~Present(o.tab[o.root][SharedVa[1]])
    /\ \A t \in T, i \in Index :
         /\ ~ (t = o.root /\ i = SharedVa[1])
         /\ Present(m.tab[t][i]) \/ Present(o.tab[t][i])
         => m.tab[t][i] = o.tab[t][i]
    /\ \A i \in Index :
         /\ m.tab[k1][i] = IF i = SharedVa[2] THEN [page |-> k2, huge |-> FALSE] ELSE Empty
         /\ m.tab[k2][i] = IF i = SharedVa[3] THEN [page |-> k3, huge |-> FALSE] ELSE Empty
         /\ m.tab[k3][i] = IF i = SharedVa[4] THEN [page |-> PagesArray, huge |-> FALSE] ELSE Empty

\* They say that.
LEMMA SeenTables ==
  ASSUME NEW m, NEW o, SeesTables(m, o), NEW T, NEW way, OwnTree(o, T, way),
         NEW k1, NEW k2, NEW k3, SharedChain(k1, k2, k3)
  PROVE  Combined(m, o, T, k1, k2, k3)
<1>1. /\ k1 \in Pages /\ k2 \in Pages /\ k3 \in Pages /\ {k1, k2, k3} \subseteq Kernels
      /\ k1 # k2 /\ k1 # k3 /\ k2 # k3 /\ KernPml4 \notin {k1, k2, k3} /\ KernPml4 \in Pages
  BY EnvironmentsAssumption, PageListAssumption DEF SharedChain, Kernels, Pages
<1>2. /\ State(o, T, way) /\ T \subseteq Pages \ Kernels /\ o.root \in T
  BY OwnTables2 DEF OwnTree
<1>3. \A p \in Pages, i \in Index :
         m.tab[p][i] = IF Mine(o, p, i) THEN o.tab[p][i] ELSE SharedEntry(p, i)
  BY DEF SeesTables
<1>4. UserTop <= SharedVa[1] /\ SharedVa[1] \in Index /\ UserTop \in Index
      /\ SharedVa[2] \in Index /\ SharedVa[3] \in Index /\ SharedVa[4] \in Index
  BY EnvironmentsAssumption, VmaUnmapAssumption
<1>5. ASSUME NEW t \in T, NEW i \in Index, Present(o.tab[t][i])
      PROVE  Mine(o, t, i)
  <2>1. PICK a \in Vas : Prefix(a, Len(way[t]) + 1) = Append(way[t], i)
    BY <1>2, <1>5, Parts DEF Tree, EntryOK
  <2>2. Len(way[t]) + 1 \in 1..Depth /\ way[t] = Prefix(a, Len(way[t])) /\ i = a[Len(way[t]) + 1]
    BY <1>2, <2>1, OnTheWay
  <2> DEFINE n == Len(way[t]) + 1
  <2>3. n \in 1..Depth /\ way[t] = Prefix(a, n - 1) /\ i = a[n]
    BY <2>2
  <2> HIDE DEF n
  <2> QED BY <2>3, OwnEntries
<1>6. ASSUME NEW t \in T, NEW i \in Index
      PROVE  /\ t = o.root /\ i = SharedVa[1] =>
                  m.tab[t][i] = [page |-> k1, huge |-> FALSE] /\ ~Present(o.tab[t][i])
             /\ ~ (t = o.root /\ i = SharedVa[1]) /\ (Present(m.tab[t][i]) \/ Present(o.tab[t][i])) =>
                  m.tab[t][i] = o.tab[t][i]
  <2>1. CASE Mine(o, t, i)
    <3>1. ~ (t = o.root /\ i = SharedVa[1])
      BY <1>4, <2>1 DEF Mine, Index
    <3> QED BY <1>2, <1>3, <2>1, <3>1
  <2>2. CASE ~Mine(o, t, i)
    <3>1. ~Present(o.tab[t][i]) /\ t = o.root
      BY <1>2, <1>5, <2>2 DEF Mine
    <3>2. m.tab[t][i] = Booted.tab[KernPml4][i]
      BY <1>2, <1>3, <2>2 DEF SharedEntry
    <3>3. Booted.tab[KernPml4][i] = IF i = SharedVa[1] THEN [page |-> k1, huge |-> FALSE] ELSE Empty
      BY <1>1 DEF SharedChain
    <3> QED BY <3>1, <3>2, <3>3 DEF Present, Empty
  <2> QED BY <2>1, <2>2
<1>7. ASSUME NEW p \in {k1, k2, k3}, NEW i \in Index PROVE m.tab[p][i] = Booted.tab[p][i]
  <2>1. p \in Pages /\ p \in Kernels
    BY <1>1
  <2> QED BY <1>3, <2>1 DEF Mine, SharedEntry
<1>8. ASSUME NEW i \in Index
      PROVE  /\ m.tab[k1][i] = IF i = SharedVa[2] THEN [page |-> k2, huge |-> FALSE] ELSE Empty
             /\ m.tab[k2][i] = IF i = SharedVa[3] THEN [page |-> k3, huge |-> FALSE] ELSE Empty
             /\ m.tab[k3][i] = IF i = SharedVa[4] THEN [page |-> PagesArray, huge |-> FALSE] ELSE Empty
  <2>1. \A x \in Pages, j \in Index :
          Booted.tab[x][j] =
            IF x = KernPml4 /\ j = SharedVa[1] THEN [page |-> k1, huge |-> FALSE]
            ELSE IF x = k1 /\ j = SharedVa[2] THEN [page |-> k2, huge |-> FALSE]
            ELSE IF x = k2 /\ j = SharedVa[3] THEN [page |-> k3, huge |-> FALSE]
            ELSE IF x = k3 /\ j = SharedVa[4] THEN [page |-> PagesArray, huge |-> FALSE]
            ELSE Empty
    BY DEF SharedChain
  <2>2. KernPml4 # k1 /\ KernPml4 # k2 /\ KernPml4 # k3
    BY <1>1
  <2>3. Booted.tab[k1][i] = IF i = SharedVa[2] THEN [page |-> k2, huge |-> FALSE] ELSE Empty
    BY ONLY <1>1, <2>1, <2>2, i \in Index
  <2>4. Booted.tab[k2][i] = IF i = SharedVa[3] THEN [page |-> k3, huge |-> FALSE] ELSE Empty
    BY ONLY <1>1, <2>1, <2>2, i \in Index
  <2>5. Booted.tab[k3][i] = IF i = SharedVa[4] THEN [page |-> PagesArray, huge |-> FALSE] ELSE Empty
    BY ONLY <1>1, <2>1, <2>2, i \in Index
  <2>6. m.tab[k1][i] = Booted.tab[k1][i] /\ m.tab[k2][i] = Booted.tab[k2][i] /\ m.tab[k3][i] = Booted.tab[k3][i]
    BY <1>7
  <2> QED BY ONLY <2>3, <2>4, <2>5, <2>6
<1>9. m.root = o.root
  BY DEF SeesTables
<1> QED BY <1>2, <1>4, <1>6, <1>8, <1>9 DEF Combined

\* The part that is shared: what kern_pml4 leads to.
LEMMA SharedSeen ==
  ASSUME BootOK, NEW o, SeesTables(mem, o), NEW T, NEW way, OwnTree(o, T, way)
  PROVE  /\ \A i \in Index : i >= UserTop => mem.tab[mem.root][i] = mem.tab[KernPml4][i]
         /\ \A t \in KernelTables : mem.tab[t] = Booted.tab[t]
         /\ Translation(mem, SharedVa) = PagesArray
<1>1. PICK k1, k2, k3 : SharedChain(k1, k2, k3)
  BY DEF BootOK
<1>2. Combined(mem, o, T, k1, k2, k3)
  BY <1>1, SeenTables
<1>3. /\ T \subseteq Pages \ Kernels /\ o.root \in T /\ mem.root = o.root /\ mem \in Memory
      /\ \A p \in Pages, i \in Index :
           mem.tab[p][i] = IF Mine(o, p, i) THEN o.tab[p][i] ELSE SharedEntry(p, i)
  BY OwnTables2 DEF SeesTables
<1>4. KernPml4 \in Pages /\ KernelTables \subseteq Pages /\ UserTop \in Index
  BY <1>1, EnvironmentsAssumption, PageListAssumption DEF SharedChain, Pages
<1>5. ASSUME NEW i \in Index, i >= UserTop
      PROVE  mem.tab[mem.root][i] = mem.tab[KernPml4][i]
  <2>1. ~Mine(o, o.root, i) /\ ~Mine(o, KernPml4, i) /\ o.root \notin Kernels /\ KernPml4 \in Kernels
    BY <1>3, <1>4, <1>5 DEF Mine, Kernels, Index
  <2> QED BY <1>3, <1>4, <2>1 DEF SharedEntry
<1>6. ASSUME NEW t \in KernelTables
      PROVE  mem.tab[t] = Booted.tab[t]
  <2>1. t \in Pages /\ t \in Kernels
    BY <1>4, <1>6 DEF Kernels
  <2>2. \A i \in Index : mem.tab[t][i] = Booted.tab[t][i]
    BY <1>3, <2>1 DEF Mine, SharedEntry
  <2>3. mem.tab[t] = [i \in Index |-> mem.tab[t][i]]
    BY <1>3, <2>1 DEF Memory
  <2>4. Booted.tab[t] = [i \in Index |-> Booted.tab[t][i]]
    BY <2>1 DEF BootOK
  <2> QED BY <2>2, <2>3, <2>4
<1>7. Translation(mem, SharedVa) = PagesArray
  <2>1. /\ SharedVa[1] \in Index /\ SharedVa[2] \in Index /\ SharedVa[3] \in Index
        /\ SharedVa[4] \in Index
    BY EnvironmentsAssumption, VmaUnmapAssumption
  <2>2. /\ mem.root # NULL /\ k1 # NULL /\ k2 # NULL /\ k3 # NULL
    BY <1>1, <1>3, Bounds DEF SharedChain
  <2>3. Follow(mem, mem.root, SharedVa[1]) = k1
    BY <1>2, <1>3, <2>1, <2>2 DEF Combined, Follow
  <2>4. Follow(mem, k1, SharedVa[2]) = k2
    BY <1>2, <2>1, <2>2 DEF Combined, Follow
  <2>5. Follow(mem, k2, SharedVa[3]) = k3 /\ mem.tab[k2][SharedVa[3]].huge = FALSE
    BY <1>2, <2>1, <2>2 DEF Combined, Follow
  <2>6. Follow(mem, k3, SharedVa[4]) = PagesArray
    BY <1>2, <2>1, <2>2 DEF Combined, Follow
  <2> QED BY <2>2, <2>3, <2>4, <2>5, <2>6, TraceFour
<1> QED BY <1>5, <1>6, <1>7

\* The level of a table, the kernel's included.
Deep(T, way, k1, k2, k3) ==
    [t \in T \cup {k1, k2, k3} |-> IF t = k1 THEN 1 ELSE IF t = k2 THEN 2 ELSE IF t = k3 THEN 3
                                   ELSE Len(way[t])]

\* The tables of an environment are its own and the kernel's.
LEMMA SeenAll ==
  ASSUME NEW o, SeesTables(mem, o), NEW T, NEW way, OwnTree(o, T, way),
         NEW k1, NEW k2, NEW k3, SharedChain(k1, k2, k3)
  PROVE  Tables(mem) = T \cup KernelTables
<1> DEFINE S == T \cup {k1, k2, k3}
           deep == Deep(T, way, k1, k2, k3)
           own == [t \in T |-> Len(way[t])]
<1>1. ByLevel(o, T, own)
  BY WaysAreLevels DEF OwnTree
<1>2. /\ Combined(mem, o, T, k1, k2, k3) /\ mem.root = o.root
  BY SeenTables DEF SeesTables
<1>3. /\ T \subseteq Pages \ Kernels /\ o.root \in T /\ State(o, T, way) /\ Depth = 4
      /\ k1 \in Pages /\ k2 \in Pages /\ k3 \in Pages /\ {k1, k2, k3} \subseteq Kernels
      /\ k1 # k2 /\ k1 # k3 /\ k2 # k3 /\ KernelTables = {k1, k2, k3} /\ NULL \notin Pages
  BY OwnTables2, VmaUnmapAssumption, Bounds DEF SharedChain, Kernels, OwnTree
<1>4. /\ SharedVa[1] \in Index /\ SharedVa[2] \in Index /\ SharedVa[3] \in Index
      /\ SharedVa[4] \in Index
  BY EnvironmentsAssumption, VmaUnmapAssumption
<1>5. /\ \A t \in T : own[t] = Len(way[t]) /\ deep[t] = own[t] /\ own[t] \in 0..3
      /\ deep[k1] = 1 /\ deep[k2] = 2 /\ deep[k3] = 3
  <2>1. \A t \in T : Len(way[t]) \in 0..3
    <3>1. \A t \in T : Len(way[t]) \in Nat /\ Len(way[t]) < Depth
      BY <1>3, Parts
    <3>2. \A n \in Nat : n < Depth => n \in 0..3
      BY <1>3
    <3> QED BY <3>1, <3>2
  <2>2. \A t \in T : t # k1 /\ t # k2 /\ t # k3
    BY <1>3
  <2> QED BY <1>3, <2>1, <2>2 DEF Deep
<1> HIDE DEF own
<1>6. deep \in [S -> 0..3]
  <2>1. \A t \in S : deep[t] \in 0..3
    BY <1>5
  <2>2. deep = [t \in S |-> deep[t]]
    BY DEF Deep
  <2> HIDE DEF deep
  <2> QED BY <2>1, <2>2
<1> HIDE DEF deep
<1>7. \A t \in S : deep[t] = 0 <=> t = mem.root
  BY <1>1, <1>2, <1>3, <1>5 DEF ByLevel
<1>8. ASSUME NEW t \in S, NEW i \in Index, Present(mem.tab[t][i]), ~mem.tab[t][i].huge,
             deep[t] + 1 < Depth
      PROVE  mem.tab[t][i].page \in S /\ deep[mem.tab[t][i].page] = deep[t] + 1
  <2>1. CASE t = o.root /\ i = SharedVa[1]
    <3>1. mem.tab[t][i].page = k1
      BY <1>2, <1>3, <2>1 DEF Combined
    <3> QED BY <1>2, <1>3, <1>5, <1>7, <2>1, <3>1
  <2>2. CASE t \in T /\ ~(t = o.root /\ i = SharedVa[1])
    <3>1. mem.tab[t][i] = o.tab[t][i]
      BY <1>2, <1>8, <2>2 DEF Combined
    <3>2. o.tab[t][i].page \in T /\ own[o.tab[t][i].page] = own[t] + 1
      BY <1>1, <1>5, <1>8, <2>2, <3>1 DEF ByLevel
    <3> QED BY <1>5, <2>2, <3>1, <3>2
  <2>3. CASE t = k1
    <3>1. mem.tab[t][i].page = k2
      BY <1>2, <1>8, <2>3 DEF Combined, Present, Empty
    <3> QED BY <1>5, <2>3, <3>1
  <2>4. CASE t = k2
    <3>1. mem.tab[t][i].page = k3
      BY <1>2, <1>8, <2>4 DEF Combined, Present, Empty
    <3> QED BY <1>5, <2>4, <3>1
  <2>5. CASE t = k3
    BY <1>3, <1>5, <1>8, <2>5
  <2> QED BY <2>1, <2>2, <2>3, <2>4, <2>5
<1>9. ASSUME NEW q \in S \ {mem.root}
      PROVE  \E t \in S, i \in Index :
               mem.tab[t][i].page = q /\ ~mem.tab[t][i].huge /\ deep[q] = deep[t] + 1
  <2>1. CASE q \in T
    <3>1. PICK t \in T, i \in Index : o.tab[t][i].page = q /\ ~o.tab[t][i].huge /\ own[q] = own[t] + 1
      BY <1>1, <1>2, <1>9, <2>1 DEF ByLevel
    <3>2. Present(o.tab[t][i])
      BY <1>3, <2>1, <3>1 DEF Present
    <3>3. mem.tab[t][i] = o.tab[t][i]
      BY <1>2, <3>2 DEF Combined
    <3> QED BY <1>5, <2>1, <3>1, <3>3
  <2>2. CASE q = k1
    <3>1. mem.tab[o.root][SharedVa[1]] = [page |-> k1, huge |-> FALSE] /\ deep[o.root] = 0
      BY <1>2, <1>3, <1>4, <1>7 DEF Combined
    <3> QED BY <1>3, <1>4, <1>5, <2>2, <3>1
  <2>3. CASE q = k2
    <3>1. mem.tab[k1][SharedVa[2]] = [page |-> k2, huge |-> FALSE]
      BY <1>2, <1>4 DEF Combined
    <3> QED BY <1>4, <1>5, <2>3, <3>1
  <2>4. CASE q = k3
    <3>1. mem.tab[k2][SharedVa[3]] = [page |-> k3, huge |-> FALSE]
      BY <1>2, <1>4 DEF Combined
    <3> QED BY <1>4, <1>5, <2>4, <3>1
  <2> QED BY <2>1, <2>2, <2>3, <2>4
<1>10. mem.root \in S /\ S \subseteq Pages /\ S = T \cup KernelTables
  BY <1>2, <1>3
<1> HIDE DEF S
<1>11. ByLevel(mem, S, deep)
  BY <1>3, <1>6, <1>7, <1>8, <1>9, <1>10 DEF ByLevel
<1> QED BY <1>10, <1>11, TablesByLevel

\* The counts are those of all tables.
LEMMA SeenCounts ==
  ASSUME BootOK, NEW o, SeesTables(mem, o), NEW T, NEW way, OwnTree(o, T, way)
  PROVE  RefsExact
<1> DEFINE To(p) == {x \in Entries : EntryOf(x).page = p}
<1>1. PICK k1, k2, k3 : SharedChain(k1, k2, k3)
  BY DEF BootOK
<1>2. Combined(mem, o, T, k1, k2, k3) /\ Tables(mem) = T \cup {k1, k2, k3}
  <2>1. Tables(mem) = T \cup KernelTables
    BY <1>1, SeenAll
  <2>3. KernelTables = {k1, k2, k3}
    BY <1>1 DEF SharedChain
  <2>2. Combined(mem, o, T, k1, k2, k3)
    BY <1>1, SeenTables
  <2> QED BY <2>1, <2>2, <2>3
<1>3. /\ T \subseteq Pages \ Kernels /\ o.root \in T /\ State(o, T, way) /\ mem.root = o.root
      /\ k1 \in Pages /\ k2 \in Pages /\ k3 \in Pages /\ {k1, k2, k3} \subseteq Kernels
      /\ k1 # k2 /\ k1 # k3 /\ k2 # k3 /\ KernelTables = {k1, k2, k3} /\ NULL \notin Pages
      /\ \A t \in T, i \in Index : o.tab[t][i].page \notin Kernels
      /\ \A p \in Pages : mem.ref[p] = IF p \in KernelTables THEN 1 ELSE o.ref[p]
  BY <1>1, OwnTables2, Bounds DEF SharedChain, Kernels, OwnTree, SeesTables
<1>4. /\ SharedVa[1] \in Index /\ SharedVa[2] \in Index /\ SharedVa[3] \in Index
      /\ SharedVa[4] \in Index /\ PagesArray \in Reserved /\ KernelTables \cap Reserved = {}
  BY <1>1, EnvironmentsAssumption, VmaUnmapAssumption DEF SharedChain
<1>5. \A p \in Pages : \A t, i :
        <<t, i>> \in To(p) <=> t \in T \cup {k1, k2, k3} /\ i \in Index /\ mem.tab[t][i].page = p
  BY <1>2, <1>3 DEF Entries, EntryOf, Present
<1>6. \A p : To(p) \subseteq (T \cup {k1, k2, k3}) \X Index
  BY <1>2 DEF Entries
<1> HIDE DEF To
<1>7. ASSUME NEW p \in Pages \ Reserved, p \notin KernelTables
      PROVE  To(p) = EntriesTo(o, T, p)
  <2>1. ASSUME NEW t \in T \cup {k1, k2, k3}, NEW i \in Index, mem.tab[t][i].page = p
        PROVE  t \in T /\ o.tab[t][i].page = p
    <3>1. t \notin {k1, k2, k3}
      BY <1>2, <1>3, <1>4, <1>7, <2>1 DEF Combined, Empty
    <3>2. ~ (t = o.root /\ i = SharedVa[1])
      BY <1>2, <1>3, <1>7, <2>1 DEF Combined
    <3>3. Present(mem.tab[t][i])
      BY <1>3, <1>7, <2>1 DEF Present
    <3> QED BY <1>2, <2>1, <3>1, <3>2, <3>3 DEF Combined
  <2>2. ASSUME NEW t \in T, NEW i \in Index, o.tab[t][i].page = p
        PROVE  mem.tab[t][i].page = p
    <3>1. Present(o.tab[t][i])
      BY <1>3, <1>7, <2>2 DEF Present
    <3> QED BY <1>2, <2>2, <3>1 DEF Combined
  <2>3. \A t, i : <<t, i>> \in To(p) <=> <<t, i>> \in EntriesTo(o, T, p)
    <3>1. \A t, i : <<t, i>> \in EntriesTo(o, T, p) <=>
                       t \in T /\ i \in Index /\ o.tab[t][i].page = p
      BY DEF EntriesTo
    <3>2. \A t, i : <<t, i>> \in To(p) <=>
                       t \in T \cup {k1, k2, k3} /\ i \in Index /\ mem.tab[t][i].page = p
      BY <1>5
    <3> QED BY <2>1, <2>2, <3>1, <3>2
  <2>4. EntriesTo(o, T, p) \subseteq T \X Index
    BY DEF EntriesTo
  <2> QED BY <1>6, <2>3, <2>4
<1>8. ASSUME NEW p \in KernelTables
      PROVE  p \in Pages /\ p # o.root /\ \E x : To(p) = {x}
  <2> DEFINE at == IF p = k1 THEN <<o.root, SharedVa[1]>> ELSE IF p = k2 THEN <<k1, SharedVa[2]>>
                   ELSE <<k2, SharedVa[3]>>
  <2>1. \A t \in T, i \in Index :
           mem.tab[t][i].page = p <=> (p = k1 /\ t = o.root /\ i = SharedVa[1])
    <3>1. \A t \in T, i \in Index : mem.tab[t][i].page = p =>
            (t = o.root /\ i = SharedVa[1]) \/ o.tab[t][i].page = p
      BY <1>2, <1>3, <1>8 DEF Combined, Present
    <3>2. \A t \in T, i \in Index : o.tab[t][i].page # p
      BY <1>3, <1>8
    <3> QED BY <1>2, <1>3, <3>1, <3>2 DEF Combined
  <2>2. \A i \in Index : /\ (mem.tab[k1][i].page = p) <=> (p = k2 /\ i = SharedVa[2])
                         /\ (mem.tab[k2][i].page = p) <=> (p = k3 /\ i = SharedVa[3])
                         /\ mem.tab[k3][i].page # p
    BY <1>2, <1>3, <1>4, <1>8 DEF Combined, Empty
  <2>3. \A t, i : <<t, i>> \in To(p) <=>
           ((p = k1 /\ t = o.root /\ i = SharedVa[1]) \/ (p = k2 /\ t = k1 /\ i = SharedVa[2])
            \/ (p = k3 /\ t = k2 /\ i = SharedVa[3]))
    <3> DEFINE Goes(t, i) == t \in T \cup {k1, k2, k3} /\ i \in Index /\ mem.tab[t][i].page = p
    <3>0. p \in Pages
      BY <1>3, <1>8
    <3>1. \A t, i : <<t, i>> \in To(p) <=> Goes(t, i)
      BY ONLY <1>5, <3>0
    <3>2. ASSUME NEW t, NEW i, Goes(t, i)
          PROVE  (p = k1 /\ t = o.root /\ i = SharedVa[1]) \/ (p = k2 /\ t = k1 /\ i = SharedVa[2])
                 \/ (p = k3 /\ t = k2 /\ i = SharedVa[3])
      BY <2>1, <2>2, <3>2
    <3>3. Goes(o.root, SharedVa[1]) <=> p = k1
      BY <1>3, <1>4, <2>1
    <3>4. (p = k2 => Goes(k1, SharedVa[2])) /\ (p = k3 => Goes(k2, SharedVa[3]))
      BY <1>4, <2>2
    <3> HIDE DEF Goes
    <3> QED BY <3>1, <3>2, <3>3, <3>4
  <2>4. \A t, i : <<t, i>> \in To(p) <=> <<t, i>> = at
    BY <1>3, <1>8, <2>3
  <2>5. \A x \in To(p) : \E t, i : x = <<t, i>>
    BY <1>6
  <2>6. \E t, i : at = <<t, i>>
    OBVIOUS
  <2> HIDE DEF at
  <2>7. To(p) = {at}
    BY <2>4, <2>5, <2>6
  <2> QED BY <1>3, <1>8, <2>7
<1>9. ASSUME NEW p \in Pages \ Reserved
      PROVE  mem.ref[p] = Cardinality(To(p)) + (IF p = mem.root THEN 1 ELSE 0)
  <2>1. CASE p \in KernelTables
    <3>1. PICK x : To(p) = {x}
      BY <1>8, <2>1
    <3>2. Cardinality(To(p)) = 1 /\ p # mem.root /\ mem.ref[p] = 1
      BY <1>3, <1>8, <2>1, <3>1, FS_Singleton
    <3> QED BY <3>2
  <2>2. CASE p \notin KernelTables
    <3>1. Counted(o, T)
      BY <1>3, Parts
    <3>2. o.ref[p] = Cardinality(EntriesTo(o, T, p)) + (IF p = o.root THEN 1 ELSE 0)
      BY <3>1 DEF Counted, Count
    <3> QED BY <1>3, <1>7, <2>2, <3>2
  <2> QED BY <2>1, <2>2
<1> QED BY <1>9 DEF RefsExact, To
-----------------------------------------------------------------------------
(* An environment is freed.                                                  *)

FreeMem == [fl : FreeList, ref : [Pages -> 0..(Uint16 - 1)], lent : SUBSET Pages,
            tab : [Pages -> [Index -> Entry]], root : Pages, tlb : {{}}]

\* What leads to pages: the entries <<t, i>> of tables, and curenv's pointer to the root.
RootToken == <<NULL, 0>>
Targets(to, R, p) == {x \in R : to[x] = p}

\* The tables S that env_free_page_tables comes to, deep[t] steps from the root, and what
\* their present entries lead to.  und[t] are the tables below t, and t.  No more than one
\* entry leads to a frame of boot_alloc's, and none leads to a page of U.
Plan(to, S, deep, und, U) ==
    /\ S \subseteq Pages \ Reserved /\ deep \in [S -> 0..3] /\ und \in [S -> SUBSET S]
    /\ to \in [DOMAIN to -> Pages] /\ DOMAIN to \subseteq (S \X Index) \cup {RootToken}
    /\ RootToken \in DOMAIN to
    /\ to[RootToken] \in S /\ deep[to[RootToken]] = 0 /\ und[to[RootToken]] = S
    /\ \A i \in Index : <<to[RootToken], i>> \in DOMAIN to => i < KernelVma
    /\ \A x, y \in DOMAIN to : to[x] = to[y] /\ to[x] \in Reserved => x = y
    /\ \A x \in DOMAIN to : to[x] \notin U
    /\ \A t \in S : t \in und[t] /\ (deep[t] = 3 => und[t] = {t})
    /\ \A t \in S : deep[t] < 3 =>
         /\ \A i \in Index : <<t, i>> \in DOMAIN to =>
              /\ to[<<t, i>>] \in S /\ deep[to[<<t, i>>]] = deep[t] + 1
              /\ und[to[<<t, i>>]] \subseteq und[t] \ {t}
         /\ \A i, j \in Index : i # j /\ <<t, i>> \in DOMAIN to /\ <<t, j>> \in DOMAIN to =>
              und[to[<<t, i>>]] \cap und[to[<<t, j>>]] = {}
         /\ \A u \in und[t] \ {t} : \E i \in Index : <<t, i>> \in DOMAIN to /\ u \in und[to[<<t, i>>]]

\* Memory n when only what is in R has not been given up.
Freeing(n, R, to, S, U) ==
    /\ n \in FreeMem /\ R \subseteq DOMAIN to /\ Good(n.fl, n.lent)
    /\ \A p \in Pages \ Reserved : n.ref[p] = Cardinality(Targets(to, R, p))
    /\ \A x \in R : to[x] \in Reserved => n.ref[to[x]] = 0
    /\ \A p \in Pages : p \in n.lent <=> (p \in U \/ (p \notin Reserved /\ Targets(to, R, p) # {}))
    /\ \A t \in S, i \in Index :
         IF <<t, i>> \in DOMAIN to THEN <<t, i>> \in R => n.tab[t][i].page = to[<<t, i>>]
         ELSE n.tab[t][i].page = NULL

\* n2 is n after page_decref of p.
Decreased(n, n2, p) ==
    /\ n2 \in FreeMem /\ n2.tab = n.tab
    /\ \A q \in Pages : q # p => n2.ref[q] = n.ref[q]
    /\ n.ref[p] # 1 => n2.fl = n.fl /\ n2.lent = n.lent
    /\ n.ref[p] = 1 => n2.fl = page_free(n.fl, 0, p) /\ n2.lent = n.lent \ {p}
    /\ n.ref[p] > 0 => n2.ref[p] = n.ref[p] - 1

\* Counts are numbers of 16 bits.
LEMMA Wraps ==
  ASSUME NEW x \in 0..(Uint16 - 1)
  PROVE  /\ (x - 1) % Uint16 \in 0..(Uint16 - 1)
         /\ x > 0 => (x - 1) % Uint16 = x - 1
         /\ (x - 1) % Uint16 = 0 <=> x = 1
<1> DEFINE w == Uint16
<1>1. w \in Nat /\ w > 1
  BY PageTablesAssumption DEF Uint16
<1> HIDE DEF w
<1>2. ASSUME NEW y \in 0..(w - 1)
      PROVE  /\ (y - 1) % w \in 0..(w - 1)
             /\ y > 0 => (y - 1) % w = y - 1
             /\ (y - 1) % w = 0 <=> y = 1
  BY <1>1
<1> QED BY <1>2 DEF w

\* page_decref does that.
LEMMA DecrefFields ==
  ASSUME NEW n \in FreeMem, NEW p \in Pages, n.ref[p] = 1 => page_free(n.fl, 0, p) \in FreeList
  PROVE  Decreased(n, page_decref(n, p), p)
<1> DEFINE r == (n.ref[p] - 1) % Uint16
           m0 == [n EXCEPT !.ref[p] = 0, !.fl = page_free(n.fl, 0, p), !.lent = @ \ {p}]
           m1 == [n EXCEPT !.ref[p] = r]
<1>1. n.ref[p] \in 0..(Uint16 - 1) /\ n.fl \in FreeList /\ n.lent \subseteq Pages
      /\ n.ref \in [Pages -> 0..(Uint16 - 1)] /\ 0 \in 0..(Uint16 - 1)
  <2>1. Uint16 \in Nat /\ Uint16 > 1
    BY PageTablesAssumption DEF Uint16
  <2> QED BY <2>1 DEF FreeMem
<1>2. /\ r \in 0..(Uint16 - 1)
      /\ n.ref[p] > 0 => r = n.ref[p] - 1
      /\ r = 0 <=> n.ref[p] = 1
  BY <1>1, Wraps
<1>3. page_decref(n, p) = IF r = 0 THEN m0 ELSE m1
  BY DEF page_decref
<1> HIDE DEF r
<1>4. CASE r = 0
  <2>1. page_decref(n, p) = m0 /\ n.ref[p] = 1
    BY <1>2, <1>3, <1>4
  <2>2. page_free(n.fl, 0, p) \in FreeList
    BY <2>1
  <2>3. m0 \in FreeMem
    BY <1>1, <2>2 DEF FreeMem
  <2>4. /\ m0.tab = n.tab /\ m0.fl = page_free(n.fl, 0, p) /\ m0.lent = n.lent \ {p}
        /\ m0.ref = [n.ref EXCEPT ![p] = 0]
    BY DEF FreeMem
  <2>5. m0.ref[p] = 0 /\ \A q \in Pages : q # p => m0.ref[q] = n.ref[q]
    BY <1>1, <2>4
  <2> HIDE DEF m0
  <2> QED BY <2>1, <2>3, <2>4, <2>5 DEF Decreased
<1>5. CASE r # 0
  <2>1. page_decref(n, p) = m1 /\ n.ref[p] # 1
    BY <1>2, <1>3, <1>5
  <2>3. m1 \in FreeMem
    BY <1>1, <1>2 DEF FreeMem
  <2>4. /\ m1.tab = n.tab /\ m1.fl = n.fl /\ m1.lent = n.lent
        /\ m1.ref = [n.ref EXCEPT ![p] = r]
    BY DEF FreeMem
  <2>5. m1.ref[p] = r /\ \A q \in Pages : q # p => m1.ref[q] = n.ref[q]
    BY <1>1, <2>4
  <2> HIDE DEF m1
  <2> QED BY <1>2, <2>1, <2>3, <2>4, <2>5 DEF Decreased
<1> QED BY <1>4, <1>5

\* What leads to a page can be counted.
LEMMA TargetsFinite ==
  ASSUME NEW to, NEW S, NEW deep, NEW und, NEW U, Plan(to, S, deep, und, U),
         NEW R \in SUBSET DOMAIN to, NEW p
  PROVE  IsFiniteSet(Targets(to, R, p))
<1>1. IsFiniteSet(Pages \X Index)
  <2>1. IsFiniteSet(Pages) /\ IsFiniteSet(Index)
    BY PageListAssumption, FS_Interval DEF Pages, Index
  <2> QED BY <2>1, FS_Product
<1>2. IsFiniteSet((Pages \X Index) \cup {RootToken})
  BY <1>1, FS_AddElement
<1>3. Targets(to, R, p) \subseteq (Pages \X Index) \cup {RootToken}
  BY DEF Targets, Plan
<1> HIDE DEF Pages, Index, RootToken
<1> QED BY <1>2, <1>3, FS_Subset

\* One reference less.
LEMMA DropsOne ==
  ASSUME NEW to, NEW S, NEW deep, NEW und, NEW U, Plan(to, S, deep, und, U),
         NEW n, NEW R, Freeing(n, R, to, S, U), NEW x \in R, NEW p, p = to[x]
  PROVE  Freeing(page_decref(n, p), R \ {x}, to, S, U)
<1>1. /\ n \in FreeMem /\ R \subseteq DOMAIN to /\ Good(n.fl, n.lent) /\ p \in Pages
      /\ p \notin U /\ n.ref[p] \in 0..(Uint16 - 1) /\ n.lent \subseteq Pages
  BY DEF Freeing, Plan, FreeMem
<1> DEFINE R2 == R \ {x}
           C(q) == Cardinality(Targets(to, R, q))
           C2(q) == Cardinality(Targets(to, R2, q))
<1>2. ASSUME NEW q PROVE IsFiniteSet(Targets(to, R, q)) /\ C(q) \in Nat
                         /\ (C(q) = 0 <=> Targets(to, R, q) = {})
                         /\ IsFiniteSet(Targets(to, R2, q)) /\ C2(q) \in Nat
                         /\ (C2(q) = 0 <=> Targets(to, R2, q) = {})
  <2>1. IsFiniteSet(Targets(to, R, q)) /\ IsFiniteSet(Targets(to, R2, q))
    BY <1>1, TargetsFinite
  <2> QED BY <2>1, FS_CardinalityType, FS_EmptySet
<1>3. \A q : q # p => Targets(to, R2, q) = Targets(to, R, q)
  BY DEF Targets
<1>4. C2(p) = C(p) - 1 /\ C(p) > 0 /\ Targets(to, R, p) # {}
  <2>1. Targets(to, R2, p) = Targets(to, R, p) \ {x} /\ x \in Targets(to, R, p)
    BY DEF Targets
  <2>2. C2(p) = C(p) - 1 /\ Targets(to, R, p) # {}
    BY <1>2, <2>1, FS_RemoveElement
  <2> QED BY <1>2, <2>2
<1>5. \A y \in R2 : y \in R /\ y # x
  OBVIOUS
<1> HIDE DEF R2, C, C2
<1>6. ASSUME p \notin Reserved
      PROVE  n.ref[p] = C(p) /\ p \in n.lent /\ (n.ref[p] = 1 <=> Targets(to, R2, p) = {})
  <2>1. n.ref[p] = C(p) /\ p \in n.lent
    BY <1>1, <1>4, <1>6 DEF Freeing, C
  <2>2. C(p) = 1 <=> C2(p) = 0
    BY <1>2, <1>4
  <2> QED BY <1>2, <2>1, <2>2
<1>7. ASSUME p \in Reserved
      PROVE  n.ref[p] = 0 /\ (\A y \in R2 : to[y] # p) /\ p \notin n.lent
  <2>1. n.ref[p] = 0
    BY <1>7 DEF Freeing
  <2>2. \A y \in R2 : to[y] # p
    BY <1>1, <1>5, <1>7 DEF Plan
  <2>3. p \notin n.lent
    BY <1>1, <1>7, NotReserved
  <2> QED BY <2>1, <2>2, <2>3
<1>8. n.ref[p] = 1 => /\ p \in n.lent /\ page_free(n.fl, 0, p) \in FreeList
                      /\ Good(page_free(n.fl, 0, p), n.lent \ {p})
  <2> SUFFICES ASSUME n.ref[p] = 1 PROVE /\ p \in n.lent /\ page_free(n.fl, 0, p) \in FreeList
                      /\ Good(page_free(n.fl, 0, p), n.lent \ {p})
    OBVIOUS
  <2>1. p \in n.lent
    BY <1>6, <1>7
  <2>2. Good(page_free(n.fl, 0, p), n.lent \ {p})
    BY <1>1, <2>1, FreeGood
  <2>3. page_free(n.fl, 0, p) \in FreeList
    BY <2>2 DEF Good, Linked
  <2> QED BY <2>1, <2>2, <2>3
<1>9. PICK n2 : n2 = page_decref(n, p) /\ Decreased(n, n2, p)
  BY <1>1, <1>8, DecrefFields
<1>10. n2 \in FreeMem /\ n2.tab = n.tab /\ Good(n2.fl, n2.lent)
  BY <1>1, <1>8, <1>9 DEF Decreased
<1>11. \A q \in Pages \ Reserved : n2.ref[q] = C2(q)
  <2>1. ASSUME NEW q \in Pages \ Reserved, q # p PROVE n2.ref[q] = C2(q)
    BY <1>3, <1>9, <2>1 DEF Decreased, Freeing, C2
  <2>2. ASSUME p \notin Reserved PROVE n2.ref[p] = C2(p)
    BY <1>2, <1>4, <1>6, <1>9, <2>2 DEF Decreased
  <2> QED BY <2>1, <2>2
<1>12. \A y \in R2 : to[y] \in Reserved => n2.ref[to[y]] = 0
  <2> SUFFICES ASSUME NEW y \in R2, to[y] \in Reserved PROVE n2.ref[to[y]] = 0
    OBVIOUS
  <2>1. to[y] # p /\ n.ref[to[y]] = 0 /\ to[y] \in Pages
    BY <1>1, <1>5, <1>7 DEF Freeing, Plan
  <2> QED BY <1>9, <2>1 DEF Decreased
<1>13. \A q \in Pages : q \in n2.lent <=> (q \in U \/ (q \notin Reserved /\ Targets(to, R2, q) # {}))
  <2>1. ASSUME NEW q \in Pages, q # p
        PROVE  q \in n2.lent <=> (q \in U \/ (q \notin Reserved /\ Targets(to, R2, q) # {}))
    <3>1. q \in n2.lent <=> q \in n.lent
      BY <1>9, <2>1 DEF Decreased
    <3>2. Targets(to, R2, q) = Targets(to, R, q)
      BY <1>3, <2>1
    <3> QED BY <3>1, <3>2 DEF Freeing
  <2>2. CASE p \notin Reserved
    <3>1. p \in n2.lent <=> n.ref[p] # 1
      BY <1>6, <1>9, <2>2 DEF Decreased
    <3> QED BY <1>1, <1>6, <2>1, <2>2, <3>1
  <2>3. CASE p \in Reserved
    <3>1. n2.lent = n.lent
      BY <1>7, <1>9, <2>3 DEF Decreased
    <3> QED BY <1>1, <1>7, <2>1, <2>3, <3>1
  <2> QED BY <2>2, <2>3
<1>14. \A t \in S, i \in Index :
         IF <<t, i>> \in DOMAIN to THEN <<t, i>> \in R2 => n2.tab[t][i].page = to[<<t, i>>]
         ELSE n2.tab[t][i].page = NULL
  BY <1>5, <1>10 DEF Freeing
<1>15. R2 \subseteq DOMAIN to
  BY <1>1, <1>5
<1>16. Freeing(n2, R2, to, S, U)
  BY <1>10, <1>11, <1>12, <1>13, <1>14, <1>15 DEF Freeing, C2
<1> QED BY <1>9, <1>16 DEF R2

\* The first j rounds of a loop, between which memory is in Inv[i].
Rounds(j, f, m, nx, Inv) ==
    /\ f = [i \in 0..j |-> IF i = 0 THEN m ELSE nx[<<i - 1, f[i - 1]>>]]
    /\ \A i \in 0..j : f[i] \in Inv[i]

\* A loop of k rounds, each of which leads from memories of Inv[i] to memories of
\* Inv[i + 1], exists.
LEMMA LoopExists ==
  ASSUME NEW k \in Nat, NEW m, NEW nx, NEW Inv, m \in Inv[0],
         \A i \in 0..(k - 1) : \A n \in Inv[i] : nx[<<i, n>>] \in Inv[i + 1]
  PROVE  \E f : Rounds(k, f, m, nx, Inv)
<1> DEFINE Bad == {j \in 0..k : ~ \E f : Rounds(j, f, m, nx, Inv)}
<1>1. Bad = {}
  <2> SUFFICES ASSUME Bad # {} PROVE FALSE
    OBVIOUS
  <2>1. PICK j \in Bad : \A y \in Bad : j <= y
    <3>1. Bad \in SUBSET Nat
      OBVIOUS
    <3> HIDE DEF Bad
    <3> QED BY <3>1, LeastExists
  <2>2. CASE j = 0
    <3> DEFINE f == [i \in 0..0 |-> m]
    <3>1. f = [i \in 0..0 |-> IF i = 0 THEN m ELSE nx[<<i - 1, f[i - 1]>>]]
      OBVIOUS
    <3>2. \A i \in 0..0 : f[i] \in Inv[i]
      OBVIOUS
    <3> HIDE DEF f
    <3> QED BY <2>1, <2>2, <3>1, <3>2 DEF Rounds
  <2>3. CASE j # 0
    <3>1. j \in Nat /\ j - 1 \in 0..k /\ j - 1 \notin Bad
      BY <2>1, <2>3
    <3>2. PICK g : Rounds(j - 1, g, m, nx, Inv)
      BY <3>1
    <3>3. /\ g = [i \in 0..(j - 1) |-> IF i = 0 THEN m ELSE nx[<<i - 1, g[i - 1]>>]]
          /\ \A i \in 0..(j - 1) : g[i] \in Inv[i]
      BY <3>2 DEF Rounds
    <3> DEFINE f == [i \in 0..j |-> IF i = 0 THEN m ELSE nx[<<i - 1, g[i - 1]>>]]
    <3>4. \A i \in 0..(j - 1) : f[i] = g[i]
      <4>1. \A i \in 0..(j - 1) : g[i] = IF i = 0 THEN m ELSE nx[<<i - 1, g[i - 1]>>]
        BY ONLY <3>3
      <4>2. \A i \in 0..j : f[i] = IF i = 0 THEN m ELSE nx[<<i - 1, g[i - 1]>>]
        BY ONLY TRUE
      <4>3. 0..(j - 1) \subseteq 0..j
        BY <3>1
      <4> HIDE DEF f
      <4> QED BY ONLY <4>1, <4>2, <4>3
    <3>5. f = [i \in 0..j |-> IF i = 0 THEN m ELSE nx[<<i - 1, f[i - 1]>>]]
      <4>1. \A i \in 0..j : i # 0 => i - 1 \in 0..(j - 1)
        BY <3>1
      <4> HIDE DEF f
      <4>2. \A i \in 0..j : i # 0 => f[i - 1] = g[i - 1]
        BY <3>4, <4>1
      <4> QED BY <4>2 DEF f
    <3>6. f[j] \in Inv[j]
      <4>1. f[j] = nx[<<j - 1, g[j - 1]>>]
        BY <2>3, <3>1
      <4>2. g[j - 1] \in Inv[j - 1] /\ j - 1 \in 0..(k - 1) /\ (j - 1) + 1 = j
        BY <2>1, <2>3, <3>1, <3>3
      <4> HIDE DEF f
      <4> QED BY <4>1, <4>2
    <3> HIDE DEF f
    <3>7. \A i \in 0..j : f[i] \in Inv[i]
      <4> HIDE DEF Bad
      <4>1. \A i \in 0..j : i = j \/ i \in 0..(j - 1)
        BY <3>1
      <4> QED BY <3>3, <3>4, <3>6, <4>1
    <3>8. Rounds(j, f, m, nx, Inv)
      BY <3>5, <3>7 DEF Rounds
    <3> QED BY <2>1, <3>8
  <2> QED BY <2>2, <2>3
<1> QED BY <1>1

\* What every round of a loop keeps is true at its end.
LEMMA LoopKeeps ==
  ASSUME NEW k \in Nat, NEW g, NEW Inv, g[0] \in Inv[0],
         \A i \in 0..(k - 1) : g[i] \in Inv[i] => g[i + 1] \in Inv[i + 1]
  PROVE  g[k] \in Inv[k]
<1> DEFINE Bad == {j \in 0..k : g[j] \notin Inv[j]}
<1>1. Bad = {}
  <2> SUFFICES ASSUME Bad # {} PROVE FALSE
    OBVIOUS
  <2>1. PICK j \in Bad : \A y \in Bad : j <= y
    <3>1. Bad \in SUBSET Nat
      OBVIOUS
    <3> HIDE DEF Bad
    <3> QED BY <3>1, LeastExists
  <2>2. j \in 1..k /\ j - 1 \in 0..(k - 1) /\ (j - 1) + 1 = j /\ j - 1 \notin Bad
    BY <2>1
  <2>3. g[j - 1] \in Inv[j - 1]
    BY <2>2
  <2> QED BY <2>1, <2>2, <2>3
<1> QED BY <1>1

-----------------------------------------------------------------------------
(* The loops over the entries of a table. *)

\* The entries of the tables V.
Of(to, V) == {x \in DOMAIN to : x[1] \in V}

\* When the table that x leads to can be given up, nothing below it has been.
CanFree(n, x, R, to, S, und, U) ==
    /\ Freeing(n, R, to, S, U) /\ x \in R /\ to[x] \in S
    /\ x \notin Of(to, und[to[x]]) /\ Of(to, und[to[x]]) \subseteq R

\* Afterwards everything has.
HasFreed(n, x, R, to, S, und, U) ==
    Freeing(n, R \ ({x} \cup Of(to, und[to[x]])), to, S, U)

\* What is given up by the first j rounds of the loop over table t.
DoneAt(to, deep, und, t, j) ==
    {x \in DOMAIN to : \/ x[1] = t /\ x[2] < j
                       \/ deep[t] < 3 /\ \E i \in Index : /\ i < j /\ <<t, i>> \in DOMAIN to
                                                          /\ x[1] \in und[to[<<t, i>>]]}

\* Nothing before the first.
LEMMA NothingDone ==
  ASSUME NEW to, NEW S, NEW deep, NEW und, NEW U, Plan(to, S, deep, und, U), NEW t \in S
  PROVE  DoneAt(to, deep, und, t, 0) = {}
<1>1. \A x \in DOMAIN to : x[1] = t => x[2] \in Index
  <2>1. RootToken[1] \notin S
    BY PageListAssumption DEF RootToken, Plan
  <2> QED BY <2>1 DEF Plan
<1>2. \A i \in Index : ~(i < 0)
  BY PageListAssumption DEF Index
<1> QED BY <1>1, <1>2 DEF DoneAt

\* An entry that is not present is passed over.
LEMMA PassesOver ==
  ASSUME NEW to, NEW S, NEW deep, NEW und, NEW U, Plan(to, S, deep, und, U), NEW t \in S,
         NEW j \in Index, <<t, j>> \notin DOMAIN to
  PROVE  DoneAt(to, deep, und, t, j + 1) = DoneAt(to, deep, und, t, j)
<1>1. \A x \in DOMAIN to : x[1] = t => x[2] \in Index /\ x = <<t, x[2]>>
  <2>1. RootToken[1] \notin S
    BY PageListAssumption DEF RootToken, Plan
  <2> QED BY <2>1 DEF Plan
<1>2. \A i \in Index : i < j + 1 <=> i < j \/ i = j
  BY PageListAssumption DEF Index
<1>3. \A x \in DOMAIN to : x[1] = t => (x[2] < j + 1 <=> x[2] < j)
  BY <1>1, <1>2
<1>4. \A i \in Index : <<t, i>> \in DOMAIN to => (i < j + 1 <=> i < j)
  BY <1>2
<1> QED BY <1>3, <1>4 DEF DoneAt

\* The places of tables are pairs with an index.
LEMMA Pairs ==
  ASSUME NEW to, NEW S, NEW deep, NEW und, NEW U, Plan(to, S, deep, und, U)
  PROVE  \A x \in DOMAIN to : x[1] \in S => x[2] \in Index /\ x = <<x[1], x[2]>>
<1>1. RootToken[1] \notin S
  BY PageListAssumption DEF RootToken, Plan
<1> QED BY <1>1 DEF Plan

\* The round for a present entry j gives up the entry and what is below it.
Round(to, deep, und, t, j, R, Rj) ==
    IF deep[t] < 3
    THEN Rj \ ({<<t, j>>} \cup Of(to, und[to[<<t, j>>]])) = R \ DoneAt(to, deep, und, t, j + 1)
    ELSE Rj \ {<<t, j>>} = R \ DoneAt(to, deep, und, t, j + 1)

\* It comes to an entry that is as it was.
LEMMA ComesTo ==
  ASSUME NEW to, NEW S, NEW deep, NEW und, NEW U, Plan(to, S, deep, und, U), NEW t \in S,
         NEW R \in SUBSET DOMAIN to, Of(to, und[t]) \subseteq R, NEW j \in Index, <<t, j>> \in DOMAIN to,
         NEW Rj, Rj = R \ DoneAt(to, deep, und, t, j)
  PROVE  <<t, j>> \in Rj /\ Round(to, deep, und, t, j, R, Rj)
<1> DEFINE x == <<t, j>>
           D == DoneAt(to, deep, und, t, j)
           D2 == DoneAt(to, deep, und, t, j + 1)
           B == Of(to, und[to[x]])
<1>1. x \in DOMAIN to /\ x[1] = t /\ x[2] = j /\ j \in Int /\ ~(j < j)
  BY PageListAssumption DEF Index
<1>2. \A i \in Index : i < j + 1 <=> i < j \/ i = j
  BY PageListAssumption DEF Index
<1>3. \A y \in DOMAIN to : y[1] = t => /\ (y[2] < j + 1 <=> y[2] < j \/ y = x)
                                       /\ y[2] = j <=> y = x
  <2>1. \A y \in DOMAIN to : y[1] = t => y[2] \in Index /\ y = <<t, y[2]>>
    BY Pairs
  <2> QED BY <1>1, <1>2, <2>1
<1>4. x \in R
  BY <1>1 DEF Of, Plan
<1>5. CASE deep[t] < 3
  <2>1. \A i \in Index : <<t, i>> \in DOMAIN to => t \notin und[to[<<t, i>>]]
    BY <1>5 DEF Plan
  <2>2. \A y \in DOMAIN to : y \in D <=> \/ (y[1] = t /\ y[2] < j)
             \/ \E i \in Index : i < j /\ <<t, i>> \in DOMAIN to /\ y[1] \in und[to[<<t, i>>]]
    BY <1>5 DEF DoneAt
  <2>3. \A y \in DOMAIN to : y \in D2 <=> \/ (y[1] = t /\ y[2] < j + 1)
             \/ \E i \in Index : i < j + 1 /\ <<t, i>> \in DOMAIN to /\ y[1] \in und[to[<<t, i>>]]
    BY <1>5 DEF DoneAt
  <2>4. x \notin D
    BY <1>1, <2>1, <2>2
  <2>5. \A y \in DOMAIN to : y \in B <=> y[1] \in und[to[x]]
    BY DEF Of
  <2> HIDE DEF x, D, D2, B
  <2>6. \A y \in DOMAIN to : y \in D2 <=> y \in D \/ y = x \/ y \in B
    <3> SUFFICES ASSUME NEW y \in DOMAIN to PROVE y \in D2 <=> y \in D \/ y = x \/ y \in B
      OBVIOUS
    <3>1. (y[1] = t /\ y[2] < j + 1) <=> ((y[1] = t /\ y[2] < j) \/ y = x)
      BY <1>1, <1>3
    <3>2. (\E i \in Index : i < j + 1 /\ <<t, i>> \in DOMAIN to /\ y[1] \in und[to[<<t, i>>]])
            <=> ((\E i \in Index : i < j /\ <<t, i>> \in DOMAIN to /\ y[1] \in und[to[<<t, i>>]])
                 \/ y[1] \in und[to[x]])
      BY <1>1, <1>2 DEF x
    <3> QED BY <2>2, <2>3, <2>5, <3>1, <3>2
  <2>7. Rj \ ({x} \cup B) = R \ D2
    BY <2>6 DEF D
  <2> QED BY <1>4, <1>5, <2>4, <2>7 DEF Round, x, D, D2, B
<1>6. CASE ~(deep[t] < 3)
  <2>1. \A y \in DOMAIN to : y \in D <=> y[1] = t /\ y[2] < j
    BY <1>6 DEF DoneAt
  <2>2. \A y \in DOMAIN to : y \in D2 <=> y[1] = t /\ y[2] < j + 1
    BY <1>6 DEF DoneAt
  <2>3. x \notin D
    BY <1>1, <2>1
  <2> HIDE DEF x, D, D2
  <2>4. \A y \in DOMAIN to : y \in D2 <=> y \in D \/ y = x
    BY <1>1, <1>3, <2>1, <2>2
  <2>5. Rj \ {x} = R \ D2
    BY <2>4 DEF D
  <2> QED BY <1>4, <1>6, <2>3, <2>5 DEF Round, x, D, D2
<1> QED BY <1>5, <1>6

\* Entry j leads to a table, one level down, that can be given up.
LeadsDown(n, t, j, Rj, to, S, deep, und, U) ==
    /\ n.tab[t][j].page = to[<<t, j>>] /\ Present(n.tab[t][j])
    /\ deep[to[<<t, j>>]] = deep[t] + 1
    /\ CanFree(n, <<t, j>>, Rj, to, S, und, U)

\* So it does above the page tables.
LEMMA NextTableFree ==
  ASSUME NEW to, NEW S, NEW deep, NEW und, NEW U, Plan(to, S, deep, und, U), NEW t \in S, deep[t] < 3,
         NEW R \in SUBSET DOMAIN to, Of(to, und[t]) \subseteq R, NEW j \in Index, <<t, j>> \in DOMAIN to,
         NEW Rj, Rj = R \ DoneAt(to, deep, und, t, j), NEW n, Freeing(n, Rj, to, S, U)
  PROVE  LeadsDown(n, t, j, Rj, to, S, deep, und, U)
<1> DEFINE x == <<t, j>>
           c == to[x]
<1>1. x \in Rj
  BY ComesTo
<1>2. n.tab[t][j].page = c
  BY <1>1 DEF Freeing
<1>3. c \in S /\ deep[c] = deep[t] + 1 /\ und[c] \subseteq und[t] \ {t} /\ x[1] = t /\ NULL \notin S
  BY PageListAssumption DEF Plan
<1>4. x \notin Of(to, und[c])
  BY <1>3 DEF Of
<1>5. Of(to, und[c]) \subseteq Rj
  <2> SUFFICES ASSUME NEW y \in DOMAIN to, y[1] \in und[c] PROVE y \in Rj
    BY DEF Of
  <2>1. y \in R /\ y[1] # t
    BY <1>3 DEF Of
  <2>2. \A i \in Index : i < j /\ <<t, i>> \in DOMAIN to => y[1] \notin und[to[<<t, i>>]]
    <3> SUFFICES ASSUME NEW i \in Index, i < j, <<t, i>> \in DOMAIN to
                 PROVE  und[to[<<t, i>>]] \cap und[c] = {}
      OBVIOUS
    <3>1. i # j
      BY PageListAssumption DEF Index
    <3> QED BY <3>1 DEF Plan
  <2> QED BY <2>1, <2>2 DEF DoneAt
<1> HIDE DEF x
<1> QED BY <1>1, <1>2, <1>3, <1>4, <1>5 DEF LeadsDown, CanFree, Present, x

\* An entry that has been given up may be cleared.
LEMMA ClearsEntry ==
  ASSUME NEW to, NEW S, NEW deep, NEW und, NEW U, Plan(to, S, deep, und, U), NEW R, NEW n,
         Freeing(n, R, to, S, U), NEW t \in S, NEW i \in Index, <<t, i>> \notin R
  PROVE  Freeing(SetEntry(n, t, i, Empty), R, to, S, U)
<1> DEFINE n2 == SetEntry(n, t, i, Empty)
<1>1. n \in FreeMem /\ S \subseteq Pages
  BY DEF Freeing, Plan
<1>2. Empty \in Entry /\ Empty.page = NULL
  BY DEF Empty, Entry, Ptr
<1>3. n2 \in FreeMem /\ n2.fl = n.fl /\ n2.ref = n.ref /\ n2.lent = n.lent
  BY <1>1, <1>2 DEF FreeMem, SetEntry
<1>4. \A u \in S, j \in Index : n2.tab[u][j] = IF u = t /\ j = i THEN Empty ELSE n.tab[u][j]
  BY <1>1 DEF FreeMem, SetEntry
<1> HIDE DEF n2
<1>5. \A u \in S, j \in Index :
         IF <<u, j>> \in DOMAIN to THEN <<u, j>> \in R => n2.tab[u][j].page = to[<<u, j>>]
         ELSE n2.tab[u][j].page = NULL
  <2> SUFFICES ASSUME NEW u \in S, NEW j \in Index
               PROVE  IF <<u, j>> \in DOMAIN to THEN <<u, j>> \in R => n2.tab[u][j].page = to[<<u, j>>]
                      ELSE n2.tab[u][j].page = NULL
    OBVIOUS
  <2>1. IF <<u, j>> \in DOMAIN to THEN <<u, j>> \in R => n.tab[u][j].page = to[<<u, j>>]
        ELSE n.tab[u][j].page = NULL
    BY DEF Freeing
  <2>2. CASE u = t /\ j = i
    <3>1. n2.tab[u][j] = Empty /\ <<u, j>> \notin R
      BY <1>4, <2>2
    <3> QED BY <1>2, <3>1
  <2>3. CASE ~(u = t /\ j = i)
    BY <1>4, <2>1, <2>3
  <2> QED BY <2>2, <2>3
<1>6. Freeing(n2, R, to, S, U)
  BY <1>3, <1>5 DEF Freeing
<1> QED BY <1>6 DEF n2

\* In a page table it gives up a page and clears the entry.
LEMMA NextPageFreed ==
  ASSUME NEW to, NEW S, NEW deep, NEW und, NEW U, Plan(to, S, deep, und, U), NEW t \in S, deep[t] = 3,
         NEW R \in SUBSET DOMAIN to, Of(to, und[t]) \subseteq R, NEW j \in Index, <<t, j>> \in DOMAIN to,
         NEW Rj, Rj = R \ DoneAt(to, deep, und, t, j), NEW n, Freeing(n, Rj, to, S, U)
  PROVE  /\ Present(n.tab[t][j])
         /\ Freeing(SetEntry(page_decref(n, n.tab[t][j].page), t, j, Empty),
                    R \ DoneAt(to, deep, und, t, j + 1), to, S, U)
<1>1. <<t, j>> \in Rj /\ Rj \ {<<t, j>>} = R \ DoneAt(to, deep, und, t, j + 1)
  <2>1. ~(deep[t] < 3)
    OBVIOUS
  <2>2. <<t, j>> \in Rj /\ Round(to, deep, und, t, j, R, Rj)
    BY ComesTo
  <2> QED BY <2>1, <2>2 DEF Round
<1>2. n.tab[t][j].page = to[<<t, j>>] /\ to[<<t, j>>] \in Pages
  BY <1>1 DEF Freeing, Plan
<1>3. Freeing(page_decref(n, n.tab[t][j].page), Rj \ {<<t, j>>}, to, S, U)
  BY <1>1, <1>2, DropsOne
<1>4. Freeing(SetEntry(page_decref(n, n.tab[t][j].page), t, j, Empty), Rj \ {<<t, j>>}, to, S, U)
  BY <1>3, ClearsEntry
<1> QED BY <1>1, <1>2, <1>4, PageListAssumption DEF Present

\* When the loop is over, the table itself is given up.
LEMMA LoopOver ==
  ASSUME NEW to, NEW S, NEW deep, NEW und, NEW U, Plan(to, S, deep, und, U), NEW n, NEW R, NEW x,
         CanFree(n, x, R, to, S, und, U), NEW t, t = to[x],
         NEW k, k = HugeSize \/ (k = KernelVma /\ x = RootToken),
         NEW m, Freeing(m, R \ DoneAt(to, deep, und, t, k), to, S, U)
  PROVE  HasFreed(page_decref(m, t), x, R, to, S, und, U)
<1> DEFINE D == DoneAt(to, deep, und, t, k)
<1>1. /\ t \in S /\ t \in und[t] /\ x \in R /\ R \subseteq DOMAIN to /\ x \notin Of(to, und[t])
      /\ Of(to, und[t]) \subseteq R
  BY DEF CanFree, Freeing, Plan
<1>2. \A i \in Index : <<t, i>> \in DOMAIN to => i < k
  BY PageListAssumption DEF Index, Plan
<1>3. \A y \in DOMAIN to : y \in D <=> y \in Of(to, und[t])
  <2> SUFFICES ASSUME NEW y \in DOMAIN to PROVE y \in D <=> y[1] \in und[t]
    BY DEF Of
  <2>1. ASSUME y[1] = t PROVE y \in D /\ y[1] \in und[t]
    <3>1. y[2] \in Index /\ y = <<t, y[2]>>
      BY <1>1, <2>1, Pairs
    <3>2. y[2] < k
      BY <1>2, <3>1
    <3> QED BY <1>1, <2>1, <3>2 DEF DoneAt
  <2>2. ASSUME y[1] # t, y[1] \in und[t] PROVE y \in D
    <3>1. deep[t] < 3
      <4>1. deep[t] # 3 /\ deep[t] \in 0..3
        BY <1>1, <2>2 DEF Plan
      <4> QED BY <4>1
    <3>2. PICK i \in Index : <<t, i>> \in DOMAIN to /\ y[1] \in und[to[<<t, i>>]]
      BY <1>1, <2>2, <3>1 DEF Plan
    <3>3. i < k
      BY <1>2, <3>2
    <3> QED BY <3>1, <3>2, <3>3 DEF DoneAt
  <2>3. ASSUME y[1] # t, y \in D PROVE y[1] \in und[t]
    <3>1. deep[t] < 3 /\ \E i \in Index : <<t, i>> \in DOMAIN to /\ y[1] \in und[to[<<t, i>>]]
      BY <2>3 DEF DoneAt
    <3> QED BY <1>1, <3>1 DEF Plan
  <2> QED BY <2>1, <2>2, <2>3
<1>4. x \in R \ D /\ (R \ D) \ {x} = R \ ({x} \cup Of(to, und[t]))
  BY <1>1, <1>3
<1>5. Freeing(page_decref(m, t), (R \ D) \ {x}, to, S, U)
  BY <1>4, DropsOne
<1> QED BY <1>4, <1>5 DEF HasFreed

\* free_page_table gives up a page table and its pages.
LEMMA FreesPageTable ==
  ASSUME NEW to, NEW S, NEW deep, NEW und, NEW U, Plan(to, S, deep, und, U), NEW n, NEW R, NEW x,
         CanFree(n, x, R, to, S, und, U), NEW t, t = to[x], deep[t] = 3
  PROVE  HasFreed(free_page_table(n, t), x, R, to, S, und, U)
<1> DEFINE k == HugeSize
           Q(j) == R \ DoneAt(to, deep, und, t, j)
           Next1(m, i) == IF Present(m.tab[t][i]) THEN SetEntry(page_decref(m, m.tab[t][i].page), t, i, Empty) ELSE m
           Inv == [j \in 0..k |-> {m \in FreeMem : Freeing(m, Q(j), to, S, U)}]
           nx == [y \in (0..(k - 1)) \X FreeMem |-> Next1(y[2], y[1])]
           freed == CHOOSE f : f = [i \in 0..k |-> IF i = 0 THEN n ELSE Next1(f[i - 1], i - 1)]
<1>1. /\ k \in Nat /\ 0..(k - 1) \subseteq Index /\ t \in S /\ deep[t] = 3
      /\ R \in SUBSET DOMAIN to /\ Of(to, und[t]) \subseteq R
  BY PageListAssumption, EnvironmentsAssumption DEF Index, CanFree, Freeing, Plan
<1>2. ASSUME NEW j \in 0..(k - 1), NEW m, NEW Rj, Rj = Q(j), Freeing(m, Rj, to, S, U)
      PROVE  Freeing(Next1(m, j), Q(j + 1), to, S, U)
  <2>1. j \in Index
    BY <1>1
  <2>2. CASE <<t, j>> \in DOMAIN to
    <3>1. /\ Present(m.tab[t][j])
          /\ Freeing(SetEntry(page_decref(m, m.tab[t][j].page), t, j, Empty), Q(j + 1), to, S, U)
      BY <1>1, <1>2, <2>1, <2>2, NextPageFreed
    <3> QED BY <3>1
  <2>3. CASE <<t, j>> \notin DOMAIN to
    <3>1. m.tab[t][j].page = NULL
      BY <1>1, <1>2, <2>1, <2>3 DEF Freeing
    <3>2. Q(j + 1) = Q(j)
      BY <1>1, <2>1, <2>3, PassesOver
    <3> QED BY <1>2, <3>1, <3>2 DEF Present
  <2> QED BY <2>2, <2>3
<1>3. n \in Inv[0]
  <2>1. Q(0) = R
    BY <1>1, NothingDone
  <2> HIDE DEF Q
  <2> QED BY <1>1, <2>1 DEF CanFree, Freeing
<1> HIDE DEF k, Q, Next1
<1>4. \A i \in 0..(k - 1) : \A m \in Inv[i] : m \in FreeMem /\ nx[<<i, m>>] = Next1(m, i) /\ Next1(m, i) \in Inv[i + 1]
  <2> SUFFICES ASSUME NEW i \in 0..(k - 1), NEW m \in Inv[i]
               PROVE  m \in FreeMem /\ nx[<<i, m>>] = Next1(m, i) /\ Next1(m, i) \in Inv[i + 1]
    OBVIOUS
  <2>1. i \in 0..k /\ i + 1 \in 0..k
    BY <1>1
  <2>2. m \in FreeMem /\ Freeing(m, Q(i), to, S, U)
    BY <2>1
  <2>3. Freeing(Next1(m, i), Q(i + 1), to, S, U)
    BY <1>2, <2>2
  <2>4. Next1(m, i) \in FreeMem
    BY <2>3 DEF Freeing
  <2>5. nx[<<i, m>>] = Next1(m, i)
    BY <2>2
  <2> QED BY <2>1, <2>2, <2>3, <2>4, <2>5
<1> HIDE DEF Inv, nx
<1>5. PICK f : Rounds(k, f, n, nx, Inv)
  BY <1>1, <1>3, <1>4, LoopExists
<1>6. f = [i \in 0..k |-> IF i = 0 THEN n ELSE Next1(f[i - 1], i - 1)]
  <2>1. \A i \in 0..k : i # 0 => i - 1 \in 0..k /\ i - 1 \in 0..(k - 1)
    BY <1>1
  <2>2. \A i \in 0..k : f[i] \in Inv[i]
    BY <1>5 DEF Rounds
  <2>3. \A i \in 0..k : i # 0 => nx[<<i - 1, f[i - 1]>>] = Next1(f[i - 1], i - 1)
    BY <1>4, <2>1, <2>2
  <2>4. f = [i \in 0..k |-> IF i = 0 THEN n ELSE nx[<<i - 1, f[i - 1]>>]]
    BY <1>5 DEF Rounds
  <2> QED BY <2>3, <2>4
<1>7. freed = [i \in 0..k |-> IF i = 0 THEN n ELSE Next1(freed[i - 1], i - 1)]
  BY <1>6
<1>8. free_page_table(n, t) = page_decref(freed[k], t)
  BY DEF free_page_table, FreeEntries, Next1, k
<1> HIDE DEF freed
<1>9. freed[0] \in Inv[0] /\ \A i \in 0..(k - 1) : freed[i] \in Inv[i] => freed[i + 1] \in Inv[i + 1]
  <2>1. 0 \in 0..k
    BY <1>1
  <2>2. freed[0] = n
    BY <1>7, <2>1
  <2>3. \A i \in 0..(k - 1) : i + 1 \in 0..k /\ i + 1 # 0 /\ (i + 1) - 1 = i
    BY <1>1
  <2>4. \A i \in 0..(k - 1) : freed[i + 1] = Next1(freed[i], i)
    BY <1>7, <2>3
  <2> QED BY <1>3, <1>4, <2>2, <2>4
<1>10. freed[k] \in Inv[k]
  BY <1>1, <1>9, LoopKeeps
<1>11. Freeing(freed[k], Q(k), to, S, U)
  <2>1. k \in 0..k
    BY <1>1
  <2> QED BY <1>10, <2>1 DEF Inv
<1>12. k = HugeSize \/ (k = KernelVma /\ x = RootToken)
  BY DEF k
<1> QED BY <1>8, <1>11, <1>12, LoopOver DEF Q

\* free_directory gives up a directory with its page tables.
LEMMA FreesDirectory ==
  ASSUME NEW to, NEW S, NEW deep, NEW und, NEW U, Plan(to, S, deep, und, U), NEW n, NEW R, NEW x,
         CanFree(n, x, R, to, S, und, U), NEW t, t = to[x], deep[t] = 2
  PROVE  HasFreed(free_directory(n, t), x, R, to, S, und, U)
<1> DEFINE k == HugeSize
           Q(j) == R \ DoneAt(to, deep, und, t, j)
           Next1(m, i) == IF Present(m.tab[t][i]) THEN free_page_table(m, m.tab[t][i].page) ELSE m
           Inv == [j \in 0..k |-> {m \in FreeMem : Freeing(m, Q(j), to, S, U)}]
           nx == [y \in (0..(k - 1)) \X FreeMem |-> Next1(y[2], y[1])]
           freed == CHOOSE f : f = [i \in 0..k |-> IF i = 0 THEN n ELSE Next1(f[i - 1], i - 1)]
<1>1. /\ k \in Nat /\ 0..(k - 1) \subseteq Index /\ t \in S /\ deep[t] = 2
      /\ R \in SUBSET DOMAIN to /\ Of(to, und[t]) \subseteq R
  BY PageListAssumption, EnvironmentsAssumption DEF Index, CanFree, Freeing, Plan
<1>2. ASSUME NEW j \in 0..(k - 1), NEW m, NEW Rj, Rj = Q(j), Freeing(m, Rj, to, S, U)
      PROVE  Freeing(Next1(m, j), Q(j + 1), to, S, U)
  <2>1. j \in Index
    BY <1>1
  <2>2. CASE <<t, j>> \in DOMAIN to
    <3>1. /\ m.tab[t][j].page = to[<<t, j>>] /\ Present(m.tab[t][j])
          /\ deep[to[<<t, j>>]] = 3
          /\ CanFree(m, <<t, j>>, Rj, to, S, und, U)
      <4>1. deep[t] < 3
        BY <1>1
      <4>2. LeadsDown(m, t, j, Rj, to, S, deep, und, U)
        BY <1>1, <1>2, <2>1, <2>2, <4>1, NextTableFree
      <4> QED BY <1>1, <4>2 DEF LeadsDown
    <3>2. HasFreed(free_page_table(m, m.tab[t][j].page), <<t, j>>, Rj, to, S, und, U)
      BY <3>1, FreesPageTable
    <3>3. deep[t] < 3 /\ Round(to, deep, und, t, j, R, Rj)
      <4>1. Round(to, deep, und, t, j, R, Rj)
        BY <1>1, <1>2, <2>1, <2>2, ComesTo
      <4> QED BY <1>1, <4>1
    <3>4. Rj \ ({<<t, j>>} \cup Of(to, und[to[<<t, j>>]])) = Q(j + 1)
      BY <3>3 DEF Round
    <3> QED BY <3>1, <3>2, <3>4 DEF HasFreed
  <2>3. CASE <<t, j>> \notin DOMAIN to
    <3>1. m.tab[t][j].page = NULL
      BY <1>1, <1>2, <2>1, <2>3 DEF Freeing
    <3>2. Q(j + 1) = Q(j)
      BY <1>1, <2>1, <2>3, PassesOver
    <3> QED BY <1>2, <3>1, <3>2 DEF Present
  <2> QED BY <2>2, <2>3
<1>3. n \in Inv[0]
  <2>1. Q(0) = R
    BY <1>1, NothingDone
  <2> HIDE DEF Q
  <2> QED BY <1>1, <2>1 DEF CanFree, Freeing
<1> HIDE DEF k, Q, Next1
<1>4. \A i \in 0..(k - 1) : \A m \in Inv[i] : m \in FreeMem /\ nx[<<i, m>>] = Next1(m, i) /\ Next1(m, i) \in Inv[i + 1]
  <2> SUFFICES ASSUME NEW i \in 0..(k - 1), NEW m \in Inv[i]
               PROVE  m \in FreeMem /\ nx[<<i, m>>] = Next1(m, i) /\ Next1(m, i) \in Inv[i + 1]
    OBVIOUS
  <2>1. i \in 0..k /\ i + 1 \in 0..k
    BY <1>1
  <2>2. m \in FreeMem /\ Freeing(m, Q(i), to, S, U)
    BY <2>1
  <2>3. Freeing(Next1(m, i), Q(i + 1), to, S, U)
    BY <1>2, <2>2
  <2>4. Next1(m, i) \in FreeMem
    BY <2>3 DEF Freeing
  <2>5. nx[<<i, m>>] = Next1(m, i)
    BY <2>2
  <2> QED BY <2>1, <2>2, <2>3, <2>4, <2>5
<1> HIDE DEF Inv, nx
<1>5. PICK f : Rounds(k, f, n, nx, Inv)
  BY <1>1, <1>3, <1>4, LoopExists
<1>6. f = [i \in 0..k |-> IF i = 0 THEN n ELSE Next1(f[i - 1], i - 1)]
  <2>1. \A i \in 0..k : i # 0 => i - 1 \in 0..k /\ i - 1 \in 0..(k - 1)
    BY <1>1
  <2>2. \A i \in 0..k : f[i] \in Inv[i]
    BY <1>5 DEF Rounds
  <2>3. \A i \in 0..k : i # 0 => nx[<<i - 1, f[i - 1]>>] = Next1(f[i - 1], i - 1)
    BY <1>4, <2>1, <2>2
  <2>4. f = [i \in 0..k |-> IF i = 0 THEN n ELSE nx[<<i - 1, f[i - 1]>>]]
    BY <1>5 DEF Rounds
  <2> QED BY <2>3, <2>4
<1>7. freed = [i \in 0..k |-> IF i = 0 THEN n ELSE Next1(freed[i - 1], i - 1)]
  BY <1>6
<1>8. free_directory(n, t) = page_decref(freed[k], t)
  BY DEF free_directory, FreeEntries, Next1, k
<1> HIDE DEF freed
<1>9. freed[0] \in Inv[0] /\ \A i \in 0..(k - 1) : freed[i] \in Inv[i] => freed[i + 1] \in Inv[i + 1]
  <2>1. 0 \in 0..k
    BY <1>1
  <2>2. freed[0] = n
    BY <1>7, <2>1
  <2>3. \A i \in 0..(k - 1) : i + 1 \in 0..k /\ i + 1 # 0 /\ (i + 1) - 1 = i
    BY <1>1
  <2>4. \A i \in 0..(k - 1) : freed[i + 1] = Next1(freed[i], i)
    BY <1>7, <2>3
  <2> QED BY <1>3, <1>4, <2>2, <2>4
<1>10. freed[k] \in Inv[k]
  BY <1>1, <1>9, LoopKeeps
<1>11. Freeing(freed[k], Q(k), to, S, U)
  <2>1. k \in 0..k
    BY <1>1
  <2> QED BY <1>10, <2>1 DEF Inv
<1>12. k = HugeSize \/ (k = KernelVma /\ x = RootToken)
  BY DEF k
<1> QED BY <1>8, <1>11, <1>12, LoopOver DEF Q

\* free_pointers gives up a table with its directories.
LEMMA FreesPointers ==
  ASSUME NEW to, NEW S, NEW deep, NEW und, NEW U, Plan(to, S, deep, und, U), NEW n, NEW R, NEW x,
         CanFree(n, x, R, to, S, und, U), NEW t, t = to[x], deep[t] = 1
  PROVE  HasFreed(free_pointers(n, t), x, R, to, S, und, U)
<1> DEFINE k == HugeSize
           Q(j) == R \ DoneAt(to, deep, und, t, j)
           Next1(m, i) == IF Present(m.tab[t][i]) THEN free_directory(m, m.tab[t][i].page) ELSE m
           Inv == [j \in 0..k |-> {m \in FreeMem : Freeing(m, Q(j), to, S, U)}]
           nx == [y \in (0..(k - 1)) \X FreeMem |-> Next1(y[2], y[1])]
           freed == CHOOSE f : f = [i \in 0..k |-> IF i = 0 THEN n ELSE Next1(f[i - 1], i - 1)]
<1>1. /\ k \in Nat /\ 0..(k - 1) \subseteq Index /\ t \in S /\ deep[t] = 1
      /\ R \in SUBSET DOMAIN to /\ Of(to, und[t]) \subseteq R
  BY PageListAssumption, EnvironmentsAssumption DEF Index, CanFree, Freeing, Plan
<1>2. ASSUME NEW j \in 0..(k - 1), NEW m, NEW Rj, Rj = Q(j), Freeing(m, Rj, to, S, U)
      PROVE  Freeing(Next1(m, j), Q(j + 1), to, S, U)
  <2>1. j \in Index
    BY <1>1
  <2>2. CASE <<t, j>> \in DOMAIN to
    <3>1. /\ m.tab[t][j].page = to[<<t, j>>] /\ Present(m.tab[t][j])
          /\ deep[to[<<t, j>>]] = 2
          /\ CanFree(m, <<t, j>>, Rj, to, S, und, U)
      <4>1. deep[t] < 3
        BY <1>1
      <4>2. LeadsDown(m, t, j, Rj, to, S, deep, und, U)
        BY <1>1, <1>2, <2>1, <2>2, <4>1, NextTableFree
      <4> QED BY <1>1, <4>2 DEF LeadsDown
    <3>2. HasFreed(free_directory(m, m.tab[t][j].page), <<t, j>>, Rj, to, S, und, U)
      BY <3>1, FreesDirectory
    <3>3. deep[t] < 3 /\ Round(to, deep, und, t, j, R, Rj)
      <4>1. Round(to, deep, und, t, j, R, Rj)
        BY <1>1, <1>2, <2>1, <2>2, ComesTo
      <4> QED BY <1>1, <4>1
    <3>4. Rj \ ({<<t, j>>} \cup Of(to, und[to[<<t, j>>]])) = Q(j + 1)
      BY <3>3 DEF Round
    <3> QED BY <3>1, <3>2, <3>4 DEF HasFreed
  <2>3. CASE <<t, j>> \notin DOMAIN to
    <3>1. m.tab[t][j].page = NULL
      BY <1>1, <1>2, <2>1, <2>3 DEF Freeing
    <3>2. Q(j + 1) = Q(j)
      BY <1>1, <2>1, <2>3, PassesOver
    <3> QED BY <1>2, <3>1, <3>2 DEF Present
  <2> QED BY <2>2, <2>3
<1>3. n \in Inv[0]
  <2>1. Q(0) = R
    BY <1>1, NothingDone
  <2> HIDE DEF Q
  <2> QED BY <1>1, <2>1 DEF CanFree, Freeing
<1> HIDE DEF k, Q, Next1
<1>4. \A i \in 0..(k - 1) : \A m \in Inv[i] : m \in FreeMem /\ nx[<<i, m>>] = Next1(m, i) /\ Next1(m, i) \in Inv[i + 1]
  <2> SUFFICES ASSUME NEW i \in 0..(k - 1), NEW m \in Inv[i]
               PROVE  m \in FreeMem /\ nx[<<i, m>>] = Next1(m, i) /\ Next1(m, i) \in Inv[i + 1]
    OBVIOUS
  <2>1. i \in 0..k /\ i + 1 \in 0..k
    BY <1>1
  <2>2. m \in FreeMem /\ Freeing(m, Q(i), to, S, U)
    BY <2>1
  <2>3. Freeing(Next1(m, i), Q(i + 1), to, S, U)
    BY <1>2, <2>2
  <2>4. Next1(m, i) \in FreeMem
    BY <2>3 DEF Freeing
  <2>5. nx[<<i, m>>] = Next1(m, i)
    BY <2>2
  <2> QED BY <2>1, <2>2, <2>3, <2>4, <2>5
<1> HIDE DEF Inv, nx
<1>5. PICK f : Rounds(k, f, n, nx, Inv)
  BY <1>1, <1>3, <1>4, LoopExists
<1>6. f = [i \in 0..k |-> IF i = 0 THEN n ELSE Next1(f[i - 1], i - 1)]
  <2>1. \A i \in 0..k : i # 0 => i - 1 \in 0..k /\ i - 1 \in 0..(k - 1)
    BY <1>1
  <2>2. \A i \in 0..k : f[i] \in Inv[i]
    BY <1>5 DEF Rounds
  <2>3. \A i \in 0..k : i # 0 => nx[<<i - 1, f[i - 1]>>] = Next1(f[i - 1], i - 1)
    BY <1>4, <2>1, <2>2
  <2>4. f = [i \in 0..k |-> IF i = 0 THEN n ELSE nx[<<i - 1, f[i - 1]>>]]
    BY <1>5 DEF Rounds
  <2> QED BY <2>3, <2>4
<1>7. freed = [i \in 0..k |-> IF i = 0 THEN n ELSE Next1(freed[i - 1], i - 1)]
  BY <1>6
<1>8. free_pointers(n, t) = page_decref(freed[k], t)
  BY DEF free_pointers, FreeEntries, Next1, k
<1> HIDE DEF freed
<1>9. freed[0] \in Inv[0] /\ \A i \in 0..(k - 1) : freed[i] \in Inv[i] => freed[i + 1] \in Inv[i + 1]
  <2>1. 0 \in 0..k
    BY <1>1
  <2>2. freed[0] = n
    BY <1>7, <2>1
  <2>3. \A i \in 0..(k - 1) : i + 1 \in 0..k /\ i + 1 # 0 /\ (i + 1) - 1 = i
    BY <1>1
  <2>4. \A i \in 0..(k - 1) : freed[i + 1] = Next1(freed[i], i)
    BY <1>7, <2>3
  <2> QED BY <1>3, <1>4, <2>2, <2>4
<1>10. freed[k] \in Inv[k]
  BY <1>1, <1>9, LoopKeeps
<1>11. Freeing(freed[k], Q(k), to, S, U)
  <2>1. k \in 0..k
    BY <1>1
  <2> QED BY <1>10, <2>1 DEF Inv
<1>12. k = HugeSize \/ (k = KernelVma /\ x = RootToken)
  BY DEF k
<1> QED BY <1>8, <1>11, <1>12, LoopOver DEF Q

\* env_free_page_tables gives up the root with all that is mapped below the kernel.
LEMMA FreesAll ==
  ASSUME NEW to, NEW S, NEW deep, NEW und, NEW U, Plan(to, S, deep, und, U), NEW n, NEW R, NEW x,
         CanFree(n, x, R, to, S, und, U), NEW t, t = to[x], x = RootToken
  PROVE  HasFreed(env_free_page_tables(n, t), x, R, to, S, und, U)
<1> DEFINE k == KernelVma
           Q(j) == R \ DoneAt(to, deep, und, t, j)
           Next1(m, i) == IF Present(m.tab[t][i]) THEN free_pointers(m, m.tab[t][i].page) ELSE m
           Inv == [j \in 0..k |-> {m \in FreeMem : Freeing(m, Q(j), to, S, U)}]
           nx == [y \in (0..(k - 1)) \X FreeMem |-> Next1(y[2], y[1])]
           freed == CHOOSE f : f = [i \in 0..k |-> IF i = 0 THEN n ELSE Next1(f[i - 1], i - 1)]
<1>1. /\ k \in Nat /\ 0..(k - 1) \subseteq Index /\ t \in S /\ deep[t] = 0
      /\ R \in SUBSET DOMAIN to /\ Of(to, und[t]) \subseteq R
  BY PageListAssumption, EnvironmentsAssumption DEF Index, CanFree, Freeing, Plan
<1>2. ASSUME NEW j \in 0..(k - 1), NEW m, NEW Rj, Rj = Q(j), Freeing(m, Rj, to, S, U)
      PROVE  Freeing(Next1(m, j), Q(j + 1), to, S, U)
  <2>1. j \in Index
    BY <1>1
  <2>2. CASE <<t, j>> \in DOMAIN to
    <3>1. /\ m.tab[t][j].page = to[<<t, j>>] /\ Present(m.tab[t][j])
          /\ deep[to[<<t, j>>]] = 1
          /\ CanFree(m, <<t, j>>, Rj, to, S, und, U)
      <4>1. deep[t] < 3
        BY <1>1
      <4>2. LeadsDown(m, t, j, Rj, to, S, deep, und, U)
        BY <1>1, <1>2, <2>1, <2>2, <4>1, NextTableFree
      <4> QED BY <1>1, <4>2 DEF LeadsDown
    <3>2. HasFreed(free_pointers(m, m.tab[t][j].page), <<t, j>>, Rj, to, S, und, U)
      BY <3>1, FreesPointers
    <3>3. deep[t] < 3 /\ Round(to, deep, und, t, j, R, Rj)
      <4>1. Round(to, deep, und, t, j, R, Rj)
        BY <1>1, <1>2, <2>1, <2>2, ComesTo
      <4> QED BY <1>1, <4>1
    <3>4. Rj \ ({<<t, j>>} \cup Of(to, und[to[<<t, j>>]])) = Q(j + 1)
      BY <3>3 DEF Round
    <3> QED BY <3>1, <3>2, <3>4 DEF HasFreed
  <2>3. CASE <<t, j>> \notin DOMAIN to
    <3>1. m.tab[t][j].page = NULL
      BY <1>1, <1>2, <2>1, <2>3 DEF Freeing
    <3>2. Q(j + 1) = Q(j)
      BY <1>1, <2>1, <2>3, PassesOver
    <3> QED BY <1>2, <3>1, <3>2 DEF Present
  <2> QED BY <2>2, <2>3
<1>3. n \in Inv[0]
  <2>1. Q(0) = R
    BY <1>1, NothingDone
  <2> HIDE DEF Q
  <2> QED BY <1>1, <2>1 DEF CanFree, Freeing
<1> HIDE DEF k, Q, Next1
<1>4. \A i \in 0..(k - 1) : \A m \in Inv[i] : m \in FreeMem /\ nx[<<i, m>>] = Next1(m, i) /\ Next1(m, i) \in Inv[i + 1]
  <2> SUFFICES ASSUME NEW i \in 0..(k - 1), NEW m \in Inv[i]
               PROVE  m \in FreeMem /\ nx[<<i, m>>] = Next1(m, i) /\ Next1(m, i) \in Inv[i + 1]
    OBVIOUS
  <2>1. i \in 0..k /\ i + 1 \in 0..k
    BY <1>1
  <2>2. m \in FreeMem /\ Freeing(m, Q(i), to, S, U)
    BY <2>1
  <2>3. Freeing(Next1(m, i), Q(i + 1), to, S, U)
    BY <1>2, <2>2
  <2>4. Next1(m, i) \in FreeMem
    BY <2>3 DEF Freeing
  <2>5. nx[<<i, m>>] = Next1(m, i)
    BY <2>2
  <2> QED BY <2>1, <2>2, <2>3, <2>4, <2>5
<1> HIDE DEF Inv, nx
<1>5. PICK f : Rounds(k, f, n, nx, Inv)
  BY <1>1, <1>3, <1>4, LoopExists
<1>6. f = [i \in 0..k |-> IF i = 0 THEN n ELSE Next1(f[i - 1], i - 1)]
  <2>1. \A i \in 0..k : i # 0 => i - 1 \in 0..k /\ i - 1 \in 0..(k - 1)
    BY <1>1
  <2>2. \A i \in 0..k : f[i] \in Inv[i]
    BY <1>5 DEF Rounds
  <2>3. \A i \in 0..k : i # 0 => nx[<<i - 1, f[i - 1]>>] = Next1(f[i - 1], i - 1)
    BY <1>4, <2>1, <2>2
  <2>4. f = [i \in 0..k |-> IF i = 0 THEN n ELSE nx[<<i - 1, f[i - 1]>>]]
    BY <1>5 DEF Rounds
  <2> QED BY <2>3, <2>4
<1>7. freed = [i \in 0..k |-> IF i = 0 THEN n ELSE Next1(freed[i - 1], i - 1)]
  BY <1>6
<1>8. env_free_page_tables(n, t) = page_decref(freed[k], t)
  BY DEF env_free_page_tables, FreeEntries, Next1, k
<1> HIDE DEF freed
<1>9. freed[0] \in Inv[0] /\ \A i \in 0..(k - 1) : freed[i] \in Inv[i] => freed[i + 1] \in Inv[i + 1]
  <2>1. 0 \in 0..k
    BY <1>1
  <2>2. freed[0] = n
    BY <1>7, <2>1
  <2>3. \A i \in 0..(k - 1) : i + 1 \in 0..k /\ i + 1 # 0 /\ (i + 1) - 1 = i
    BY <1>1
  <2>4. \A i \in 0..(k - 1) : freed[i + 1] = Next1(freed[i], i)
    BY <1>7, <2>3
  <2> QED BY <1>3, <1>4, <2>2, <2>4
<1>10. freed[k] \in Inv[k]
  BY <1>1, <1>9, LoopKeeps
<1>11. Freeing(freed[k], Q(k), to, S, U)
  <2>1. k \in 0..k
    BY <1>1
  <2> QED BY <1>10, <2>1 DEF Inv
<1>12. k = HugeSize \/ (k = KernelVma /\ x = RootToken)
  BY DEF k
<1> QED BY <1>8, <1>11, <1>12, LoopOver DEF Q

-----------------------------------------------------------------------------
(* What env_free_page_tables comes to. *)

\* Way r goes on from where s ends.
GoesOn(s, r) == Len(s) <= Len(r) /\ \A k \in 1..Len(s) : r[k] = s[k]
UnderOwn(T, way, t) == {u \in T : GoesOn(way[t], way[u])}

\* A table is the only one of its way.
LEMMA UnderTable ==
  ASSUME NEW o, NEW T, NEW way, State(o, T, way), NEW t \in T
  PROVE  /\ t \in UnderOwn(T, way, t)
         /\ \A u \in UnderOwn(T, way, t) : Len(way[u]) <= Len(way[t]) => u = t
<1>1. /\ \A u \in T : way[u] \in Seq(Index) /\ Len(way[u]) \in Nat
      /\ \A u, v \in T : way[u] = way[v] => u = v
  BY Parts DEF Tree
<1>2. t \in UnderOwn(T, way, t)
  BY <1>1 DEF UnderOwn, GoesOn
<1>3. ASSUME NEW u \in UnderOwn(T, way, t), Len(way[u]) <= Len(way[t]) PROVE u = t
  <2>1. u \in T /\ way[u] \in Seq(Index) /\ way[t] \in Seq(Index)
    BY <1>1 DEF UnderOwn
  <2>2. Len(way[u]) = Len(way[t])
    BY <1>1, <1>3, <2>1 DEF UnderOwn, GoesOn
  <2>3. \A k \in 1..Len(way[u]) : way[u][k] = way[t][k]
    BY <1>3, <2>2 DEF UnderOwn, GoesOn
  <2>4. way[u] = way[t]
    BY <2>1, <2>2, <2>3
  <2> QED BY <1>1, <2>1, <2>4
<1> QED BY <1>2, <1>3

\* Those under the table that an entry leads to.
LEMMA UnderEntry ==
  ASSUME NEW o, NEW T, NEW way, State(o, T, way), NEW t \in T, NEW i \in Index,
         Present(o.tab[t][i]), ~IsLeaf(o, way, t, i), NEW c, c = o.tab[t][i].page
  PROVE  /\ c \in T /\ Len(way[c]) = Len(way[t]) + 1
         /\ \A u \in T : u \in UnderOwn(T, way, c) <=>
              u \in UnderOwn(T, way, t) /\ Len(way[u]) > Len(way[t]) /\ way[u][Len(way[t]) + 1] = i
<1>1. c \in T /\ way[c] = Append(way[t], i) /\ \A u \in T : way[u] \in Seq(Index) /\ Len(way[u]) \in Nat
  BY Parts DEF Tree, EntryOK
<1> DEFINE n == Len(way[t])
<1>2. n \in Nat /\ Len(way[c]) = n + 1 /\ way[c][n + 1] = i /\ \A k \in 1..n : way[c][k] = way[t][k]
  BY <1>1
<1>3. ASSUME NEW u \in T
      PROVE  GoesOn(way[c], way[u]) <=> GoesOn(way[t], way[u]) /\ Len(way[u]) > n /\ way[u][n + 1] = i
  <2>1. Len(way[u]) \in Nat
    BY <1>1
  <2>2. \A k : k \in 1..(n + 1) <=> k \in 1..n \/ k = n + 1
    BY <1>2
  <2> HIDE DEF n
  <2>3. GoesOn(way[c], way[u]) <=> n + 1 <= Len(way[u]) /\ \A k \in 1..(n + 1) : way[u][k] = way[c][k]
    BY <1>2 DEF GoesOn
  <2>4. GoesOn(way[t], way[u]) <=> n <= Len(way[u]) /\ \A k \in 1..n : way[u][k] = way[t][k]
    BY DEF GoesOn, n
  <2>5. (\A k \in 1..(n + 1) : way[u][k] = way[c][k]) <=> ((\A k \in 1..n : way[u][k] = way[t][k]) /\ way[u][n + 1] = i)
    BY <1>2, <2>2
  <2>6. n + 1 <= Len(way[u]) <=> n <= Len(way[u]) /\ Len(way[u]) > n
    BY <1>2, <2>1
  <2> QED BY <2>3, <2>4, <2>5, <2>6
<1> QED BY <1>1, <1>2, <1>3 DEF UnderOwn

\* An entry leads to where the tables under a table are.
LEMMA UnderLeads ==
  ASSUME NEW o, NEW T, NEW way, State(o, T, way), NEW t \in T
  PROVE  \A u \in UnderOwn(T, way, t) \ {t} : \E i \in Index :
           Present(o.tab[t][i]) /\ ~IsLeaf(o, way, t, i) /\ u \in UnderOwn(T, way, o.tab[t][i].page)
<1> DEFINE Led(u) == \E i \in Index : /\ Present(o.tab[t][i]) /\ ~IsLeaf(o, way, t, i)
                                      /\ u \in UnderOwn(T, way, o.tab[t][i].page)
           UpTo(l) == \A u \in UnderOwn(T, way, t) \ {t} : Len(way[u]) <= l => Led(u)
<1>1. /\ \A u \in T : way[u] \in Seq(Index) /\ Len(way[u]) \in 0..3
      /\ Tree(o, T, way) /\ NULL \notin Pages /\ T \subseteq Pages
  <2>1. /\ \A u \in T : way[u] \in Seq(Index) /\ Len(way[u]) \in Nat /\ Len(way[u]) < Depth
        /\ Tree(o, T, way) /\ T \subseteq Pages
    BY Parts
  <2>2. \A n \in Nat : n < Depth => n \in 0..3
    BY VmaUnmapAssumption
  <2> QED BY <2>1, <2>2, Bounds
<1>2. \A u \in UnderOwn(T, way, t) \ {t} : u \in T /\ Len(way[u]) > Len(way[t])
  BY <1>1, UnderTable DEF UnderOwn
<1>3. UpTo(0)
  BY <1>1, <1>2
<1>4. ASSUME NEW l \in 0..2, UpTo(l) PROVE UpTo(l + 1)
  <2> SUFFICES ASSUME NEW u \in UnderOwn(T, way, t) \ {t}, Len(way[u]) <= l + 1 PROVE Led(u)
    OBVIOUS
  <2>1. u \in T /\ Len(way[u]) > Len(way[t]) /\ Len(way[t]) >= 0 /\ u # o.root
    BY <1>1, <1>2 DEF Tree
  <2>2. PICK p \in T, j \in Index : o.tab[p][j].page = u
    BY <1>1, <2>1 DEF Tree
  <2>3. Present(o.tab[p][j]) /\ ~IsLeaf(o, way, p, j) /\ way[u] = Append(way[p], j)
    BY <1>1, <2>1, <2>2 DEF Tree, EntryOK, Present
  <2>4. Len(way[u]) = Len(way[p]) + 1 /\ \A k \in 1..Len(way[p]) : way[u][k] = way[p][k]
    BY <1>1, <2>3
  <2>5. CASE p = t
    BY <2>1, <2>2, <2>3, <2>5, UnderTable
  <2>6. CASE p # t
    <3>1. GoesOn(way[t], way[p])
      <4>1. Len(way[t]) <= Len(way[p])
        BY <1>1, <2>1, <2>4
      <4>2. GoesOn(way[t], way[u])
        BY DEF UnderOwn
      <4> QED BY <1>1, <2>4, <4>1, <4>2 DEF GoesOn
    <3>2. Led(p)
      BY <1>1, <1>4, <2>4, <2>6, <3>1 DEF UnderOwn
    <3>3. PICK i \in Index : /\ Present(o.tab[t][i]) /\ ~IsLeaf(o, way, t, i)
                             /\ p \in UnderOwn(T, way, o.tab[t][i].page)
      BY <3>2
    <3> DEFINE c == o.tab[t][i].page
    <3>4. c \in T /\ GoesOn(way[c], way[p])
      BY <3>3, UnderEntry DEF UnderOwn
    <3>5. GoesOn(way[c], way[u])
      <4>1. Len(way[c]) \in Nat /\ Len(way[p]) \in Nat
        BY <1>1, <3>4
      <4> HIDE DEF c
      <4> QED BY <2>4, <3>4, <4>1 DEF GoesOn
    <3> QED BY <2>1, <3>3, <3>5 DEF UnderOwn
  <2> QED BY <2>5, <2>6
<1> HIDE DEF UpTo
<1>5. UpTo(1)
  BY <1>3, <1>4
<1>6. UpTo(2)
  BY <1>4, <1>5
<1>7. UpTo(3)
  BY <1>4, <1>6
<1>8. ASSUME NEW u \in UnderOwn(T, way, t) \ {t} PROVE Led(u)
  <2>1. Len(way[u]) \in 0..3
    BY ONLY <1>1, <1>2, <1>8
  <2> DEFINE n == Len(way[u])
  <2> HIDE DEF n
  <2>a. n \in 0..3
    BY <2>1 DEF n
  <2>b. n <= 3
    BY ONLY <2>a
  <2>2. Len(way[u]) <= 3
    BY <2>b DEF n
  <2>3. \A v \in UnderOwn(T, way, t) \ {t} : Len(way[v]) <= 3 => Led(v)
    BY <1>7 DEF UpTo
  <2> HIDE DEF Led
  <2> QED BY ONLY <1>8, <2>2, <2>3
<1> QED BY <1>8

\* The entries of the tables S, and where they lead.
EntriesIn(m, S) ==
    [x \in {y \in S \X Index : Present(m.tab[y[1]][y[2]])} \cup {RootToken} |->
       IF x = RootToken THEN m.root ELSE m.tab[x[1]][x[2]].page]

\* Where the entries of an environment's tables lead.
Entered(to, o, T, k1, k2, k3) ==
    /\ DOMAIN to \subseteq ((T \cup {k1, k2, k3}) \X Index) \cup {RootToken}
    /\ RootToken \in DOMAIN to /\ to[RootToken] = o.root
    /\ \A t \in T, i \in Index : ~ (t = o.root /\ i = SharedVa[1]) =>
         /\ <<t, i>> \in DOMAIN to <=> Present(o.tab[t][i])
         /\ Present(o.tab[t][i]) => to[<<t, i>>] = o.tab[t][i].page
    /\ <<o.root, SharedVa[1]>> \in DOMAIN to /\ to[<<o.root, SharedVa[1]>>] = k1
    /\ \A i \in Index : /\ <<k1, i>> \in DOMAIN to <=> i = SharedVa[2]
                        /\ <<k2, i>> \in DOMAIN to <=> i = SharedVa[3]
                        /\ <<k3, i>> \in DOMAIN to <=> i = SharedVa[4]
    /\ to[<<k1, SharedVa[2]>>] = k2 /\ to[<<k2, SharedVa[3]>>] = k3
    /\ to[<<k3, SharedVa[4]>>] = PagesArray

\* The tables of an environment and the kernel's.
Apart(o, T, k1, k2, k3) ==
    /\ T \subseteq Pages \ Kernels /\ o.root \in T
    /\ k1 \in Pages \ Reserved /\ k2 \in Pages \ Reserved /\ k3 \in Pages \ Reserved
    /\ k1 # k2 /\ k1 # k3 /\ k2 # k3
    /\ KernelTables = {k1, k2, k3} /\ NULL \notin Pages
    /\ k1 \notin T /\ k2 \notin T /\ k3 \notin T
    /\ SharedVa[1] \in Index /\ SharedVa[2] \in Index /\ SharedVa[3] \in Index /\ SharedVa[4] \in Index
    /\ UserTop \in Index /\ SharedVa[1] >= UserTop /\ SharedVa[1] < KernelVma /\ KernelVma \in Index
    /\ PagesArray \in Reserved /\ PagesArray \in Pages

\* They have nothing in common.
LEMMA AreApart ==
  ASSUME NEW o, NEW T, NEW way, OwnTree(o, T, way), NEW k1, NEW k2, NEW k3, SharedChain(k1, k2, k3)
  PROVE  Apart(o, T, k1, k2, k3)
<1>1. /\ T \subseteq Pages \ Kernels /\ o.root \in T /\ NULL \notin Pages
      /\ k1 \in Pages \ Reserved /\ k2 \in Pages \ Reserved /\ k3 \in Pages \ Reserved
      /\ k1 # k2 /\ k1 # k3 /\ k2 # k3 /\ KernelTables = {k1, k2, k3}
  BY OwnTables2, Bounds DEF SharedChain
<1>2. k1 \notin T /\ k2 \notin T /\ k3 \notin T
  BY <1>1 DEF Kernels
<1>3. /\ SharedVa[1] \in Index /\ SharedVa[2] \in Index /\ SharedVa[3] \in Index /\ SharedVa[4] \in Index
      /\ UserTop \in Index /\ SharedVa[1] >= UserTop /\ SharedVa[1] < KernelVma /\ KernelVma \in Index
      /\ PagesArray \in Reserved
  BY EnvironmentsAssumption, VmaUnmapAssumption
<1>4. PagesArray \in Pages
  BY <1>3, PageListAssumption DEF Pages
<1> QED BY <1>1, <1>2, <1>3, <1>4 DEF Apart

\* They lead to their own tables and pages, the kernel's tables and pages[].
LEMMA AreEntered ==
  ASSUME NEW m, NEW o, SeesTables(m, o), NEW T, NEW way, OwnTree(o, T, way),
         NEW k1, NEW k2, NEW k3, SharedChain(k1, k2, k3), NEW S, S = T \cup {k1, k2, k3},
         NEW to, to = EntriesIn(m, S)
  PROVE  Entered(to, o, T, k1, k2, k3)
<1>1. Combined(m, o, T, k1, k2, k3)
  BY SeenTables
<1>2. Apart(o, T, k1, k2, k3)
  BY AreApart
<1>3. /\ RootToken \notin S \X Index /\ NULL \notin S
  BY <1>2 DEF Apart, RootToken
<1>4. /\ DOMAIN to \subseteq (S \X Index) \cup {RootToken}
      /\ RootToken \in DOMAIN to /\ to[RootToken] = m.root
      /\ \A t \in S, i \in Index : /\ <<t, i>> \in DOMAIN to <=> Present(m.tab[t][i])
                                   /\ Present(m.tab[t][i]) => to[<<t, i>>] = m.tab[t][i].page
  <2>1. DOMAIN to = {y \in S \X Index : Present(m.tab[y[1]][y[2]])} \cup {RootToken}
    BY DEF EntriesIn
  <2>2. \A x \in DOMAIN to : to[x] = IF x = RootToken THEN m.root ELSE m.tab[x[1]][x[2]].page
    BY DEF EntriesIn
  <2>3. \A t \in S, i \in Index : /\ <<t, i>> \in DOMAIN to <=> Present(m.tab[t][i])
                                  /\ <<t, i>> # RootToken
    BY <1>3, <2>1
  <2>4. RootToken \in DOMAIN to /\ DOMAIN to \subseteq (S \X Index) \cup {RootToken}
    BY <2>1
  <2>5. to[RootToken] = m.root
    BY <2>2, <2>4
  <2>6. ASSUME NEW t \in S, NEW i \in Index, Present(m.tab[t][i])
        PROVE  to[<<t, i>>] = m.tab[t][i].page
    BY <2>2, <2>3, <2>6
  <2> QED BY <2>3, <2>4, <2>5, <2>6
<1>5. k1 \in S /\ k2 \in S /\ k3 \in S /\ o.root \in S /\ T \subseteq S /\ m.root = o.root
  BY <1>1, <1>2 DEF Apart, Combined
<1>6. ASSUME NEW t \in T, NEW i \in Index, ~ (t = o.root /\ i = SharedVa[1])
      PROVE  /\ <<t, i>> \in DOMAIN to <=> Present(o.tab[t][i])
             /\ Present(o.tab[t][i]) => to[<<t, i>>] = o.tab[t][i].page
  <2>1. Present(m.tab[t][i]) \/ Present(o.tab[t][i]) => m.tab[t][i] = o.tab[t][i]
    BY <1>1, <1>6 DEF Combined
  <2>2. t \in S
    BY <1>5
  <2>3. /\ <<t, i>> \in DOMAIN to <=> Present(m.tab[t][i])
        /\ Present(m.tab[t][i]) => to[<<t, i>>] = m.tab[t][i].page
    BY ONLY <1>4, <2>2, <1>6
  <2> QED BY ONLY <2>1, <2>3
<1>7. <<o.root, SharedVa[1]>> \in DOMAIN to /\ to[<<o.root, SharedVa[1]>>] = k1
  <2>1. m.tab[o.root][SharedVa[1]] = [page |-> k1, huge |-> FALSE]
    BY <1>1 DEF Combined
  <2>2. SharedVa[1] \in Index /\ k1 # NULL
    BY <1>2 DEF Apart
  <2>3. Present(m.tab[o.root][SharedVa[1]]) /\ m.tab[o.root][SharedVa[1]].page = k1
    BY <2>1, <2>2 DEF Present
  <2> QED BY ONLY <1>4, <1>5, <2>2, <2>3
<1>8. ASSUME NEW i \in Index
      PROVE  /\ <<k1, i>> \in DOMAIN to <=> i = SharedVa[2]
             /\ <<k2, i>> \in DOMAIN to <=> i = SharedVa[3]
             /\ <<k3, i>> \in DOMAIN to <=> i = SharedVa[4]
             /\ i = SharedVa[2] => to[<<k1, i>>] = k2
             /\ i = SharedVa[3] => to[<<k2, i>>] = k3
             /\ i = SharedVa[4] => to[<<k3, i>>] = PagesArray
  <2>1. /\ m.tab[k1][i] = IF i = SharedVa[2] THEN [page |-> k2, huge |-> FALSE] ELSE Empty
        /\ m.tab[k2][i] = IF i = SharedVa[3] THEN [page |-> k3, huge |-> FALSE] ELSE Empty
        /\ m.tab[k3][i] = IF i = SharedVa[4] THEN [page |-> PagesArray, huge |-> FALSE] ELSE Empty
    BY <1>1 DEF Combined
  <2>2. k2 # NULL /\ k3 # NULL /\ PagesArray # NULL
    BY <1>2 DEF Apart
  <2>3. /\ Present(m.tab[k1][i]) <=> i = SharedVa[2]
        /\ Present(m.tab[k2][i]) <=> i = SharedVa[3]
        /\ Present(m.tab[k3][i]) <=> i = SharedVa[4]
    BY <2>1, <2>2 DEF Present, Empty
  <2>4. /\ i = SharedVa[2] => m.tab[k1][i].page = k2
        /\ i = SharedVa[3] => m.tab[k2][i].page = k3
        /\ i = SharedVa[4] => m.tab[k3][i].page = PagesArray
    BY <2>1
  <2> QED BY <1>4, <1>5, <2>3, <2>4
<1>9. to[<<k1, SharedVa[2]>>] = k2 /\ to[<<k2, SharedVa[3]>>] = k3 /\ to[<<k3, SharedVa[4]>>] = PagesArray
  BY <1>2, <1>8 DEF Apart
<1> QED BY <1>4, <1>5, <1>6, <1>7, <1>8, <1>9 DEF Entered

\* Entry i of the environment's own table t.
OwnEntry(o, T, way, t, i) ==
    LET p == o.tab[t][i].page
    IN /\ p \in Pages \ Reserved /\ p \in o.lent /\ p \notin Kernels
       /\ t = o.root => i < UserTop
       /\ Len(way[t]) < 3 => ~IsLeaf(o, way, t, i) /\ p \in T /\ Len(way[p]) = Len(way[t]) + 1
       /\ Len(way[t]) = 3 => p \in PagesOf(Leaves(o, T, way)) \ T

\* What an own entry leads to.
LEMMA AreOwnEntries ==
  ASSUME NEW o, NEW T, NEW way, OwnTree(o, T, way), NEW t \in T, NEW i \in Index, Present(o.tab[t][i])
  PROVE  OwnEntry(o, T, way, t, i)
<1> DEFINE p == o.tab[t][i].page
<1>1. /\ State(o, T, way) /\ SmallLeaves(Leaves(o, T, way)) /\ EntryOK(o, T, way, t, i)
      /\ o.lent \subseteq Pages /\ o.lent \cap Reserved = {} /\ o \in Memory /\ T \subseteq Pages
      /\ way \in [Pages -> Seq(Index)]
  <2>1. State(o, T, way) /\ SmallLeaves(Leaves(o, T, way))
    BY DEF OwnTree
  <2>2. /\ EntryOK(o, T, way, t, i) /\ Good(o.fl, o.lent) /\ o.lent \subseteq Pages /\ o \in Memory
        /\ T \subseteq Pages /\ way \in [Pages -> Seq(Index)]
    BY <2>1, Parts DEF Tree
  <2> QED BY <2>1, <2>2, NotReserved
<1>2. p \in o.lent /\ p \in Pages \ Reserved
  BY <1>1 DEF EntryOK
<1>3. p \notin Kernels
  BY OwnTables2
<1>4. t = o.root => i < UserTop
  <2>1. PICK a \in Vas : Prefix(a, Len(way[t]) + 1) = Append(way[t], i)
    BY <1>1 DEF EntryOK
  <2>2. Len(way[t]) + 1 \in 1..Depth /\ way[t] = Prefix(a, Len(way[t])) /\ i = a[Len(way[t]) + 1]
    BY <1>1, <2>1, OnTheWay
  <2> DEFINE n == Len(way[t]) + 1
  <2>3. n \in 1..Depth /\ way[t] = Prefix(a, n - 1) /\ i = a[n]
    BY <2>2
  <2> HIDE DEF n
  <2>4. Mine(o, t, a[n])
    BY <2>3, OwnEntries
  <2> QED BY <2>3, <2>4 DEF Mine
<1>5. Len(way[t]) < 3 => ~IsLeaf(o, way, t, i) /\ p \in T /\ Len(way[p]) = Len(way[t]) + 1
  <2>1. Depth - 1 = 3
    BY VmaUnmapAssumption
  <2>2. Len(way[t]) < Depth - 1 => ~IsLeaf(o, way, t, i) /\ p \in T /\ Len(way[p]) = Len(way[t]) + 1
    BY <1>1, NoHugeLeaf
  <2> QED BY <2>1, <2>2
<1>6. Len(way[t]) = 3 => p \in PagesOf(Leaves(o, T, way)) \ T
  <2> SUFFICES ASSUME Len(way[t]) = 3 PROVE p \in PagesOf(Leaves(o, T, way)) \ T
    OBVIOUS
  <2>1. IsLeaf(o, way, t, i)
    BY VmaUnmapAssumption DEF IsLeaf
  <2>2. p \notin T
    BY <1>1, <2>1 DEF EntryOK
  <2> DEFINE c == [at |-> Append(way[t], i), page |-> p]
  <2>3. c \in [at : Seq(Index), page : Pages]
    BY <1>1, <1>2
  <2>4. c \in Leaves(o, T, way)
    BY <2>1, <2>3 DEF Leaves
  <2>5. c.page = p
    OBVIOUS
  <2> HIDE DEF c, p
  <2> QED BY <2>2, <2>4, <2>5 DEF PagesOf
<1> QED BY <1>2, <1>3, <1>4, <1>5, <1>6 DEF OwnEntry

\* What the entry x is, of which table.
Kind(x, to, o, T, k1, k2, k3) ==
    \/ x = RootToken /\ to[x] = o.root
    \/ \E t \in T, i \in Index : /\ x = <<t, i>> /\ ~ (t = o.root /\ i = SharedVa[1])
                                 /\ Present(o.tab[t][i]) /\ to[x] = o.tab[t][i].page
    \/ x = <<o.root, SharedVa[1]>> /\ to[x] = k1
    \/ x = <<k1, SharedVa[2]>> /\ to[x] = k2
    \/ x = <<k2, SharedVa[3]>> /\ to[x] = k3
    \/ x = <<k3, SharedVa[4]>> /\ to[x] = PagesArray

\* There are no others.
LEMMA Kinds ==
  ASSUME NEW to, NEW o, NEW T, NEW k1, NEW k2, NEW k3, Entered(to, o, T, k1, k2, k3)
  PROVE  \A x \in DOMAIN to : Kind(x, to, o, T, k1, k2, k3)
<1>1. DOMAIN to \subseteq ((T \cup {k1, k2, k3}) \X Index) \cup {RootToken}
  BY DEF Entered
<1> SUFFICES ASSUME NEW x \in DOMAIN to, x # RootToken PROVE Kind(x, to, o, T, k1, k2, k3)
  BY DEF Kind, Entered
<1>2. PICK t \in T \cup {k1, k2, k3}, i \in Index : x = <<t, i>>
  BY <1>1
<1>3. CASE t = o.root /\ i = SharedVa[1]
  BY <1>2, <1>3 DEF Kind, Entered
<1>4. CASE t \in T /\ ~ (t = o.root /\ i = SharedVa[1])
  BY <1>2, <1>4 DEF Kind, Entered
<1>5. CASE t \in {k1, k2, k3}
  BY <1>2, <1>5 DEF Kind, Entered
<1> QED BY <1>2, <1>3, <1>4, <1>5

\* The tables under each, the kernel's being under the root.
Under(T, way, root, k1, k2, k3) ==
    [t \in T \cup {k1, k2, k3} |->
       IF t = k1 THEN {k1, k2, k3} ELSE IF t = k2 THEN {k2, k3} ELSE IF t = k3 THEN {k3}
       ELSE UnderOwn(T, way, t) \cup (IF t = root THEN {k1, k2, k3} ELSE {})]

\* Where the tables are.
Placed(deep, und, o, T, way, S, k1, k2, k3) ==
    /\ S = T \cup {k1, k2, k3} /\ deep \in [S -> 0..3] /\ und \in [S -> SUBSET S]
    /\ deep[k1] = 1 /\ deep[k2] = 2 /\ deep[k3] = 3
    /\ und[k1] = {k1, k2, k3} /\ und[k2] = {k2, k3} /\ und[k3] = {k3}
    /\ \A t \in T : deep[t] = Len(way[t]) /\ (deep[t] = 0 => t = o.root)
    /\ \A t \in T : und[t] = UnderOwn(T, way, t) \cup (IF t = o.root THEN {k1, k2, k3} ELSE {})
    /\ deep[o.root] = 0 /\ und[o.root] = S
    /\ \A t \in T : UnderOwn(T, way, t) \subseteq T

\* They are there.
LEMMA ArePlaced ==
  ASSUME NEW o, NEW T, NEW way, OwnTree(o, T, way), NEW k1, NEW k2, NEW k3, Apart(o, T, k1, k2, k3),
         NEW S, S = T \cup {k1, k2, k3}, NEW deep, deep = Deep(T, way, k1, k2, k3),
         NEW und, und = Under(T, way, o.root, k1, k2, k3)
  PROVE  Placed(deep, und, o, T, way, S, k1, k2, k3)
<1>1. /\ \A t \in T : way[t] \in Seq(Index) /\ Len(way[t]) \in 0..3
      /\ way[o.root] = <<>> /\ o.root \in T
      /\ \A t, u \in T : way[t] = way[u] => t = u
  <2>1. /\ \A t \in T : way[t] \in Seq(Index) /\ Len(way[t]) \in Nat /\ Len(way[t]) < Depth
        /\ Tree(o, T, way)
    BY Parts DEF OwnTree
  <2>2. \A n \in Nat : n < Depth => n \in 0..3
    BY VmaUnmapAssumption
  <2> QED BY <2>1, <2>2 DEF Tree
<1>2. \A t \in T : t # k1 /\ t # k2 /\ t # k3
  BY DEF Apart
<1>3. k1 # k2 /\ k1 # k3 /\ k2 # k3
  BY DEF Apart
<1>4. /\ \A t \in T : deep[t] = Len(way[t])
      /\ deep[k1] = 1 /\ deep[k2] = 2 /\ deep[k3] = 3
      /\ deep = [t \in S |-> deep[t]]
  BY <1>2, <1>3 DEF Deep
<1>5. deep \in [S -> 0..3]
  <2>1. \A t \in T : deep[t] \in 0..3
    BY ONLY <1>1, <1>4
  <2>2. \A t \in S : t \in T \/ t = k1 \/ t = k2 \/ t = k3
    OBVIOUS
  <2>3. deep[k1] \in 0..3 /\ deep[k2] \in 0..3 /\ deep[k3] \in 0..3
    BY ONLY <1>4
  <2> QED BY ONLY <1>4, <2>1, <2>2, <2>3
<1>6. /\ und[k1] = {k1, k2, k3} /\ und[k2] = {k2, k3} /\ und[k3] = {k3}
      /\ \A t \in T : und[t] = UnderOwn(T, way, t) \cup (IF t = o.root THEN {k1, k2, k3} ELSE {})
      /\ und = [t \in S |-> und[t]]
  BY <1>2, <1>3 DEF Under
<1>7. \A t \in T : UnderOwn(T, way, t) \subseteq T
  BY DEF UnderOwn
<1>8. und \in [S -> SUBSET S]
  <2>1. \A t \in S : und[t] \in SUBSET S
    BY <1>6, <1>7
  <2> QED BY ONLY <1>6, <2>1
<1>9. UnderOwn(T, way, o.root) = T
  <2>1. Len(way[o.root]) = 0
    BY <1>1
  <2>2. ASSUME NEW u \in T PROVE GoesOn(way[o.root], way[u])
    <3>1. Len(way[u]) >= 0
      BY <1>1
    <3> QED BY <2>1, <3>1 DEF GoesOn
  <2> QED BY <2>2 DEF UnderOwn
<1>10. deep[o.root] = 0 /\ und[o.root] = S
  BY <1>1, <1>4, <1>6, <1>9
<1>11. ASSUME NEW t \in T, deep[t] = 0 PROVE t = o.root
  <2>1. way[t] = <<>>
    BY <1>1, <1>4, <1>11
  <2> QED BY <1>1, <2>1
<1> QED BY <1>4, <1>5, <1>6, <1>7, <1>8, <1>10, <1>11 DEF Placed

\* Where the entries of a table that is not a page table lead: to tables of the next
\* level, one under each of them or the table itself.
LevelDown(to, S, deep, und, t) ==
    /\ \A i \in Index : <<t, i>> \in DOMAIN to =>
         /\ to[<<t, i>>] \in S /\ deep[to[<<t, i>>]] = deep[t] + 1
         /\ und[to[<<t, i>>]] \subseteq und[t] \ {t}
    /\ \A i, j \in Index : i # j /\ <<t, i>> \in DOMAIN to /\ <<t, j>> \in DOMAIN to =>
         und[to[<<t, i>>]] \cap und[to[<<t, j>>]] = {}
    /\ \A u \in und[t] \ {t} : \E i \in Index : <<t, i>> \in DOMAIN to /\ u \in und[to[<<t, i>>]]

\* So it is with the environment's own tables.
LEMMA OwnLevel ==
  ASSUME NEW o, NEW T, NEW way, OwnTree(o, T, way), NEW k1, NEW k2, NEW k3, Apart(o, T, k1, k2, k3),
         NEW to, Entered(to, o, T, k1, k2, k3),
         NEW S, NEW deep, NEW und, Placed(deep, und, o, T, way, S, k1, k2, k3),
         NEW t \in T, deep[t] < 3
  PROVE  LevelDown(to, S, deep, und, t)
<1> DEFINE At1(i) == t = o.root /\ i = SharedVa[1]
<1>1. /\ State(o, T, way) /\ S = T \cup {k1, k2, k3} /\ deep[t] = Len(way[t]) /\ Len(way[t]) \in Nat
      /\ \A u \in T : way[u] \in Seq(Index) /\ Len(way[u]) \in Nat /\ deep[u] = Len(way[u])
      /\ o.root \in T /\ k1 \notin T /\ k2 \notin T /\ k3 \notin T
  BY Parts DEF OwnTree, Placed, Apart
<1>2. und[t] = UnderOwn(T, way, t) \cup (IF t = o.root THEN {k1, k2, k3} ELSE {})
  BY DEF Placed
<1>3. ASSUME NEW i \in Index, <<t, i>> \in DOMAIN to, ~At1(i), NEW c, c = to[<<t, i>>]
      PROVE  /\ c \in T /\ deep[c] = deep[t] + 1 /\ c # o.root /\ und[c] = UnderOwn(T, way, c)
             /\ \A u \in T : u \in UnderOwn(T, way, c) <=>
                  u \in UnderOwn(T, way, t) /\ Len(way[u]) > Len(way[t]) /\ way[u][Len(way[t]) + 1] = i
  <2>1. Present(o.tab[t][i]) /\ c = o.tab[t][i].page
    BY <1>3 DEF Entered
  <2>2. ~IsLeaf(o, way, t, i) /\ c \in T /\ Len(way[c]) = Len(way[t]) + 1
    <3>1. OwnEntry(o, T, way, t, i)
      BY <2>1, AreOwnEntries
    <3> QED BY <1>1, <2>1, <3>1 DEF OwnEntry
  <2>3. c # o.root
    <3>1. deep[o.root] = 0 /\ deep[c] = Len(way[c])
      BY <1>1, <2>2 DEF Placed
    <3> QED BY <1>1, <2>2, <3>1
  <2>4. und[c] = UnderOwn(T, way, c)
    <3>1. und[c] = UnderOwn(T, way, c) \cup (IF c = o.root THEN {k1, k2, k3} ELSE {})
      BY ONLY <2>2, Placed(deep, und, o, T, way, S, k1, k2, k3) DEF Placed
    <3> QED BY ONLY <2>3, <3>1
  <2>5. \A u \in T : u \in UnderOwn(T, way, c) <=>
            u \in UnderOwn(T, way, t) /\ Len(way[u]) > Len(way[t]) /\ way[u][Len(way[t]) + 1] = i
    BY <1>1, <2>1, <2>2, UnderEntry
  <2> QED BY <1>1, <2>2, <2>3, <2>4, <2>5
<1>4. ASSUME NEW i \in Index, At1(i)
      PROVE  /\ to[<<t, i>>] = k1 /\ deep[k1] = 1 /\ und[k1] = {k1, k2, k3} /\ deep[t] = 0
             /\ <<t, i>> \in DOMAIN to
  BY <1>4 DEF Entered, Placed
<1>5. ASSUME NEW i \in Index, <<t, i>> \in DOMAIN to
      PROVE  /\ to[<<t, i>>] \in S /\ deep[to[<<t, i>>]] = deep[t] + 1
             /\ und[to[<<t, i>>]] \subseteq und[t] \ {t}
  <2>1. CASE At1(i)
    BY <1>1, <1>2, <1>4, <2>1
  <2>2. CASE ~At1(i)
    <3> DEFINE c == to[<<t, i>>]
    <3>1. /\ c \in T /\ deep[c] = deep[t] + 1 /\ und[c] = UnderOwn(T, way, c)
          /\ \A u \in T : u \in UnderOwn(T, way, c) <=>
               u \in UnderOwn(T, way, t) /\ Len(way[u]) > Len(way[t]) /\ way[u][Len(way[t]) + 1] = i
      BY <1>3, <1>5, <2>2
    <3> HIDE DEF c
    <3>2. UnderOwn(T, way, c) \subseteq T
      BY DEF UnderOwn
    <3>3. t \notin UnderOwn(T, way, c)
      BY <1>1, <3>1
    <3>4. UnderOwn(T, way, c) \subseteq UnderOwn(T, way, t) \ {t}
      BY <3>1, <3>2, <3>3
    <3>5. c \in S /\ deep[c] = deep[t] + 1 /\ und[c] \subseteq und[t] \ {t}
      BY <1>1, <1>2, <3>1, <3>4
    <3> QED BY <3>5 DEF c
  <2> QED BY <2>1, <2>2
<1>6. ASSUME NEW i \in Index, NEW j \in Index, i # j, <<t, i>> \in DOMAIN to, <<t, j>> \in DOMAIN to
      PROVE  und[to[<<t, i>>]] \cap und[to[<<t, j>>]] = {}
  <2>1. CASE At1(i)
    <3>1. ~At1(j)
      BY <1>6, <2>1
    <3>2. und[to[<<t, j>>]] \subseteq T
      BY <1>3, <1>6, <3>1 DEF UnderOwn
    <3> QED BY <1>1, <1>4, <2>1, <3>2
  <2>2. CASE At1(j)
    <3>1. ~At1(i)
      BY <1>6, <2>2
    <3>2. und[to[<<t, i>>]] \subseteq T
      BY <1>3, <1>6, <3>1 DEF UnderOwn
    <3> QED BY <1>1, <1>4, <2>2, <3>2
  <2>3. CASE ~At1(i) /\ ~At1(j)
    <3>1. \A u \in und[to[<<t, i>>]] : u \in T /\ way[u][Len(way[t]) + 1] = i
      BY <1>3, <1>6, <2>3 DEF UnderOwn
    <3>2. \A u \in und[to[<<t, j>>]] : u \in T /\ way[u][Len(way[t]) + 1] = j
      BY <1>3, <1>6, <2>3 DEF UnderOwn
    <3> QED BY <1>6, <3>1, <3>2
  <2> QED BY <2>1, <2>2, <2>3
<1>7. ASSUME NEW u \in und[t] \ {t}
      PROVE  \E i \in Index : <<t, i>> \in DOMAIN to /\ u \in und[to[<<t, i>>]]
  <2>1. CASE u \in UnderOwn(T, way, t)
    <3>1. PICK i \in Index : /\ Present(o.tab[t][i]) /\ ~IsLeaf(o, way, t, i)
                             /\ u \in UnderOwn(T, way, o.tab[t][i].page)
      BY <1>1, <1>7, <2>1, UnderLeads
    <3>2. ~At1(i)
      <4>1. OwnEntry(o, T, way, t, i)
        BY <3>1, AreOwnEntries
      <4>2. t = o.root => i < UserTop
        BY <4>1 DEF OwnEntry
      <4> QED BY <4>2 DEF Apart, Index
    <3>3. <<t, i>> \in DOMAIN to /\ to[<<t, i>>] = o.tab[t][i].page
      BY <3>1, <3>2 DEF Entered
    <3>4. und[to[<<t, i>>]] = UnderOwn(T, way, to[<<t, i>>])
      BY <1>3, <3>2, <3>3
    <3> QED BY <3>1, <3>3, <3>4
  <2>2. CASE u \notin UnderOwn(T, way, t)
    <3>1. t = o.root /\ u \in {k1, k2, k3} /\ SharedVa[1] \in Index
      BY <1>2, <1>7, <2>2 DEF Apart
    <3>2. At1(SharedVa[1])
      BY <3>1
    <3>3. to[<<t, SharedVa[1]>>] = k1 /\ und[k1] = {k1, k2, k3} /\ <<t, SharedVa[1]>> \in DOMAIN to
      BY <1>4, <3>1, <3>2
    <3> QED BY <3>1, <3>3
  <2> QED BY <2>1, <2>2
<1> QED BY <1>5, <1>6, <1>7 DEF LevelDown

\* And with the kernel's.
LEMMA KernelLevel ==
  ASSUME NEW o, NEW T, NEW way, NEW k1, NEW k2, NEW k3, Apart(o, T, k1, k2, k3),
         NEW to, Entered(to, o, T, k1, k2, k3),
         NEW S, NEW deep, NEW und, Placed(deep, und, o, T, way, S, k1, k2, k3),
         NEW t \in {k1, k2}
  PROVE  LevelDown(to, S, deep, und, t)
<1>1. /\ k1 # k2 /\ k1 # k3 /\ k2 # k3 /\ SharedVa[2] \in Index /\ SharedVa[3] \in Index
      /\ S = T \cup {k1, k2, k3} /\ deep[k1] = 1 /\ deep[k2] = 2 /\ deep[k3] = 3
      /\ und[k1] = {k1, k2, k3} /\ und[k2] = {k2, k3} /\ und[k3] = {k3}
  BY DEF Apart, Placed
<1>2. /\ \A i \in Index : /\ <<k1, i>> \in DOMAIN to <=> i = SharedVa[2]
                          /\ <<k2, i>> \in DOMAIN to <=> i = SharedVa[3]
      /\ to[<<k1, SharedVa[2]>>] = k2 /\ to[<<k2, SharedVa[3]>>] = k3
  BY DEF Entered
<1>3. ASSUME NEW s, NEW j \in Index, \A i \in Index : <<s, i>> \in DOMAIN to <=> i = j,
             NEW c \in S, c = to[<<s, j>>], deep[c] = deep[s] + 1, und[c] = und[s] \ {s}
      PROVE  LevelDown(to, S, deep, und, s)
  <2>1. \A i \in Index : <<s, i>> \in DOMAIN to => i = j /\ to[<<s, i>>] = c
    BY ONLY <1>3
  <2>2. <<s, j>> \in DOMAIN to
    BY ONLY <1>3
  <2> QED BY ONLY <1>3, <2>1, <2>2 DEF LevelDown
<1>4. und[k2] = und[k1] \ {k1} /\ und[k3] = und[k2] \ {k2} /\ k2 \in S /\ k3 \in S
      /\ deep[k2] = deep[k1] + 1 /\ deep[k3] = deep[k2] + 1
  BY <1>1
<1>5. LevelDown(to, S, deep, und, k1)
  BY ONLY <1>1, <1>2, <1>3, <1>4
<1>6. LevelDown(to, S, deep, und, k2)
  BY ONLY <1>1, <1>2, <1>3, <1>4
<1> QED BY <1>5, <1>6

\* What is lent out, but neither a table nor mapped.
Kept(o, T, way) == Unmapped(o, T, way) \ KernelTables

\* It is not led to, and only pages[] is one of boot_alloc's frames.
LEMMA Leading2 ==
  ASSUME NEW o, NEW T, NEW way, OwnTree(o, T, way), NEW k1, NEW k2, NEW k3, Apart(o, T, k1, k2, k3),
         NEW to, Entered(to, o, T, k1, k2, k3), NEW x \in DOMAIN to, NEW p, p = to[x]
  PROVE  /\ p \in Pages /\ p \notin Kept(o, T, way)
         /\ p \in Reserved => x = <<k3, SharedVa[4]>> /\ p = PagesArray
         /\ p \notin Reserved => p \in o.lent
<1>1. /\ T \subseteq Pages \ Reserved /\ T \subseteq o.lent /\ KernelTables \subseteq o.lent
      /\ o.lent \cap Reserved = {} /\ o.root \in T /\ KernelTables = {k1, k2, k3}
      /\ {k1, k2, k3} \subseteq Pages \ Reserved /\ PagesArray \in Pages /\ PagesArray \in Reserved
  <2>1. /\ T \subseteq o.lent /\ Good(o.fl, o.lent) /\ KernelTables \subseteq o.lent
    BY Parts, OwnTables2 DEF OwnTree
  <2>2. o.lent \cap Reserved = {}
    BY <2>1, NotReserved
  <2>3. T \subseteq Pages
    BY DEF Apart
  <2> QED BY <2>1, <2>2, <2>3 DEF Apart
<1>2. /\ Kept(o, T, way) \cap T = {} /\ Kept(o, T, way) \cap {k1, k2, k3} = {}
      /\ Kept(o, T, way) \cap PagesOf(Leaves(o, T, way)) = {} /\ PagesArray \notin Kept(o, T, way)
  BY <1>1 DEF Kept, Unmapped
<1>3. Kind(x, to, o, T, k1, k2, k3)
  BY Kinds
<1>4. CASE x = RootToken /\ to[x] = o.root
  BY <1>1, <1>2, <1>4
<1>5. ASSUME NEW t \in T, NEW i \in Index, Present(o.tab[t][i]), p = o.tab[t][i].page
      PROVE  p \in Pages \ Reserved /\ p \in o.lent /\ p \notin Kept(o, T, way)
  <2>1. OwnEntry(o, T, way, t, i)
    BY <1>5, AreOwnEntries
  <2>2. Len(way[t]) < 3 \/ Len(way[t]) = 3
    <3>1. Len(way[t]) \in Nat /\ Len(way[t]) < Depth
      BY Parts DEF OwnTree
    <3> DEFINE n == Len(way[t])
    <3>2. \A l \in Nat : l < Depth => l < 3 \/ l = 3
      BY VmaUnmapAssumption
    <3> QED BY ONLY <3>1, <3>2
  <2>3. p \in T \/ p \in PagesOf(Leaves(o, T, way))
    BY <1>5, <2>1, <2>2 DEF OwnEntry
  <2> QED BY <1>2, <1>5, <2>1, <2>3 DEF OwnEntry
<1>6. CASE to[x] \in {k1, k2, k3}
  BY <1>1, <1>2, <1>6
<1>7. CASE x = <<k3, SharedVa[4]>> /\ to[x] = PagesArray
  BY <1>1, <1>2, <1>7
<1> QED BY <1>3, <1>4, <1>5, <1>6, <1>7 DEF Kind

\* What env_free_page_tables comes to is a plan as the loops need it.
LEMMA Planned ==
  ASSUME NEW o, NEW T, NEW way, OwnTree(o, T, way), NEW k1, NEW k2, NEW k3, Apart(o, T, k1, k2, k3),
         NEW to, Entered(to, o, T, k1, k2, k3),
         NEW S, NEW deep, NEW und, Placed(deep, und, o, T, way, S, k1, k2, k3), to = [x \in DOMAIN to |-> to[x]]
  PROVE  Plan(to, S, deep, und, Kept(o, T, way))
<1>1. /\ S = T \cup {k1, k2, k3} /\ deep \in [S -> 0..3] /\ und \in [S -> SUBSET S]
      /\ deep[o.root] = 0 /\ und[o.root] = S /\ deep[k3] = 3 /\ und[k3] = {k3}
      /\ \A t \in T : deep[t] = Len(way[t]) /\ und[t] = UnderOwn(T, way, t) \cup (IF t = o.root THEN {k1, k2, k3} ELSE {})
  BY DEF Placed
<1>2. /\ DOMAIN to \subseteq (S \X Index) \cup {RootToken}
      /\ RootToken \in DOMAIN to /\ to[RootToken] = o.root /\ o.root \in S
  BY <1>1 DEF Entered, Apart
<1>3. S \subseteq Pages \ Reserved
  <2>1. T \subseteq o.lent /\ Good(o.fl, o.lent) /\ T \subseteq Pages
    BY Parts DEF OwnTree
  <2>2. T \cap Reserved = {}
    BY <2>1, NotReserved
  <2> QED BY <1>1, <2>1, <2>2 DEF Apart
<1>4. to \in [DOMAIN to -> Pages]
  <2>1. \A x \in DOMAIN to : to[x] \in Pages
    BY Leading2
  <2> QED BY <2>1
<1>5. \A i \in Index : <<o.root, i>> \in DOMAIN to => i < KernelVma
  <2> SUFFICES ASSUME NEW i \in Index, <<o.root, i>> \in DOMAIN to PROVE i < KernelVma
    OBVIOUS
  <2>1. SharedVa[1] \in Index /\ SharedVa[1] < KernelVma /\ UserTop \in Index /\ KernelVma \in Index
        /\ SharedVa[1] >= UserTop /\ o.root \in T
    BY DEF Apart
  <2>2. CASE i # SharedVa[1]
    <3>1. Present(o.tab[o.root][i])
      BY <2>1, <2>2 DEF Entered
    <3>2. OwnEntry(o, T, way, o.root, i)
      BY <2>1, <3>1, AreOwnEntries
    <3>3. i < UserTop
      BY <3>2 DEF OwnEntry
    <3> QED BY <2>1, <3>3 DEF Index
  <2> QED BY <2>1, <2>2
<1>6. \A x, y \in DOMAIN to : to[x] = to[y] /\ to[x] \in Reserved => x = y
  BY Leading2
<1>7. \A x \in DOMAIN to : to[x] \notin Kept(o, T, way)
  BY Leading2
<1>8. ASSUME NEW t \in S PROVE t \in und[t] /\ (deep[t] = 3 => und[t] = {t})
  <2>1. CASE t \in T
    <3>1. State(o, T, way) /\ \A u \in T : way[u] \in Seq(Index) /\ Len(way[u]) \in Nat /\ Len(way[u]) < Depth
      BY Parts DEF OwnTree
    <3>2. t \in UnderOwn(T, way, t) /\ \A u \in UnderOwn(T, way, t) : Len(way[u]) <= Len(way[t]) => u = t
      BY <2>1, <3>1, UnderTable
    <3>3. ASSUME deep[t] = 3 PROVE und[t] = {t}
      <4>1. t # o.root
        BY <1>1, <3>3
      <4>2. und[t] = UnderOwn(T, way, t)
        <5>1. und[t] = UnderOwn(T, way, t) \cup (IF t = o.root THEN {k1, k2, k3} ELSE {})
          BY ONLY <1>1, <2>1
        <5> QED BY ONLY <4>1, <5>1
      <4>3. \A u \in T : Len(way[u]) <= 3
        <5>1. \A n \in Nat : n < Depth => n <= 3
          BY VmaUnmapAssumption
        <5> QED BY ONLY <3>1, <5>1
      <4>4. Len(way[t]) = 3
        BY <1>1, <2>1, <3>3
      <4>5. UnderOwn(T, way, t) \subseteq {t}
        BY <3>2, <4>3, <4>4 DEF UnderOwn
      <4> QED BY <3>2, <4>2, <4>5
    <3> QED BY <1>1, <2>1, <3>2, <3>3
  <2>2. CASE t \in {k1, k2, k3}
    BY <2>2 DEF Placed
  <2> QED BY <1>1, <2>1, <2>2
<1>9. ASSUME NEW t \in S, deep[t] < 3 PROVE LevelDown(to, S, deep, und, t)
  <2>1. t \in T \/ t \in {k1, k2}
    BY <1>1, <1>9
  <2> QED BY <1>9, <2>1, OwnLevel, KernelLevel
<1> QED BY <1>1, <1>2, <1>3, <1>4, <1>5, <1>6, <1>7, <1>8, <1>9 DEF Plan, LevelDown

\* n is m with nothing cached.
Flushed(m, n) ==
    /\ n \in FreeMem /\ n.fl = m.fl /\ n.ref = m.ref /\ n.lent = m.lent /\ n.tab = m.tab

\* Loading kern_pml4 does that.
LEMMA Flushes ==
  ASSUME NEW m \in Memory
  PROVE  Flushed(m, [m EXCEPT !.tlb = {}])
<1>1. m.ref \in [Pages -> 0..(Uint16 - 1)]
  <2>1. Uint16 \in Nat /\ MaxRef \in Nat /\ MaxRef <= Uint16 - 1
    <3>1. Uint16 \in Nat /\ Uint16 > 1 /\ MaxRef \in 1..(Uint16 - 1)
      BY PageTablesAssumption DEF Uint16
    <3> HIDE DEF Uint16
    <3> QED BY <3>1
  <2>2. 0..MaxRef \subseteq 0..(Uint16 - 1)
    <3> HIDE DEF Uint16
    <3> QED BY <2>1
  <2>3. m.ref \in [Pages -> 0..MaxRef]
    BY DEF Memory
  <2> HIDE DEF Uint16
  <2> QED BY <2>2, <2>3
<1> DEFINE n == [m EXCEPT !.tlb = {}]
<1>2. n \in [fl : FreeList, ref : [Pages -> 0..MaxRef], lent : SUBSET Pages,
              tab : [Pages -> [Index -> [page : Ptr, huge : BOOLEAN]]], root : Pages, tlb : {{}}]
  BY DEF Memory
<1>3. n.fl = m.fl /\ n.ref = m.ref /\ n.lent = m.lent /\ n.tab = m.tab
  BY DEF Memory
<1> HIDE DEF n, Uint16
<1>4. n.ref \in [Pages -> 0..(Uint16 - 1)]
  BY <1>1, <1>3
<1>5. n \in FreeMem
  BY <1>2, <1>4 DEF FreeMem, Entry
<1>6. Flushed(m, n)
  BY <1>3, <1>5 DEF Flushed
<1> QED BY <1>6 DEF n

\* The entries to a page that is not the kernel's.
LEMMA TargetsOwn ==
  ASSUME NEW o, NEW T, NEW way, OwnTree(o, T, way), NEW k1, NEW k2, NEW k3, Apart(o, T, k1, k2, k3),
         NEW to, Entered(to, o, T, k1, k2, k3), NEW p \in Pages \ Reserved, p \notin KernelTables
  PROVE  Targets(to, DOMAIN to, p) = EntriesTo(o, T, p) \cup (IF p = o.root THEN {RootToken} ELSE {})
<1>1. /\ o.root \in T /\ KernelTables = {k1, k2, k3} /\ PagesArray \in Reserved /\ NULL \notin Pages
      /\ k1 \notin T /\ k2 \notin T /\ k3 \notin T /\ SharedVa[1] \in Index
  BY DEF Apart
<1>2. /\ RootToken \in DOMAIN to /\ to[RootToken] = o.root
      /\ \A t \in T, i \in Index : ~ (t = o.root /\ i = SharedVa[1]) =>
           /\ <<t, i>> \in DOMAIN to <=> Present(o.tab[t][i])
           /\ Present(o.tab[t][i]) => to[<<t, i>>] = o.tab[t][i].page
  BY DEF Entered
<1>3. ASSUME NEW t \in T, NEW i \in Index, o.tab[t][i].page = p
      PROVE  <<t, i>> \in DOMAIN to /\ to[<<t, i>>] = p
  <2>1. Present(o.tab[t][i])
    BY <1>1, <1>3 DEF Present
  <2>2. OwnEntry(o, T, way, t, i)
    BY <2>1, AreOwnEntries
  <2>3. ~ (t = o.root /\ i = SharedVa[1])
    BY <2>2 DEF OwnEntry, Apart, Index
  <2> QED BY <1>2, <1>3, <2>1, <2>3
<1>4. ASSUME NEW x \in DOMAIN to, to[x] = p
      PROVE  x \in EntriesTo(o, T, p) \/ (p = o.root /\ x = RootToken)
  <2>1. Kind(x, to, o, T, k1, k2, k3)
    BY Kinds
  <2>2. \/ x = RootToken /\ p = o.root
        \/ \E t \in T, i \in Index : x = <<t, i>> /\ o.tab[t][i].page = p
    BY <1>1, <1>4, <2>1 DEF Kind
  <2>3. ASSUME NEW t \in T, NEW i \in Index, x = <<t, i>>, o.tab[t][i].page = p
        PROVE  x \in EntriesTo(o, T, p)
    BY <2>3 DEF EntriesTo
  <2> QED BY <2>2, <2>3
<1>5. ASSUME NEW x \in EntriesTo(o, T, p)
      PROVE  x \in DOMAIN to /\ to[x] = p
  <2>1. PICK t \in T, i \in Index : x = <<t, i>> /\ o.tab[t][i].page = p
    BY <1>5 DEF EntriesTo
  <2> QED BY <1>3, <2>1
<1> QED BY <1>2, <1>4, <1>5 DEF Targets

\* How many there are: the count of the page.
LEMMA TargetsCounted ==
  ASSUME NEW m, NEW o, SeesTables(m, o), NEW T, NEW way, OwnTree(o, T, way),
         NEW k1, NEW k2, NEW k3, Apart(o, T, k1, k2, k3),
         NEW to, Entered(to, o, T, k1, k2, k3), NEW p \in Pages \ Reserved
  PROVE  m.ref[p] = Cardinality(Targets(to, DOMAIN to, p))
<1>1. /\ o.root \in T /\ T \subseteq Pages /\ KernelTables = {k1, k2, k3} /\ NULL \notin Pages
      /\ k1 # k2 /\ k1 # k3 /\ k2 # k3 /\ k1 \notin T /\ k2 \notin T /\ k3 \notin T
      /\ PagesArray \in Reserved
  BY DEF Apart
<1>2. CASE p \notin KernelTables
  <2>1. m.ref[p] = o.ref[p] /\ o.ref[p] = Cardinality(EntriesTo(o, T, p)) + (IF p = o.root THEN 1 ELSE 0)
    <3>1. m.ref[p] = o.ref[p]
      BY <1>2 DEF SeesTables
    <3>2. Counted(o, T)
      BY Parts DEF OwnTree
    <3> QED BY <3>1, <3>2 DEF Counted, Count
  <2>2. IsFiniteSet(EntriesTo(o, T, p)) /\ RootToken \notin EntriesTo(o, T, p)
    <3>1. RootToken \notin EntriesTo(o, T, p)
      BY <1>1 DEF EntriesTo, RootToken
    <3> QED BY <1>1, <3>1, EntriesFinite
  <2>3. Targets(to, DOMAIN to, p) = EntriesTo(o, T, p) \cup (IF p = o.root THEN {RootToken} ELSE {})
    BY <1>2, TargetsOwn
  <2>4. CASE p = o.root
    <3>1. Targets(to, DOMAIN to, p) = EntriesTo(o, T, p) \cup {RootToken}
      BY <2>3, <2>4
    <3> HIDE DEF RootToken
    <3>2. Cardinality(EntriesTo(o, T, p) \cup {RootToken}) = Cardinality(EntriesTo(o, T, p)) + 1
      BY <2>2, FS_AddElement
    <3> QED BY <2>1, <2>4, <3>1, <3>2
  <2>5. CASE p # o.root
    <3>1. Targets(to, DOMAIN to, p) = EntriesTo(o, T, p)
      BY <2>3, <2>5
    <3>2. Cardinality(EntriesTo(o, T, p)) \in Nat
      BY <2>2, FS_CardinalityType
    <3> QED BY <2>1, <2>5, <3>1, <3>2
  <2> QED BY <2>4, <2>5
<1>3. ASSUME p \in KernelTables, NEW y \in DOMAIN to, to[y] = p,
             \A x \in DOMAIN to : to[x] = p => x = y
      PROVE  m.ref[p] = Cardinality(Targets(to, DOMAIN to, p))
  <2>1. Targets(to, DOMAIN to, p) = {y}
    BY <1>3 DEF Targets
  <2>2. Cardinality({y}) = 1
    BY FS_Singleton
  <2>3. m.ref[p] = 1
    BY <1>3 DEF SeesTables
  <2> QED BY <2>1, <2>2, <2>3
<1>4. /\ <<o.root, SharedVa[1]>> \in DOMAIN to /\ to[<<o.root, SharedVa[1]>>] = k1
      /\ <<k1, SharedVa[2]>> \in DOMAIN to /\ to[<<k1, SharedVa[2]>>] = k2
      /\ <<k2, SharedVa[3]>> \in DOMAIN to /\ to[<<k2, SharedVa[3]>>] = k3
  BY DEF Entered, Apart
<1>5. ASSUME p \in KernelTables, NEW x \in DOMAIN to, to[x] = p
      PROVE  /\ p = k1 => x = <<o.root, SharedVa[1]>>
             /\ p = k2 => x = <<k1, SharedVa[2]>>
             /\ p = k3 => x = <<k2, SharedVa[3]>>
  <2>1. Kind(x, to, o, T, k1, k2, k3)
    BY Kinds
  <2>2. \A t \in T, i \in Index : o.tab[t][i].page # p
    BY <1>5, OwnTables2 DEF Kernels
  <2>3. p # o.root /\ p # PagesArray
    BY <1>1, <1>5
  <2> QED BY <1>1, <1>5, <2>1, <2>2, <2>3 DEF Kind
<1>6. CASE p \in KernelTables
  <2>1. p = k1 \/ p = k2 \/ p = k3
    BY <1>1, <1>6
  <2>2. \E y \in DOMAIN to : to[y] = p /\ \A x \in DOMAIN to : to[x] = p => x = y
    BY <1>4, <1>5, <1>6, <2>1
  <2> QED BY <1>3, <1>6, <2>2
<1> QED BY <1>2, <1>6

\* Everything is still there when env_free_page_tables begins.
LEMMA StartsFreeing ==
  ASSUME NEW m, NEW o, Sees(m, o), NEW T, NEW way, OwnTree(o, T, way),
         NEW k1, NEW k2, NEW k3, SharedChain(k1, k2, k3), NEW S, S = T \cup {k1, k2, k3},
         NEW to, to = EntriesIn(m, S), NEW n, Flushed(m, n)
  PROVE  Freeing(n, DOMAIN to, to, S, Kept(o, T, way))
<1> DEFINE U == Kept(o, T, way)
<1>1. SeesTables(m, o) /\ m.fl = o.fl /\ m.lent = o.lent
  BY DEF Sees, SeesTables
<1>2. Apart(o, T, k1, k2, k3) /\ Entered(to, o, T, k1, k2, k3)
  BY <1>1, AreApart, AreEntered
<1>3. n \in FreeMem /\ n.fl = m.fl /\ n.ref = m.ref /\ n.lent = m.lent /\ n.tab = m.tab
  BY DEF Flushed
<1>4. /\ Tree(o, T, way) /\ Good(o.fl, o.lent) /\ Counted(o, T) /\ T \subseteq o.lent /\ T \subseteq Pages
      /\ o.lent \subseteq Pages /\ KernelTables \subseteq o.lent /\ o.lent \cap Reserved = {}
  <2>1. /\ Tree(o, T, way) /\ Good(o.fl, o.lent) /\ Counted(o, T) /\ T \subseteq o.lent /\ T \subseteq Pages
        /\ o.lent \subseteq Pages
    BY Parts DEF OwnTree
  <2> QED BY <2>1, OwnTables2, NotReserved
<1>5. /\ o.root \in T /\ KernelTables = {k1, k2, k3} /\ NULL \notin Pages
      /\ PagesArray \in Pages /\ PagesArray \in Reserved /\ KernelTables \cap Reserved = {}
  BY <1>2 DEF Apart
<1>6. \A p \in Pages \ Reserved : n.ref[p] = Cardinality(Targets(to, DOMAIN to, p))
  BY <1>1, <1>2, <1>3, TargetsCounted
<1>7. ASSUME NEW x \in DOMAIN to, to[x] \in Reserved PROVE n.ref[to[x]] = 0
  <2>1. to[x] = PagesArray
    BY <1>2, <1>7, Leading2
  <2>2. o.ref[PagesArray] = Cardinality(EntriesTo(o, T, PagesArray))
    <3>1. PagesArray # o.root
      BY <1>4, <1>5
    <3>2. o.ref[PagesArray] = Cardinality(EntriesTo(o, T, PagesArray)) + 0
      BY <1>4, <1>5, <3>1 DEF Counted, Count
    <3>3. IsFiniteSet(EntriesTo(o, T, PagesArray))
      BY <1>4, EntriesFinite
    <3> QED BY <3>2, <3>3, FS_CardinalityType
  <2>3. EntriesTo(o, T, PagesArray) = {}
    <3> SUFFICES ASSUME NEW t \in T, NEW i \in Index, o.tab[t][i].page = PagesArray PROVE FALSE
      BY DEF EntriesTo
    <3>1. Present(o.tab[t][i])
      BY <1>5 DEF Present
    <3>2. OwnEntry(o, T, way, t, i)
      BY <3>1, AreOwnEntries
    <3> QED BY <1>5, <3>2 DEF OwnEntry
  <2>4. m.ref[PagesArray] = o.ref[PagesArray]
    BY <1>1, <1>5 DEF SeesTables
  <2> QED BY <1>3, <2>1, <2>2, <2>3, <2>4, FS_EmptySet
<1>8. ASSUME NEW p \in Pages, p \in o.lent
      PROVE  p \in U \/ (p \notin Reserved /\ Targets(to, DOMAIN to, p) # {})
  <2>1. p \notin Reserved
    BY <1>4, <1>8
  <2>2. ASSUME p \notin U PROVE \E x \in DOMAIN to : to[x] = p
    <3>1. CASE p \in KernelTables
      <4>1. /\ <<o.root, SharedVa[1]>> \in DOMAIN to /\ to[<<o.root, SharedVa[1]>>] = k1
            /\ <<k1, SharedVa[2]>> \in DOMAIN to /\ to[<<k1, SharedVa[2]>>] = k2
            /\ <<k2, SharedVa[3]>> \in DOMAIN to /\ to[<<k2, SharedVa[3]>>] = k3
        BY <1>2 DEF Entered, Apart
      <4> QED BY ONLY <1>5, <3>1, <4>1
    <3>2. CASE p = o.root
      BY <1>2, <3>2 DEF Entered
    <3>3. ASSUME NEW t \in T, NEW i \in Index, o.tab[t][i].page = p
          PROVE  \E x \in DOMAIN to : to[x] = p
      <4>1. Present(o.tab[t][i])
        BY <1>5, <3>3 DEF Present
      <4>2. OwnEntry(o, T, way, t, i)
        BY <4>1, AreOwnEntries
      <4>3. ~ (t = o.root /\ i = SharedVa[1])
        BY <1>2, <4>2 DEF OwnEntry, Apart, Index
      <4> QED BY <1>2, <3>3, <4>1, <4>3 DEF Entered
    <3>4. CASE p \in T /\ p # o.root
      BY <1>4, <3>3, <3>4 DEF Tree
    <3>5. CASE p \in PagesOf(Leaves(o, T, way))
      <4>1. PICK c \in Leaves(o, T, way) : c.page = p
        BY <3>5 DEF PagesOf
      <4>2. \E t \in T, i \in Index : c.page = o.tab[t][i].page
        BY DEF Leaves
      <4> QED BY <3>3, <4>1, <4>2
    <3>6. p \in T \/ p \in PagesOf(Leaves(o, T, way)) \/ p \in KernelTables
      BY <1>8, <2>2 DEF Kept, Unmapped
    <3> QED BY <3>1, <3>2, <3>4, <3>5, <3>6
  <2> QED BY <2>1, <2>2 DEF Targets
<1>9. ASSUME NEW p \in Pages, p \in U \/ (p \notin Reserved /\ Targets(to, DOMAIN to, p) # {})
      PROVE  p \in o.lent
  <2>1. CASE p \in U
    BY <2>1 DEF Kept, Unmapped
  <2>2. CASE p \notin Reserved /\ Targets(to, DOMAIN to, p) # {}
    <3>1. PICK x \in DOMAIN to : to[x] = p
      BY <2>2 DEF Targets
    <3> QED BY <1>2, <2>2, <3>1, Leading2
  <2> QED BY <1>9, <2>1, <2>2
<1>10. ASSUME NEW t \in S, NEW i \in Index
       PROVE  IF <<t, i>> \in DOMAIN to THEN <<t, i>> \in DOMAIN to => n.tab[t][i].page = to[<<t, i>>]
              ELSE n.tab[t][i].page = NULL
  <2>1. NULL \notin S
    BY <1>2 DEF Apart
  <2>2. <<t, i>> # RootToken /\ <<t, i>> \in S \X Index
    BY <2>1 DEF RootToken
  <2>3. DOMAIN to = {y \in S \X Index : Present(m.tab[y[1]][y[2]])} \cup {RootToken}
    BY DEF EntriesIn
  <2>4. \A x \in DOMAIN to : to[x] = IF x = RootToken THEN m.root ELSE m.tab[x[1]][x[2]].page
    BY DEF EntriesIn
  <2>5. <<t, i>> \in DOMAIN to <=> Present(m.tab[t][i])
    BY <2>2, <2>3
  <2>6. <<t, i>> \in DOMAIN to => to[<<t, i>>] = m.tab[t][i].page
    BY <2>2, <2>4
  <2> QED BY <1>3, <2>5, <2>6 DEF Present
<1>11. Good(n.fl, n.lent)
  BY <1>1, <1>3, <1>4
<1> QED BY <1>1, <1>3, <1>6, <1>7, <1>8, <1>9, <1>10, <1>11 DEF Freeing

\* What env_free_page_tables leaves in use: what is neither the environment's nor the kernel's.
LEMMA GivesBackAll ==
  ASSUME BootOK, NEW m, NEW o, Sees(m, o), NEW U, SmallTree(o, U), KernelTables \subseteq U,
         NEW n, n = [m EXCEPT !.tlb = {}], NEW f, f = env_free_page_tables(n, m.root)
  PROVE  f \in FreeMem /\ Good(f.fl, f.lent) /\ f.lent = U \ KernelTables
<1>1. PICK T, way : OwnTree(o, T, way) /\ Unmapped(o, T, way) = U
  BY OwnSmall
<1>2. PICK k1, k2, k3 : SharedChain(k1, k2, k3)
  BY DEF BootOK
<1> DEFINE S == T \cup {k1, k2, k3}
           to == EntriesIn(m, S)
           deep == Deep(T, way, k1, k2, k3)
           und == Under(T, way, o.root, k1, k2, k3)
           V == Kept(o, T, way)
<1>3. SeesTables(m, o) /\ m \in Memory /\ m.root = o.root
  BY DEF Sees, SeesTables
<1>4. Apart(o, T, k1, k2, k3)
  BY <1>1, <1>2, AreApart
<1>5. Flushed(m, n)
  BY <1>3, Flushes
<1>6. to = [x \in DOMAIN to |-> to[x]]
  BY DEF EntriesIn
<1> HIDE DEF to, deep, und, S, V
<1>7. Entered(to, o, T, k1, k2, k3)
  <2>1. S = T \cup {k1, k2, k3} /\ to = EntriesIn(m, S)
    BY DEF S, to
  <2> QED BY <1>1, <1>2, <1>3, <2>1, AreEntered
<1>8. Placed(deep, und, o, T, way, S, k1, k2, k3)
  <2>1. S = T \cup {k1, k2, k3} /\ deep = Deep(T, way, k1, k2, k3)
        /\ und = Under(T, way, o.root, k1, k2, k3)
    BY DEF S, deep, und
  <2> QED BY <1>1, <1>4, <2>1, ArePlaced
<1>9. Plan(to, S, deep, und, V)
  BY <1>1, <1>4, <1>6, <1>7, <1>8, Planned DEF V
<1>10. Freeing(n, DOMAIN to, to, S, V)
  <2>1. S = T \cup {k1, k2, k3} /\ to = EntriesIn(m, S)
    BY DEF S, to
  <2> QED BY <1>1, <1>2, <1>5, <2>1, StartsFreeing DEF V
<1>11. /\ RootToken \in DOMAIN to /\ to[RootToken] = o.root /\ o.root \in S /\ und[o.root] = S
       /\ NULL \notin S /\ DOMAIN to \subseteq (S \X Index) \cup {RootToken}
  <2>1. und[o.root] = S /\ S = T \cup {k1, k2, k3}
    BY <1>8 DEF Placed
  <2> QED BY <1>4, <1>7, <2>1 DEF Entered, Apart
<1>12. RootToken \notin Of(to, S) /\ Of(to, S) \subseteq DOMAIN to /\ DOMAIN to \subseteq {RootToken} \cup Of(to, S)
  <2>1. RootToken[1] = NULL
    BY DEF RootToken
  <2>2. \A x \in S \X Index : x[1] \in S
    OBVIOUS
  <2> HIDE DEF RootToken
  <2> QED BY <1>11, <2>1, <2>2 DEF Of
<1>13. CanFree(n, RootToken, DOMAIN to, to, S, und, V)
  BY <1>10, <1>11, <1>12 DEF CanFree
<1>14. HasFreed(f, RootToken, DOMAIN to, to, S, und, V)
  <2>1. m.root = to[RootToken]
    BY <1>3, <1>11
  <2> HIDE DEF RootToken
  <2>2. \A t, x : t = to[x] /\ x = RootToken => HasFreed(env_free_page_tables(n, t), RootToken, DOMAIN to, to, S, und, V)
    BY <1>9, <1>13, FreesAll
  <2> QED BY <2>1, <2>2
<1>15. Freeing(f, {}, to, S, V)
  <2>1. DOMAIN to \ ({RootToken} \cup Of(to, und[to[RootToken]])) = {}
    BY <1>11, <1>12
  <2> QED BY <1>14, <2>1 DEF HasFreed
<1>16. f \in FreeMem /\ Good(f.fl, f.lent) /\ \A p \in Pages : p \in f.lent <=> p \in V
  BY <1>15 DEF Freeing, Targets
<1>17. f.lent \subseteq Pages /\ V \subseteq Pages /\ V = U \ KernelTables
  <2>1. U \subseteq o.lent /\ o.lent \subseteq Pages
    BY <1>1, Parts DEF OwnTree, Unmapped
  <2> QED BY <1>1, <1>16, <2>1 DEF Good, Kept, V
<1> QED BY <1>16, <1>17
-----------------------------------------------------------------------------
(* The invariant. *)

Slots == 0..(NEnv - 1)
EnvsIn(S) == [slots : [Slots -> [status : {"free", "runnable", "running"}, id : S, parent : S]],
              free : Seq(Slots), cur : Slots \cup {-1}]

\* Slot e is the only one in use.
OnlyEnv(e) ==
    /\ e \in Slots /\ \E S : envs \in EnvsIn(S)
    /\ \A i \in Slots : envs.slots[i].status # "free" <=> i = e
    /\ \/ envs.slots[e].status = "runnable" /\ envs.cur = -1 /\ call = Idle
       \/ envs.slots[e].status = "running" /\ envs.cur = e

\* What an environment leaves when it has been destroyed.
LeftBehind == Good(mem.fl, mem.lent) /\ mem.lent \subseteq {stack}

\* Before an environment is created, if that fails, while there is one, and after.
EnvInv ==
    \/ mem = Booted /\ call = Idle /\ envs = env_init /\ stack = NULL
    \/ mem.fl.panic /\ envs.cur = -1
    \/ /\ BootOK /\ stack \in Pages
       /\ LiveIn(mem, call, KernelTables \cup {stack})
       /\ \E e \in Slots : OnlyEnv(e)
    \/ /\ envs.cur # -1 /\ \E S : envs \in EnvsIn(S)
       /\ \A i \in Slots : envs.slots[i].status = "free"
       /\ envs.cur \in Slots /\ LeftBehind

\* The slots as env_init leaves them.
LEMMA SlotsInit ==
  /\ env_init \in EnvsIn({0}) /\ env_init.cur = -1
  /\ \A i \in Slots : env_init.slots[i].status = "free"
  /\ env_init.free # <<>> /\ Head(env_init.free) \in Slots /\ Tail(env_init.free) \in Seq(Slots)
<1> DEFINE f == [i \in 1..NEnv |-> i - 1]
<1>1. NEnv \in Nat /\ NEnv >= 1
  BY EnvironmentsAssumption
<1>2. f \in Seq(Slots) /\ Len(f) = NEnv
  BY <1>1 DEF Slots
<1>3. f # <<>> /\ f[1] = 0 /\ Head(f) = 0
  BY <1>1, <1>2
<1>4. Tail(f) \in Seq(Slots) /\ Head(f) \in Slots
  BY <1>1, <1>2, <1>3 DEF Slots
<1>5. env_init.free = f /\ env_init.cur = -1
      /\ env_init.slots = [i \in Slots |-> [status |-> "free", id |-> 0, parent |-> 0]]
      /\ env_init = [slots |-> env_init.slots, free |-> f, cur |-> -1]
  BY DEF env_init, Slots
<1> HIDE DEF f
<1>6. env_init \in EnvsIn({0})
  BY <1>2, <1>5 DEF EnvsIn
<1> QED BY <1>3, <1>4, <1>5, <1>6

\* env_create.
LEMMA CreateKeeps ==
  ASSUME EnvInv, ~mem.fl.panic, env_create
  PROVE  EnvInv'
<1> DEFINE root == page_alloc(mem.fl, FALSE)
           page == page_alloc(root.fl, FALSE)
<1>1. mem = Booted /\ call = Idle /\ envs = env_init /\ stack = NULL
  BY Bounds DEF EnvInv, env_create
<1>2. BootOK /\ Booted.fl \in FreeList
  BY <1>1, BootWell DEF BootOK
<1>3. CASE root.page = NULL \/ page.page = NULL
  <2>1. mem' = [mem EXCEPT !.fl.panic = TRUE] /\ envs' = envs
    BY <1>3 DEF env_create
  <2>2. Booted \in [fl : FreeList, ref : [Pages -> 0..MaxRef], lent : SUBSET Pages,
                    tab : [Pages -> [Index -> Entry]], root : {NULL}, tlb : {{}}]
    BY <1>2 DEF BootOK
  <2>3. mem'.fl.panic
    BY <1>1, <1>2, <2>1, <2>2 DEF FreeList
  <2>4. envs'.cur = -1
    BY <1>1, <2>1, SlotsInit
  <2> QED BY <2>3, <2>4 DEF EnvInv
<1>4. CASE root.page # NULL /\ page.page # NULL
  <2> PICK e : e = Head(envs.free)
    OBVIOUS
  <2>1. /\ env_alloc(e) /\ load_icode(env_setup_vm(mem, root), page) /\ call' = call
    BY <1>1, <1>4, SlotsInit DEF env_create
  <2>2. mem' = Loaded(root, page) /\ stack' = page.page
    BY <1>1, <2>1 DEF load_icode, Loaded, Taken
  <2>3. page.page \in Pages /\ \E o : Sees(mem', o) /\ SmallTree(o, KernelTables \cup {page.page})
    BY <1>1, <1>2, <1>4, <2>2, TwoPages, Created
  <2>4. call' = Idle /\ LiveIn(mem', call', KernelTables \cup {stack'})
    BY <1>1, <2>1, <2>2, <2>3 DEF LiveIn
  <2>5. OnlyEnv(e)'
    <3> DEFINE new == [status |-> "runnable", id |-> NewId(e), parent |-> 0]
    <3>1. envs' = [envs EXCEPT !.slots[e] = new, !.free = Tail(@)]
      BY <2>1 DEF env_alloc
    <3>2. new \in [status : {"free", "runnable", "running"}, id : {0, NewId(e)}, parent : {0, NewId(e)}]
          /\ new.status = "runnable"
      OBVIOUS
    <3> HIDE DEF new
    <3>3. /\ envs \in EnvsIn({0}) /\ envs.cur = -1 /\ e \in Slots /\ Tail(envs.free) \in Seq(Slots)
          /\ \A i \in Slots : envs.slots[i].status = "free"
      BY <1>1, SlotsInit
    <3>4. /\ envs'.slots = [envs.slots EXCEPT ![e] = new] /\ envs'.cur = -1
          /\ envs'.free = Tail(envs.free)
          /\ envs' = [slots |-> envs'.slots, free |-> envs'.free, cur |-> envs'.cur]
      BY <3>1, <3>3 DEF EnvsIn
    <3>5. envs'.slots \in [Slots -> [status : {"free", "runnable", "running"},
                                     id : {0, NewId(e)}, parent : {0, NewId(e)}]]
      BY <3>2, <3>3, <3>4 DEF EnvsIn
    <3>6. envs' \in EnvsIn({0, NewId(e)})
      BY <3>3, <3>4, <3>5 DEF EnvsIn
    <3>7. \A i \in Slots : envs'.slots[i].status = IF i = e THEN "runnable" ELSE "free"
      BY <3>2, <3>3, <3>4 DEF EnvsIn
    <3> QED BY <2>4, <3>3, <3>4, <3>6, <3>7 DEF OnlyEnv
  <2>6. e \in Slots
    BY <1>1, SlotsInit
  <2> QED BY <1>2, <2>2, <2>3, <2>4, <2>5, <2>6 DEF EnvInv
<1> QED BY <1>3, <1>4

\* env_run.
LEMMA RunKeeps ==
  ASSUME EnvInv, ~mem.fl.panic, NEW e \in DOMAIN envs.slots, env_run(e)
  PROVE  EnvInv'
<1>1. envs.slots[e].status = "runnable" /\ mem' = mem /\ call' = call /\ stack' = stack
      /\ envs' = [envs EXCEPT !.cur = e, !.slots[e].status = "running"]
  BY DEF env_run
<1>2. ASSUME NEW S, envs \in EnvsIn(S)
      PROVE  e \in Slots
  BY <1>2 DEF EnvsIn
<1>3. e \in Slots /\ BootOK /\ stack \in Pages /\ LiveIn(mem, call, KernelTables \cup {stack})
      /\ \E x \in Slots : OnlyEnv(x)
  BY <1>1, <1>2, SlotsInit DEF EnvInv, OnlyEnv
<1>4. OnlyEnv(e) /\ call = Idle
  BY <1>1, <1>3 DEF OnlyEnv
<1>5. OnlyEnv(e)'
  <2>1. PICK S : envs \in EnvsIn(S)
    BY <1>4 DEF OnlyEnv
  <2>2. /\ envs'.slots = [envs.slots EXCEPT ![e].status = "running"] /\ envs'.cur = e
        /\ envs'.free = envs.free
        /\ envs' = [slots |-> envs'.slots, free |-> envs'.free, cur |-> envs'.cur]
    BY <1>1, <2>1 DEF EnvsIn
  <2>3. /\ envs'.slots \in [Slots -> [status : {"free", "runnable", "running"}, id : S, parent : S]]
        /\ \A i \in Slots : envs'.slots[i].status = IF i = e THEN "running" ELSE envs.slots[i].status
    BY <1>3, <2>1, <2>2 DEF EnvsIn
  <2>4. envs' \in EnvsIn(S)
    BY <1>3, <2>1, <2>2, <2>3 DEF EnvsIn
  <2> QED BY <1>1, <1>3, <1>4, <2>2, <2>3, <2>4 DEF OnlyEnv
<1> QED BY <1>1, <1>3, <1>5 DEF EnvInv

\* Only the current environment is there to be destroyed.
LEMMA OnlyCurrent ==
  ASSUME NEW e, OnlyEnv(e), Alive
  PROVE  envs.cur = e /\ \A id \in Int : envid2env(id) \subseteq {e}
<1>1. e = envs.cur
  BY DEF OnlyEnv, Alive
<1>2. ASSUME NEW id \in Int, NEW x \in envid2env(id) PROVE x = e
  <2>1. CASE id = 0
    BY <1>1, <1>2, <2>1 DEF envid2env
  <2>2. CASE id # 0
    <3> DEFINE k == id % NEnv
    <3>1. k \in Slots
      BY EnvironmentsAssumption DEF Slots
    <3> HIDE DEF k
    <3>2. x = k /\ envs.slots[x].status # "free"
      BY <1>2, <2>2 DEF envid2env, k
    <3> QED BY <3>1, <3>2 DEF OnlyEnv
  <2> QED BY <2>1, <2>2
<1> QED BY <1>1, <1>2

\* env_destroy, by a system call or an exception.
LEMMA DestroyKeeps ==
  ASSUME EnvInv, ~mem.fl.panic, Alive, NEW e, env_destroy(e), e = envs.cur \/ \E id \in EnvIds : e \in envid2env(id)
  PROVE  EnvInv'
<1>1. PICK c \in Slots : OnlyEnv(c)
  BY SlotsInit DEF EnvInv, Alive
<1>2. e = c /\ envs.cur = e
  BY <1>1, OnlyCurrent, EnvironmentsAssumption
<1>3. PICK S : envs \in EnvsIn(S)
  BY <1>1 DEF OnlyEnv
<1>4. envs' = [envs EXCEPT !.slots[e].status = "free", !.free = <<e>> \o @]
  BY DEF env_destroy, env_free
<1>5. /\ envs'.slots = [envs.slots EXCEPT ![e].status = "free"] /\ envs'.cur = e
      /\ envs'.free = <<e>> \o envs.free
      /\ envs' = [slots |-> envs'.slots, free |-> envs'.free, cur |-> envs'.cur]
  BY <1>2, <1>3, <1>4 DEF EnvsIn
<1>6. /\ envs'.slots \in [Slots -> [status : {"free", "runnable", "running"}, id : S, parent : S]]
      /\ \A i \in Slots : envs'.slots[i].status = "free"
  <2>1. /\ envs'.slots \in [Slots -> [status : {"free", "runnable", "running"}, id : S, parent : S]]
        /\ \A i \in Slots : envs'.slots[i].status = IF i = e THEN "free" ELSE envs.slots[i].status
    <3>1. e \in Slots
      BY <1>2
    <3>2. envs.slots \in [Slots -> [status : {"free", "runnable", "running"}, id : S, parent : S]]
      BY <1>3 DEF EnvsIn
    <3>3. envs'.slots = [envs.slots EXCEPT ![e].status = "free"]
      BY <1>5
    <3> QED BY ONLY <3>1, <3>2, <3>3
  <2> QED BY <1>1, <1>2, <2>1 DEF OnlyEnv
<1>7. envs'.free \in Seq(Slots)
  BY <1>1, <1>2, <1>3, <1>5 DEF EnvsIn
<1>8. envs' \in EnvsIn(S)
  BY <1>1, <1>2, <1>5, <1>6, <1>7 DEF EnvsIn
<1>9. envs'.cur # -1
  BY <1>1, <1>2, <1>5, EnvironmentsAssumption DEF Slots
<1>10. LeftBehind'
  <2>1. BootOK /\ stack \in Pages /\ LiveIn(mem, call, KernelTables \cup {stack})
    BY SlotsInit DEF EnvInv, Alive
  <2> DEFINE U == KernelTables \cup {stack}
             n == [mem EXCEPT !.tlb = {}]
             f == env_free_page_tables(n, mem.root)
  <2>2. KernelTables \subseteq U /\ U \ KernelTables \subseteq {stack}
    OBVIOUS
  <2>3. mem' = [f EXCEPT !.root = NULL] /\ stack' = stack
    BY DEF env_destroy, env_free
  <2>4. LiveIn(mem, call, U)
    BY <2>1
  <2> HIDE DEF U, n, f
  <2>5. PICK o : Sees(mem, o) /\ SmallTree(o, U)
    BY <2>4, LiveNow
  <2>6. f \in FreeMem /\ Good(f.fl, f.lent) /\ f.lent = U \ KernelTables
    BY <2>1, <2>2, <2>5, GivesBackAll DEF n, f
  <2>7. mem'.fl = f.fl /\ mem'.lent = f.lent
    BY <2>3, <2>6 DEF FreeMem
  <2> QED BY <2>2, <2>3, <2>6, <2>7 DEF LeftBehind
<1> QED BY <1>1, <1>2, <1>5, <1>6, <1>8, <1>9, <1>10 DEF EnvInv

\* Every step keeps the invariant.
LEMMA EnvInvStep ==
  ASSUME SinglePages, EnvInv, [EnvNext]_envVars
  PROVE  EnvInv'
<1>1. CASE UNCHANGED envVars
  BY <1>1 DEF envVars, EnvInv, OnlyEnv, LeftBehind
<1>2. CASE env_create /\ ~mem.fl.panic
  BY <1>2, CreateKeeps
<1>3. CASE ~mem.fl.panic /\ \E e \in DOMAIN envs.slots : env_run(e)
  BY <1>3, RunKeeps
<1>4. CASE ~mem.fl.panic /\ Alive /\ UnmapNext /\ UNCHANGED <<envs, stack>>
  <2>1. PICK e \in Slots : /\ BootOK /\ stack \in Pages /\ OnlyEnv(e)
                           /\ LiveIn(mem, call, KernelTables \cup {stack})
    BY <1>4, SlotsInit DEF EnvInv, Alive
  <2> DEFINE U == KernelTables \cup {stack}
  <2>2. KernelTables \subseteq U
    OBVIOUS
  <2>3. LiveIn(mem', call', U)
    <3> HIDE DEF U
    <3>1. LiveIn(mem, call, U)
      BY <2>1 DEF U
    <3> QED BY <1>4, <2>2, <3>1, LiveStep
  <2>4. envs.slots[e].status = "running" /\ envs' = envs /\ stack' = stack
    BY <1>4, <2>1 DEF OnlyEnv, Alive
  <2>5. OnlyEnv(e)'
    BY <2>1, <2>4 DEF OnlyEnv
  <2> QED BY <2>1, <2>3, <2>4, <2>5 DEF EnvInv
<1>5. CASE /\ ~mem.fl.panic /\ Alive /\ ~call.busy
           /\ Exception \/ \E id \in EnvIds : sys_env_destroy(id)
  <2>1. \E e : env_destroy(e) /\ (e = envs.cur \/ \E id \in EnvIds : e \in envid2env(id))
    BY <1>5 DEF Exception, sys_env_destroy
  <2> QED BY <1>5, <2>1, DestroyKeeps
<1> QED BY <1>1, <1>2, <1>3, <1>4, <1>5 DEF EnvNext

\* At first nothing has been created.
LEMMA EnvInvInit == EnvInit => EnvInv
BY DEF EnvInit, EnvInv

\* The invariant, for ranges of one page.
THEOREM EnvInvariant == ASSUME SinglePages PROVE EnvSpec => []EnvInv
BY EnvInvInit, EnvInvStep, PTL DEF EnvSpec
-----------------------------------------------------------------------------
(* What is true of an environment while it lives. *)

\* Then the kernel is up, and memory holds its tree.
LEMMA AliveTables ==
  ASSUME EnvInv, Alive
  PROVE  BootOK /\ \E o, T, way : SeesTables(mem, o) /\ OwnTree(o, T, way)
<1>1. CASE envs = env_init \/ envs.cur = -1
  BY <1>1, SlotsInit DEF Alive
<1>2. CASE BootOK /\ LiveIn(mem, call, KernelTables \cup {stack})
  BY <1>2, LiveTables
<1>3. CASE envs.cur \in Slots /\ \A i \in Slots : envs.slots[i].status = "free"
  BY <1>3 DEF Alive
<1> QED BY <1>1, <1>2, <1>3 DEF EnvInv

\* The count of every page is the number of entries that point to it, whatever the
\* environment maps and whatever pages it unmaps, one at a time (SinglePages); the
\* kernel's shared tables are included.
THEOREM CountsExactWhileAlive == ASSUME SinglePages PROVE EnvSpec => []CountsWhileAlive
<1>1. EnvInv => CountsWhileAlive
  BY AliveTables, SeenCounts DEF CountsWhileAlive
<1> QED BY <1>1, EnvInvariant, PTL

\* What the kernel maps for all is the same for the environment, and no call of it
\* changes a table of the kernel's (env.c:142), if it unmaps one page at a time
\* (SinglePages).
THEOREM SharedPartKept == ASSUME SinglePages PROVE EnvSpec => []SharedPartSame
<1>1. EnvInv => SharedPartSame
  <2> SUFFICES ASSUME EnvInv, Alive
               PROVE  /\ \A i \in Index : i >= UserTop => mem.tab[mem.root][i] = mem.tab[KernPml4][i]
                      /\ \A t \in KernelTables \cup {KernPml4} : t = KernPml4 \/ mem.tab[t] = Booted.tab[t]
                      /\ Translation(mem, SharedVa) = PagesArray
    BY DEF SharedPartSame
  <2> QED BY AliveTables, SharedSeen
<1> QED BY <1>1, EnvInvariant, PTL

\* Everything of an environment that has been destroyed is on the free list again, once,
\* and the list is well linked; only the page taken for the stack is lost (env.c:444-473).
\* The environment has unmapped its pages one at a time (SinglePages): a call of vma_unmap
\* for several could have cleared a root entry, and lost what was mapped below it.
THEOREM EverythingGivenBack == ASSUME SinglePages PROVE EnvSpec => []NothingKept
<1>1. EnvInv => NothingKept
  <2> SUFFICES ASSUME EnvInv, Destroyed
               PROVE  /\ ListSound(mem.fl) /\ ~mem.fl.panic
                      /\ mem.lent \subseteq {stack} \cup KernelTables
                      /\ UNION {Unit(mem.fl, p) : p \in mem.fl.avail \cup mem.lent} = Pages \ Reserved
                      /\ \A p, q \in mem.fl.avail \cup mem.lent :
                           p # q => Unit(mem.fl, p) \cap Unit(mem.fl, q) = {}
    BY DEF NothingKept
  <2>1. LeftBehind
    <3>1. CASE envs = env_init \/ envs.cur = -1
      BY <3>1, SlotsInit DEF Destroyed
    <3>2. ASSUME NEW e \in Slots, OnlyEnv(e) PROVE LeftBehind
      <4>1. envs.cur = e /\ envs.slots[e].status = "running"
        BY <3>2 DEF OnlyEnv, Destroyed
      <4> QED BY <4>1 DEF Destroyed
    <3> QED BY <3>1, <3>2 DEF EnvInv
  <2>2. Good(mem.fl, mem.lent)
    BY <2>1 DEF LeftBehind
  <2>3. ListSound(mem.fl) /\ ~mem.fl.panic
    BY <2>2, GoodSound DEF Good
  <2>4. Tiled(mem.fl, mem.fl.avail \cup mem.lent)
    BY <2>2 DEF Good
  <2> QED BY <2>1, <2>3, <2>4 DEF LeftBehind, Tiled
<1> QED BY <1>1, EnvInvariant, PTL
=============================================================================
