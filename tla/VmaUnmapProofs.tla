--------------------------- MODULE VmaUnmapProofs ---------------------------
(***************************************************************************)
(* Theorems about VmaUnmap, for every memory, size of a table and set of   *)
(* addresses: what unmapping one page does to the page tables.  Each has   *)
(* the hypothesis SinglePages: sys_vma_destroy (syscall.c:188) can unmap   *)
(* several pages in one call, and vma_unmap then loses others.             *)
(***************************************************************************)
EXTENDS VmaUnmap, PageTablesProofs

-----------------------------------------------------------------------------
(* Taking an empty table out of the tree.                                   *)

\* What vma_unmap does with the entry of a table that it found empty.
EntryCleared(m, t, i) == SetEntry(page_decref(m, m.tab[t][i].page), t, i, Empty)

\* m2 is m without the table that entry i of t leads to.
DropsTable(m, m2, t, i) ==
    LET q == m.tab[t][i].page
    IN /\ m2.root = m.root /\ m2.tlb = m.tlb
       /\ m2.fl = page_free(m.fl, 0, q) /\ m2.lent = m.lent \ {q}
       /\ \A p \in Pages : m2.ref[p] = IF p = q THEN 0 ELSE m.ref[p]
       /\ \A u \in Pages, j \in Index :
            m2.tab[u][j] = IF u = t /\ j = i THEN Empty ELSE m.tab[u][j]

\* Clearing the only entry to a page gives the page back.
LEMMA ClearedFields ==
  ASSUME NEW m \in Memory, NEW t \in Pages, NEW i \in Index, m.tab[t][i].page \in Pages,
         m.ref[m.tab[t][i].page] = 1,
         FreedIn(m, m.tab[t][i].page, page_free(m.fl, 0, m.tab[t][i].page))
  PROVE  EntryCleared(m, t, i) \in Memory /\ DropsTable(m, EntryCleared(m, t, i), t, i)
<1> DEFINE q == m.tab[t][i].page
           fl == page_free(m.fl, 0, q)
           x == page_decref(m, q)
           n == EntryCleared(m, t, i)
           E == [page : Ptr, huge : BOOLEAN]
<1>1. /\ m.fl \in FreeList /\ m.ref \in [Pages -> 0..MaxRef] /\ m.lent \subseteq Pages
      /\ m.tab \in [Pages -> [Index -> E]]
      /\ m.root \in Pages /\ m.tlb \subseteq [at : Seq(Index), page : Pages]
  BY Fields
<1>2. m = [fl |-> m.fl, ref |-> m.ref, lent |-> m.lent, tab |-> m.tab, root |-> m.root,
           tlb |-> m.tlb]
  BY DEF Memory
<1>3. (m.ref[q] - 1) % Uint16 = 0
  BY Bounds, Decrement
<1>4. n = SetEntry(x, t, i, Empty)
  BY DEF EntryCleared
<1>5. q \in Pages /\ fl \in FreeList
  BY DEF FreedIn
<1>6. x = [m EXCEPT !.ref[q] = 0, !.fl = fl, !.lent = @ \ {q}]
  BY <1>3 DEF page_decref
<1> HIDE DEF n, x, fl, q
<1>7. /\ x.tab = m.tab /\ x.root = m.root /\ x.tlb = m.tlb /\ x.fl = fl /\ x.lent = m.lent \ {q}
      /\ x.ref = [m.ref EXCEPT ![q] = 0]
      /\ x = [fl |-> x.fl, ref |-> x.ref, lent |-> x.lent, tab |-> x.tab, root |-> x.root,
              tlb |-> x.tlb]
  BY <1>2, <1>6
<1>8. /\ n.fl = x.fl /\ n.ref = x.ref /\ n.lent = x.lent /\ n.root = x.root /\ n.tlb = x.tlb
      /\ n.tab = [x.tab EXCEPT ![t][i] = Empty]
      /\ n = [fl |-> n.fl, ref |-> n.ref, lent |-> n.lent, tab |-> n.tab, root |-> n.root,
              tlb |-> n.tlb]
  BY <1>4, <1>7 DEF SetEntry
<1>9. /\ n.tab \in [Pages -> [Index -> E]]
      /\ \A u \in Pages, k \in Index :
           n.tab[u][k] = IF u = t /\ k = i THEN Empty ELSE m.tab[u][k]
  <2>1. Empty \in E
    BY DEF Empty, Ptr
  <2>2. n.tab = [m.tab EXCEPT ![t][i] = Empty]
    BY <1>7, <1>8
  <2> HIDE DEF E
  <2>3. n.tab \in [Pages -> [Index -> E]]
    BY <1>1, <2>1, <2>2
  <2>4. \A u \in Pages, k \in Index :
          n.tab[u][k] = IF u = t /\ k = i THEN Empty ELSE m.tab[u][k]
    BY <1>1, <2>2
  <2> QED BY <2>3, <2>4
<1>10. /\ n.ref \in [Pages -> 0..MaxRef]
       /\ \A p \in Pages : n.ref[p] = IF p = q THEN 0 ELSE m.ref[p]
  <2>1. n.ref = [m.ref EXCEPT ![q] = 0]
    BY <1>7, <1>8
  <2> QED BY <1>1, <1>5, <2>1, Bounds
<1>11. n.fl \in FreeList /\ n.lent \subseteq Pages /\ n.root \in Pages
       /\ n.tlb \subseteq [at : Seq(Index), page : Pages]
  BY <1>1, <1>5, <1>7, <1>8
<1>12. n \in Memory
  BY <1>8, <1>9, <1>10, <1>11 DEF Memory
<1>13. DropsTable(m, n, t, i)
  BY <1>7, <1>8, <1>9, <1>10 DEF DropsTable, fl, q
<1> QED BY <1>12, <1>13 DEF n

\* One entry leads to a table, and its count says so.
LEMMA CountedOnce ==
  ASSUME NEW m, NEW T, NEW way, State(m, T, way), NEW t \in T, NEW i \in Index,
         Present(m.tab[t][i]), ~IsLeaf(m, way, t, i), NEW q, q = m.tab[t][i].page
  PROVE  /\ q \in T /\ way[q] = Append(way[t], i) /\ q # m.root /\ q # t /\ m.ref[q] = 1
         /\ \A u \in T, j \in Index : m.tab[u][j].page = q => u = t /\ j = i
<1>1. /\ m \in Memory /\ Tree(m, T, way) /\ Counted(m, T) /\ Good(m.fl, m.lent)
      /\ m.tlb \subseteq Leaves(m, T, way)
      /\ T \subseteq Pages /\ T \subseteq m.lent /\ T \cap m.fl.huge = {} /\ m.lent \subseteq Pages
      /\ way \in [Pages -> Seq(Index)] /\ m.root \in T
      /\ \A u \in T : way[u] \in Seq(Index) /\ Len(way[u]) \in Nat /\ Len(way[u]) < Depth
  BY Parts
<1>2. q \in T /\ way[q] = Append(way[t], i)
  BY <1>1 DEF Tree, EntryOK
<1>3. q # m.root /\ q # t
  <2>1. way[t] \in Seq(Index) /\ Len(way[q]) = Len(way[t]) + 1
    BY <1>1, <1>2
  <2>2. way[m.root] = <<>> /\ Len(way[t]) \in Nat
    BY <1>1 DEF Tree
  <2>3. Len(<<>>) = 0
    OBVIOUS
  <2> QED BY <2>1, <2>2, <2>3
<1>4. ASSUME NEW u \in T, NEW j \in Index, m.tab[u][j].page = q PROVE u = t /\ j = i
  <2>1. Present(m.tab[u][j])
    BY <1>1, <1>2, <1>4, Bounds DEF Present
  <2>2. way[q] = Append(way[u], j)
    <3>1. EntryOK(m, T, way, u, j)
      BY <1>1, <2>1 DEF Tree
    <3> QED BY <1>2, <1>4, <3>1 DEF EntryOK
  <2>3. Append(way[u], j) = Append(way[t], i)
    BY <1>2, <2>2
  <2> QED BY <2>3, LeafRecords
<1>5. m.ref[q] = 1
  <2>1. EntriesTo(m, T, q) = {<<t, i>>}
    BY <1>4 DEF EntriesTo
  <2>2. Cardinality(EntriesTo(m, T, q)) = 1
    BY <2>1, FS_Singleton
  <2>3. q \in Pages
    BY <1>1, <1>2
  <2> QED BY <1>1, <1>3, <2>2, <2>3 DEF Counted, Count
<1> QED BY <1>2, <1>3, <1>4, <1>5

\* What clearing entry i of t, with the empty table q behind it, comes to.
TableGone(m, n, T, way, t, i, q) ==
    /\ State(n, T \ {q}, way) /\ Leaves(n, T \ {q}, way) = Leaves(m, T, way)
    /\ n.root = m.root /\ n.lent = m.lent \ {q} /\ n.tab[t][i] = Empty
    /\ \A u \in T, j \in Index : u # t \/ j # i => n.tab[u][j] = m.tab[u][j]

\* A table without entries: the tree is a tree without it, and maps the same.
LEMMA OldTable ==
  ASSUME NEW m, NEW T, NEW way, State(m, T, way), NEW t \in T, NEW i \in Index,
         Present(m.tab[t][i]), ~IsLeaf(m, way, t, i),
         NEW q, q = m.tab[t][i].page, \A j \in Index : ~Present(m.tab[q][j])
  PROVE  TableGone(m, EntryCleared(m, t, i), T, way, t, i, q)
<1> DEFINE n == EntryCleared(m, t, i)
           T2 == T \ {q}
<1>1. /\ m \in Memory /\ Tree(m, T, way) /\ Counted(m, T) /\ Good(m.fl, m.lent)
      /\ m.tlb \subseteq Leaves(m, T, way)
      /\ T \subseteq Pages /\ T \subseteq m.lent /\ T \cap m.fl.huge = {} /\ m.lent \subseteq Pages
      /\ way \in [Pages -> Seq(Index)] /\ m.root \in T
      /\ \A u \in T : way[u] \in Seq(Index) /\ Len(way[u]) \in Nat /\ Len(way[u]) < Depth
  BY Parts
<1>2. q \in T /\ way[q] = Append(way[t], i)
  BY CountedOnce
<1>3. q # m.root /\ q # t
  BY CountedOnce
<1>4. ASSUME NEW u \in T, NEW j \in Index, m.tab[u][j].page = q PROVE u = t /\ j = i
  BY <1>4, CountedOnce
<1>5. m.ref[q] = 1
  BY CountedOnce
<1>6. FreedIn(m, q, page_free(m.fl, 0, q)) /\ q \in Pages /\ t \in Pages /\ q \in m.lent
  BY <1>1, <1>2, Freed
<1>7. n \in Memory /\ DropsTable(m, n, t, i)
  <2>1. m.tab[t][i].page \in Pages /\ m.ref[m.tab[t][i].page] = 1
    BY <1>5, <1>6
  <2>2. FreedIn(m, m.tab[t][i].page, page_free(m.fl, 0, m.tab[t][i].page))
    BY <1>6
  <2> QED BY <1>1, <1>6, <2>1, <2>2, ClearedFields
<1> HIDE DEF n
<1>8. /\ n.root = m.root /\ n.tlb = m.tlb
      /\ n.fl = page_free(m.fl, 0, q) /\ n.lent = m.lent \ {q}
      /\ \A p \in Pages : n.ref[p] = IF p = q THEN 0 ELSE m.ref[p]
      /\ \A u \in Pages, j \in Index : n.tab[u][j] = IF u = t /\ j = i THEN Empty ELSE m.tab[u][j]
  BY <1>7 DEF DropsTable
<1>9. /\ n.fl \in FreeList /\ Good(n.fl, n.lent)
      /\ \A p \in n.lent : p \in n.fl.huge <=> p \in m.fl.huge
  BY <1>6, <1>8 DEF FreedIn
<1>10. /\ n.tab[t][i] = Empty /\ Empty.page = NULL /\ ~Present(n.tab[t][i])
       /\ \A u \in T, j \in Index : u # t \/ j # i => n.tab[u][j] = m.tab[u][j]
  <2>1. n.tab[t][i] = Empty
    BY <1>6, <1>8
  <2>2. Empty.page = NULL
    BY DEF Empty
  <2>3. \A u \in T, j \in Index : u # t \/ j # i => n.tab[u][j] = m.tab[u][j]
    BY <1>1, <1>8
  <2> QED BY <2>1, <2>2, <2>3 DEF Present
<1> HIDE DEF T2
<1>11. T2 = T \ {q} /\ T2 \subseteq T /\ t \in T2 /\ m.root \in T2
  BY <1>1, <1>3 DEF T2
\* What is present is what was present elsewhere in the tree.
<1>12. ASSUME NEW u \in T2, NEW j \in Index, Present(n.tab[u][j])
       PROVE  /\ u \in T /\ (u # t \/ j # i) /\ n.tab[u][j] = m.tab[u][j] /\ Present(m.tab[u][j])
              /\ m.tab[u][j].page # q
  <2>1. u \in T /\ (u # t \/ j # i)
    BY <1>10, <1>11, <1>12
  <2>2. n.tab[u][j] = m.tab[u][j]
    BY <1>10, <2>1
  <2> QED BY <1>4, <1>12, <2>1, <2>2
<1>13. Tree(n, T2, way)
  <2>1. ASSUME NEW u \in T2, u # n.root PROVE \E v \in T2, j \in Index : n.tab[v][j].page = u
    <3>1. u \in T /\ u # q /\ u # m.root
      BY <1>8, <1>11, <2>1
    <3>2. PICK v \in T, j \in Index : m.tab[v][j].page = u
      BY <1>1, <3>1 DEF Tree
    <3>3. Present(m.tab[v][j])
      BY <1>1, <3>1, <3>2, Bounds DEF Present
    <3>4. v # q /\ (v # t \/ j # i)
      BY <3>1, <3>2, <3>3
    <3>5. v \in T2 /\ n.tab[v][j].page = u
      BY <1>10, <1>11, <3>2, <3>4
    <3> QED BY <3>5
  <2>2. ASSUME NEW u \in T2, NEW j \in Index, Present(n.tab[u][j]) PROVE EntryOK(n, T2, way, u, j)
    <3>1. /\ u \in T /\ n.tab[u][j] = m.tab[u][j] /\ Present(m.tab[u][j])
          /\ m.tab[u][j].page # q
      BY <1>12, <2>2
    <3>2. EntryOK(m, T, way, u, j)
      BY <1>1, <3>1 DEF Tree
    <3>3. /\ m.tab[u][j].page \in m.lent
          /\ m.tab[u][j].huge <=> m.tab[u][j].page \in m.fl.huge
      BY <3>2 DEF EntryOK
    <3>4. n.tab[u][j].page \in n.lent
      BY <1>8, <3>1, <3>3
    <3>5. n.tab[u][j].huge <=> n.tab[u][j].page \in n.fl.huge
      BY <1>9, <3>1, <3>3, <3>4
    <3>6. n.tab[u][j].page \in T2 <=> m.tab[u][j].page \in T
      BY <1>11, <3>1
    <3>7. IsLeaf(n, way, u, j) <=> IsLeaf(m, way, u, j)
      BY <3>1 DEF IsLeaf
    <3> QED BY <3>1, <3>2, <3>4, <3>5, <3>6, <3>7 DEF EntryOK
  <2>3. \A u, v \in T2 : way[u] = way[v] => u = v
    BY <1>1, <1>11 DEF Tree
  <2>4. T2 \subseteq Pages /\ way[n.root] = <<>> /\ n.root \in T2
    BY <1>1, <1>8, <1>11 DEF Tree
  <2>5. \A u \in T2 : Len(way[u]) < Depth
    BY <1>1, <1>11
  <2> QED BY <1>1, <2>1, <2>2, <2>3, <2>4, <2>5 DEF Tree
<1>14. Counted(n, T2)
  <2>1. EntriesTo(n, T2, q) = {}
    <3>1. ASSUME NEW u \in T2, NEW j \in Index, n.tab[u][j].page = q PROVE FALSE
      <4>1. Present(n.tab[u][j])
        BY <1>6, <3>1, Bounds DEF Present
      <4> QED BY <1>12, <3>1, <4>1
    <3> QED BY <3>1 DEF EntriesTo
  <2>2. ASSUME NEW p \in Pages, p # q PROVE EntriesTo(n, T2, p) = EntriesTo(m, T, p)
    <3>1. ASSUME NEW u \in T, NEW j \in Index
          PROVE  u \in T2 /\ n.tab[u][j].page = p <=> m.tab[u][j].page = p
      <4>1. p # NULL
        BY Bounds
      <4>2. CASE u = t /\ j = i
        BY <1>10, <2>2, <4>1, <4>2
      <4>3. CASE u = q
        <5>1. ~Present(m.tab[u][j])
          BY <4>3
        <5> QED BY <1>11, <4>1, <4>3, <5>1 DEF Present
      <4>4. CASE u # q /\ (u # t \/ j # i)
        BY <1>10, <1>11, <4>4
      <4> QED BY <4>2, <4>3, <4>4
    <3> QED BY <1>11, <3>1 DEF EntriesTo
  <2>3. n.ref[q] = Count(n, T2, q)
    <3>1. n.ref[q] = 0 /\ q # n.root
      BY <1>3, <1>6, <1>8
    <3>2. Cardinality(EntriesTo(n, T2, q)) = 0
      BY <2>1, FS_EmptySet
    <3> QED BY <3>1, <3>2 DEF Count
  <2>4. ASSUME NEW p \in Pages, p # q PROVE n.ref[p] = Count(n, T2, p)
    <3>1. n.ref[p] = m.ref[p] /\ n.root = m.root
      BY <1>8, <2>4
    <3>2. m.ref[p] = Count(m, T, p)
      BY <1>1 DEF Counted
    <3> QED BY <2>2, <2>4, <3>1, <3>2 DEF Count
  <2> QED BY <2>3, <2>4 DEF Counted
<1>15. Owned(n, T2)
  <2>1. T2 \subseteq n.lent
    BY <1>1, <1>8, <1>11
  <2>2. T2 \cap n.fl.huge = {}
    BY <1>1, <1>9, <1>11, <2>1
  <2> QED BY <1>9, <2>1, <2>2 DEF Owned
<1>16. Leaves(n, T2, way) = Leaves(m, T, way)
  <2>1. ASSUME NEW c \in Leaves(n, T2, way) PROVE c \in Leaves(m, T, way)
    <3>1. PICK u \in T2, j \in Index : IsLeaf(n, way, u, j) /\ c.at = Append(way[u], j)
                                      /\ c.page = n.tab[u][j].page
      BY DEF Leaves
    <3>2. u \in T /\ n.tab[u][j] = m.tab[u][j] /\ IsLeaf(m, way, u, j)
      BY <1>12, <3>1 DEF IsLeaf
    <3> QED BY <3>1, <3>2 DEF Leaves
  <2>2. ASSUME NEW c \in Leaves(m, T, way) PROVE c \in Leaves(n, T2, way)
    <3>1. PICK u \in T, j \in Index : IsLeaf(m, way, u, j) /\ c.at = Append(way[u], j)
                                     /\ c.page = m.tab[u][j].page
      BY DEF Leaves
    <3>2. u # q /\ (u # t \/ j # i)
      BY <3>1 DEF IsLeaf
    <3>3. u \in T2 /\ n.tab[u][j] = m.tab[u][j]
      BY <1>10, <1>11, <3>2
    <3>4. IsLeaf(n, way, u, j)
      BY <3>1, <3>3 DEF IsLeaf
    <3> QED BY <3>1, <3>3, <3>4 DEF Leaves
  <2> QED BY <2>1, <2>2
<1>17. State(n, T2, way)
  BY <1>1, <1>7, <1>8, <1>13, <1>14, <1>15, <1>16 DEF State
<1>18. n.root = m.root /\ n.lent = m.lent \ {q}
  BY <1>8
<1>19. TableGone(m, n, T, way, t, i, q)
  BY <1>10, <1>16, <1>17, <1>18 DEF TableGone, T2
<1> QED BY <1>19 DEF n

-----------------------------------------------------------------------------
(* Small pages only. *)

\* The leaves are those of small pages.
SmallLeaves(L) == \A c \in L : Len(c.at) = Depth

\* The pages that are lent out and that the tree neither has as tables nor maps.
Unmapped(m, T, way) == (m.lent \ T) \ PagesOf(Leaves(m, T, way))

\* The kernel gave up.
Panicked(m) == [m EXCEPT !.fl.panic = TRUE]

\* An entry above the last level leads to a table.
LEMMA NoHugeLeaf ==
  ASSUME NEW m, NEW T, NEW way, State(m, T, way), SmallLeaves(Leaves(m, T, way)),
         NEW t \in T, NEW i \in Index, Present(m.tab[t][i])
  PROVE  /\ ~m.tab[t][i].huge
         /\ Len(way[t]) < Depth - 1 =>
              /\ ~IsLeaf(m, way, t, i) /\ m.tab[t][i].page \in T
              /\ Len(way[m.tab[t][i].page]) = Len(way[t]) + 1
<1>1. Tree(m, T, way) /\ way[t] \in Seq(Index) /\ Len(way[t]) \in Nat
  BY Parts
<1>2. EntryOK(m, T, way, t, i)
  BY <1>1 DEF Tree
<1>3. Len(Append(way[t], i)) = Len(way[t]) + 1
  BY <1>1
<1>4. ASSUME m.tab[t][i].huge PROVE FALSE
  <2>1. IsLeaf(m, way, t, i)
    BY <1>4 DEF IsLeaf
  <2>2. LeafRecord(m, way, t, i) \in Leaves(m, T, way)
    BY <2>1, LeafRecords
  <2>3. Len(LeafRecord(m, way, t, i).at) = Depth
    BY <2>2 DEF SmallLeaves
  <2>4. LeafRecord(m, way, t, i).at = Append(way[t], i)
    BY DEF LeafRecord
  <2>5. Len(way[t]) = Depth - 2
    BY <1>2, <1>4 DEF EntryOK
  <2> QED BY <1>3, <2>3, <2>4, <2>5, Bounds
<1>5. ASSUME Len(way[t]) < Depth - 1
      PROVE  /\ ~IsLeaf(m, way, t, i) /\ m.tab[t][i].page \in T
             /\ Len(way[m.tab[t][i].page]) = Len(way[t]) + 1
  <2>1. ~IsLeaf(m, way, t, i)
    BY <1>1, <1>4, <1>5, Bounds DEF IsLeaf
  <2>2. m.tab[t][i].page \in T /\ way[m.tab[t][i].page] = Append(way[t], i)
    BY <1>2, <2>1 DEF EntryOK
  <2> QED BY <1>3, <2>1, <2>2
<1> QED BY <1>4, <1>5

\* A small page may be inserted anywhere.
LEMMA SmallFits ==
  ASSUME NEW m, NEW T, NEW way, State(m, T, way), SmallLeaves(Leaves(m, T, way)),
         NEW a \in Vas, NEW p, p \notin m.fl.huge
  PROVE  KindFits(m, p, a)
<1> DEFINE i == a[Depth - 1]
<1>1. PICK q : /\ Descend([m |-> m, table |-> m.root], a, FALSE) = [m |-> m, table |-> q]
               /\ Finds(m, T, way, a, Depth - 2, q)
  BY DescendFinds
<1>2. i \in Index
  <2>1. Depth - 1 \in 1..Depth
    BY Bounds
  <2> QED BY <2>1, PageTablesAssumption
<1> HIDE DEF i
<1> DEFINE e == EntryAt(At([m |-> m, table |-> q], i))
<1>3. e = IF q = NULL THEN Empty ELSE m.tab[q][i]
  BY DEF EntryAt, At
<1>4. ~ (Present(e) /\ e.huge)
  <2>1. CASE q = NULL
    BY <1>3, <2>1 DEF Empty
  <2>2. CASE q # NULL
    <3>1. q \in T
      BY <1>1, <2>2 DEF Finds
    <3>2. e = m.tab[q][i]
      BY <1>3, <2>2
    <3> HIDE DEF e
    <3> QED BY <1>2, <3>1, <3>2, NoHugeLeaf
  <2> QED BY <2>1, <2>2
<1>5. Present(e) => (e.huge <=> p \in m.fl.huge)
  BY <1>4
<1> QED BY <1>1, <1>5 DEF KindFits, i

\* A small page that page_insert maps is one more small leaf.
LEMMA InsertsSmall ==
  ASSUME NEW m, NEW T, NEW way, State(m, T, way), SmallLeaves(Leaves(m, T, way)),
         NEW a \in Vas, NEW p \in m.lent \ T, p \notin m.fl.huge, m.ref[p] = 0
  PROVE  \E T2, way2 : /\ State(page_insert(m, p, a), T2, way2)
                       /\ SmallLeaves(Leaves(page_insert(m, p, a), T2, way2))
                       /\ \/ Grown(m, T, way, page_insert(m, p, a), T2, way2)
                          \/ Remapped(m, T, way, page_insert(m, p, a), T2, way2, a, p)
<1> DEFINE n == page_insert(m, p, a)
<1>1. KindFits(m, p, a) /\ m.ref[p] < MaxRef /\ m.ref[p] # 1
  BY SmallFits, Bounds
<1>2. n = page_insert(m, p, a)
  OBVIOUS
<1> HIDE DEF n
<1>3. PICK T2, way2 : /\ State(n, T2, way2)
                      /\ \/ Grown(m, T, way, n, T2, way2)
                         \/ Remapped(m, T, way, n, T2, way2, EntryWay(p \in m.fl.huge, a), p)
  BY <1>1, <1>2, Inserted
<1>4. SmallLeaves(Leaves(n, T2, way2))
  <2>1. CASE Grown(m, T, way, n, T2, way2)
    BY <2>1 DEF Grown, SmallLeaves
  <2>2. CASE Remapped(m, T, way, n, T2, way2, EntryWay(p \in m.fl.huge, a), p)
    <3>1. EntryWay(p \in m.fl.huge, a) = a
      BY DEF EntryWay
    <3>2. ASSUME NEW c \in Leaves(n, T2, way2) PROVE c \in Leaves(m, T, way) \/ c.at = a
      <4>1. c \in Leaves(m, T, way) \/ c = [at |-> EntryWay(p \in m.fl.huge, a), page |-> p]
        BY <2>2, Zenon DEF Remapped
      <4>2. CASE c \in Leaves(m, T, way)
        BY <4>2
      <4>3. CASE c = [at |-> EntryWay(p \in m.fl.huge, a), page |-> p]
        BY <3>1, <4>3
      <4> QED BY <4>1, <4>2, <4>3
    <3>3. Len(a) = Depth
      BY PageTablesAssumption
    <3> QED BY <3>2, <3>3 DEF SmallLeaves
  <2> QED BY <1>3, <2>1, <2>2
<1>5. EntryWay(p \in m.fl.huge, a) = a
  BY DEF EntryWay
<1>6. \/ Grown(m, T, way, n, T2, way2)
      \/ Remapped(m, T, way, n, T2, way2, a, p)
  BY <1>3, <1>5
<1> QED BY <1>3, <1>4, <1>6 DEF n

\* Taking a small page leaves the tree as it is.
LEMMA TakesSmall ==
  ASSUME NEW m, NEW T, NEW way, State(m, T, way), page_alloc(m.fl, FALSE).page # NULL,
         NEW m2, Takes(m, m2, page_alloc(m.fl, FALSE))
  PROVE  /\ State(m2, T, way) /\ Leaves(m2, T, way) = Leaves(m, T, way)
         /\ m2.lent \ T = (m.lent \ T) \cup {page_alloc(m.fl, FALSE).page}
<1> DEFINE Kept(k) ==
             LET r == page_alloc(m.fl, k)
             IN r.page # NULL /\ Takes(m, m2, r) =>
                  /\ State(m2, T, way) /\ Leaves(m2, T, way) = Leaves(m, T, way)
                  /\ m2.lent \ T = (m.lent \ T) \cup {r.page}
<1>1. ASSUME NEW k \in BOOLEAN PROVE Kept(k)
  BY <1>1, TakesPage
<1> HIDE DEF Kept
<1>2. Kept(FALSE)
  BY <1>1
<1> QED BY <1>2 DEF Kept

\* What the tree maps is lent out.
LEMMA MappedLent ==
  ASSUME NEW m, NEW T, NEW way, State(m, T, way)
  PROVE  PagesOf(Leaves(m, T, way)) \subseteq m.lent \ T
<1> SUFFICES ASSUME NEW c \in Leaves(m, T, way) PROVE c.page \in m.lent \ T
  BY DEF PagesOf
<1>1. PICK t \in T, i \in Index : IsLeaf(m, way, t, i) /\ c.page = m.tab[t][i].page
  BY DEF Leaves
<1>2. Present(m.tab[t][i]) /\ Tree(m, T, way)
  BY <1>1, Parts DEF IsLeaf
<1>3. EntryOK(m, T, way, t, i)
  BY <1>2 DEF Tree
<1> QED BY <1>1, <1>3 DEF EntryOK

\* m1 is m with one more page, which the tree does not use.
HasNew(m, T, way, m1, p) ==
    /\ p \notin m.lent /\ p # NULL
    /\ m1.lent \ T = (m.lent \ T) \cup {p} /\ Leaves(m1, T, way) = Leaves(m, T, way)

\* n, which page_insert made of m1, maps the new page at a, or has more tables only.
MapsOrAdds(m, T, way, m1, p, a, n, T2, way2) ==
    /\ Remapped(m1, T, way, n, T2, way2, a, p) => Unmapped(n, T2, way2) = Unmapped(m, T, way)
    /\ Grown(m1, T, way, n, T2, way2) => Unmapped(n, T2, way2) = Unmapped(m, T, way) \cup {p}

\* A new page that gets mapped takes nobody's place.
LEMMA NewlyMapped ==
  ASSUME NEW m, NEW T, NEW way, State(m, T, way), NEW m1, NEW p, HasNew(m, T, way, m1, p),
         NEW n, NEW T2, NEW way2, NEW a
  PROVE  MapsOrAdds(m, T, way, m1, p, a, n, T2, way2)
<1> DEFINE L == Leaves(m, T, way)
           L2 == Leaves(n, T2, way2)
<1>1. /\ p \notin m.lent /\ p # NULL
      /\ m1.lent \ T = (m.lent \ T) \cup {p} /\ Leaves(m1, T, way) = Leaves(m, T, way)
  BY DEF HasNew
<1>2. PagesOf(L) \subseteq m.lent \ T
  BY MappedLent
<1>3. ASSUME Remapped(m1, T, way, n, T2, way2, a, p)
      PROVE  Unmapped(n, T2, way2) = Unmapped(m, T, way)
  <2>1. /\ L2 = {c \in L : c.at # a} \cup {[at |-> a, page |-> p]}
        /\ n.lent \ T2 = ((m.lent \ T) \cup {p}) \ (PagesOf(L) \ PagesOf(L2))
    BY <1>3, <1>1 DEF Remapped
  <2> HIDE DEF L, L2
  <2>2. p \in PagesOf(L2) /\ PagesOf(L2) \subseteq PagesOf(L) \cup {p}
    <3>1. [at |-> a, page |-> p].page = p
      OBVIOUS
    <3>2. p \in PagesOf(L2)
      BY <2>1, <3>1, Zenon DEF PagesOf
    <3>3. ASSUME NEW c \in L2 PROVE c.page \in PagesOf(L) \cup {p}
      BY <2>1 DEF PagesOf
    <3> QED BY <3>2, <3>3 DEF PagesOf
  <2> HIDE DEF PagesOf
  <2>4. (n.lent \ T2) \ PagesOf(L2) = (m.lent \ T) \ PagesOf(L)
    BY <1>1, <1>2, <2>1, <2>2
  <2> QED BY <2>4 DEF Unmapped, L, L2
<1>4. ASSUME Grown(m1, T, way, n, T2, way2)
      PROVE  Unmapped(n, T2, way2) = Unmapped(m, T, way) \cup {p}
  <2>1. n.lent \ T2 = (m.lent \ T) \cup {p} /\ L2 = L
    BY <1>4, <1>1 DEF Grown
  <2>2. p \notin PagesOf(L)
    BY <1>1, <1>2
  <2> HIDE DEF L, L2
  <2> QED BY <2>1, <2>2 DEF Unmapped, L, L2
<1> QED BY <1>3, <1>4 DEF MapsOrAdds

\* Mapping a new page: afterwards the tree maps it, and small pages only, or the kernel
\* panics.
LEMMA MapsNew ==
  ASSUME NEW m, NEW T, NEW way, State(m, T, way), SmallLeaves(Leaves(m, T, way)), NEW a \in Vas
  PROVE  \E n, T2, way2 :
           /\ State(n, T2, way2) /\ SmallLeaves(Leaves(n, T2, way2))
           /\ \/ MapNew(m, a) = n /\ Unmapped(n, T2, way2) = Unmapped(m, T, way)
              \/ MapNew(m, a) = Panicked(n) /\ Unmapped(m, T, way) \subseteq Unmapped(n, T2, way2)
<1> DEFINE r == page_alloc(m.fl, FALSE)
           p == r.page
           m1 == [m EXCEPT !.fl = r.fl, !.lent = @ \cup {p}]
           n == page_insert(m1, p, a)
           wrong == page_lookup(n, a).page # p
<1>1. /\ m \in Memory /\ m.fl \in FreeList /\ ~m.fl.panic
      /\ m = [fl |-> m.fl, ref |-> m.ref, lent |-> m.lent, tab |-> m.tab, root |-> m.root,
              tlb |-> m.tlb]
  BY Parts, Fields DEF Good, Memory
<1>2. CASE p = NULL
  <2>1. MapNew(m, a) = Panicked(m)
    BY <1>2 DEF MapNew, Panicked
  <2> QED BY <2>1
<1>3. CASE p # NULL
  <2>1. AllocatedBy(m, T, r, FALSE)
    BY <1>3, Allocated
  <2>2. MapNew(m, a) = [n EXCEPT !.fl.panic = wrong]
    BY <1>1, <1>3 DEF MapNew
  <2>3. Takes(m, m1, r)
    BY DEF Takes
  <2>4. /\ State(m1, T, way) /\ Leaves(m1, T, way) = Leaves(m, T, way)
        /\ m1.lent \ T = (m.lent \ T) \cup {p}
    <3> DEFINE m2 == m1
    <3>1. Takes(m, m2, r) /\ r.page # NULL
      BY <1>3, <2>3
    <3> HIDE DEF m2, m1, r, p
    <3>2. State(m2, T, way) /\ Leaves(m2, T, way) = Leaves(m, T, way)
          /\ m2.lent \ T = (m.lent \ T) \cup {r.page}
      BY <3>1, TakesSmall DEF r
    <3> QED BY <3>2 DEF m2, p
  <2>5. m1.ref = m.ref /\ m1.fl = r.fl
    BY <1>1
  <2> HIDE DEF m1, r, p, wrong
  <2>6. /\ p \in m1.lent \ T /\ p \notin m1.fl.huge /\ m1.ref[p] = 0
        /\ p \notin m.lent /\ p # NULL
    BY <1>3, <2>1, <2>4, <2>5 DEF AllocatedBy, p
  <2>7. SmallLeaves(Leaves(m1, T, way))
    BY <2>4
  <2>8. PICK T2, way2 : /\ State(n, T2, way2) /\ SmallLeaves(Leaves(n, T2, way2))
                        /\ \/ Grown(m1, T, way, n, T2, way2)
                           \/ Remapped(m1, T, way, n, T2, way2, a, p)
    BY <2>4, <2>6, <2>7, InsertsSmall
  <2> HIDE DEF n
  <2>9. /\ n.fl \in FreeList /\ n.fl.panic = FALSE
        /\ n = [fl |-> n.fl, ref |-> n.ref, lent |-> n.lent, tab |-> n.tab, root |-> n.root,
                tlb |-> n.tlb]
    <3>1. n \in Memory /\ Good(n.fl, n.lent)
      BY <2>8, Parts
    <3>2. n.fl \in FreeList
      BY <3>1, Fields
    <3> QED BY <3>1, <3>2 DEF Memory, Good, FreeList
  <2>10. /\ Remapped(m1, T, way, n, T2, way2, a, p) => Unmapped(n, T2, way2) = Unmapped(m, T, way)
         /\ Grown(m1, T, way, n, T2, way2) => Unmapped(n, T2, way2) = Unmapped(m, T, way) \cup {p}
    <3>1. HasNew(m, T, way, m1, p)
      BY <2>4, <2>6 DEF HasNew
    <3>2. MapsOrAdds(m, T, way, m1, p, a, n, T2, way2)
      BY <3>1, NewlyMapped
    <3> QED BY <3>2 DEF MapsOrAdds
  <2>11. CASE wrong
    <3>1. wrong = TRUE
      BY <2>11 DEF wrong
    <3>2. MapNew(m, a) = Panicked(n)
      BY <2>2, <3>1 DEF Panicked
    <3> QED BY <2>8, <2>10, <3>2
  <2>12. CASE ~wrong
    <3>1. wrong = FALSE
      BY <2>12 DEF wrong
    <3>2. [n.fl EXCEPT !.panic = FALSE] = n.fl
      BY <2>9 DEF FreeList
    <3>3. MapNew(m, a) = [n EXCEPT !.fl = [n.fl EXCEPT !.panic = FALSE]]
      BY <2>2, <3>1
    <3>4. MapNew(m, a) = n
      BY <2>9, <3>2, <3>3
    <3>5. Unmapped(n, T2, way2) = Unmapped(m, T, way)
      <4> SUFFICES ASSUME Grown(m1, T, way, n, T2, way2) PROVE FALSE
        BY <2>8, <2>10
      <4>1. page_lookup(n, a).page = p
        BY <2>12 DEF wrong
      <4>2. PICK w : /\ page_lookup(n, a) = EntryAt(w) /\ w.m = n
                     /\ \/ w.table = NULL /\ NoLeaf(n, T2, way2, a)
                        \/ w.table # NULL /\ LeafFor(n, T2, way2, w.table, w.index, a)
        BY <2>8, Lookup DEF page_lookup
      <4>3. LeafFor(n, T2, way2, w.table, w.index, a) /\ n.tab[w.table][w.index].page = p
        <5>1. EntryAt(w).page = p
          BY <4>1, <4>2
        <5>2. w.table # NULL
          BY <2>6, <5>1 DEF EntryAt, Empty
        <5> QED BY <4>2, <5>1, <5>2 DEF EntryAt
      <4>4. w.table \in T2 /\ w.index \in Index /\ IsLeaf(n, way2, w.table, w.index)
        BY <4>3 DEF LeafFor
      <4>5. LeafRecord(n, way2, w.table, w.index) \in Leaves(n, T2, way2)
        BY <2>8, <4>4, LeafRecords
      <4>6. p \in PagesOf(Leaves(n, T2, way2))
        BY <4>3, <4>5 DEF PagesOf, LeafRecord
      <4> QED BY <2>10, <4>6 DEF Unmapped
    <3> QED BY <2>8, <3>4, <3>5
  <2> QED BY <2>11, <2>12
<1> QED BY <1>2, <1>3

-----------------------------------------------------------------------------
(* The entries that lead to an address.                                     *)

Entry1(m, a) == m.tab[m.root][a[1]]
Entry2(m, a) == m.tab[Entry1(m, a).page][a[2]]
Entry3(m, a) == m.tab[Entry2(m, a).page][a[3]]

\* Tables lead all the way to the entry for a.
Leading(m, a) == Present(Entry1(m, a)) /\ Present(Entry2(m, a)) /\ Present(Entry3(m, a))

\* They lead to one table after the other.
LEMMA Tables3 ==
  ASSUME NEW m, NEW T, NEW way, State(m, T, way), SmallLeaves(Leaves(m, T, way)), NEW a \in Vas
  PROVE  /\ m.root \in T /\ Len(way[m.root]) = 0
         /\ a[1] \in Index /\ a[2] \in Index /\ a[3] \in Index
         /\ Present(Entry1(m, a)) => /\ Entry1(m, a).page \in T
                                     /\ Len(way[Entry1(m, a).page]) = 1
         /\ Present(Entry1(m, a)) /\ Present(Entry2(m, a)) =>
              /\ Entry2(m, a).page \in T /\ Len(way[Entry2(m, a).page]) = 2
<1>1. m.root \in T /\ way[m.root] = <<>>
  BY Parts DEF Tree
<1>2. Len(way[m.root]) = 0
  <2>1. Len(<<>>) = 0
    OBVIOUS
  <2> QED BY <1>1, <2>1
<1>3. a[1] \in Index /\ a[2] \in Index /\ a[3] \in Index
  <2>1. 1 \in 1..Depth /\ 2 \in 1..Depth /\ 3 \in 1..Depth
    BY VmaUnmapAssumption
  <2> QED BY <2>1, PageTablesAssumption
<1>4. Depth - 1 = 3
  BY VmaUnmapAssumption
<1>5. ASSUME NEW t \in T, NEW i \in Index, Present(m.tab[t][i]), Len(way[t]) < 3
      PROVE  m.tab[t][i].page \in T /\ Len(way[m.tab[t][i].page]) = Len(way[t]) + 1
  BY <1>4, <1>5, NoHugeLeaf
<1>6. ASSUME Present(Entry1(m, a)) PROVE Entry1(m, a).page \in T /\ Len(way[Entry1(m, a).page]) = 1
  <2>1. Present(m.tab[m.root][a[1]]) /\ Len(way[m.root]) < 3
    BY <1>2, <1>6 DEF Entry1
  <2>2. m.tab[m.root][a[1]].page \in T /\ Len(way[m.tab[m.root][a[1]].page]) = Len(way[m.root]) + 1
    BY <1>1, <1>3, <1>5, <2>1
  <2> QED BY <1>2, <2>2 DEF Entry1
<1>7. ASSUME Present(Entry1(m, a)), Present(Entry2(m, a))
      PROVE  Entry2(m, a).page \in T /\ Len(way[Entry2(m, a).page]) = 2
  <2> DEFINE t == Entry1(m, a).page
  <2>1. t \in T /\ Len(way[t]) = 1
    BY <1>6, <1>7
  <2>2. Present(m.tab[t][a[2]]) /\ Len(way[t]) < 3
    BY <1>7, <2>1 DEF Entry2
  <2> HIDE DEF t
  <2>3. m.tab[t][a[2]].page \in T /\ Len(way[m.tab[t][a[2]].page]) = Len(way[t]) + 1
    BY <1>3, <1>5, <2>1, <2>2
  <2> QED BY <2>1, <2>3 DEF Entry2, t
<1> QED BY <1>1, <1>2, <1>3, <1>6, <1>7

\* Entry i of t is one of those that lead to a.
LeadsTo(m, a, t, i) ==
    /\ Present(m.tab[t][i])
    /\ \/ t = m.root /\ i = a[1]
       \/ Present(Entry1(m, a)) /\ t = Entry1(m, a).page /\ i = a[2]
       \/ Present(Entry1(m, a)) /\ Present(Entry2(m, a)) /\ t = Entry2(m, a).page /\ i = a[3]

\* It is an entry of a table above the last level.
LEMMA LeadingPlace ==
  ASSUME NEW m, NEW T, NEW way, State(m, T, way), SmallLeaves(Leaves(m, T, way)), NEW a \in Vas,
         NEW t, NEW i, LeadsTo(m, a, t, i)
  PROVE  /\ t \in T /\ i \in Index /\ Len(way[t]) < 3 /\ (t = m.root => i = a[1])
         /\ Present(m.tab[t][i]) /\ ~IsLeaf(m, way, t, i)
<1> DEFINE t1 == Entry1(m, a).page
           t2 == Entry2(m, a).page
<1>1. /\ m.root \in T /\ Len(way[m.root]) = 0
      /\ a[1] \in Index /\ a[2] \in Index /\ a[3] \in Index
      /\ Present(Entry1(m, a)) => t1 \in T /\ Len(way[t1]) = 1
      /\ Present(Entry1(m, a)) /\ Present(Entry2(m, a)) => t2 \in T /\ Len(way[t2]) = 2
  BY Tables3
<1>2. t \in T /\ i \in Index /\ Len(way[t]) < 3 /\ (t = m.root => i = a[1])
  <2>1. CASE t = m.root /\ i = a[1]
    BY <1>1, <2>1
  <2>2. CASE Present(Entry1(m, a)) /\ t = t1 /\ i = a[2]
    <3> HIDE DEF t1
    <3>1. t1 \in T /\ Len(way[t1]) = 1
      BY <1>1, <2>2
    <3>2. Len(way[t1]) < 3
      BY <3>1
    <3> QED BY <1>1, <2>2, <3>1, <3>2
  <2>3. CASE Present(Entry1(m, a)) /\ Present(Entry2(m, a)) /\ t = t2 /\ i = a[3]
    <3> HIDE DEF t2
    <3>1. t2 \in T /\ Len(way[t2]) = 2
      BY <1>1, <2>3
    <3>2. Len(way[t2]) < 3
      BY <3>1
    <3> QED BY <1>1, <2>3, <3>1, <3>2
  <2> QED BY <2>1, <2>2, <2>3 DEF LeadsTo
<1>3. Present(m.tab[t][i]) /\ ~IsLeaf(m, way, t, i)
  <2>1. Present(m.tab[t][i])
    BY DEF LeadsTo
  <2>2. Depth - 1 = 3
    BY VmaUnmapAssumption
  <2> QED BY <1>2, <2>1, <2>2, NoHugeLeaf
<1> QED BY <1>2, <1>3

\* Clearing one that leads to an empty table: the tree maps what it did, and
\* a is not led to any more.
LEMMA TableCleared ==
  ASSUME NEW m, NEW T, NEW way, State(m, T, way), SmallLeaves(Leaves(m, T, way)), NEW a \in Vas,
         NEW t, NEW i, LeadsTo(m, a, t, i), \A j \in Index : ~Present(m.tab[m.tab[t][i].page][j])
  PROVE  LET n == EntryCleared(m, t, i)
         IN ~Leading(n, a) /\ \E T2 : /\ State(n, T2, way) /\ Leaves(n, T2, way) = Leaves(m, T, way)
                                     /\ Unmapped(n, T2, way) = Unmapped(m, T, way)
<1> DEFINE n == EntryCleared(m, t, i)
           t1 == Entry1(m, a).page
           t2 == Entry2(m, a).page
<1>1. /\ m.root \in T /\ Len(way[m.root]) = 0
      /\ a[1] \in Index /\ a[2] \in Index /\ a[3] \in Index
      /\ Present(Entry1(m, a)) => t1 \in T /\ Len(way[t1]) = 1
      /\ Present(Entry1(m, a)) /\ Present(Entry2(m, a)) => t2 \in T /\ Len(way[t2]) = 2
  BY Tables3
<1>2. t \in T /\ i \in Index /\ Len(way[t]) < 3
  BY LeadingPlace
<1>3. Present(m.tab[t][i]) /\ ~IsLeaf(m, way, t, i)
  BY LeadingPlace
<1>4. /\ State(n, T \ {m.tab[t][i].page}, way)
      /\ Leaves(n, T \ {m.tab[t][i].page}, way) = Leaves(m, T, way)
      /\ n.root = m.root /\ n.lent = m.lent \ {m.tab[t][i].page} /\ n.tab[t][i] = Empty
      /\ \A u \in T, j \in Index : u # t \/ j # i => n.tab[u][j] = m.tab[u][j]
  <2> PICK q : q = m.tab[t][i].page
    OBVIOUS
  <2>1. \A j \in Index : ~Present(m.tab[q][j])
    OBVIOUS
  <2>2. TableGone(m, EntryCleared(m, t, i), T, way, t, i, q)
    BY ONLY State(m, T, way), q = m.tab[t][i].page, <1>2, <1>3, <2>1, OldTable
  <2> QED BY ONLY <2>2, q = m.tab[t][i].page DEF TableGone
<1> HIDE DEF n
<1>5. ~Present(n.tab[t][i])
  BY <1>4 DEF Present, Empty
<1>6. ~Leading(n, a)
  <2>1. CASE t = m.root /\ i = a[1]
    <3>1. Entry1(n, a) = n.tab[t][i]
      BY <1>4, <2>1 DEF Entry1
    <3> QED BY <1>5, <3>1 DEF Leading
  <2>2. ASSUME t # m.root PROVE Entry1(n, a) = Entry1(m, a)
    BY <1>1, <1>4, <2>2 DEF Entry1
  <2>3. CASE Present(Entry1(m, a)) /\ t = t1 /\ i = a[2]
    <3>1. t # m.root
      BY <1>1, <2>3
    <3>2. Entry1(n, a) = Entry1(m, a)
      BY <2>2, <3>1
    <3>3. Entry2(n, a) = n.tab[t][i]
      BY <2>3, <3>2 DEF Entry2
    <3> QED BY <1>5, <3>3 DEF Leading
  <2>4. CASE Present(Entry1(m, a)) /\ Present(Entry2(m, a)) /\ t = t2 /\ i = a[3]
    <3>1. t # m.root /\ t # t1 /\ t1 \in T
      <4> HIDE DEF t1, t2
      <4>1. t1 \in T /\ Len(way[t1]) = 1
        BY <1>1, <2>4
      <4>2. Len(way[t2]) = 2 /\ t = t2
        BY <1>1, <2>4
      <4>3. Len(way[m.root]) = 0
        BY <1>1
      <4> QED BY <4>1, <4>2, <4>3
    <3>2. Entry1(n, a) = Entry1(m, a)
      BY <2>2, <3>1
    <3>3. n.tab[t1][a[2]] = m.tab[t1][a[2]]
      BY <1>1, <1>4, <3>1
    <3>4. Entry2(n, a) = Entry2(m, a)
      BY <3>2, <3>3 DEF Entry2
    <3>5. Entry3(n, a) = n.tab[t][i]
      BY <2>4, <3>4 DEF Entry3
    <3> QED BY <1>5, <3>5 DEF Leading
  <2> QED BY <2>1, <2>3, <2>4 DEF LeadsTo
<1>7. Unmapped(n, T \ {m.tab[t][i].page}, way) = Unmapped(m, T, way)
  <2>1. m.tab[t][i].page \in T
    BY <1>2, <1>3, Parts DEF Tree, EntryOK
  <2>2. n.lent \ (T \ {m.tab[t][i].page}) = m.lent \ T
    BY <1>4, <2>1, Parts
  <2> QED BY <1>4, <2>2 DEF Unmapped
<1> QED BY <1>4, <1>6, <1>7 DEF n

-----------------------------------------------------------------------------
(* Removing a page.                                                         *)

\* At the address of a small page nothing else is mapped.
LEMMA CoversItself ==
  ASSUME NEW a \in Vas, NEW b \in Vas
  PROVE  Covers(a, b) <=> b = a
<1>1. b \in Seq(Index) /\ Len(b) = Depth /\ a \in Seq(Index) /\ Len(a) = Depth
  BY PageTablesAssumption
<1>2. SubSeq(b, 1, Depth) = b
  BY <1>1, SubSeqFull
<1> QED BY <1>1, <1>2 DEF Covers

\* page_remove unmaps the page at a, and changes no other address.
LEMMA RemovesOne ==
  ASSUME NEW m, NEW T, NEW way, State(m, T, way), SmallLeaves(Leaves(m, T, way)), NEW a \in Vas,
         NEW n, n = page_remove(m, a)
  PROVE  /\ State(n, T, way) /\ SmallLeaves(Leaves(n, T, way))
         /\ Unmapped(n, T, way) = Unmapped(m, T, way)
         /\ Translation(n, a) = NULL
         /\ \A b \in Vas : b # a => Translation(n, b) = Translation(m, b)
<1>1. CASE n = m /\ NoLeaf(m, T, way, a)
  <2>1. Translation(m, a) = NULL
    BY <1>1, Translates
  <2> QED BY <1>1, <2>1
<1>2. ASSUME State(n, T, way), NEW t, NEW i, LeafFor(m, T, way, t, i, a),
             Remapped(m, T, way, n, T, way, Append(way[t], i), NULL)
      PROVE  /\ State(n, T, way) /\ SmallLeaves(Leaves(n, T, way))
             /\ Unmapped(n, T, way) = Unmapped(m, T, way)
             /\ Translation(n, a) = NULL
             /\ \A b \in Vas : b # a => Translation(n, b) = Translation(m, b)
  <2> DEFINE at == Append(way[t], i)
             c == LeafRecord(m, way, t, i)
  <2>1. c \in Leaves(m, T, way) /\ c.at = at
    <3>1. t \in T /\ i \in Index /\ IsLeaf(m, way, t, i)
      BY <1>2 DEF LeafFor
    <3> QED BY <3>1, LeafRecords DEF LeafRecord
  <2>2. Remapped(m, T, way, n, T, way, at, NULL)
    BY <1>2
  <2>3. at = Prefix(a, Len(way[t]) + 1) /\ Len(way[t]) + 1 \in 1..Depth
    BY <1>2, OnTheWay DEF LeafFor
  <2> HIDE DEF at, c
  <2>4. at = a
    <3>1. Covers(at, a)
      BY <2>3, PrefixCovers
    <3>2. Len(at) = Depth
      BY <2>1 DEF SmallLeaves
    <3>3. a \in Seq(Index) /\ Len(a) = Depth
      BY PageTablesAssumption
    <3>4. SubSeq(a, 1, Depth) = a
      BY <3>3, SubSeqFull
    <3> QED BY <3>1, <3>2, <3>4 DEF Covers
  <2>5. SmallLeaves(Leaves(n, T, way))
    <3>1. Leaves(n, T, way) \subseteq Leaves(m, T, way)
      BY <2>2 DEF Remapped
    <3> QED BY <3>1 DEF SmallLeaves
  <2>6. MapOf(n) = Space!Overlay(MapOf(m), CoveredBy(at), NULL)
    BY <1>2, <2>1, <2>2, RemappedMap
  <2>7. CoveredBy(at) = {a}
    BY <2>4, CoversItself DEF CoveredBy
  <2>8. \A b \in Vas : Translation(n, b) = IF b \in {a} THEN NULL ELSE Translation(m, b)
    BY <2>6, <2>7 DEF MapOf, Space!Overlay
  <2>9. Unmapped(n, T, way) = Unmapped(m, T, way)
    <3> DEFINE P == PagesOf(Leaves(m, T, way))
               P2 == PagesOf(Leaves(n, T, way))
    <3>1. n.lent \ T = (m.lent \ T) \ (P \ P2) /\ P2 \subseteq P
      BY <2>2 DEF Remapped, PagesOf
    <3> HIDE DEF P, P2
    <3>2. (n.lent \ T) \ P2 = (m.lent \ T) \ P
      BY <3>1
    <3> QED BY <3>2 DEF Unmapped, P, P2
  <2> QED BY <1>2, <2>5, <2>8, <2>9
<1>3. \/ n = m /\ NoLeaf(m, T, way, a)
      \/ /\ State(n, T, way)
         /\ \E t, i : /\ LeafFor(m, T, way, t, i, a)
                      /\ Remapped(m, T, way, n, T, way, Append(way[t], i), NULL)
  BY Removes
<1> QED BY <1>1, <1>2, <1>3

\* What is not mapped is not cached.
LEMMA NotCached ==
  ASSUME NEW m, NEW T, NEW way, State(m, T, way), NEW a \in Vas, Translation(m, a) = NULL
  PROVE  \A c \in m.tlb : c.at # a
<1> SUFFICES ASSUME NEW c \in m.tlb, c.at = a PROVE FALSE
  OBVIOUS
<1>1. c \in Leaves(m, T, way)
  BY Parts
<1>2. Covers(c.at, a)
  BY CoversItself
<1>3. Translation(m, a) = c.page /\ c.page \in Pages
  BY <1>1, <1>2, LeavesMap
<1> QED BY <1>3, Bounds

\* One step of a removal or a population is the whole of it if there is one page.
LEMMA OnlyStep ==
  ASSUME NEW m, NEW range, NEW a, range = <<a>>
  PROVE  /\ LET removed[n \in 0..Len(range)] ==
                  IF n = 0 THEN m ELSE page_remove(removed[n - 1], range[n])
            IN removed[Len(range)] = page_remove(m, a)
         /\ LET mapped[n \in 0..Len(range)] ==
                  IF n = 0 THEN m ELSE MapNew(mapped[n - 1], range[n])
            IN mapped[Len(range)] = MapNew(m, a)
<1>1. Len(range) = 1 /\ range[1] = a
  OBVIOUS
<1> DEFINE removed == CHOOSE f : f = [n \in 0..Len(range) |->
                        IF n = 0 THEN m ELSE page_remove(f[n - 1], range[n])]
           mapped == CHOOSE f : f = [n \in 0..Len(range) |->
                        IF n = 0 THEN m ELSE MapNew(f[n - 1], range[n])]
<1>2. removed[Len(range)] = page_remove(m, a)
  <2> DEFINE g == [n \in 0..Len(range) |-> IF n = 0 THEN m ELSE page_remove(m, range[n])]
  <2>1. g[0] = m
    BY <1>1
  <2>2. \A n \in 0..Len(range) : n # 0 => n - 1 = 0
    BY <1>1
  <2> HIDE DEF g
  <2>3. \A n \in 0..Len(range) : n # 0 => g[n - 1] = m
    BY <2>1, <2>2
  <2>4. g = [n \in 0..Len(range) |-> IF n = 0 THEN m ELSE page_remove(g[n - 1], range[n])]
    BY <2>3 DEF g
  <2>5. removed = [n \in 0..Len(range) |-> IF n = 0 THEN m ELSE page_remove(removed[n - 1], range[n])]
    BY <2>4
  <2> HIDE DEF removed
  <2>6. removed[0] = m /\ removed[1] = page_remove(removed[1 - 1], range[1])
    BY <1>1, <2>5
  <2> QED BY <1>1, <2>6
<1>3. mapped[Len(range)] = MapNew(m, a)
  <2> DEFINE g == [n \in 0..Len(range) |-> IF n = 0 THEN m ELSE MapNew(m, range[n])]
  <2>1. g[0] = m
    BY <1>1
  <2>2. \A n \in 0..Len(range) : n # 0 => n - 1 = 0
    BY <1>1
  <2> HIDE DEF g
  <2>3. \A n \in 0..Len(range) : n # 0 => g[n - 1] = m
    BY <2>1, <2>2
  <2>4. g = [n \in 0..Len(range) |-> IF n = 0 THEN m ELSE MapNew(g[n - 1], range[n])]
    BY <2>3 DEF g
  <2>5. mapped = [n \in 0..Len(range) |-> IF n = 0 THEN m ELSE MapNew(mapped[n - 1], range[n])]
    BY <2>4
  <2> HIDE DEF mapped
  <2>6. mapped[0] = m /\ mapped[1] = MapNew(mapped[1 - 1], range[1])
    BY <1>1, <2>5
  <2> QED BY <1>1, <2>6
<1> QED BY <1>2, <1>3

-----------------------------------------------------------------------------
(* The invariant.                                                           *)

\* Ranges have one page.  With two, UnmapKeepsTheRest is false and the tables
\* need not stay a tree: the scan of a table leaves its index in the counter of
\* the levels, and the next address may be checked at a level that does not exist.
SinglePages == Ranges \subseteq {<<a>> : a \in Vas}

\* The tables are a tree that maps small pages, and of what is lent out it does not use U.
SmallTree(m, U) == \E T, way : /\ State(m, T, way) /\ SmallLeaves(Leaves(m, T, way))
                               /\ Unmapped(m, T, way) = U

\* c is a call of vma_unmap for the page at a.
CallFor(a, i, k, p, e) ==
    [busy |-> TRUE, range |-> <<a>>, i |-> i, k |-> k, pt |-> p, is_empty |-> e]
Calling(c, a) ==
    \E i \in Nat, k \in {1, 2} : \E p, e :
       /\ c = CallFor(a, i, k, p, e)
       /\ k = 1 => i \in 0..2
       /\ k = 1 /\ i = 0 => e = TRUE

\* If there is a page table for a, it is not empty.
NotLeftEmpty(m, a) == Leading(m, a) => m.tab[Entry3(m, a).page] # NoEntries

\* The page is unmapped from the beginning, and its page table has been
\* checked from the end of the first iteration.
CallOK(m, c, a) ==
    /\ Calling(c, a)
    /\ Translation(m, a) = NULL
    /\ ~ (c.k = 1 /\ c.i = 0) => NotLeftEmpty(m, a)

\* Every page that is lent out is a table or is mapped.  Only a page that cannot be
\* mapped is lost, and then the kernel panics.
UnmapInv ==
    \/ call = Idle /\ SmallTree(mem, {})
    \/ call = Idle /\ \E m, U : SmallTree(m, U) /\ mem = Panicked(m)
    \/ SmallTree(mem, {}) /\ \E a \in Vas : CallOK(mem, call, a)

\* The fields of such a call.
LEMMA CallTypes ==
  ASSUME NEW c, NEW a, Calling(c, a)
  PROVE  /\ c.busy = TRUE /\ c.range = <<a>> /\ c.i \in Nat /\ c.k \in {1, 2}
         /\ c.k = 1 => c.i \in 0..2
         /\ c.k = 1 /\ c.i = 0 => c.is_empty = TRUE
<1>1. PICK i \in Nat, k \in {1, 2} : \E p, e :
        c = CallFor(a, i, k, p, e) /\ (k = 1 => i \in 0..2) /\ (k = 1 /\ i = 0 => e = TRUE)
  BY DEF Calling
<1>2. PICK p, e : c = CallFor(a, i, k, p, e) /\ (k = 1 => i \in 0..2) /\ (k = 1 /\ i = 0 => e = TRUE)
  BY <1>1
<1>3. /\ c.busy = TRUE /\ c.range = <<a>> /\ c.i = i /\ c.k = k /\ c.is_empty = e
  BY <1>2 DEF CallFor
<1> QED BY <1>2, <1>3

\* A call is in progress or not.
LEMMA CallsAre == /\ ~Idle.busy /\ Idle.range = <<>>
                  /\ \A m, c, a : CallOK(m, c, a) => Calling(c, a) /\ c.busy /\ c.range = <<a>>
BY CallTypes DEF Idle, CallOK

\* The index at which the scan of a table ends.
ScanEnd(S) == IF S = {} THEN HugeSize ELSE CHOOSE j \in S : \A l \in S : j <= l

\* It is a number.
LEMMA ScanEnds == ASSUME NEW S \in SUBSET Index PROVE ScanEnd(S) \in Nat
<1>1. HugeSize \in Nat /\ Index \subseteq Nat
  BY PageListAssumption DEF Index
<1>2. CASE S # {}
  <2>1. S \in SUBSET Nat
    BY <1>1
  <2>2. \E j \in S : \A l \in S : j <= l
    BY <1>2, <2>1, LeastExists
  <2>3. (CHOOSE j \in S : \A l \in S : j <= l) \in S
    BY <2>2
  <2> QED BY <1>2, <2>1, <2>3 DEF ScanEnd
<1> QED BY <1>1, <1>2 DEF ScanEnd

\* At the beginning the kernel's tables are a root without entries.
LEMMA UnmapInvInit == UnmapInit => UnmapInv
<1> SUFFICES ASSUME UnmapInit PROVE UnmapInv
  OBVIOUS
<1> DEFINE r == page_alloc(page_init, FALSE)
<1>1. /\ r.page # NULL
      /\ mem = [fl   |-> r.fl, ref |-> [p \in Pages |-> IF p = r.page THEN 1 ELSE 0],
                lent |-> {r.page}, tab |-> [p \in Pages |-> NoEntries],
                root |-> r.page, tlb |-> {}]
  BY DEF UnmapInit, Init
<1> HIDE DEF r
<1>2. PICK way : State(mem, {r.page}, way) /\ Leaves(mem, {r.page}, way) = {}
  BY <1>1, InitState DEF r
<1>3. SmallLeaves(Leaves(mem, {r.page}, way))
  BY <1>2 DEF SmallLeaves
<1>4. Unmapped(mem, {r.page}, way) = {}
  BY <1>1 DEF Unmapped
<1>5. SmallTree(mem, {})
  BY <1>2, <1>3, <1>4 DEF SmallTree
<1> QED BY <1>5 DEF UnmapInit, UnmapInv

\* Mapping a new page.
LEMMA Populated ==
  ASSUME NEW m, NEW U, SmallTree(m, U), NEW a \in Vas
  PROVE  \/ SmallTree(MapNew(m, a), U)
         \/ \E n, V : MapNew(m, a) = Panicked(n) /\ SmallTree(n, V) /\ U \subseteq V
<1>1. PICK T, way : State(m, T, way) /\ SmallLeaves(Leaves(m, T, way)) /\ Unmapped(m, T, way) = U
  BY DEF SmallTree
<1>2. PICK n, T2, way2 :
           /\ State(n, T2, way2) /\ SmallLeaves(Leaves(n, T2, way2))
           /\ \/ MapNew(m, a) = n /\ Unmapped(n, T2, way2) = Unmapped(m, T, way)
              \/ MapNew(m, a) = Panicked(n) /\ Unmapped(m, T, way) \subseteq Unmapped(n, T2, way2)
  BY <1>1, MapsNew
<1>3. SmallTree(n, Unmapped(n, T2, way2))
  BY <1>2 DEF SmallTree
<1>4. CASE MapNew(m, a) = n /\ Unmapped(n, T2, way2) = Unmapped(m, T, way)
  BY <1>1, <1>3, <1>4
<1>5. CASE MapNew(m, a) = Panicked(n) /\ Unmapped(m, T, way) \subseteq Unmapped(n, T2, way2)
  BY <1>1, <1>3, <1>5
<1> QED BY <1>2, <1>4, <1>5

\* A range of one page is populated by mapping it.
LEMMA PopulateStep ==
  ASSUME NEW a, vma_map_populate(<<a>>)
  PROVE  mem' = MapNew(mem, a) /\ call' = call
<1> DEFINE range == <<a>>
<1>1. vma_map_populate(range) /\ range = <<a>>
  OBVIOUS
<1> HIDE DEF range
<1> QED BY <1>1, OnlyStep DEF vma_map_populate

-----------------------------------------------------------------------------
(* A call of vma_unmap.                                                     *)

\* The call that begins.
Begun(a) == CallFor(a, 0, 1, NULL, TRUE)

\* For a range of one page, that page is removed first.
LEMMA BeginStep ==
  ASSUME NEW a, vma_unmap(<<a>>)
  PROVE  mem' = page_remove(mem, a) /\ call' = Begun(a)
<1> DEFINE range == <<a>>
<1>1. vma_unmap(range) /\ range = <<a>>
  OBVIOUS
<1> HIDE DEF range
<1>2. mem' = page_remove(mem, a)
  BY <1>1, OnlyStep DEF vma_unmap
<1>3. call' = [Idle EXCEPT !.busy = TRUE, !.range = range, !.k = 1]
  BY <1>1 DEF vma_unmap
<1> QED BY <1>1, <1>2, <1>3 DEF Idle, Begun, CallFor

\* Then the call is as it should be, and every other address is mapped as before.
LEMMA Begins ==
  ASSUME NEW m, NEW U, SmallTree(m, U), NEW a \in Vas
  PROVE  LET n == page_remove(m, a)
         IN /\ SmallTree(n, U) /\ CallOK(n, Begun(a), a)
            /\ \A b \in Vas : b # a => Translation(n, b) = Translation(m, b)
<1> DEFINE n == page_remove(m, a)
<1>1. n = page_remove(m, a)
  OBVIOUS
<1> HIDE DEF n
<1>2. PICK T, way : State(m, T, way) /\ SmallLeaves(Leaves(m, T, way)) /\ Unmapped(m, T, way) = U
  BY DEF SmallTree
<1>3. /\ State(n, T, way) /\ SmallLeaves(Leaves(n, T, way))
      /\ Unmapped(n, T, way) = U /\ Translation(n, a) = NULL
      /\ \A b \in Vas : b # a => Translation(n, b) = Translation(m, b)
  BY <1>1, <1>2, RemovesOne
<1>4. /\ Calling(Begun(a), a) /\ Begun(a).i = 0 /\ Begun(a).k = 1
  <2>1. 0 \in Nat /\ 0 \in 0..2 /\ 1 \in {1, 2}
    OBVIOUS
  <2> QED BY <2>1 DEF Begun, Calling, CallFor
<1>5. SmallTree(n, U)
  BY <1>3 DEF SmallTree
<1> QED BY <1>3, <1>4, <1>5 DEF CallOK, n

\* The entries to check are there.
AllPresent(m, a, i) == /\ Present(Entry1(m, a))
                       /\ i \in {0, 1} => Present(Entry2(m, a))
                       /\ i = 0 => Present(Entry3(m, a))

\* The table and the index of the last of them.
PlaceOf(m, a, i) == CASE i = 0 -> <<Entry2(m, a).page, a[3]>>
                      [] i = 1 -> <<Entry1(m, a).page, a[2]>>
                      [] i = 2 -> <<m.root, a[1]>>

\* What the steps of a call for a do to memory m and call c.
Skips(m, c, c2, a) == c.k = 1 /\ ~AllPresent(m, a, c.i) /\ c2 = [c EXCEPT !.k = 2]
Scans(m, c, m2, c2, a) ==
    LET t     == PlaceOf(m, a, c.i)[1]
        i     == PlaceOf(m, a, c.i)[2]
        p     == m.tab[t][i].page
        used  == {j \in Index : Present(m.tab[p][j])}
        empty == c.is_empty /\ used = {}
    IN /\ c.k = 1 /\ AllPresent(m, a, c.i)
       /\ c2 = [c EXCEPT !.k = 2, !.pt = p, !.is_empty = empty, !.i = ScanEnd(used)]
       /\ m2 = IF empty THEN EntryCleared(m, t, i) ELSE m
Rises(c, c2) == /\ c.k = 2
                /\ c2 = IF c.i + 1 < Levels THEN [c EXCEPT !.i = @ + 1, !.k = 1] ELSE Idle

\* What a call for a works on, named as above.
LEMMA CallReads ==
  ASSUME NEW a \in Vas, Calling(call, a)
  PROVE  /\ call.busy /\ va = a /\ Len(call.range) = 1 /\ call.k \in {1, 2}
         /\ Pml4Entry = Entry1(mem, a) /\ PdpEntry = Entry2(mem, a) /\ PdEntry = Entry3(mem, a)
         /\ Leading(mem, a) <=> Present(Pml4Entry) /\ Present(PdpEntry) /\ Present(PdEntry)
         /\ Reached <=> AllPresent(mem, a, call.i)
<1>1. call.busy /\ call.range = <<a>> /\ call.k \in {1, 2}
  BY CallTypes
<1>2. va = a /\ Len(call.range) = 1
  BY <1>1 DEF va
<1>3. Pml4Entry = Entry1(mem, a)
  BY <1>2 DEF Pml4Entry, Entry1
<1>4. PdpEntry = Entry2(mem, a)
  BY <1>2, <1>3 DEF PdpEntry, Entry2
<1>5. PdEntry = Entry3(mem, a)
  BY <1>2, <1>4 DEF PdEntry, Entry3
<1> QED BY <1>1, <1>2, <1>3, <1>4, <1>5 DEF Leading, Reached, AllPresent

\* An iteration is over without a check.
LEMMA SkipStep ==
  ASSUME NEW a \in Vas, Calling(call, a), Skip
  PROVE  mem' = mem /\ Skips(mem, call, call', a)
<1>1. /\ call.k = 1 /\ ~Reached /\ mem' = mem /\ call' = [call EXCEPT !.k = @ + 1]
  <2>1. call.k \in {1, 2} /\ Len(call.range) = 1
    BY CallReads
  <2>2. /\ call.k <= Len(call.range) /\ ~Reached
        /\ mem' = mem /\ call' = [call EXCEPT !.k = @ + 1]
    BY DEF Skip, InRange
  <2> QED BY <2>1, <2>2
<1>2. call' = [call EXCEPT !.k = 2]
  BY <1>1
<1> QED BY <1>1, <1>2, CallReads DEF Skips

\* A table is checked.
LEMMA CheckStep ==
  ASSUME NEW a \in Vas, Calling(call, a), CheckTable
  PROVE  Scans(mem, call, mem', call', a)
<1> DEFINE used == {j \in Index : Present(mem.tab[pt][j])}
           empty == call.is_empty /\ used = {}
           t == PlaceOf(mem, a, call.i)[1]
           i == PlaceOf(mem, a, call.i)[2]
<1>1. call.k = 1 /\ Reached /\ call.i \in 0..2
  <2>1. /\ call.k \in {1, 2} /\ Len(call.range) = 1
        /\ call.k = 1 => call.i \in 0..2
    BY CallReads, CallTypes
  <2>2. call.k <= Len(call.range) /\ Reached
    BY DEF CheckTable, InRange
  <2> QED BY <2>1, <2>2
<1>2. /\ Pml4Entry = Entry1(mem, a) /\ PdpEntry = Entry2(mem, a) /\ PdEntry = Entry3(mem, a)
      /\ va = a
  BY CallReads
<1>3. entry = <<t, i>> /\ pt = mem.tab[t][i].page
  <2>1. CASE call.i = 0
    <3>1. PlaceOf(mem, a, call.i) = <<Entry2(mem, a).page, a[3]>>
      BY <2>1 DEF PlaceOf
    <3>2. entry = <<Entry2(mem, a).page, a[3]>> /\ pt = Entry3(mem, a).page
      BY <1>2, <2>1 DEF entry, pt
    <3> QED BY <3>1, <3>2 DEF Entry3
  <2>2. CASE call.i = 1
    <3>1. PlaceOf(mem, a, call.i) = <<Entry1(mem, a).page, a[2]>>
      BY <2>2 DEF PlaceOf
    <3>2. entry = <<Entry1(mem, a).page, a[2]>> /\ pt = Entry2(mem, a).page
      BY <1>2, <2>2 DEF entry, pt
    <3> QED BY <3>1, <3>2 DEF Entry2
  <2>3. CASE call.i = 2
    <3>1. PlaceOf(mem, a, call.i) = <<mem.root, a[1]>>
      BY <2>3 DEF PlaceOf
    <3>2. entry = <<mem.root, a[1]>> /\ pt = Entry1(mem, a).page
      BY <1>2, <2>3 DEF entry, pt
    <3> QED BY <3>1, <3>2 DEF Entry1
  <2> QED BY <1>1, <2>1, <2>2, <2>3
<1>4. entry[1] = t /\ entry[2] = i /\ EntryOf(entry) = mem.tab[t][i]
  <2> HIDE DEF t, i
  <2> QED BY <1>3 DEF EntryOf
<1>5. /\ call' = [call EXCEPT !.k = @ + 1, !.pt = pt, !.is_empty = empty, !.i = ScanEnd(used)]
      /\ mem' = IF empty THEN EntryCleared(mem, t, i) ELSE mem
  <2> HIDE DEF t, i
  <2> QED BY <1>4 DEF CheckTable, EntryCleared, ScanEnd
<1>6. call' = [call EXCEPT !.k = 2, !.pt = pt, !.is_empty = empty, !.i = ScanEnd(used)]
  <2> HIDE DEF used, empty
  <2> QED BY <1>1, <1>5
<1>7. AllPresent(mem, a, call.i)
  BY <1>1, CallReads
<1> QED BY <1>1, <1>3, <1>5, <1>6, <1>7 DEF Scans

\* A pass over the range is over.
LEMMA LevelStep ==
  ASSUME NEW a \in Vas, Calling(call, a), NextLevel
  PROVE  mem' = mem /\ Rises(call, call')
<1>1. call.k > 1 /\ call.k \in {1, 2}
  BY CallReads DEF NextLevel
<1> QED BY <1>1 DEF NextLevel, Rises

\* Such a step keeps the call as it should be.
LEMMA Skipped ==
  ASSUME NEW m, NEW c, NEW c2, NEW a, CallOK(m, c, a), Skips(m, c, c2, a)
  PROVE  CallOK(m, c2, a)
<1>1. /\ Calling(c, a) /\ Translation(m, a) = NULL
      /\ ~ (c.k = 1 /\ c.i = 0) => NotLeftEmpty(m, a)
  BY DEF CallOK
<1>2. Calling(c2, a) /\ c2.k = 2
  <2>1. PICK i \in Nat, k \in {1, 2} : \E p, e : c = CallFor(a, i, k, p, e)
    BY <1>1 DEF Calling
  <2>2. PICK p, e : c = CallFor(a, i, k, p, e)
    BY <2>1
  <2>3. c2 = CallFor(a, i, 2, p, e)
    BY <2>2 DEF Skips, CallFor
  <2>4. Calling(c2, a)
    BY <2>3 DEF Calling
  <2>5. c2.k = 2
    BY <2>3 DEF CallFor
  <2> QED BY <2>4, <2>5
<1>3. NotLeftEmpty(m, a)
  <2>1. CASE c.i = 0
    <3>1. ~Leading(m, a)
      BY <2>1 DEF Skips, AllPresent, Leading
    <3> QED BY <3>1 DEF NotLeftEmpty
  <2> QED BY <1>1, <2>1
<1> QED BY <1>1, <1>2, <1>3 DEF CallOK

\* So does this one, or the call returns.
LEMMA Risen ==
  ASSUME NEW m, NEW c, NEW c2, NEW a, CallOK(m, c, a), Rises(c, c2)
  PROVE  NotLeftEmpty(m, a) /\ (c2 = Idle \/ CallOK(m, c2, a))
<1>1. /\ Calling(c, a) /\ Translation(m, a) = NULL
      /\ ~ (c.k = 1 /\ c.i = 0) => NotLeftEmpty(m, a)
  BY DEF CallOK
<1>2. c.k = 2 /\ c.i \in Nat
  BY <1>1, CallTypes DEF Rises
<1>3. NotLeftEmpty(m, a)
  BY <1>1, <1>2
<1>4. CASE c.i + 1 < Levels
  <2>1. c.i + 1 \in 0..2 /\ c.i + 1 # 0
    BY <1>2, <1>4 DEF Levels
  <2>2. c2 = [c EXCEPT !.i = @ + 1, !.k = 1]
    BY <1>4 DEF Rises
  <2>3. PICK i \in Nat, k \in {1, 2} : \E p, e : c = CallFor(a, i, k, p, e)
    BY <1>1 DEF Calling
  <2>4. PICK p, e : c = CallFor(a, i, k, p, e)
    BY <2>3
  <2>5. c.i = i
    BY <2>4 DEF CallFor
  <2>6. c2 = CallFor(a, i + 1, 1, p, e)
    BY <2>4, <2>2, <2>5 DEF CallFor
  <2>7. Calling(c2, a)
    <3>1. i + 1 \in Nat /\ i + 1 \in 0..2 /\ i + 1 # 0
      BY <2>1, <2>5
    <3> QED BY <2>6, <3>1 DEF Calling
  <2>8. c2.i # 0
    <3>1. c2.i = i + 1
      BY <2>6 DEF CallFor
    <3> QED BY <2>1, <2>5, <3>1
  <2> QED BY <1>1, <1>3, <2>7, <2>8 DEF CallOK
<1> QED BY <1>3, <1>4 DEF Rises

\* The entry to check is one of those that lead to a.
LEMMA Pointed ==
  ASSUME NEW m, NEW a, NEW l \in 0..2, AllPresent(m, a, l)
  PROVE  LET t == PlaceOf(m, a, l)[1]
             i == PlaceOf(m, a, l)[2]
         IN LeadsTo(m, a, t, i) /\ (l = 0 => m.tab[t][i].page = Entry3(m, a).page)
<1> DEFINE t == PlaceOf(m, a, l)[1]
           i == PlaceOf(m, a, l)[2]
           p == m.tab[t][i].page
<1>1. /\ LeadsTo(m, a, t, i)
      /\ l = 0 => p = Entry3(m, a).page
  <2>1. CASE l = 0
    <3>1. t = Entry2(m, a).page /\ i = a[3]
      BY <2>1 DEF PlaceOf
    <3>2. Present(Entry1(m, a)) /\ Present(Entry2(m, a)) /\ Present(Entry3(m, a))
      BY <2>1 DEF AllPresent
    <3> HIDE DEF t, i
    <3> QED BY <3>1, <3>2 DEF LeadsTo, Entry3
  <2>2. CASE l = 1
    <3>1. t = Entry1(m, a).page /\ i = a[2]
      BY <2>2 DEF PlaceOf
    <3>2. Present(Entry1(m, a)) /\ Present(Entry2(m, a))
      BY <2>2 DEF AllPresent
    <3> HIDE DEF t, i
    <3> QED BY <2>2, <3>1, <3>2 DEF LeadsTo, Entry2
  <2>3. CASE l = 2
    <3>1. t = m.root /\ i = a[1]
      BY <2>3 DEF PlaceOf
    <3>2. Present(Entry1(m, a))
      BY <2>3 DEF AllPresent
    <3> HIDE DEF t, i
    <3> QED BY <2>3, <3>1, <3>2 DEF LeadsTo, Entry1
  <2> QED BY <2>1, <2>2, <2>3
<1> QED BY <1>1

\* A table that is checked: the tree stays one and maps the same.
LEMMA Scanned ==
  ASSUME NEW m, NEW U, SmallTree(m, U), NEW c, NEW a \in Vas, CallOK(m, c, a),
         NEW m2, NEW c2, Scans(m, c, m2, c2, a)
  PROVE  SmallTree(m2, U) /\ CallOK(m2, c2, a) /\ MapOf(m2) = MapOf(m)
<1> DEFINE t == PlaceOf(m, a, c.i)[1]
           i == PlaceOf(m, a, c.i)[2]
           p == m.tab[t][i].page
           used == {j \in Index : Present(m.tab[p][j])}
           empty == c.is_empty /\ used = {}
<1>1. /\ Calling(c, a) /\ Translation(m, a) = NULL
      /\ ~ (c.k = 1 /\ c.i = 0) => NotLeftEmpty(m, a)
  BY DEF CallOK
<1>2. /\ c.k = 1 /\ AllPresent(m, a, c.i)
      /\ c2 = [c EXCEPT !.k = 2, !.pt = p, !.is_empty = empty, !.i = ScanEnd(used)]
      /\ m2 = IF empty THEN EntryCleared(m, t, i) ELSE m
  BY DEF Scans
<1>3. c.i \in 0..2 /\ (c.i = 0 => c.is_empty = TRUE)
  BY <1>1, <1>2, CallTypes
<1>4. /\ LeadsTo(m, a, t, i)
      /\ c.i = 0 => p = Entry3(m, a).page
  BY <1>2, <1>3, Pointed
<1> HIDE DEF t, i
<1>5. c2.k = 2 /\ Calling(c2, a)
  <2>1. ScanEnd(used) \in Nat
    BY ScanEnds
  <2> HIDE DEF used, empty, p
  <2>2. PICK n \in Nat, k \in {1, 2} : \E q, e : c = CallFor(a, n, k, q, e)
    BY <1>1 DEF Calling
  <2>3. PICK q, e : c = CallFor(a, n, k, q, e)
    BY <2>2
  <2>4. c2 = CallFor(a, ScanEnd(used), 2, p, empty)
    BY <2>3, <1>2 DEF CallFor
  <2>5. Calling(c2, a)
    BY <2>1, <2>4 DEF Calling
  <2>6. c2.k = 2
    BY <2>4 DEF CallFor
  <2> QED BY <2>5, <2>6
<1>6. CASE empty
  <2>1. m2 = EntryCleared(m, t, i)
    BY <1>2, <1>6
  <2>2. \A j \in Index : ~Present(m.tab[m.tab[t][i].page][j])
    BY <1>6
  <2>3. PICK T, way : State(m, T, way) /\ SmallLeaves(Leaves(m, T, way)) /\ Unmapped(m, T, way) = U
    BY DEF SmallTree
  <2>4. ~Leading(m2, a) /\ \E T2 : /\ State(m2, T2, way) /\ Leaves(m2, T2, way) = Leaves(m, T, way)
                                   /\ Unmapped(m2, T2, way) = Unmapped(m, T, way)
    BY <1>4, <2>1, <2>2, <2>3, TableCleared
  <2>5. PICK T2 : /\ State(m2, T2, way) /\ Leaves(m2, T2, way) = Leaves(m, T, way)
                  /\ Unmapped(m2, T2, way) = Unmapped(m, T, way)
    BY <2>4
  <2>6. SmallTree(m2, U)
    BY <2>3, <2>5 DEF SmallTree
  <2>7. MapOf(m2) = MapOf(m)
    BY <2>3, <2>5, SameMap
  <2>8. Translation(m2, a) = NULL
    BY <1>1, <2>7 DEF MapOf
  <2>9. NotLeftEmpty(m2, a)
    BY <2>4 DEF NotLeftEmpty
  <2> QED BY <1>5, <2>6, <2>7, <2>8, <2>9 DEF CallOK
<1>7. CASE ~empty
  <2>1. m2 = m
    BY <1>2, <1>7
  <2>2. NotLeftEmpty(m, a)
    <3>1. CASE c.i = 0
      <4>1. PICK j \in Index : Present(m.tab[p][j])
        BY <1>3, <1>7, <3>1
      <4>2. p = Entry3(m, a).page
        BY <1>4, <3>1
      <4>3. m.tab[p] # NoEntries
        BY <4>1 DEF NoEntries, Present, Empty
      <4> QED BY <4>2, <4>3 DEF NotLeftEmpty
    <3> QED BY <1>1, <3>1
  <2> QED BY <1>1, <1>5, <2>1, <2>2 DEF CallOK
<1> QED BY <1>6, <1>7

\* After a panic the flag says so.
LEMMA PanickedIs ==
  ASSUME NEW m, NEW U, SmallTree(m, U)
  PROVE  Panicked(m).fl.panic
<1>1. PICK T, way : State(m, T, way)
  BY DEF SmallTree
<1>2. m \in Memory /\ m.fl \in FreeList
  BY <1>1, Parts, Fields
<1> QED BY <1>2 DEF Panicked, Memory, FreeList

\* What the tree uses is counted.
LEMMA AllCounted ==
  ASSUME NEW m, SmallTree(m, {})
  PROVE  \A p \in m.lent : m.ref[p] > 0
<1> SUFFICES ASSUME NEW p \in m.lent PROVE m.ref[p] > 0
  OBVIOUS
<1>1. PICK T, way : State(m, T, way) /\ Unmapped(m, T, way) = {}
  BY DEF SmallTree
<1>2. /\ Tree(m, T, way) /\ Counted(m, T) /\ T \subseteq Pages /\ m.lent \subseteq Pages
  BY <1>1, Parts
<1>3. IsFiniteSet(EntriesTo(m, T, p))
  BY <1>2, EntriesFinite
<1>4. m.ref[p] = Count(m, T, p) /\ Cardinality(EntriesTo(m, T, p)) \in Nat
  BY <1>2, <1>3, FS_CardinalityType DEF Counted
<1>5. CASE p = m.root
  BY <1>4, <1>5 DEF Count
<1>6. CASE p # m.root
  <2>1. \E t \in T, i \in Index : m.tab[t][i].page = p
    <3>1. CASE p \in T
      BY <1>2, <1>6, <3>1 DEF Tree
    <3>2. CASE p \notin T
      <4>1. p \in PagesOf(Leaves(m, T, way))
        BY <1>1, <3>2 DEF Unmapped
      <4> QED BY <4>1 DEF PagesOf, Leaves
    <3> QED BY <3>1, <3>2
  <2>2. EntriesTo(m, T, p) # {}
    <3>1. PICK t \in T, i \in Index : m.tab[t][i].page = p
      BY <2>1
    <3>2. <<t, i>> \in EntriesTo(m, T, p)
      BY <3>1 DEF EntriesTo
    <3> QED BY <3>2
  <2>3. Cardinality(EntriesTo(m, T, p)) # 0
    BY <1>3, <2>2, FS_EmptySet
  <2> QED BY <1>4, <1>6, <2>3 DEF Count
<1> QED BY <1>5, <1>6

-----------------------------------------------------------------------------
(* The specification. *)

\* Every step, of a call or between two calls, keeps the invariant.
LEMMA UnmapInvStep ==
  ASSUME SinglePages, UnmapInv, [UnmapNext]_unmapVars
  PROVE  UnmapInv'
<1>1. CASE UNCHANGED unmapVars
  <2>1. mem' = mem /\ call' = call
    BY <1>1 DEF unmapVars
  <2> QED BY <2>1 DEF UnmapInv
<1>2. ASSUME Unmapping PROVE UnmapInv'
  <2>1. call.busy
    BY <1>2 DEF Unmapping, Skip, CheckTable, NextLevel, InRange
  <2>2. SmallTree(mem, {}) /\ \E a \in Vas : CallOK(mem, call, a)
    BY <2>1, CallsAre DEF UnmapInv
  <2>3. PICK a \in Vas : CallOK(mem, call, a) /\ Calling(call, a)
    BY <2>2, CallsAre
  <2>4. CASE Skip
    <3>1. mem' = mem /\ CallOK(mem, call', a)
      BY <2>3, <2>4, SkipStep, Skipped
    <3> QED BY <2>2, <3>1 DEF UnmapInv
  <2>5. CASE CheckTable
    <3>1. SmallTree(mem', {}) /\ CallOK(mem', call', a)
      BY <2>2, <2>3, <2>5, CheckStep, Scanned
    <3> QED BY <3>1 DEF UnmapInv
  <2>6. CASE NextLevel
    <3>1. mem' = mem /\ (call' = Idle \/ CallOK(mem, call', a))
      BY <2>3, <2>6, LevelStep, Risen
    <3> QED BY <2>2, <3>1 DEF UnmapInv
  <2> QED BY <1>2, <2>4, <2>5, <2>6 DEF Unmapping
<1>3. ASSUME ~mem.fl.panic, ~call.busy, NEW range \in Ranges,
             vma_map_populate(range) \/ vma_unmap(range)
      PROVE  UnmapInv'
  <2>1. call = Idle /\ SmallTree(mem, {})
    BY <1>3, CallsAre, PanickedIs DEF UnmapInv
  <2>2. PICK a \in Vas : range = <<a>>
    BY DEF SinglePages
  <2>3. CASE vma_map_populate(range)
    <3>1. mem' = MapNew(mem, a) /\ call' = Idle
      BY <2>1, <2>2, <2>3, PopulateStep
    <3>2. \/ SmallTree(mem', {})
          \/ \E n, V : mem' = Panicked(n) /\ SmallTree(n, V)
      BY <2>1, <3>1, Populated
    <3> QED BY <3>1, <3>2 DEF UnmapInv
  <2>4. CASE vma_unmap(range)
    <3>1. SmallTree(mem', {}) /\ CallOK(mem', call', a)
      BY <2>1, <2>2, <2>4, BeginStep, Begins
    <3> QED BY <3>1 DEF UnmapInv
  <2> QED BY <1>3, <2>3, <2>4
<1> QED BY <1>1, <1>2, <1>3 DEF UnmapNext

\* The invariant, for ranges of one page.
THEOREM UnmapInvariant == ASSUME SinglePages PROVE UnmapSpec => []UnmapInv
BY UnmapInvInit, UnmapInvStep, PTL DEF UnmapSpec

-----------------------------------------------------------------------------
(* What vma_unmap does.                                                     *)

\* Once the page is removed and while tables are freed, its address is neither
\* mapped nor cached, if pages are unmapped one at a time (SinglePages).
THEOREM PageUnmapped == ASSUME SinglePages PROVE UnmapSpec => []RangeUnmapped
<1>1. UnmapInv => RangeUnmapped
  <2>1. CASE call = Idle
    BY <2>1, CallsAre DEF RangeUnmapped
  <2>2. ASSUME SmallTree(mem, {}), NEW a \in Vas, CallOK(mem, call, a) PROVE RangeUnmapped
    <3>1. call.range = <<a>> /\ Translation(mem, a) = NULL
      BY <2>2, CallsAre DEF CallOK
    <3>2. PICK T, way : State(mem, T, way)
      BY <2>2 DEF SmallTree
    <3>3. \A c \in mem.tlb : c.at # a
      BY <3>1, <3>2, NotCached
    <3> QED BY <3>1, <3>3 DEF RangeUnmapped
  <2> QED BY <2>1, <2>2 DEF UnmapInv
<1> QED BY <1>1, UnmapInvariant, PTL

\* Mapping pages and unmapping them one at a time (SinglePages) keep what PageTables says
\* of its tree: counts are exact, the allocator is sound, tables are entered once, and
\* nothing cached is out of date, until the kernel panics because it cannot map a page.
THEOREM TreeKeptSound ==
  ASSUME SinglePages
  PROVE  UnmapSpec => []( \/ mem.fl.panic
                          \/ TypeOK /\ RefsExact /\ AllocatorOK /\ TablesOwned /\ TlbCoherent )
<1>1. UnmapInv => \/ mem.fl.panic
                  \/ TypeOK /\ RefsExact /\ AllocatorOK /\ TablesOwned /\ TlbCoherent
  <2>1. ASSUME NEW T, NEW way, State(mem, T, way)
        PROVE  TypeOK /\ RefsExact /\ AllocatorOK /\ TablesOwned /\ TlbCoherent
    BY <2>1, Typed, Exact, Sound, OwnTables, Coherent
  <2>2. ASSUME UnmapInv PROVE mem.fl.panic \/ \E T, way : State(mem, T, way)
    <3>1. mem.fl.panic \/ SmallTree(mem, {})
      BY <2>2, PanickedIs DEF UnmapInv
    <3> QED BY <3>1 DEF SmallTree
  <2> QED BY <2>1, <2>2
<1> QED BY <1>1, UnmapInvariant, PTL

\* No page is lost when pages are unmapped one at a time (SinglePages; a call for several
\* pages does lose some): until the kernel panics, every page that is lent out has a count,
\* so that what drops the count to 0 gives it back.
THEOREM NoPageLost ==
  ASSUME SinglePages
  PROVE  UnmapSpec => [](mem.fl.panic \/ \A p \in mem.lent : mem.ref[p] > 0)
<1>1. UnmapInv => mem.fl.panic \/ \A p \in mem.lent : mem.ref[p] > 0
  <2>1. ASSUME UnmapInv PROVE mem.fl.panic \/ SmallTree(mem, {})
    BY <2>1, PanickedIs DEF UnmapInv
  <2> QED BY <2>1, AllCounted
<1> QED BY <1>1, UnmapInvariant, PTL

\* From the first removal to the return of a call for one page (SinglePages), no other
\* address changes: no table is cleared or freed that leads to a page.
THEOREM RestKept == ASSUME SinglePages PROVE UnmapSpec => UnmapKeepsTheRest
<1> DEFINE Kept == call.busy \/ call'.busy =>
                     \A a \in Vas : (\A k \in DOMAIN call'.range : call'.range[k] # a)
                                      => Translation(mem', a) = Translation(mem, a)
<1>1. UnmapInv /\ [UnmapNext]_unmapVars => [Kept]_unmapVars
  <2> SUFFICES ASSUME UnmapInv, UnmapNext PROVE Kept
    OBVIOUS
  <2>1. ASSUME Unmapping PROVE MapOf(mem') = MapOf(mem)
    <3>1. call.busy
      BY <2>1 DEF Unmapping, Skip, CheckTable, NextLevel, InRange
    <3>2. SmallTree(mem, {}) /\ \E a \in Vas : CallOK(mem, call, a) /\ Calling(call, a)
      BY <3>1, CallsAre DEF UnmapInv
    <3>3. CASE Skip \/ NextLevel
      <4>1. mem' = mem
        BY <3>3 DEF Skip, NextLevel
      <4> QED BY <4>1 DEF MapOf
    <3>4. CASE CheckTable
      BY <3>2, <3>4, CheckStep, Scanned
    <3> QED BY <2>1, <3>3, <3>4 DEF Unmapping
  <2>2. CASE Unmapping
    <3>1. \A a \in Vas : Translation(mem', a) = Translation(mem, a)
      BY <2>1, <2>2 DEF MapOf
    <3> QED BY <3>1
  <2>3. ASSUME ~mem.fl.panic, ~call.busy, NEW range \in Ranges,
               vma_map_populate(range) \/ vma_unmap(range)
        PROVE  Kept
    <3>1. SmallTree(mem, {})
      BY <2>3, CallsAre, PanickedIs DEF UnmapInv
    <3>2. PICK a \in Vas : range = <<a>>
      BY DEF SinglePages
    <3>3. CASE vma_map_populate(range)
      BY <2>3, <3>3 DEF vma_map_populate
    <3>4. CASE vma_unmap(range)
      <4>1. /\ CallOK(mem', call', a)
            /\ \A b \in Vas : b # a => Translation(mem', b) = Translation(mem, b)
        BY <3>1, <3>2, <3>4, BeginStep, Begins
      <4>2. call'.range = <<a>>
        BY <4>1, CallsAre
      <4>3. 1 \in DOMAIN call'.range /\ call'.range[1] = a
        BY <4>2
      <4> QED BY <4>1, <4>3
    <3> QED BY <2>3, <3>3, <3>4
  <2> QED BY <2>2, <2>3 DEF UnmapNext
<1>2. UnmapKeepsTheRest <=> [][Kept]_unmapVars
  BY DEF UnmapKeepsTheRest
<1> QED BY <1>1, <1>2, UnmapInvariant, PTL DEF UnmapSpec

\* When a call for one page (SinglePages) returns, the page table its page was in is gone
\* or holds another page.
THEOREM NoEmptyTable == ASSUME SinglePages PROVE UnmapSpec => EmptyTableFreed
<1> DEFINE Freed1 == call.busy /\ ~call'.busy /\ Len(call.range) = 1
                       /\ Present(Pml4Entry) /\ Present(PdpEntry) /\ Present(PdEntry)
                     => mem.tab[PdEntry.page] # NoEntries
<1>1. UnmapInv /\ [UnmapNext]_unmapVars => [Freed1]_unmapVars
  <2> SUFFICES ASSUME UnmapInv, UnmapNext, call.busy, ~call'.busy,
                      Present(Pml4Entry) /\ Present(PdpEntry) /\ Present(PdEntry)
               PROVE  mem.tab[PdEntry.page] # NoEntries
    OBVIOUS
  <2>1. SmallTree(mem, {}) /\ \E a \in Vas : CallOK(mem, call, a)
    BY CallsAre DEF UnmapInv
  <2>2. PICK a \in Vas : CallOK(mem, call, a) /\ Calling(call, a)
    BY <2>1, CallsAre
  <2>3. CASE Skip
    <3>1. CallOK(mem, call', a)
      BY <2>2, <2>3, SkipStep, Skipped
    <3> QED BY <3>1, CallsAre
  <2>4. CASE CheckTable
    <3>1. CallOK(mem', call', a)
      BY <2>1, <2>2, <2>4, CheckStep, Scanned
    <3> QED BY <3>1, CallsAre
  <2>5. CASE NextLevel
    <3>1. NotLeftEmpty(mem, a)
      BY <2>2, <2>5, LevelStep, Risen
    <3>2. Leading(mem, a) /\ PdEntry = Entry3(mem, a)
      BY <2>2, CallReads
    <3> QED BY <3>1, <3>2 DEF NotLeftEmpty
  <2> QED BY <2>3, <2>4, <2>5 DEF UnmapNext, Unmapping
<1>2. EmptyTableFreed <=> [][Freed1]_unmapVars
  BY DEF EmptyTableFreed
<1> QED BY <1>1, <1>2, UnmapInvariant, PTL DEF UnmapSpec
=============================================================================
