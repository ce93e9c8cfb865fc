-------------------------- MODULE PageTablesProofs --------------------------
(***************************************************************************)
(* Theorems about PageTables, for every memory, number of levels, size of  *)
(* a table and set of addresses.                                           *)
(***************************************************************************)
EXTENDS PageTables, PageListProofs, FiniteSetTheorems, SequenceTheorems

Address == [1..Depth -> Index]
Prefix(va, n) == SubSeq(va, 1, n)

-----------------------------------------------------------------------------
(* The indexes on the way to a table. *)

\* A longer prefix of an address is a shorter one and one index more.
LEMMA PrefixStep ==
  ASSUME NEW va \in Address, NEW n \in 1..Depth
  PROVE  /\ Prefix(va, n - 1) \in Seq(Index) /\ Len(Prefix(va, n - 1)) = n - 1
         /\ Prefix(va, n) \in Seq(Index) /\ Len(Prefix(va, n)) = n
         /\ va[n] \in Index
         /\ Prefix(va, n) = Append(Prefix(va, n - 1), va[n])
<1>1. Depth \in Nat /\ n \in Nat /\ n - 1 \in 0..Depth /\ n \in 0..Depth
  BY PageTablesAssumption
<1>2. va \in Seq(Index) /\ Len(va) = Depth
  BY <1>1 DEF Address
<1>3. \A k \in 0..Depth : /\ SubSeq(va, 1, k) \in Seq(Index)
                          /\ Len(SubSeq(va, 1, k)) = k
                          /\ \A j \in 1..k : SubSeq(va, 1, k)[j] = va[j]
  BY <1>1, <1>2, SubSeqProperties
<1>4. va[n] \in Index
  BY DEF Address
<1> DEFINE s == SubSeq(va, 1, n - 1)
           u == SubSeq(va, 1, n)
<1>5. /\ s \in Seq(Index) /\ Len(s) = n - 1 /\ \A j \in 1..(n - 1) : s[j] = va[j]
      /\ u \in Seq(Index) /\ Len(u) = n /\ \A j \in 1..n : u[j] = va[j]
  BY <1>1, <1>3
<1> HIDE DEF s, u
<1>6. u = Append(s, va[n])
  <2>1. /\ Append(s, va[n]) \in Seq(Index) /\ Len(Append(s, va[n])) = n
        /\ \A j \in 1..(n - 1) : Append(s, va[n])[j] = s[j]
        /\ Append(s, va[n])[n] = va[n]
    BY <1>1, <1>4, <1>5, AppendProperties
  <2> QED BY <1>1, <1>5, <2>1, SeqEqual
<1> QED BY <1>4, <1>5, <1>6 DEF s, u, Prefix

\* The empty prefix and the whole address.
LEMMA PrefixEnds ==
  ASSUME NEW va \in Address
  PROVE  Prefix(va, 0) = <<>> /\ Prefix(va, Depth) = va
<1>1. va \in Seq(Index) /\ Len(va) = Depth /\ Depth \in Nat
  BY PageTablesAssumption DEF Address
<1> QED BY <1>1, SubSeqFull, SubSeqEmpty DEF Prefix

\* Two ways that end in the same step are the same.
LEMMA SameWay ==
  ASSUME NEW s \in Seq(Index), NEW t \in Seq(Index), NEW i \in Index, NEW j \in Index,
         Append(s, i) = Append(t, j)
  PROVE  s = t /\ i = j
BY AppendProperties, AppendInjective

-----------------------------------------------------------------------------
(* The recursive functions of PageTables exist. *)

\* The walk's steps, from the first table to the last that can be a directory.
IsDescent(f, w, va, create) ==
    /\ f[0] = w
    /\ \A n \in 1..(Depth - 2) : f[n] = DescendFrom(f[n - 1], va[n], create)

DescentUpTo(k, f, w, va, create) ==
    f = [n \in 0..k |-> IF n = 0 THEN w ELSE DescendFrom(f[n - 1], va[n], create)]

\* Descend is the end of such a walk.
LEMMA DescentExists ==
  ASSUME NEW w, NEW va, NEW create
  PROVE  \E f : IsDescent(f, w, va, create) /\ Descend(w, va, create) = f[Depth - 2]
<1> DEFINE Bad == {k \in 0..(Depth - 2) : ~ \E f : DescentUpTo(k, f, w, va, create)}
<1>1. (Depth - 2) \in Nat /\ 0 \in 0..(Depth - 2)
  BY PageTablesAssumption
<1>2. Bad = {}
  <2> SUFFICES ASSUME Bad # {} PROVE FALSE
    OBVIOUS
  <2>1. PICK k \in Bad : \A y \in Bad : k <= y
    <3>1. Bad \in SUBSET Nat
      BY <1>1
    <3> HIDE DEF Bad
    <3> QED BY <3>1, LeastExists
  <2>2. CASE k = 0
    <3> DEFINE f == [n \in 0..0 |-> w]
    <3>1. f = [n \in 0..0 |-> IF n = 0 THEN w ELSE DescendFrom(f[n - 1], va[n], create)]
      OBVIOUS
    <3> HIDE DEF f
    <3> QED BY <2>1, <2>2, <3>1 DEF DescentUpTo
  <2>3. CASE k # 0
    <3>1. k \in Nat /\ k - 1 \in 0..(Depth - 2) /\ k - 1 \notin Bad
      BY <1>1, <2>1, <2>3
    <3>2. PICK g : DescentUpTo(k - 1, g, w, va, create)
      BY <3>1
    <3>3. g = [n \in 0..(k - 1) |-> IF n = 0 THEN w ELSE DescendFrom(g[n - 1], va[n], create)]
      BY <3>2 DEF DescentUpTo
    <3> DEFINE f == [n \in 0..k |-> IF n = 0 THEN w ELSE DescendFrom(g[n - 1], va[n], create)]
    <3>4. \A n \in 0..(k - 1) : f[n] = g[n]
      BY <3>1, <3>3
    <3>5. f = [n \in 0..k |-> IF n = 0 THEN w ELSE DescendFrom(f[n - 1], va[n], create)]
      <4>1. \A n \in 0..k : n # 0 => n - 1 \in 0..(k - 1)
        BY <3>1
      <4> HIDE DEF f
      <4>2. \A n \in 0..k : n # 0 => f[n - 1] = g[n - 1]
        BY <3>4, <4>1
      <4> QED BY <4>2 DEF f
    <3> HIDE DEF f
    <3> QED BY <2>1, <3>5 DEF DescentUpTo
  <2> QED BY <2>2, <2>3
<1> DEFINE d == CHOOSE f : f = [n \in 0..(Depth - 2) |-> IF n = 0 THEN w ELSE DescendFrom(f[n - 1], va[n], create)]
<1>3. d = [n \in 0..(Depth - 2) |-> IF n = 0 THEN w ELSE DescendFrom(d[n - 1], va[n], create)]
  <2>1. \E f : DescentUpTo((Depth - 2), f, w, va, create)
    BY <1>1, <1>2
  <2> QED BY <2>1 DEF DescentUpTo
<1>4. Descend(w, va, create) = d[Depth - 2]
  BY DEF Descend
<1> HIDE DEF d
<1>5. IsDescent(d, w, va, create)
  BY <1>1, <1>3 DEF IsDescent
<1> QED BY <1>4, <1>5

\* The tables of one level after the other.
FirstLevel(m) == {m.root}
NextLevelOf(m, S) ==
    {m.tab[x[1]][x[2]].page : x \in {y \in S \X Index : ~m.tab[y[1]][y[2]].huge}} \ {NULL}
AreLevels(f, m) ==
    /\ f[1] = FirstLevel(m)
    /\ \A n \in 2..Depth : f[n] = NextLevelOf(m, f[n - 1])

LevelsUpTo(k, f, m) ==
    f = [n \in 1..k |-> IF n = 1 THEN FirstLevel(m) ELSE NextLevelOf(m, f[n - 1])]

\* The tables are the pages of these levels.
LEMMA LevelsExist ==
  ASSUME NEW m
  PROVE  \E f : AreLevels(f, m) /\ Tables(m) = UNION {f[n] : n \in 1..Depth}
<1> DEFINE Bad == {k \in 1..Depth : ~ \E f : LevelsUpTo(k, f, m)}
<1>1. Depth \in Nat /\ 1 \in 0..Depth
  BY PageTablesAssumption
<1>2. Bad = {}
  <2> SUFFICES ASSUME Bad # {} PROVE FALSE
    OBVIOUS
  <2>1. PICK k \in Bad : \A y \in Bad : k <= y
    <3>1. Bad \in SUBSET Nat
      BY <1>1
    <3> HIDE DEF Bad
    <3> QED BY <3>1, LeastExists
  <2>2. CASE k = 1
    <3> DEFINE f == [n \in 1..1 |-> FirstLevel(m)]
    <3>1. f = [n \in 1..1 |-> IF n = 1 THEN FirstLevel(m) ELSE NextLevelOf(m, f[n - 1])]
      OBVIOUS
    <3> HIDE DEF f
    <3> QED BY <2>1, <2>2, <3>1 DEF LevelsUpTo
  <2>3. CASE k # 1
    <3>1. k \in Nat /\ k - 1 \in 1..Depth /\ k - 1 \notin Bad
      BY <1>1, <2>1, <2>3
    <3>2. PICK g : LevelsUpTo(k - 1, g, m)
      BY <3>1
    <3>3. g = [n \in 1..(k - 1) |-> IF n = 1 THEN FirstLevel(m) ELSE NextLevelOf(m, g[n - 1])]
      BY <3>2 DEF LevelsUpTo
    <3> DEFINE f == [n \in 1..k |-> IF n = 1 THEN FirstLevel(m) ELSE NextLevelOf(m, g[n - 1])]
    <3>4. \A n \in 1..(k - 1) : f[n] = g[n]
      BY <3>1, <3>3
    <3>5. f = [n \in 1..k |-> IF n = 1 THEN FirstLevel(m) ELSE NextLevelOf(m, f[n - 1])]
      <4>1. \A n \in 1..k : n # 1 => n - 1 \in 1..(k - 1)
        BY <3>1
      <4> HIDE DEF f
      <4>2. \A n \in 1..k : n # 1 => f[n - 1] = g[n - 1]
        BY <3>4, <4>1
      <4> QED BY <4>2 DEF f
    <3> HIDE DEF f
    <3> QED BY <2>1, <3>5 DEF LevelsUpTo
  <2> QED BY <2>2, <2>3
<1> DEFINE d == CHOOSE f : f = [n \in 1..Depth |-> IF n = 1 THEN FirstLevel(m) ELSE NextLevelOf(m, f[n - 1])]
<1>3. d = [n \in 1..Depth |-> IF n = 1 THEN FirstLevel(m) ELSE NextLevelOf(m, d[n - 1])]
  <2>1. \E f : LevelsUpTo(Depth, f, m)
    BY <1>1, <1>2
  <2> QED BY <2>1 DEF LevelsUpTo
<1>4. Tables(m) = UNION {d[n] : n \in 1..Depth}
  BY DEF Tables, FirstLevel, NextLevelOf
<1> HIDE DEF d
<1>5. AreLevels(d, m)
  BY <1>1, <1>3 DEF AreLevels
<1> QED BY <1>4, <1>5

\* What the processor finds level by level.
IsTrace(f, m, va) ==
    /\ f[1] = m.root
    /\ \A n \in 2..Depth : f[n] = Follow(m, f[n - 1], va[n - 1])
EndOfTrace(f, m, va) ==
    LET pd == f[Depth - 1]
    IN IF pd # NULL /\ m.tab[pd][va[Depth - 1]].huge THEN f[Depth]
       ELSE Follow(m, f[Depth], va[Depth])

TraceUpTo(k, f, m, va) ==
    f = [n \in 1..k |-> IF n = 1 THEN m.root ELSE Follow(m, f[n - 1], va[n - 1])]

\* Translation is where such a walk of the processor ends.
LEMMA TraceExists ==
  ASSUME NEW m, NEW va
  PROVE  \E f : IsTrace(f, m, va) /\ Translation(m, va) = EndOfTrace(f, m, va)
<1> DEFINE Bad == {k \in 1..Depth : ~ \E f : TraceUpTo(k, f, m, va)}
<1>1. Depth \in Nat /\ 1 \in 0..Depth
  BY PageTablesAssumption
<1>2. Bad = {}
  <2> SUFFICES ASSUME Bad # {} PROVE FALSE
    OBVIOUS
  <2>1. PICK k \in Bad : \A y \in Bad : k <= y
    <3>1. Bad \in SUBSET Nat
      BY <1>1
    <3> HIDE DEF Bad
    <3> QED BY <3>1, LeastExists
  <2>2. CASE k = 1
    <3> DEFINE f == [n \in 1..1 |-> m.root]
    <3>1. f = [n \in 1..1 |-> IF n = 1 THEN m.root ELSE Follow(m, f[n - 1], va[n - 1])]
      OBVIOUS
    <3> HIDE DEF f
    <3> QED BY <2>1, <2>2, <3>1 DEF TraceUpTo
  <2>3. CASE k # 1
    <3>1. k \in Nat /\ k - 1 \in 1..Depth /\ k - 1 \notin Bad
      BY <1>1, <2>1, <2>3
    <3>2. PICK g : TraceUpTo(k - 1, g, m, va)
      BY <3>1
    <3>3. g = [n \in 1..(k - 1) |-> IF n = 1 THEN m.root ELSE Follow(m, g[n - 1], va[n - 1])]
      BY <3>2 DEF TraceUpTo
    <3> DEFINE f == [n \in 1..k |-> IF n = 1 THEN m.root ELSE Follow(m, g[n - 1], va[n - 1])]
    <3>4. \A n \in 1..(k - 1) : f[n] = g[n]
      BY <3>1, <3>3
    <3>5. f = [n \in 1..k |-> IF n = 1 THEN m.root ELSE Follow(m, f[n - 1], va[n - 1])]
      <4>1. \A n \in 1..k : n # 1 => n - 1 \in 1..(k - 1)
        BY <3>1
      <4> HIDE DEF f
      <4>2. \A n \in 1..k : n # 1 => f[n - 1] = g[n - 1]
        BY <3>4, <4>1
      <4> QED BY <4>2 DEF f
    <3> HIDE DEF f
    <3> QED BY <2>1, <3>5 DEF TraceUpTo
  <2> QED BY <2>2, <2>3
<1> DEFINE d == CHOOSE f : f = [n \in 1..Depth |-> IF n = 1 THEN m.root ELSE Follow(m, f[n - 1], va[n - 1])]
<1>3. d = [n \in 1..Depth |-> IF n = 1 THEN m.root ELSE Follow(m, d[n - 1], va[n - 1])]
  <2>1. \E f : TraceUpTo(Depth, f, m, va)
    BY <1>1, <1>2
  <2> QED BY <2>1 DEF TraceUpTo
<1>4. Translation(m, va) = EndOfTrace(d, m, va)
  BY DEF Translation, EndOfTrace
<1> HIDE DEF d
<1>5. IsTrace(d, m, va)
  BY <1>1, <1>3 DEF IsTrace
<1> QED BY <1>4, <1>5

-----------------------------------------------------------------------------
(* The invariant: T are the tables of the memory m, and way[t] are the      *)
(* indexes that lead from the root to table t.                              *)

Memory == [fl : FreeList, ref : [Pages -> 0..MaxRef], lent : SUBSET Pages,
           tab : [Pages -> [Index -> [page : Ptr, huge : BOOLEAN]]],
           root : Pages, tlb : SUBSET [at : Seq(Index), page : Pages]]

\* Entry i of table t maps memory.
IsLeaf(m, way, t, i) ==
    Present(m.tab[t][i]) /\ (m.tab[t][i].huge \/ Len(way[t]) = Depth - 1)

\* An entry leads to data or to the table of the next level, somebody uses an
\* address that goes through it, and its kind is the kind of its page.
EntryOK(m, T, way, t, i) ==
    LET e == m.tab[t][i]
    IN /\ e.huge => Len(way[t]) = Depth - 2
       /\ IF IsLeaf(m, way, t, i) THEN e.page \notin T
          ELSE e.page \in T /\ way[e.page] = Append(way[t], i)
       /\ \E va \in Vas : Prefix(va, Len(way[t]) + 1) = Append(way[t], i)
       /\ e.page \in m.lent
       /\ e.huge <=> e.page \in m.fl.huge

\* The ways tell the tables apart, and every table but the root is entered.
Tree(m, T, way) ==
    /\ T \subseteq Pages
    /\ way \in [Pages -> Seq(Index)]
    /\ m.root \in T /\ way[m.root] = <<>>
    /\ \A t \in T : Len(way[t]) < Depth
    /\ \A t, u \in T : way[t] = way[u] => t = u
    /\ \A q \in T : q # m.root => \E t \in T, i \in Index : m.tab[t][i].page = q
    /\ \A t \in T, i \in Index : Present(m.tab[t][i]) => EntryOK(m, T, way, t, i)

\* The entries that lead to p, and the count they and the root make.
EntriesTo(m, T, p) == {x \in T \X Index : m.tab[x[1]][x[2]].page = p}
Count(m, T, p) == Cardinality(EntriesTo(m, T, p)) + (IF p = m.root THEN 1 ELSE 0)
Counted(m, T) == \A p \in Pages : m.ref[p] = Count(m, T, p)

\* The allocator is sound, and the tables are small pages of the tree's own.
Owned(m, T) == Good(m.fl, m.lent) /\ T \subseteq m.lent \ m.fl.huge

\* What the tables map: the way to a leaf and its page.  The processor has
\* cached some of it.
Leaves(m, T, way) ==
    {c \in [at : Seq(Index), page : Pages] :
       \E t \in T, i \in Index : /\ IsLeaf(m, way, t, i)
                                 /\ c.at = Append(way[t], i)
                                 /\ c.page = m.tab[t][i].page}

State(m, T, way) ==
    /\ m \in Memory
    /\ Tree(m, T, way)
    /\ Counted(m, T)
    /\ Owned(m, T)
    /\ m.tlb \subseteq Leaves(m, T, way)

IInv == \E T \in SUBSET Pages : \E way : State(mem, T, way)

-----------------------------------------------------------------------------
(* What the invariant says.                                                 *)

\* The bounds are numbers.
LEMMA Bounds == /\ MaxRef \in Nat /\ MaxRef >= 1
                /\ Depth \in Nat /\ Depth > 1
                /\ NULL \notin Pages
BY PageTablesAssumption, PageListAssumption DEF Uint16

\* A count that is not 0 can be decremented.
LEMMA Decrement ==
  ASSUME NEW x \in 1..MaxRef
  PROVE  (x - 1) % Uint16 = x - 1
BY PageTablesAssumption DEF Uint16

\* The parts of the invariant.
LEMMA Parts ==
  ASSUME NEW m, NEW T, NEW way, State(m, T, way)
  PROVE  /\ m \in Memory /\ Tree(m, T, way) /\ Counted(m, T) /\ Good(m.fl, m.lent)
         /\ m.tlb \subseteq Leaves(m, T, way)
         /\ T \subseteq Pages /\ T \subseteq m.lent /\ T \cap m.fl.huge = {} /\ m.lent \subseteq Pages
         /\ way \in [Pages -> Seq(Index)] /\ m.root \in T
         /\ \A t \in T : way[t] \in Seq(Index) /\ Len(way[t]) \in Nat /\ Len(way[t]) < Depth
<1>1. m \in Memory /\ Tree(m, T, way) /\ Counted(m, T) /\ Owned(m, T) /\ m.tlb \subseteq Leaves(m, T, way)
  BY DEF State
<1>2. Good(m.fl, m.lent) /\ T \subseteq m.lent /\ T \cap m.fl.huge = {}
  BY <1>1 DEF Owned
<1>3. m.lent \subseteq Pages
  BY <1>2 DEF Good
<1>4. /\ T \subseteq Pages /\ way \in [Pages -> Seq(Index)] /\ m.root \in T
      /\ \A t \in T : Len(way[t]) < Depth
  BY <1>1 DEF Tree
<1>5. \A t \in T : way[t] \in Seq(Index) /\ Len(way[t]) \in Nat
  BY <1>4
<1> QED BY <1>1, <1>2, <1>3, <1>4, <1>5

\* The entries to a page can be counted.
LEMMA EntriesFinite ==
  ASSUME NEW m, NEW T \in SUBSET Pages, NEW p
  PROVE  IsFiniteSet(EntriesTo(m, T, p))
<1>1. IsFiniteSet(Pages) /\ IsFiniteSet(Index)
  BY PageListAssumption, FS_Interval DEF Pages, Index
<1>2. IsFiniteSet(T \X Index)
  BY <1>1, FS_Subset, FS_Product
<1> QED BY <1>2, FS_Subset DEF EntriesTo

\* deep[t] is the number of steps from the root to table t of T.
ByLevel(m, T, deep) ==
    /\ T \subseteq Pages /\ deep \in [T -> 0..(Depth - 1)] /\ m.root \in T
    /\ \A t \in T : deep[t] = 0 <=> t = m.root
    /\ \A t \in T, i \in Index : LET e == m.tab[t][i] IN
         Present(e) /\ ~e.huge /\ deep[t] + 1 < Depth => e.page \in T /\ deep[e.page] = deep[t] + 1
    /\ \A q \in T \ {m.root} : \E t \in T, i \in Index :
         m.tab[t][i].page = q /\ ~m.tab[t][i].huge /\ deep[q] = deep[t] + 1

\* Pages that lead to each other level by level are the tables.
LEMMA TablesByLevel ==
  ASSUME NEW m, NEW T, NEW deep, ByLevel(m, T, deep)
  PROVE  Tables(m) = T
<1>1. PICK f : AreLevels(f, m) /\ Tables(m) = UNION {f[n] : n \in 1..Depth}
  BY LevelsExist
<1>2. /\ T \subseteq Pages /\ deep \in [T -> 0..(Depth - 1)] /\ m.root \in T
      /\ \A t \in T : deep[t] = 0 <=> t = m.root
      /\ Depth \in Nat /\ Depth > 1 /\ NULL \notin Pages
  BY Bounds DEF ByLevel
<1> DEFINE Level(n) == {t \in T : deep[t] = n - 1}
           Bad == {n \in 1..Depth : f[n] # Level(n)}
<1>3. Bad = {}
  <2> SUFFICES ASSUME Bad # {} PROVE FALSE
    OBVIOUS
  <2>1. PICK n \in Bad : \A y \in Bad : n <= y
    <3>1. Bad \in SUBSET Nat
      BY <1>2
    <3> HIDE DEF Bad
    <3> QED BY <3>1, LeastExists
  <2>2. CASE n = 1
    <3>1. f[1] = {m.root}
      BY <1>1 DEF AreLevels, FirstLevel
    <3>2. Level(1) = {m.root}
      BY <1>2
    <3> QED BY <2>1, <2>2, <3>1, <3>2
  <2>3. CASE n # 1
    <3>1. n \in 2..Depth /\ n - 1 \in 1..Depth /\ n - 1 \notin Bad
      BY <1>2, <2>1, <2>3
    <3>2. f[n] = NextLevelOf(m, Level(n - 1))
      BY <1>1, <3>1 DEF AreLevels
    <3>3. ASSUME NEW q \in f[n] PROVE q \in Level(n)
      <4>1. PICK t \in Level(n - 1), i \in Index : ~m.tab[t][i].huge /\ q = m.tab[t][i].page /\ q # NULL
        BY <3>2, <3>3 DEF NextLevelOf
      <4>2. t \in T /\ deep[t] = n - 2 /\ Present(m.tab[t][i]) /\ deep[t] + 1 < Depth
        BY <1>2, <3>1, <4>1 DEF Present
      <4>3. q \in T /\ deep[q] = deep[t] + 1
        BY <4>1, <4>2 DEF ByLevel
      <4> QED BY <3>1, <4>2, <4>3
    <3>4. ASSUME NEW q \in Level(n) PROVE q \in f[n]
      <4>1. q \in T /\ deep[q] = n - 1 /\ q # m.root /\ q # NULL
        BY <1>2, <3>1, <3>4
      <4>2. PICK t \in T, i \in Index : m.tab[t][i].page = q /\ ~m.tab[t][i].huge /\ deep[q] = deep[t] + 1
        BY <4>1 DEF ByLevel
      <4>3. t \in Level(n - 1)
        BY <1>2, <3>1, <4>1, <4>2
      <4>4. q \in NextLevelOf(m, Level(n - 1))
        <5> HIDE DEF Level
        <5>1. <<t, i>> \in {y \in Level(n - 1) \X Index : ~m.tab[y[1]][y[2]].huge}
          BY <4>2, <4>3
        <5>2. m.tab[<<t, i>>[1]][<<t, i>>[2]].page = q /\ q # NULL
          BY <4>1, <4>2
        <5> QED BY <5>1, <5>2 DEF NextLevelOf
      <4> QED BY <3>2, <4>4
    <3> QED BY <2>1, <3>3, <3>4
  <2> QED BY <2>2, <2>3
<1>4. \A n \in 1..Depth : f[n] = Level(n)
  BY <1>3
<1>5. \A t \in T : deep[t] + 1 \in 1..Depth /\ t \in Level(deep[t] + 1)
  BY <1>2
<1> QED BY <1>1, <1>4, <1>5

\* The length of its way is the level of a table.
LEMMA WaysAreLevels ==
  ASSUME NEW m, NEW T, NEW way, State(m, T, way), NEW deep, deep = [t \in T |-> Len(way[t])]
  PROVE  ByLevel(m, T, deep)
<1>1. /\ Tree(m, T, way) /\ Depth \in Nat /\ Depth > 1 /\ NULL \notin Pages /\ m.root \in T
      /\ T \subseteq Pages /\ \A t \in T : way[t] \in Seq(Index) /\ Len(way[t]) \in 0..(Depth - 1)
  BY Bounds, Parts
<1>2. \A t \in T : deep[t] = 0 <=> t = m.root
  <2>1. \A t \in T : Len(way[t]) = 0 <=> way[t] = <<>>
    BY <1>1, EmptySeq
  <2> QED BY <1>1, <2>1 DEF Tree
<1>3. ASSUME NEW t \in T, NEW i \in Index, Present(m.tab[t][i]), ~m.tab[t][i].huge, deep[t] + 1 < Depth
      PROVE  m.tab[t][i].page \in T /\ deep[m.tab[t][i].page] = deep[t] + 1
  <2>1. ~IsLeaf(m, way, t, i)
    BY <1>1, <1>3 DEF IsLeaf
  <2>2. m.tab[t][i].page \in T /\ way[m.tab[t][i].page] = Append(way[t], i)
    BY <1>1, <1>3, <2>1 DEF Tree, EntryOK
  <2> QED BY <1>1, <2>2
<1>4. ASSUME NEW q \in T \ {m.root}
      PROVE  \E t \in T, i \in Index :
               m.tab[t][i].page = q /\ ~m.tab[t][i].huge /\ deep[q] = deep[t] + 1
  <2>1. PICK t \in T, i \in Index : m.tab[t][i].page = q
    BY <1>1, <1>4 DEF Tree
  <2>2. Present(m.tab[t][i])
    BY <1>1, <2>1 DEF Present
  <2>3. ~IsLeaf(m, way, t, i) /\ way[q] = Append(way[t], i)
    BY <1>1, <2>1, <2>2 DEF Tree, EntryOK
  <2>4. ~m.tab[t][i].huge /\ Len(way[q]) = Len(way[t]) + 1
    BY <1>1, <2>2, <2>3 DEF IsLeaf
  <2> QED BY <2>1, <2>4
<1>5. deep \in [T -> 0..(Depth - 1)]
  BY <1>1
<1> QED BY <1>1, <1>2, <1>3, <1>4, <1>5 DEF ByLevel

\* The pages found level by level are the tables.
LEMMA TablesAre ==
  ASSUME NEW m, NEW T, NEW way, State(m, T, way)
  PROVE  Tables(m) = T
BY WaysAreLevels, TablesByLevel

-----------------------------------------------------------------------------
(* Steps of the code that keep the invariant.                               *)

\* m2 has the data, the counts and the leaves of m, and tables that m has not.
Grown(m, T, way, m2, T2, way2) ==
    /\ m2.root = m.root /\ m2.tlb = m.tlb
    /\ m2.lent \ T2 = m.lent \ T
    /\ \A p \in m.lent \ T : /\ m2.ref[p] = m.ref[p]
                             /\ p \in m2.fl.huge <=> p \in m.fl.huge
    /\ Leaves(m2, T2, way2) = Leaves(m, T, way)

\* The fields of a memory have their types.
LEMMA Fields ==
  ASSUME NEW m \in Memory
  PROVE  /\ m.fl \in FreeList /\ m.ref \in [Pages -> 0..MaxRef] /\ m.lent \subseteq Pages
         /\ m.tab \in [Pages -> [Index -> [page : Ptr, huge : BOOLEAN]]]
         /\ \A t \in Pages, i \in Index : m.tab[t][i] \in [page : Ptr, huge : BOOLEAN]
         /\ m.root \in Pages /\ m.tlb \subseteq [at : Seq(Index), page : Pages]
BY DEF Memory

\* What page_alloc does to the allocator of a tree.
AllocatedBy(m, T, r, k) ==
    /\ r.page \in Pages \ m.lent /\ r.page \notin T /\ m.ref[r.page] = 0
    /\ r.fl \in FreeList /\ Good(r.fl, m.lent \cup {r.page})
    /\ r.page \in r.fl.huge <=> k
    /\ \A p \in m.lent : p \in r.fl.huge <=> p \in m.fl.huge
    /\ \A t \in T, i \in Index : m.tab[t][i].page # r.page

\* What page_alloc's page is: new to the memory, with no entry leading to it.
LEMMA Allocated ==
  ASSUME NEW m, NEW T, NEW way, State(m, T, way), NEW k \in BOOLEAN,
         page_alloc(m.fl, k).page # NULL
  PROVE  AllocatedBy(m, T, page_alloc(m.fl, k), k)
<1> DEFINE r == page_alloc(m.fl, k)
<1>1. /\ Good(m.fl, m.lent) /\ T \subseteq m.lent /\ m.lent \subseteq Pages /\ m \in Memory
      /\ Tree(m, T, way) /\ Counted(m, T) /\ m.root \in T
  BY Parts
<1>2. /\ r.page \in Pages \ m.lent /\ Good(r.fl, m.lent \cup {r.page})
      /\ r.page \in r.fl.huge <=> k
      /\ SameUnits(m.fl, r.fl, m.lent)
  BY <1>1, AllocGood, AllocKind, AllocSame
<1> HIDE DEF r
<1>3. \A p \in m.lent : p \in r.fl.huge <=> p \in m.fl.huge
  BY <1>1, <1>2, SameKinds
<1>4. r.fl \in FreeList
  BY <1>2 DEF Good, Linked
<1>5. \A t \in T, i \in Index : Present(m.tab[t][i]) => m.tab[t][i].page \in m.lent
  BY <1>1 DEF Tree, EntryOK
<1>6. \A t \in T, i \in Index : m.tab[t][i].page # r.page
  <2>1. r.page \notin m.lent /\ r.page # NULL
    BY <1>2, Bounds
  <2> QED BY <1>5, <2>1 DEF Present
<1>7. r.page \notin T /\ r.page # m.root
  BY <1>1, <1>2
<1>8. Cardinality(EntriesTo(m, T, r.page)) = 0
  <2>1. EntriesTo(m, T, r.page) = {}
    BY <1>6 DEF EntriesTo
  <2> QED BY <2>1, FS_EmptySet
<1>9. m.ref[r.page] = 0
  BY <1>1, <1>2, <1>7, <1>8 DEF Counted, Count
<1> QED BY <1>2, <1>3, <1>4, <1>6, <1>7, <1>9 DEF AllocatedBy, r

\* m2 is m with the page r.page, which page_alloc found, entered as a table.
AddsTable(m, m2, t, i, r) ==
    /\ m2.fl = r.fl /\ m2.lent = m.lent \cup {r.page} /\ m2.root = m.root /\ m2.tlb = m.tlb
    /\ \A p \in Pages : m2.ref[p] = IF p = r.page THEN m.ref[p] + 1 ELSE m.ref[p]
    /\ \A u \in Pages, j \in Index :
         m2.tab[u][j] = IF u = r.page THEN Empty
                        ELSE IF u = t /\ j = i THEN [page |-> r.page, huge |-> FALSE]
                        ELSE m.tab[u][j]
    /\ m2.tab[r.page] = NoEntries

\* A place where a table can be entered.
TablePlace(m, T, way, t, i) ==
    /\ t \in T /\ i \in Index /\ ~Present(m.tab[t][i]) /\ Len(way[t]) < Depth - 1
    /\ \E va \in Vas : Prefix(va, Len(way[t]) + 1) = Append(way[t], i)

\* The tables and their ways with the new table q at the end of way s.
Extended(T, way, q, s, T2, way2) == T2 = T \cup {q} /\ way2 = [way EXCEPT ![q] = s]

\* AddTable does that.
LEMMA AddTableFields ==
  ASSUME NEW m \in Memory, NEW T, NEW r, AllocatedBy(m, T, r, FALSE),
         NEW t \in Pages, t # r.page, NEW i \in Index
  PROVE  LET w == AddTable([m |-> m, table |-> t], i, r)
         IN w.m \in Memory /\ AddsTable(m, w.m, t, i, r) /\ w.table = r.page
<1> DEFINE w == AddTable([m |-> m, table |-> t], i, r)
           q == r.page
           e == [page |-> q, huge |-> FALSE]
           n == w.m
<1>1. q \in Pages /\ q # NULL /\ r.fl \in FreeList /\ m.ref[q] = 0
  BY Bounds DEF AllocatedBy
<1>2. w = [m |-> [m EXCEPT !.fl = r.fl, !.lent = @ \cup {q}, !.ref[q] = @ + 1,
                           !.tab[q] = NoEntries, !.tab[t][i] = e],
           table |-> q]
  BY <1>1 DEF AddTable
<1>3. /\ n.fl = r.fl /\ n.lent = m.lent \cup {q} /\ n.root = m.root /\ n.tlb = m.tlb
      /\ n.ref = [m.ref EXCEPT ![q] = m.ref[q] + 1]
      /\ n.tab = [[m.tab EXCEPT ![q] = NoEntries] EXCEPT ![t][i] = e]
      /\ n = [fl |-> n.fl, ref |-> n.ref, lent |-> n.lent, tab |-> n.tab, root |-> n.root,
              tlb |-> n.tlb]
      /\ w.table = q
  <2>1. /\ n = [m EXCEPT !.fl = r.fl, !.lent = @ \cup {q}, !.ref[q] = @ + 1,
                        !.tab[q] = NoEntries, !.tab[t][i] = e]
        /\ w.table = q
    BY <1>2
  <2> HIDE DEF n, w, e
  <2>2. m = [fl |-> m.fl, ref |-> m.ref, lent |-> m.lent, tab |-> m.tab, root |-> m.root,
             tlb |-> m.tlb]
    BY DEF Memory
  <2> QED BY <2>1, <2>2
<1> HIDE DEF n, e, w
<1>4. NoEntries \in [Index -> [page : Ptr, huge : BOOLEAN]] /\ e \in [page : Ptr, huge : BOOLEAN]
      /\ \A j \in Index : NoEntries[j] = Empty
  BY <1>1 DEF NoEntries, Empty, Ptr, e
<1>5. /\ m.tab \in [Pages -> [Index -> [page : Ptr, huge : BOOLEAN]]]
      /\ m.ref \in [Pages -> 0..MaxRef]
      /\ m.lent \subseteq Pages /\ m.root \in Pages /\ m.tlb \subseteq [at : Seq(Index), page : Pages]
  BY Fields
<1>6. n.tab \in [Pages -> [Index -> [page : Ptr, huge : BOOLEAN]]]
  <2> DEFINE E == [page : Ptr, huge : BOOLEAN]
             x == [m.tab EXCEPT ![q] = NoEntries]
  <2> HIDE DEF E
  <2>1. x \in [Pages -> [Index -> E]]
    BY <1>1, <1>4, <1>5 DEF E
  <2> HIDE DEF x
  <2>2. [x EXCEPT ![t][i] = e] \in [Pages -> [Index -> E]]
    BY <1>4, <2>1 DEF E
  <2> QED BY <1>3, <2>2 DEF E, x
<1>7. /\ n.tab[q] = NoEntries
      /\ \A u \in Pages, j \in Index :
           n.tab[u][j] = IF u = q THEN Empty ELSE IF u = t /\ j = i THEN e ELSE m.tab[u][j]
  BY <1>1, <1>3, <1>4, <1>5
<1>8. n.ref \in [Pages -> 0..MaxRef]
  BY <1>1, <1>3, <1>5, Bounds
<1>9. \A p \in Pages : n.ref[p] = IF p = q THEN m.ref[p] + 1 ELSE m.ref[p]
  BY <1>1, <1>3, <1>5
<1>10. n \in Memory
  <2>1. n.lent \subseteq Pages
    BY <1>1, <1>3, <1>5
  <2> QED BY <1>1, <1>3, <1>5, <1>6, <1>8, <2>1 DEF Memory
<1>11. AddsTable(m, n, t, i, r)
  BY <1>3, <1>7, <1>9 DEF AddsTable, e
<1> QED BY <1>3, <1>10, <1>11 DEF n, w

\* entry_in_table with a new table: the tree has one more table and is otherwise
\* the same.
LEMMA NewTable ==
  ASSUME NEW m, NEW T, NEW way, State(m, T, way), NEW t, NEW i, TablePlace(m, T, way, t, i),
         NEW r, AllocatedBy(m, T, r, FALSE), NEW m2 \in Memory, AddsTable(m, m2, t, i, r),
         NEW T2, NEW way2, Extended(T, way, r.page, Append(way[t], i), T2, way2)
  PROVE  State(m2, T2, way2) /\ Grown(m, T, way, m2, T2, way2)
<1> DEFINE q == r.page
           s == Append(way[t], i)
           e == [page |-> q, huge |-> FALSE]
<1>1. /\ m \in Memory /\ Tree(m, T, way) /\ Counted(m, T) /\ Good(m.fl, m.lent)
      /\ m.tlb \subseteq Leaves(m, T, way)
      /\ T \subseteq Pages /\ T \subseteq m.lent /\ T \cap m.fl.huge = {} /\ m.lent \subseteq Pages
      /\ way \in [Pages -> Seq(Index)] /\ m.root \in T
      /\ \A u \in T : way[u] \in Seq(Index) /\ Len(way[u]) \in Nat /\ Len(way[u]) < Depth
  BY Parts
<1>2. /\ q \in Pages /\ q \notin m.lent /\ q \notin T /\ m.ref[q] = 0 /\ q # NULL
      /\ r.fl \in FreeList /\ Good(r.fl, m.lent \cup {q}) /\ q \notin r.fl.huge
      /\ \A p \in m.lent : p \in r.fl.huge <=> p \in m.fl.huge
      /\ \A u \in T, j \in Index : m.tab[u][j].page # q
  BY Bounds DEF AllocatedBy
<1>3. /\ t \in T /\ i \in Index /\ ~Present(m.tab[t][i]) /\ Len(way[t]) < Depth - 1
      /\ \E va \in Vas : Prefix(va, Len(way[t]) + 1) = s
  BY DEF TablePlace
<1>4. /\ m2.fl = r.fl /\ m2.lent = m.lent \cup {q} /\ m2.root = m.root /\ m2.tlb = m.tlb
      /\ \A p \in Pages : m2.ref[p] = IF p = q THEN m.ref[p] + 1 ELSE m.ref[p]
      /\ \A u \in Pages, j \in Index :
           m2.tab[u][j] = IF u = q THEN Empty ELSE IF u = t /\ j = i THEN e ELSE m.tab[u][j]
  BY DEF AddsTable
<1>5. s \in Seq(Index) /\ Len(s) = Len(way[t]) + 1 /\ s # <<>>
  <2>1. way[t] \in Seq(Index) /\ i \in Index
    BY <1>1, <1>3
  <2>2. s \in Seq(Index) /\ Len(s) = Len(way[t]) + 1
    BY <2>1, AppendProperties
  <2> QED BY <2>1, <2>2, EmptySeq
<1>6. /\ T2 = T \cup {q} /\ way2 \in [Pages -> Seq(Index)] /\ way2[q] = s
      /\ \A u \in T : way2[u] = way[u]
  BY <1>1, <1>2, <1>5 DEF Extended
<1> HIDE DEF q, e, s
<1>7. e.page = q /\ e.huge = FALSE /\ Empty.page = NULL
  BY DEF e, Empty
<1>8. \A u \in T, j \in Index : Present(m.tab[u][j]) => m2.tab[u][j] = m.tab[u][j] /\ (u # t \/ j # i)
  BY <1>1, <1>2, <1>3, <1>4
<1>9. ASSUME NEW u \in T2, NEW j \in Index, Present(m2.tab[u][j])
      PROVE  \/ u = t /\ j = i /\ m2.tab[u][j] = e
             \/ u \in T /\ m2.tab[u][j] = m.tab[u][j] /\ Present(m.tab[u][j])
  <2>1. u \in Pages /\ (u \in T \/ u = q)
    BY <1>1, <1>2, <1>6
  <2>2. u # q
    BY <1>4, <1>7, <1>9, <2>1 DEF Present
  <2> QED BY <1>4, <1>9, <2>1, <2>2
<1>10. \A u \in T : way[u] # s
  <2> SUFFICES ASSUME NEW u \in T, way[u] = s PROVE FALSE
    OBVIOUS
  <2>1. u # m.root
    BY <1>1, <1>5 DEF Tree
  <2>2. PICK v \in T, j \in Index : m.tab[v][j].page = u
    BY <1>1, <2>1 DEF Tree
  <2>3. Present(m.tab[v][j])
    BY <1>1, <2>2, Bounds DEF Present
  <2>4. way[u] = Append(way[v], j)
    BY <1>1, <2>2, <2>3 DEF Tree, EntryOK
  <2>5. way[v] = way[t] /\ j = i
    <3>1. Append(way[v], j) = Append(way[t], i)
      BY <2>4 DEF s
    <3>2. way[v] \in Seq(Index) /\ way[t] \in Seq(Index)
      BY <1>1, <1>3
    <3> QED BY <1>3, <3>1, <3>2, SameWay
  <2>6. v = t
    BY <1>1, <1>3, <2>5 DEF Tree
  <2> QED BY <1>3, <2>3, <2>5, <2>6
<1>11. Tree(m2, T2, way2)
  <2>1. \A u, v \in T2 : way2[u] = way2[v] => u = v
    <3>1. \A u, v \in T : way[u] = way[v] => u = v
      BY <1>1 DEF Tree
    <3> QED BY <1>6, <1>10, <3>1
  <2>2. \A u \in T2 : Len(way2[u]) < Depth
    BY <1>1, <1>3, <1>5, <1>6, Bounds
  <2>3. ASSUME NEW u \in T2, u # m2.root
        PROVE  \E v \in T2, j \in Index : m2.tab[v][j].page = u
    <3>1. CASE u = q
      <4>1. m2.tab[t][i].page = q
        BY <1>1, <1>2, <1>3, <1>4, <1>7
      <4> QED BY <1>3, <1>6, <3>1, <4>1
    <3>2. CASE u # q
      <4>1. u \in T /\ u # m.root
        BY <1>4, <1>6, <2>3, <3>2
      <4>2. PICK v \in T, j \in Index : m.tab[v][j].page = u
        BY <1>1, <4>1 DEF Tree
      <4>3. Present(m.tab[v][j])
        BY <1>1, <4>1, <4>2, Bounds DEF Present
      <4>4. m2.tab[v][j] = m.tab[v][j]
        BY <1>8, <4>3
      <4> QED BY <1>6, <4>2, <4>4
    <3> QED BY <3>1, <3>2
  <2>4. ASSUME NEW u \in T2, NEW j \in Index, Present(m2.tab[u][j])
        PROVE  EntryOK(m2, T2, way2, u, j)
    <3>1. CASE u = t /\ j = i /\ m2.tab[u][j] = e
      <4>1. way2[u] = way[t] /\ Append(way[t], i) = s /\ ~IsLeaf(m2, way2, u, j)
        BY <1>1, <1>3, <1>6, <1>7, <3>1 DEF IsLeaf, s
      <4>2. e.page \in m2.lent /\ e.page \notin m2.fl.huge /\ e.page \in T2 /\ way2[e.page] = s
        BY <1>2, <1>4, <1>6, <1>7
      <4> QED BY <1>3, <1>7, <3>1, <4>1, <4>2 DEF EntryOK
    <3>2. CASE u \in T /\ m2.tab[u][j] = m.tab[u][j] /\ Present(m.tab[u][j])
      <4>1. EntryOK(m, T, way, u, j) /\ m.tab[u][j].page # q
        BY <1>1, <1>2, <3>2 DEF Tree
      <4>2. /\ way2[u] = way[u]
            /\ IsLeaf(m2, way2, u, j) <=> IsLeaf(m, way, u, j)
        BY <1>6, <3>2 DEF IsLeaf
      <4>3. /\ m.tab[u][j].page \in m.lent
            /\ m.tab[u][j].huge <=> m.tab[u][j].page \in m.fl.huge
        BY <4>1 DEF EntryOK
      <4>4. /\ m.tab[u][j].page \in m2.lent
            /\ m.tab[u][j].huge <=> m.tab[u][j].page \in m2.fl.huge
        BY <1>2, <1>4, <4>3
      <4>5. m.tab[u][j].page \in T2 <=> m.tab[u][j].page \in T
        BY <1>6, <4>1
      <4>6. m.tab[u][j].page \in T => way2[m.tab[u][j].page] = way[m.tab[u][j].page]
        BY <1>6
      <4> QED BY <3>2, <4>1, <4>2, <4>4, <4>5, <4>6 DEF EntryOK
    <3> QED BY <1>9, <2>4, <3>1, <3>2
  <2>5. m2.root \in T2 /\ way2[m2.root] = <<>> /\ T2 \subseteq Pages
    BY <1>1, <1>2, <1>4, <1>6 DEF Tree
  <2> QED BY <1>6, <2>1, <2>2, <2>3, <2>4, <2>5 DEF Tree
<1>12. Counted(m2, T2)
  <2>1. EntriesTo(m2, T2, q) = {<<t, i>>}
    <3>1. ASSUME NEW u \in T2, NEW j \in Index
          PROVE  m2.tab[u][j].page = q <=> u = t /\ j = i
      <4>1. u \in Pages /\ t # q
        BY <1>1, <1>2, <1>3, <1>6
      <4>2. CASE u = q
        BY <1>2, <1>4, <1>7, <4>1, <4>2
      <4>3. CASE u # q /\ u = t /\ j = i
        BY <1>4, <1>7, <4>1, <4>3
      <4>4. CASE u # q /\ ~ (u = t /\ j = i)
        <5>1. u \in T /\ m2.tab[u][j] = m.tab[u][j]
          BY <1>4, <1>6, <4>1, <4>4
        <5> QED BY <1>2, <4>4, <5>1
      <4> QED BY <4>2, <4>3, <4>4
    <3>2. t \in T2
      BY <1>3, <1>6
    <3> QED BY <1>3, <3>1, <3>2 DEF EntriesTo
  <2>2. ASSUME NEW p \in Pages, p # q PROVE EntriesTo(m2, T2, p) = EntriesTo(m, T, p)
    <3>1. ASSUME NEW u \in T2, NEW j \in Index
          PROVE  m2.tab[u][j].page = p <=> u \in T /\ m.tab[u][j].page = p
      <4>1. p # NULL
        BY Bounds
      <4>2. CASE Present(m2.tab[u][j])
        BY <1>1, <1>3, <1>7, <1>9, <2>2, <4>1, <4>2 DEF Present
      <4>3. CASE ~Present(m2.tab[u][j])
        BY <1>8, <4>1, <4>3 DEF Present
      <4> QED BY <4>2, <4>3
    <3> QED BY <1>6, <3>1 DEF EntriesTo
  <2>3. m2.ref[q] = Count(m2, T2, q)
    <3>1. q # m2.root /\ m2.ref[q] = 1
      BY <1>1, <1>2, <1>4
    <3>2. Cardinality(EntriesTo(m2, T2, q)) = 1
      BY <2>1, FS_Singleton
    <3> QED BY <3>1, <3>2 DEF Count
  <2>4. ASSUME NEW p \in Pages, p # q PROVE m2.ref[p] = Count(m2, T2, p)
    <3>1. m2.ref[p] = m.ref[p] /\ m2.root = m.root
      BY <1>4, <2>4
    <3>2. m.ref[p] = Count(m, T, p)
      BY <1>1 DEF Counted
    <3> QED BY <2>2, <2>4, <3>1, <3>2 DEF Count
  <2> QED BY <2>3, <2>4 DEF Counted
<1>13. Owned(m2, T2)
  BY <1>1, <1>2, <1>4, <1>6 DEF Owned
<1>14. Leaves(m2, T2, way2) = Leaves(m, T, way)
  <2>1. ASSUME NEW u \in T2, NEW j \in Index, IsLeaf(m2, way2, u, j)
        PROVE  u \in T /\ IsLeaf(m, way, u, j) /\ m2.tab[u][j] = m.tab[u][j] /\ way2[u] = way[u]
    <3>1. ~ (u = t /\ j = i /\ m2.tab[u][j] = e)
      BY <1>1, <1>3, <1>6, <1>7, <2>1 DEF IsLeaf
    <3>2. u \in T /\ m2.tab[u][j] = m.tab[u][j] /\ Present(m.tab[u][j])
      BY <1>9, <2>1, <3>1 DEF IsLeaf
    <3> QED BY <1>6, <2>1, <3>2 DEF IsLeaf
  <2>2. ASSUME NEW u \in T, NEW j \in Index, IsLeaf(m, way, u, j)
        PROVE  u \in T2 /\ IsLeaf(m2, way2, u, j) /\ m2.tab[u][j] = m.tab[u][j] /\ way2[u] = way[u]
    BY <1>6, <1>8, <2>2 DEF IsLeaf
  <2>3. ASSUME NEW c \in Leaves(m2, T2, way2) PROVE c \in Leaves(m, T, way)
    <3>1. PICK u \in T2, j \in Index : IsLeaf(m2, way2, u, j) /\ c.at = Append(way2[u], j)
                                      /\ c.page = m2.tab[u][j].page
      BY DEF Leaves
    <3>2. u \in T /\ IsLeaf(m, way, u, j) /\ c.at = Append(way[u], j) /\ c.page = m.tab[u][j].page
      BY <2>1, <3>1
    <3> QED BY <3>2 DEF Leaves
  <2>4. ASSUME NEW c \in Leaves(m, T, way) PROVE c \in Leaves(m2, T2, way2)
    <3>1. PICK u \in T, j \in Index : IsLeaf(m, way, u, j) /\ c.at = Append(way[u], j)
                                     /\ c.page = m.tab[u][j].page
      BY DEF Leaves
    <3>2. u \in T2 /\ IsLeaf(m2, way2, u, j) /\ c.at = Append(way2[u], j) /\ c.page = m2.tab[u][j].page
      BY <2>2, <3>1
    <3> QED BY <3>2 DEF Leaves
  <2> QED BY <2>3, <2>4
<1>15. Grown(m, T, way, m2, T2, way2)
  <2>1. m2.lent \ T2 = m.lent \ T
    BY <1>2, <1>4, <1>6
  <2>2. \A p \in m.lent \ T : /\ m2.ref[p] = m.ref[p]
                              /\ p \in m2.fl.huge <=> p \in m.fl.huge
    BY <1>1, <1>2, <1>4
  <2> QED BY <1>4, <1>14, <2>1, <2>2 DEF Grown
<1>16. State(m2, T2, way2)
  BY <1>1, <1>4, <1>11, <1>12, <1>13, <1>14 DEF State
<1> QED BY <1>15, <1>16

\* m2 is m with the leaf e entered at entry i of table t, and cached for `at'.
AddsLeaf(m, m2, t, i, e, at) ==
    /\ m2.fl = m.fl /\ m2.lent = m.lent /\ m2.root = m.root
    /\ m2.tlb = m.tlb \cup {[at |-> at, page |-> e.page]}
    /\ \A p \in Pages : m2.ref[p] = IF p = e.page THEN m.ref[p] + 1 ELSE m.ref[p]
    /\ \A u \in Pages, j \in Index :
         m2.tab[u][j] = IF u = t /\ j = i THEN e ELSE m.tab[u][j]

\* The indexes `at' lead to entry i of table t.
Leads(way, t, i, at) == at = Append(way[t], i)

\* A place where the leaf e can be entered.
LeafPlace(m, T, way, t, i, e) ==
    /\ t \in T /\ i \in Index /\ ~Present(m.tab[t][i])
    /\ e.page \in m.lent \ T /\ e.huge \in BOOLEAN
    /\ e.huge <=> e.page \in m.fl.huge
    /\ Len(way[t]) = IF e.huge THEN Depth - 2 ELSE Depth - 1
    /\ \E va \in Vas : Prefix(va, Len(way[t]) + 1) = Append(way[t], i)

\* page_insert's last part: the tree maps one page more.
LEMMA NewLeaf ==
  ASSUME NEW m, NEW T, NEW way, State(m, T, way),
         NEW t, NEW i, NEW e, LeafPlace(m, T, way, t, i, e),
         NEW at, Leads(way, t, i, at), NEW m2 \in Memory, AddsLeaf(m, m2, t, i, e, at)
  PROVE  /\ State(m2, T, way)
         /\ Leaves(m2, T, way) = Leaves(m, T, way) \cup {[at |-> at, page |-> e.page]}
<1> DEFINE q == e.page
           c == [at |-> at, page |-> q]
<1>1. /\ m \in Memory /\ Tree(m, T, way) /\ Counted(m, T) /\ Good(m.fl, m.lent)
      /\ m.tlb \subseteq Leaves(m, T, way)
      /\ T \subseteq Pages /\ T \subseteq m.lent /\ T \cap m.fl.huge = {} /\ m.lent \subseteq Pages
      /\ way \in [Pages -> Seq(Index)] /\ m.root \in T
      /\ \A u \in T : way[u] \in Seq(Index) /\ Len(way[u]) \in Nat /\ Len(way[u]) < Depth
  BY Parts
<1>2. /\ t \in T /\ i \in Index /\ ~Present(m.tab[t][i])
      /\ q \in m.lent /\ q \notin T /\ e.huge \in BOOLEAN
      /\ e.huge <=> q \in m.fl.huge
      /\ Len(way[t]) = IF e.huge THEN Depth - 2 ELSE Depth - 1
      /\ \E va \in Vas : Prefix(va, Len(way[t]) + 1) = Append(way[t], i)
  BY DEF LeafPlace
<1>3. /\ m2.fl = m.fl /\ m2.lent = m.lent /\ m2.root = m.root
      /\ m2.tlb = m.tlb \cup {c}
      /\ \A p \in Pages : m2.ref[p] = IF p = q THEN m.ref[p] + 1 ELSE m.ref[p]
      /\ \A u \in Pages, j \in Index :
           m2.tab[u][j] = IF u = t /\ j = i THEN e ELSE m.tab[u][j]
  BY DEF AddsLeaf
<1>4. q \in Pages /\ q # NULL /\ t \in Pages
  BY <1>1, <1>2, Bounds
<1>5. at \in Seq(Index) /\ c \in [at : Seq(Index), page : Pages] /\ c.at = at /\ c.page = q
  <2>1. way[t] \in Seq(Index) /\ i \in Index
    BY <1>1, <1>2
  <2>2. at \in Seq(Index)
    BY <2>1, AppendProperties DEF Leads
  <2> QED BY <1>4, <2>2
<1> HIDE DEF q, c
<1>6. m2.tab[t][i] = e /\ Present(e) /\ e.page = q /\ at = Append(way[t], i)
  BY <1>2, <1>3, <1>4 DEF Present, Leads, q
<1>7. \A u \in T, j \in Index : ~ (u = t /\ j = i) => m2.tab[u][j] = m.tab[u][j]
  BY <1>1, <1>3
<1>8. \A u \in T, j \in Index : Present(m.tab[u][j]) => ~ (u = t /\ j = i)
  BY <1>2
<1>9. Tree(m2, T, way)
  <2>1. ASSUME NEW u \in T, u # m2.root
        PROVE  \E v \in T, j \in Index : m2.tab[v][j].page = u
    <3>1. PICK v \in T, j \in Index : m.tab[v][j].page = u
      BY <1>1, <1>3, <2>1 DEF Tree
    <3>2. Present(m.tab[v][j])
      BY <1>1, <3>1, Bounds DEF Present
    <3> QED BY <1>7, <1>8, <3>1, <3>2
  <2>2. ASSUME NEW u \in T, NEW j \in Index, Present(m2.tab[u][j])
        PROVE  EntryOK(m2, T, way, u, j)
    <3>1. CASE u = t /\ j = i
      <4>1. IsLeaf(m2, way, u, j)
        BY <1>2, <1>6, <3>1, Bounds DEF IsLeaf
      <4> QED BY <1>2, <1>3, <1>6, <3>1, <4>1, Bounds DEF EntryOK
    <3>2. CASE ~ (u = t /\ j = i)
      <4>1. m2.tab[u][j] = m.tab[u][j]
        BY <1>7, <3>2
      <4>2. EntryOK(m, T, way, u, j)
        BY <1>1, <2>2, <4>1 DEF Tree
      <4> QED BY <1>3, <4>1, <4>2 DEF EntryOK, IsLeaf
    <3> QED BY <3>1, <3>2
  <2> QED BY <1>1, <1>3, <2>1, <2>2 DEF Tree
<1>10. Counted(m2, T)
  <2>1. ASSUME NEW p \in Pages, p # q PROVE EntriesTo(m2, T, p) = EntriesTo(m, T, p)
    <3>1. ASSUME NEW u \in T, NEW j \in Index
          PROVE  m2.tab[u][j].page = p <=> m.tab[u][j].page = p
      <4>1. CASE u = t /\ j = i
        BY <1>2, <1>6, <2>1, <4>1, Bounds DEF Present
      <4>2. CASE ~ (u = t /\ j = i)
        BY <1>7, <4>2
      <4> QED BY <4>1, <4>2
    <3> QED BY <3>1 DEF EntriesTo
  <2>2. /\ EntriesTo(m2, T, q) = EntriesTo(m, T, q) \cup {<<t, i>>}
        /\ <<t, i>> \notin EntriesTo(m, T, q)
    <3>1. ASSUME NEW u \in T, NEW j \in Index
          PROVE  m2.tab[u][j].page = q <=> m.tab[u][j].page = q \/ <<u, j>> = <<t, i>>
      <4>1. CASE u = t /\ j = i
        BY <1>6, <4>1
      <4>2. CASE ~ (u = t /\ j = i)
        BY <1>7, <4>2
      <4> QED BY <4>1, <4>2
    <3>2. m.tab[t][i].page # q
      BY <1>2, <1>4 DEF Present
    <3> QED BY <1>2, <3>1, <3>2 DEF EntriesTo
  <2>3. m2.ref[q] = Count(m2, T, q)
    <3>1. m2.ref[q] = m.ref[q] + 1 /\ m2.root = m.root
      BY <1>3, <1>4
    <3>2. m.ref[q] = Count(m, T, q)
      BY <1>1, <1>4 DEF Counted
    <3>3. IsFiniteSet(EntriesTo(m, T, q))
      BY <1>1, EntriesFinite
    <3>4. Cardinality(EntriesTo(m2, T, q)) = Cardinality(EntriesTo(m, T, q)) + 1
      BY <2>2, <3>3, FS_AddElement
    <3>5. Cardinality(EntriesTo(m, T, q)) \in Nat
      BY <3>3, FS_CardinalityType
    <3> QED BY <3>1, <3>2, <3>4, <3>5 DEF Count
  <2>4. ASSUME NEW p \in Pages, p # q PROVE m2.ref[p] = Count(m2, T, p)
    <3>1. m2.ref[p] = m.ref[p] /\ m2.root = m.root
      BY <1>3, <2>4
    <3>2. m.ref[p] = Count(m, T, p)
      BY <1>1 DEF Counted
    <3> QED BY <2>1, <2>4, <3>1, <3>2 DEF Count
  <2> QED BY <2>3, <2>4 DEF Counted
<1>11. Leaves(m2, T, way) = Leaves(m, T, way) \cup {c}
  <2>1. ASSUME NEW u \in T, NEW j \in Index, ~ (u = t /\ j = i)
        PROVE  m2.tab[u][j] = m.tab[u][j] /\ (IsLeaf(m2, way, u, j) <=> IsLeaf(m, way, u, j))
    BY <1>7, <2>1 DEF IsLeaf
  <2>2. IsLeaf(m2, way, t, i) /\ ~IsLeaf(m, way, t, i)
    BY <1>2, <1>6, Bounds DEF IsLeaf
  <2>3. ASSUME NEW x \in Leaves(m2, T, way) PROVE x \in Leaves(m, T, way) \cup {c}
    <3>1. PICK u \in T, j \in Index : /\ IsLeaf(m2, way, u, j) /\ x.at = Append(way[u], j)
                                      /\ x.page = m2.tab[u][j].page
      BY DEF Leaves
    <3>2. x \in [at : Seq(Index), page : Pages]
      BY DEF Leaves
    <3>3. CASE u = t /\ j = i
      <4>1. x.at = at /\ x.page = q
        BY <1>6, <3>1, <3>3
      <4>2. x = c
        BY <3>2, <4>1 DEF c
      <4> QED BY <4>2
    <3>4. CASE ~ (u = t /\ j = i)
      BY <2>1, <3>1, <3>2, <3>4 DEF Leaves
    <3> QED BY <3>3, <3>4
  <2>4. ASSUME NEW x \in Leaves(m, T, way) PROVE x \in Leaves(m2, T, way)
    BY <2>1, <2>2, <2>4 DEF Leaves
  <2>5. c \in Leaves(m2, T, way)
    BY <1>2, <1>5, <1>6, <2>2 DEF Leaves
  <2> QED BY <2>3, <2>4, <2>5
<1>12. Owned(m2, T)
  BY <1>1, <1>3 DEF Owned
<1>13. State(m2, T, way)
  BY <1>1, <1>3, <1>9, <1>10, <1>11, <1>12 DEF State
<1> QED BY <1>11, <1>13 DEF c, q

\* What page_free does to the allocator of a tree.
FreedIn(m, p, fl) ==
    /\ fl \in FreeList /\ Good(fl, m.lent \ {p})
    /\ \A x \in m.lent \ {p} : x \in fl.huge <=> x \in m.fl.huge

\* page_free of a page that is in use leaves the others as they were.
LEMMA Freed ==
  ASSUME NEW m, NEW T, NEW way, State(m, T, way), NEW p \in m.lent
  PROVE  FreedIn(m, p, page_free(m.fl, 0, p))
<1> DEFINE fl == page_free(m.fl, 0, p)
<1>1. Good(m.fl, m.lent) /\ m.lent \subseteq Pages
  BY Parts
<1>2. Good(fl, m.lent \ {p}) /\ SameUnits(m.fl, fl, m.lent \ {p})
  BY <1>1, FreeGood, FreeSame
<1> HIDE DEF fl
<1>3. \A x \in m.lent \ {p} : x \in fl.huge <=> x \in m.fl.huge
  <2>1. m.lent \ {p} \in SUBSET Pages
    BY <1>1
  <2> QED BY <1>2, <2>1, SameKinds
<1>4. fl \in FreeList
  BY <1>2 DEF Good, Linked
<1> QED BY <1>2, <1>3, <1>4 DEF FreedIn, fl

\* m2 is m without the leaf at entry i of table t, which the address va reaches.
DropsLeaf(m, m2, t, i, va) ==
    LET q == m.tab[t][i].page
    IN /\ m2.root = m.root
       /\ m2.tlb = {c \in m.tlb : ~Covers(c.at, va)}
       /\ \A p \in Pages : m2.ref[p] = IF p = q THEN m.ref[p] - 1 ELSE m.ref[p]
       /\ \A u \in Pages, j \in Index :
            m2.tab[u][j] = IF u = t /\ j = i THEN Empty ELSE m.tab[u][j]
       /\ m.ref[q] = 1 => m2.fl = page_free(m.fl, 0, q) /\ m2.lent = m.lent \ {q}
       /\ m.ref[q] # 1 => m2.fl = m.fl /\ m2.lent = m.lent

\* A leaf that va reaches, and what it is in Leaves.
LeafFor(m, T, way, t, i, va) ==
    /\ t \in T /\ i \in Index /\ va \in Vas /\ IsLeaf(m, way, t, i)
    /\ Prefix(va, Len(way[t]) + 1) = Append(way[t], i)
LeafRecord(m, way, t, i) == [at |-> Append(way[t], i), page |-> m.tab[t][i].page]

\* What a prefix of an address leads to is cached for the address.
LEMMA PrefixCovers ==
  ASSUME NEW va \in Vas, NEW n \in 1..Depth
  PROVE  Covers(Prefix(va, n), va)
<1>1. Len(Prefix(va, n)) = n
  BY PrefixStep, PageTablesAssumption DEF Address
<1> QED BY <1>1 DEF Covers, Prefix

\* The record of a leaf tells where it is.
LEMMA LeafRecords ==
  ASSUME NEW m, NEW T, NEW way, State(m, T, way)
  PROVE  /\ \A x : x \in Leaves(m, T, way) <=>
              \E t \in T, i \in Index : IsLeaf(m, way, t, i) /\ x = LeafRecord(m, way, t, i)
         /\ \A t, u \in T, i, j \in Index : Append(way[t], i) = Append(way[u], j) => t = u /\ i = j
<1>1. /\ Tree(m, T, way) /\ m.lent \subseteq Pages
      /\ \A u \in T : way[u] \in Seq(Index)
  BY Parts
<1>2. ASSUME NEW t \in T, NEW i \in Index
      PROVE  /\ Append(way[t], i) \in Seq(Index)
             /\ Present(m.tab[t][i]) => m.tab[t][i].page \in Pages
  <2>1. way[t] \in Seq(Index)
    BY <1>1
  <2>2. Append(way[t], i) \in Seq(Index)
    BY <2>1, AppendProperties
  <2>3. Present(m.tab[t][i]) => m.tab[t][i].page \in Pages
    BY <1>1 DEF Tree, EntryOK
  <2> QED BY <2>2, <2>3
<1>3. ASSUME NEW t \in T, NEW u \in T, NEW i \in Index, NEW j \in Index,
             Append(way[t], i) = Append(way[u], j)
      PROVE  t = u /\ i = j
  <2>1. way[t] \in Seq(Index) /\ way[u] \in Seq(Index) /\ Append(way[t], i) = Append(way[u], j)
    BY <1>1, <1>3
  <2>2. way[t] = way[u] /\ i = j
    BY <2>1, SameWay
  <2> QED BY <1>1, <2>2 DEF Tree
<1>4. ASSUME NEW t \in T, NEW i \in Index, IsLeaf(m, way, t, i)
      PROVE  LeafRecord(m, way, t, i) \in Leaves(m, T, way)
  <2>1. LeafRecord(m, way, t, i) \in [at : Seq(Index), page : Pages]
    BY <1>2, <1>4 DEF LeafRecord, IsLeaf
  <2>2. /\ LeafRecord(m, way, t, i).at = Append(way[t], i)
        /\ LeafRecord(m, way, t, i).page = m.tab[t][i].page
    BY DEF LeafRecord
  <2> QED BY <1>4, <2>1, <2>2 DEF Leaves
<1>5. ASSUME NEW x \in Leaves(m, T, way)
      PROVE  \E t \in T, i \in Index : IsLeaf(m, way, t, i) /\ x = LeafRecord(m, way, t, i)
  <2>1. x \in [at : Seq(Index), page : Pages]
    BY DEF Leaves
  <2>2. PICK t \in T, i \in Index : /\ IsLeaf(m, way, t, i) /\ x.at = Append(way[t], i)
                                    /\ x.page = m.tab[t][i].page
    BY DEF Leaves
  <2>3. x = LeafRecord(m, way, t, i)
    BY <2>1, <2>2 DEF LeafRecord
  <2> QED BY <2>2, <2>3
<1> QED BY <1>3, <1>4, <1>5

\* page_remove: the tree maps one page less, and a page that has lost its last
\* mapping is free.
LEMMA OldLeaf ==
  ASSUME NEW m, NEW T, NEW way, State(m, T, way), NEW t, NEW i, NEW va,
         LeafFor(m, T, way, t, i, va), NEW m2 \in Memory, DropsLeaf(m, m2, t, i, va)
  PROVE  /\ State(m2, T, way)
         /\ Leaves(m2, T, way) = Leaves(m, T, way) \ {LeafRecord(m, way, t, i)}
         /\ m2.lent = m.lent \ ({m.tab[t][i].page} \ {x.page : x \in Leaves(m2, T, way)})
         /\ \A p \in m2.lent : p \in m2.fl.huge <=> p \in m.fl.huge
         /\ \A p \in Pages : p # m.tab[t][i].page => m2.ref[p] = m.ref[p]
<1> DEFINE q == m.tab[t][i].page
           c == LeafRecord(m, way, t, i)
<1>1. /\ m \in Memory /\ Tree(m, T, way) /\ Counted(m, T) /\ Good(m.fl, m.lent)
      /\ m.tlb \subseteq Leaves(m, T, way)
      /\ T \subseteq Pages /\ T \subseteq m.lent /\ T \cap m.fl.huge = {} /\ m.lent \subseteq Pages
      /\ way \in [Pages -> Seq(Index)] /\ m.root \in T
      /\ \A u \in T : way[u] \in Seq(Index) /\ Len(way[u]) \in Nat /\ Len(way[u]) < Depth
  BY Parts
<1>2. /\ t \in T /\ i \in Index /\ va \in Vas /\ IsLeaf(m, way, t, i)
      /\ Prefix(va, Len(way[t]) + 1) = Append(way[t], i)
  BY DEF LeafFor
<1>3. /\ m2.root = m.root
      /\ m2.tlb = {x \in m.tlb : ~Covers(x.at, va)}
      /\ \A p \in Pages : m2.ref[p] = IF p = q THEN m.ref[p] - 1 ELSE m.ref[p]
      /\ \A u \in Pages, j \in Index :
           m2.tab[u][j] = IF u = t /\ j = i THEN Empty ELSE m.tab[u][j]
      /\ m.ref[q] = 1 => m2.fl = page_free(m.fl, 0, q) /\ m2.lent = m.lent \ {q}
      /\ m.ref[q] # 1 => m2.fl = m.fl /\ m2.lent = m.lent
  BY DEF DropsLeaf
<1>4. EntryOK(m, T, way, t, i) /\ Present(m.tab[t][i])
  BY <1>1, <1>2 DEF Tree, IsLeaf
<1>5. q \in m.lent /\ q \in Pages /\ q \notin T /\ q # NULL /\ q # m.root
  BY <1>1, <1>2, <1>4, Bounds DEF EntryOK
<1>6. FreedIn(m, q, page_free(m.fl, 0, q))
  BY <1>5, Freed
<1>7. /\ Covers(c.at, va) /\ c.page = q
      /\ \A u \in T, j \in Index : LeafRecord(m, way, u, j) = c => u = t /\ j = i
  <2>1. Len(way[t]) + 1 \in 1..Depth
    BY <1>1, <1>2, Bounds
  <2>2. Covers(Prefix(va, Len(way[t]) + 1), va)
    BY <1>2, <2>1, PrefixCovers
  <2>3. \A u \in T, j \in Index : LeafRecord(m, way, u, j) = c => Append(way[u], j) = Append(way[t], i)
    BY DEF LeafRecord
  <2>4. \A u \in T, j \in Index : Append(way[u], j) = Append(way[t], i) => u = t /\ j = i
    BY <1>2, LeafRecords
  <2> QED BY <1>2, <2>2, <2>3, <2>4 DEF LeafRecord
<1> HIDE DEF q, c
<1>8. Empty.page = NULL /\ m2.tab[t][i] = Empty /\ ~Present(m2.tab[t][i])
  <2>1. Empty.page = NULL
    BY DEF Empty
  <2>2. t \in Pages /\ i \in Index
    BY <1>1, <1>2
  <2>3. m2.tab[t][i] = Empty
    BY <1>3, <2>2
  <2> QED BY <2>1, <2>3 DEF Present
<1>9. \A u \in T, j \in Index : ~ (u = t /\ j = i) => m2.tab[u][j] = m.tab[u][j]
  BY <1>1, <1>3
<1>10. /\ IsFiniteSet(EntriesTo(m2, T, q)) /\ Cardinality(EntriesTo(m2, T, q)) \in Nat
       /\ m.ref[q] = Cardinality(EntriesTo(m2, T, q)) + 1
  <2>1. /\ EntriesTo(m2, T, q) = EntriesTo(m, T, q) \ {<<t, i>>}
        /\ <<t, i>> \in EntriesTo(m, T, q)
    <3>1. ASSUME NEW u \in T, NEW j \in Index
          PROVE  m2.tab[u][j].page = q <=> m.tab[u][j].page = q /\ <<u, j>> # <<t, i>>
      <4>1. CASE u = t /\ j = i
        BY <1>5, <1>8, <4>1
      <4>2. CASE ~ (u = t /\ j = i)
        BY <1>9, <4>2
      <4> QED BY <4>1, <4>2
    <3>2. m.tab[t][i].page = q
      BY DEF q
    <3> QED BY <1>2, <3>1, <3>2 DEF EntriesTo
  <2>2. IsFiniteSet(EntriesTo(m, T, q)) /\ IsFiniteSet(EntriesTo(m2, T, q))
    BY <1>1, EntriesFinite
  <2>3. Cardinality(EntriesTo(m2, T, q)) = Cardinality(EntriesTo(m, T, q)) - 1
    BY <2>1, <2>2, FS_RemoveElement
  <2>4. Cardinality(EntriesTo(m, T, q)) \in Nat /\ Cardinality(EntriesTo(m2, T, q)) \in Nat
    BY <2>2, FS_CardinalityType
  <2>5. m.ref[q] = Cardinality(EntriesTo(m, T, q))
    BY <1>1, <1>5, <2>4 DEF Counted, Count
  <2> QED BY <2>2, <2>3, <2>4, <2>5
<1>11. m.ref[q] = 1 <=> EntriesTo(m2, T, q) = {}
  BY <1>10, FS_EmptySet
<1>12. \A u \in T, j \in Index : m.ref[q] = 1 => m2.tab[u][j].page # q
  <2> SUFFICES ASSUME NEW u \in T, NEW j \in Index, m.ref[q] = 1, m2.tab[u][j].page = q
               PROVE  FALSE
    OBVIOUS
  <2>1. <<u, j>> \in EntriesTo(m2, T, q)
    BY DEF EntriesTo
  <2> QED BY <1>11, <2>1
<1>13. /\ m2.fl \in FreeList /\ Good(m2.fl, m2.lent)
       /\ \A p \in m2.lent : p \in m2.fl.huge <=> p \in m.fl.huge
       /\ m2.lent = IF m.ref[q] = 1 THEN m.lent \ {q} ELSE m.lent
  <2>1. CASE m.ref[q] = 1
    BY <1>3, <1>6, <2>1 DEF FreedIn
  <2>2. CASE m.ref[q] # 1
    BY <1>1, <1>3, <2>2, Fields
  <2> QED BY <2>1, <2>2
<1>14. Tree(m2, T, way)
  <2>1. ASSUME NEW u \in T, u # m2.root
        PROVE  \E v \in T, j \in Index : m2.tab[v][j].page = u
    <3>1. PICK v \in T, j \in Index : m.tab[v][j].page = u
      BY <1>1, <1>3, <2>1 DEF Tree
    <3>2. ~ (v = t /\ j = i)
      BY <1>5, <3>1 DEF q
    <3> QED BY <1>9, <3>1, <3>2
  <2>2. ASSUME NEW u \in T, NEW j \in Index, Present(m2.tab[u][j])
        PROVE  EntryOK(m2, T, way, u, j)
    <3>1. ~ (u = t /\ j = i)
      BY <1>8, <2>2
    <3>2. m2.tab[u][j] = m.tab[u][j]
      BY <1>9, <3>1
    <3>3. EntryOK(m, T, way, u, j)
      BY <1>1, <2>2, <3>2 DEF Tree
    <3>4. /\ m.tab[u][j].page \in m.lent
          /\ m.tab[u][j].huge <=> m.tab[u][j].page \in m.fl.huge
      BY <3>3 DEF EntryOK
    <3>5. m2.tab[u][j].page \in m2.lent
      BY <1>12, <1>13, <3>2, <3>4
    <3>6. m2.tab[u][j].huge <=> m2.tab[u][j].page \in m2.fl.huge
      BY <1>13, <3>2, <3>4, <3>5
    <3> QED BY <3>2, <3>3, <3>5, <3>6 DEF EntryOK, IsLeaf
  <2> QED BY <1>1, <1>3, <2>1, <2>2 DEF Tree
<1>15. Counted(m2, T)
  <2>1. ASSUME NEW p \in Pages, p # q PROVE EntriesTo(m2, T, p) = EntriesTo(m, T, p)
    <3>1. ASSUME NEW u \in T, NEW j \in Index
          PROVE  m2.tab[u][j].page = p <=> m.tab[u][j].page = p
      <4>1. CASE u = t /\ j = i
        BY <1>8, <2>1, <4>1, Bounds DEF q
      <4>2. CASE ~ (u = t /\ j = i)
        BY <1>9, <4>2
      <4> QED BY <4>1, <4>2
    <3> QED BY <3>1 DEF EntriesTo
  <2>2. m2.ref[q] = Count(m2, T, q)
    BY <1>3, <1>5, <1>10 DEF Count
  <2>3. ASSUME NEW p \in Pages, p # q PROVE m2.ref[p] = Count(m2, T, p)
    <3>1. m2.ref[p] = m.ref[p] /\ m2.root = m.root
      BY <1>3, <2>3
    <3>2. m.ref[p] = Count(m, T, p)
      BY <1>1 DEF Counted
    <3> QED BY <2>1, <2>3, <3>1, <3>2 DEF Count
  <2> QED BY <2>2, <2>3 DEF Counted
<1>16. Owned(m2, T)
  <2>1. T \subseteq m2.lent
    BY <1>1, <1>5, <1>13
  <2> QED BY <1>1, <1>13, <2>1 DEF Owned
<1>17. Leaves(m2, T, way) = Leaves(m, T, way) \ {c}
  <2>1. ASSUME NEW u \in T, NEW j \in Index, ~ (u = t /\ j = i)
        PROVE  /\ IsLeaf(m2, way, u, j) <=> IsLeaf(m, way, u, j)
               /\ LeafRecord(m2, way, u, j) = LeafRecord(m, way, u, j)
               /\ LeafRecord(m, way, u, j) # c
    BY <1>7, <1>9, <2>1 DEF IsLeaf, LeafRecord
  <2>2. ~IsLeaf(m2, way, t, i)
    BY <1>8 DEF IsLeaf
  <2>3. \A x : x \in Leaves(m, T, way) <=>
          \E u \in T, j \in Index : IsLeaf(m, way, u, j) /\ x = LeafRecord(m, way, u, j)
    BY LeafRecords
  <2>4. ASSUME NEW x \in Leaves(m2, T, way) PROVE x \in Leaves(m, T, way) \ {c}
    <3>1. PICK u \in T, j \in Index : /\ IsLeaf(m2, way, u, j) /\ x.at = Append(way[u], j)
                                      /\ x.page = m2.tab[u][j].page
      BY DEF Leaves
    <3>2. x \in [at : Seq(Index), page : Pages]
      BY DEF Leaves
    <3>3. x = LeafRecord(m2, way, u, j)
      BY <3>1, <3>2 DEF LeafRecord
    <3> QED BY <2>1, <2>2, <2>3, <3>1, <3>3
  <2>5. ASSUME NEW x \in Leaves(m, T, way), x # c PROVE x \in Leaves(m2, T, way)
    <3>1. PICK u \in T, j \in Index : IsLeaf(m, way, u, j) /\ x = LeafRecord(m, way, u, j)
      BY <2>3
    <3>2. ~ (u = t /\ j = i)
      BY <2>5, <3>1 DEF c
    <3>3. x \in [at : Seq(Index), page : Pages] /\ x.at = Append(way[u], j)
          /\ x.page = m2.tab[u][j].page
      <4>1. x \in [at : Seq(Index), page : Pages]
        BY DEF Leaves
      <4> QED BY <1>9, <3>1, <3>2, <4>1 DEF LeafRecord
    <3> QED BY <2>1, <3>1, <3>2, <3>3 DEF Leaves
  <2> QED BY <2>4, <2>5
<1>18. State(m2, T, way)
  <2>1. m2.tlb \subseteq Leaves(m2, T, way)
    BY <1>1, <1>3, <1>7, <1>17
  <2> QED BY <1>14, <1>15, <1>16, <2>1 DEF State
<1>19. m2.lent = m.lent \ ({q} \ {x.page : x \in Leaves(m2, T, way)})
  <2>1. EntriesTo(m2, T, q) # {} <=> q \in {x.page : x \in Leaves(m2, T, way)}
    <3>1. ASSUME EntriesTo(m2, T, q) # {} PROVE q \in {x.page : x \in Leaves(m2, T, way)}
      <4>1. PICK u \in T, j \in Index : m2.tab[u][j].page = q
        BY <3>1 DEF EntriesTo
      <4>2. Present(m2.tab[u][j])
        BY <1>5, <4>1 DEF Present
      <4>3. IsLeaf(m2, way, u, j)
        BY <1>5, <1>14, <4>1, <4>2 DEF Tree, EntryOK
      <4>4. LeafRecord(m2, way, u, j) \in Leaves(m2, T, way)
        BY <1>18, <4>3, LeafRecords
      <4>5. LeafRecord(m2, way, u, j).page = q
        BY <4>1 DEF LeafRecord
      <4> QED BY <4>4, <4>5
    <3>2. ASSUME q \in {x.page : x \in Leaves(m2, T, way)} PROVE EntriesTo(m2, T, q) # {}
      <4>1. PICK x \in Leaves(m2, T, way) : x.page = q
        BY <3>2
      <4>2. PICK u \in T, j \in Index : m2.tab[u][j].page = q
        BY <4>1 DEF Leaves
      <4>3. <<u, j>> \in EntriesTo(m2, T, q)
        BY <4>2 DEF EntriesTo
      <4> QED BY <4>3
    <3> QED BY <3>1, <3>2
  <2> QED BY <1>11, <1>13, <2>1
<1>20. \A p \in Pages : p # q => m2.ref[p] = m.ref[p]
  BY <1>3
<1> QED BY <1>13, <1>17, <1>18, <1>19, <1>20 DEF c, q

-----------------------------------------------------------------------------
(* Walking the tables.                                                      *)

\* The way to an entry that an address goes through is a prefix of the address.
LEMMA OnTheWay ==
  ASSUME NEW m, NEW T, NEW way, State(m, T, way), NEW va \in Vas, NEW t \in T
  PROVE  /\ va \in Address
         /\ \A n \in 1..Depth : way[t] = Prefix(va, n - 1) =>
              /\ Len(way[t]) = n - 1 /\ va[n] \in Index
              /\ Prefix(va, Len(way[t]) + 1) = Append(way[t], va[n])
         /\ \A i \in Index : Prefix(va, Len(way[t]) + 1) = Append(way[t], i) =>
              /\ Len(way[t]) + 1 \in 1..Depth
              /\ way[t] = Prefix(va, Len(way[t])) /\ i = va[Len(way[t]) + 1]
<1>1. way[t] \in Seq(Index) /\ Len(way[t]) \in Nat /\ Len(way[t]) < Depth
  BY Parts
<1>2. va \in Address
  BY PageTablesAssumption DEF Address
<1>3. ASSUME NEW n \in 1..Depth, way[t] = Prefix(va, n - 1)
      PROVE  /\ Len(way[t]) = n - 1 /\ va[n] \in Index
             /\ Prefix(va, Len(way[t]) + 1) = Append(way[t], va[n])
  <2>1. /\ Len(Prefix(va, n - 1)) = n - 1 /\ va[n] \in Index
        /\ Prefix(va, n) = Append(Prefix(va, n - 1), va[n])
    BY <1>2, PrefixStep
  <2>2. (n - 1) + 1 = n
    BY Bounds
  <2> QED BY <1>3, <2>1, <2>2
<1>4. ASSUME NEW i \in Index, Prefix(va, Len(way[t]) + 1) = Append(way[t], i)
      PROVE  /\ Len(way[t]) + 1 \in 1..Depth
             /\ way[t] = Prefix(va, Len(way[t])) /\ i = va[Len(way[t]) + 1]
  <2> DEFINE n == Len(way[t]) + 1
  <2>1. n \in 1..Depth /\ n - 1 = Len(way[t])
    BY <1>1, Bounds
  <2> HIDE DEF n
  <2>2. /\ Prefix(va, n - 1) \in Seq(Index) /\ va[n] \in Index
        /\ Prefix(va, n) = Append(Prefix(va, n - 1), va[n])
    BY <1>2, <2>1, PrefixStep
  <2>3. Append(way[t], i) = Append(Prefix(va, n - 1), va[n])
    BY <1>4, <2>2 DEF n
  <2>4. way[t] = Prefix(va, n - 1) /\ i = va[n]
    BY <1>1, <2>2, <2>3, SameWay
  <2> QED BY <2>1, <2>4 DEF n
<1> QED BY <1>2, <1>3, <1>4

\* A table one step further than another is what the other's entry leads to.
LEMMA NextTable ==
  ASSUME NEW m, NEW T, NEW way, State(m, T, way), NEW u \in T, NEW s \in Seq(Index),
         NEW i \in Index, way[u] = Append(s, i)
  PROVE  \E t \in T : way[t] = s /\ Present(m.tab[t][i]) /\ m.tab[t][i].page = u
                      /\ ~IsLeaf(m, way, t, i)
<1>1. Tree(m, T, way) /\ m.root \in T /\ (\A t \in T : way[t] \in Seq(Index)) /\ u \in Pages
  BY Parts
<1>2. u # m.root
  <2>1. Append(s, i) # <<>>
    BY AppendProperties
  <2> QED BY <1>1, <2>1 DEF Tree
<1>3. PICK t \in T, j \in Index : m.tab[t][j].page = u
  BY <1>1, <1>2 DEF Tree
<1>4. Present(m.tab[t][j])
  BY <1>1, <1>3, Bounds DEF Present
<1>5. ~IsLeaf(m, way, t, j) /\ way[u] = Append(way[t], j)
  BY <1>1, <1>3, <1>4 DEF Tree, EntryOK
<1>6. way[t] = s /\ j = i
  <2>1. Append(way[t], j) = Append(s, i) /\ way[t] \in Seq(Index)
    BY <1>1, <1>5
  <2> QED BY <2>1, SameWay
<1> QED BY <1>3, <1>4, <1>5, <1>6

\* q is the table n steps down the way of va, NULL if there is none.
Finds(m, T, way, va, n, q) ==
    \/ q \in T /\ way[q] = Prefix(va, n)
    \/ q = NULL /\ \A t \in T : way[t] # Prefix(va, n)

\* The next table down.
NextDown(m, way, q, i) ==
    IF q = NULL \/ ~Present(m.tab[q][i]) \/ IsLeaf(m, way, q, i) THEN NULL ELSE m.tab[q][i].page

\* A walk that goes down through an entry finds the table after it.
LEMMA FindsNext ==
  ASSUME NEW m, NEW T, NEW way, State(m, T, way), NEW va \in Vas, NEW n \in 1..(Depth - 1),
         NEW q, Finds(m, T, way, va, n - 1, q)
  PROVE  Finds(m, T, way, va, n, NextDown(m, way, q, va[n]))
<1> DEFINE i == va[n]
           r == NextDown(m, way, q, i)
<1>1. Tree(m, T, way) /\ (\A t \in T : t # NULL) /\ (\A t \in T : way[t] \in Seq(Index))
  BY Parts, Bounds
<1>2. va \in Address /\ n \in 1..Depth
  BY PageTablesAssumption DEF Address
<1>3. /\ Prefix(va, n - 1) \in Seq(Index) /\ i \in Index
      /\ Prefix(va, n) = Append(Prefix(va, n - 1), i)
  BY <1>2, PrefixStep
<1> HIDE DEF i
<1>4. ASSUME NEW u \in T, way[u] = Prefix(va, n)
      PROVE  q \in T /\ Present(m.tab[q][i]) /\ m.tab[q][i].page = u /\ ~IsLeaf(m, way, q, i)
  <2>1. way[u] = Append(Prefix(va, n - 1), i)
    BY <1>3, <1>4
  <2>2. PICK t \in T : way[t] = Prefix(va, n - 1) /\ Present(m.tab[t][i]) /\ m.tab[t][i].page = u
                      /\ ~IsLeaf(m, way, t, i)
    BY <1>3, <2>1, NextTable
  <2>3. q \in T /\ way[q] = way[t]
    BY <2>2 DEF Finds
  <2>4. q = t
    BY <1>1, <2>3 DEF Tree
  <2> QED BY <2>2, <2>4
<1>5. CASE r = NULL
  <2>1. q = NULL \/ ~Present(m.tab[q][i]) \/ IsLeaf(m, way, q, i)
    BY <1>5 DEF NextDown, Present
  <2>2. \A u \in T : way[u] # Prefix(va, n)
    BY <1>1, <1>4, <2>1
  <2> QED BY <1>5, <2>2 DEF Finds, r, i
<1>6. CASE r # NULL
  <2>1. q # NULL /\ Present(m.tab[q][i]) /\ ~IsLeaf(m, way, q, i) /\ r = m.tab[q][i].page
    BY <1>6 DEF NextDown
  <2>2. q \in T /\ way[q] = Prefix(va, n - 1)
    BY <2>1 DEF Finds
  <2>3. r \in T /\ way[r] = Append(way[q], i)
    <3>1. i \in Index /\ EntryOK(m, T, way, q, i)
      BY <1>1, <1>3, <2>1, <2>2 DEF Tree
    <3> QED BY <2>1, <3>1 DEF EntryOK
  <2> HIDE DEF r
  <2>4. way[r] = Prefix(va, n)
    BY <1>3, <2>2, <2>3
  <2> QED BY <2>3, <2>4 DEF Finds, r, i
<1> QED BY <1>5, <1>6

\* Where the leaf for an address is: in the directory or in the page table.
LEMMA LeafPlaces ==
  ASSUME NEW m, NEW T, NEW way, State(m, T, way), NEW va \in Vas, NEW t \in T, NEW i \in Index
  PROVE  LeafFor(m, T, way, t, i, va) <=>
            \/ /\ way[t] = Prefix(va, Depth - 2) /\ i = va[Depth - 1]
               /\ Present(m.tab[t][i]) /\ m.tab[t][i].huge
            \/ /\ way[t] = Prefix(va, Depth - 1) /\ i = va[Depth]
               /\ Present(m.tab[t][i])
<1>1. Tree(m, T, way) /\ Len(way[t]) \in Nat /\ Len(way[t]) < Depth
  BY Parts
<1>2. /\ Depth - 1 \in 1..Depth /\ Depth \in 1..Depth
      /\ (Depth - 1) - 1 = Depth - 2 /\ (Depth - 2) + 1 = Depth - 1 /\ (Depth - 1) + 1 = Depth
  BY Bounds
<1>3. ASSUME LeafFor(m, T, way, t, i, va)
      PROVE  \/ /\ way[t] = Prefix(va, Depth - 2) /\ i = va[Depth - 1]
                /\ Present(m.tab[t][i]) /\ m.tab[t][i].huge
             \/ /\ way[t] = Prefix(va, Depth - 1) /\ i = va[Depth]
                /\ Present(m.tab[t][i])
  <2>1. IsLeaf(m, way, t, i) /\ Prefix(va, Len(way[t]) + 1) = Append(way[t], i)
    BY <1>3 DEF LeafFor
  <2>2. way[t] = Prefix(va, Len(way[t])) /\ i = va[Len(way[t]) + 1] /\ Present(m.tab[t][i])
    BY <2>1, OnTheWay DEF IsLeaf
  <2>3. EntryOK(m, T, way, t, i)
    BY <1>1, <2>2 DEF Tree
  <2>4. (m.tab[t][i].huge /\ Len(way[t]) = Depth - 2) \/ Len(way[t]) = Depth - 1
    BY <2>1, <2>3 DEF IsLeaf, EntryOK
  <2> QED BY <1>2, <2>2, <2>4
<1>4. ASSUME \/ /\ way[t] = Prefix(va, Depth - 2) /\ i = va[Depth - 1]
                /\ Present(m.tab[t][i]) /\ m.tab[t][i].huge
             \/ /\ way[t] = Prefix(va, Depth - 1) /\ i = va[Depth]
                /\ Present(m.tab[t][i])
      PROVE  LeafFor(m, T, way, t, i, va)
  <2>1. ASSUME NEW n \in 1..Depth, way[t] = Prefix(va, n - 1), i = va[n], IsLeaf(m, way, t, i)
        PROVE  LeafFor(m, T, way, t, i, va)
    <3>1. Prefix(va, Len(way[t]) + 1) = Append(way[t], va[n])
      BY <2>1, OnTheWay
    <3> QED BY <2>1, <3>1 DEF LeafFor
  <2>2. CASE way[t] = Prefix(va, Depth - 2) /\ i = va[Depth - 1] /\ Present(m.tab[t][i]) /\ m.tab[t][i].huge
    <3>1. IsLeaf(m, way, t, i)
      BY <2>2 DEF IsLeaf
    <3> QED BY <1>2, <2>1, <2>2, <3>1
  <2>3. CASE way[t] = Prefix(va, Depth - 1) /\ i = va[Depth] /\ Present(m.tab[t][i])
    <3>1. Len(way[t]) = Depth - 1
      BY <1>2, <2>3, OnTheWay
    <3>2. IsLeaf(m, way, t, i)
      BY <2>3, <3>1 DEF IsLeaf
    <3> QED BY <1>2, <2>1, <2>3, <3>2
  <2> QED BY <1>4, <2>2, <2>3
<1> QED BY <1>3, <1>4

\* An address has at most one leaf.
LEMMA OneLeaf ==
  ASSUME NEW m, NEW T, NEW way, State(m, T, way), NEW va \in Vas,
         NEW t, NEW i, LeafFor(m, T, way, t, i, va), NEW u, NEW j, LeafFor(m, T, way, u, j, va)
  PROVE  t = u /\ i = j
<1>1. Tree(m, T, way)
  BY Parts
<1>2. t \in T /\ i \in Index /\ u \in T /\ j \in Index
  BY DEF LeafFor
<1> DEFINE High(x, k) == /\ way[x] = Prefix(va, Depth - 2) /\ k = va[Depth - 1]
                         /\ Present(m.tab[x][k]) /\ m.tab[x][k].huge
           Low(x, k) == /\ way[x] = Prefix(va, Depth - 1) /\ k = va[Depth]
                        /\ Present(m.tab[x][k])
<1>3. (High(t, i) \/ Low(t, i)) /\ (High(u, j) \/ Low(u, j))
  <2>1. High(t, i) \/ Low(t, i)
    BY <1>2, LeafPlaces
  <2>2. High(u, j) \/ Low(u, j)
    BY <1>2, LeafPlaces
  <2> QED BY <2>1, <2>2
<1>4. ASSUME NEW x \in T, NEW k \in Index, NEW y \in T, NEW l \in Index, High(x, k), Low(y, l)
      PROVE  FALSE
  <2>1. Depth - 1 \in 1..(Depth - 1) /\ (Depth - 1) - 1 = Depth - 2
    BY Bounds
  <2>2. Finds(m, T, way, va, (Depth - 1) - 1, x)
    BY <1>4, <2>1 DEF Finds
  <2>3. Finds(m, T, way, va, Depth - 1, NextDown(m, way, x, va[Depth - 1]))
    BY <2>1, <2>2, FindsNext
  <2>4. IsLeaf(m, way, x, va[Depth - 1])
    BY <1>4 DEF IsLeaf
  <2>5. NextDown(m, way, x, va[Depth - 1]) = NULL
    BY <2>4 DEF NextDown
  <2>6. NULL \notin T
    BY Parts, Bounds
  <2> QED BY <1>4, <2>3, <2>5, <2>6 DEF Finds
<1>5. CASE High(t, i) /\ High(u, j)
  BY <1>1, <1>2, <1>5 DEF Tree
<1>6. CASE Low(t, i) /\ Low(u, j)
  BY <1>1, <1>2, <1>6 DEF Tree
<1> HIDE DEF High, Low
<1> QED BY <1>2, <1>3, <1>4, <1>5, <1>6

\* An entry above the directory maps nothing itself.
LEMMA Interior ==
  ASSUME NEW m, NEW T, NEW way, State(m, T, way), NEW t \in T, NEW i \in Index,
         Len(way[t]) < Depth - 2
  PROVE  ~IsLeaf(m, way, t, i)
<1>1. Tree(m, T, way) /\ Len(way[t]) \in Nat
  BY Parts
<1>2. Present(m.tab[t][i]) => (m.tab[t][i].huge => Len(way[t]) = Depth - 2)
  BY <1>1 DEF Tree, EntryOK
<1> QED BY <1>1, <1>2, Bounds DEF IsLeaf

\* The walk starts at the root.
LEMMA FindsRoot ==
  ASSUME NEW m, NEW T, NEW way, State(m, T, way), NEW va \in Vas
  PROVE  Finds(m, T, way, va, 0, m.root)
<1>1. m.root \in T /\ way[m.root] = <<>>
  BY Parts DEF Tree
<1>2. Prefix(va, 0) = <<>>
  BY PrefixEnds, PageTablesAssumption DEF Address
<1> QED BY <1>1, <1>2 DEF Finds

\* A lookup's step down changes nothing.
LEMMA LookupStep ==
  ASSUME NEW m, NEW q, NEW i
  PROVE  entry_in_table([m |-> m, table |-> q], i, FALSE)
           = [m |-> m, table |-> IF Present(m.tab[q][i]) THEN m.tab[q][i].page ELSE NULL]
BY DEF entry_in_table

\* A lookup's way down finds the directory.
LEMMA DescendFinds ==
  ASSUME NEW m, NEW T, NEW way, State(m, T, way), NEW va \in Vas
  PROVE  \E q : /\ Descend([m |-> m, table |-> m.root], va, FALSE) = [m |-> m, table |-> q]
                /\ Finds(m, T, way, va, Depth - 2, q)
<1> DEFINE w == [m |-> m, table |-> m.root]
<1>1. PICK f : IsDescent(f, w, va, FALSE) /\ Descend(w, va, FALSE) = f[Depth - 2]
  BY DescentExists
<1>2. /\ f[0] = [m |-> m, table |-> m.root]
      /\ \A n \in 1..(Depth - 2) : f[n] = DescendFrom(f[n - 1], va[n], FALSE)
  BY <1>1 DEF IsDescent
<1> HIDE DEF w
<1> DEFINE FoundUpTo(n) == \E q : f[n] = [m |-> m, table |-> q] /\ Finds(m, T, way, va, n, q)
           Bad == {n \in 0..(Depth - 2) : ~FoundUpTo(n)}
<1>3. FoundUpTo(0)
  BY <1>2, FindsRoot
<1>4. ASSUME NEW n \in 1..(Depth - 2), FoundUpTo(n - 1) PROVE FoundUpTo(n)
  <2>1. PICK q : f[n - 1] = [m |-> m, table |-> q] /\ Finds(m, T, way, va, n - 1, q)
    BY <1>4
  <2>2. n \in 1..(Depth - 1) /\ n \in 1..Depth /\ n - 1 < Depth - 2
    BY Bounds
  <2>3. Finds(m, T, way, va, n, NextDown(m, way, q, va[n]))
    BY <2>1, <2>2, FindsNext
  <2>4. f[n] = DescendFrom([m |-> m, table |-> q], va[n], FALSE)
    BY <1>2, <2>1
  <2>5. CASE q = NULL
    <3>1. f[n] = [m |-> m, table |-> NULL] /\ NextDown(m, way, q, va[n]) = NULL
      BY <2>4, <2>5 DEF DescendFrom, NextDown
    <3> QED BY <2>3, <3>1
  <2>6. CASE q # NULL
    <3>1. q \in T /\ Len(way[q]) = n - 1 /\ va[n] \in Index
      BY <2>1, <2>2, <2>6, OnTheWay DEF Finds
    <3>2. ~IsLeaf(m, way, q, va[n])
      BY <2>2, <3>1, Interior
    <3>3. f[n] = entry_in_table([m |-> m, table |-> q], va[n], FALSE)
      BY <2>4, <2>6 DEF DescendFrom
    <3>4. f[n] = [m |-> m, table |-> NextDown(m, way, q, va[n])]
      <4> DEFINE r == IF Present(m.tab[q][va[n]]) THEN m.tab[q][va[n]].page ELSE NULL
      <4>1. f[n] = [m |-> m, table |-> r]
        BY <3>3, LookupStep
      <4>2. r = NextDown(m, way, q, va[n])
        BY <2>6, <3>2 DEF NextDown
      <4> HIDE DEF r
      <4> QED BY <4>1, <4>2
    <3> QED BY <2>3, <3>4
  <2> QED BY <2>5, <2>6
<1> HIDE DEF FoundUpTo
<1>5. Bad = {}
  <2> SUFFICES ASSUME Bad # {} PROVE FALSE
    OBVIOUS
  <2>1. PICK n \in Bad : \A y \in Bad : n <= y
    <3>1. Bad \in SUBSET Nat
      BY Bounds
    <3> HIDE DEF Bad
    <3> QED BY <3>1, LeastExists
  <2>2. n # 0
    BY <1>3, <2>1
  <2>3. n \in 1..(Depth - 2) /\ n - 1 \in 0..(Depth - 2) /\ n - 1 \notin Bad
    BY <2>1, <2>2, Bounds
  <2> QED BY <1>4, <2>1, <2>3
<1>6. FoundUpTo(Depth - 2)
  BY <1>5, Bounds
<1> QED BY <1>1, <1>6 DEF FoundUpTo, w

\* Nothing is mapped at va.
NoLeaf(m, T, way, va) == \A t \in T, i \in Index : ~LeafFor(m, T, way, t, i, va)

\* From the directory q the leaf for va is one or two steps away, through its
\* entry i and entry j of the page table r.
LeadsOn(m, T, way, va, q, i, j) ==
    LET r == m.tab[q][i].page
    IN /\ q = NULL => NoLeaf(m, T, way, va)
       /\ q # NULL /\ ~Present(m.tab[q][i]) => NoLeaf(m, T, way, va)
       /\ q # NULL /\ Present(m.tab[q][i]) /\ m.tab[q][i].huge => LeafFor(m, T, way, q, i, va)
       /\ q # NULL /\ Present(m.tab[q][i]) /\ ~m.tab[q][i].huge =>
            /\ r \in T /\ r # NULL
            /\ Present(m.tab[r][j]) => LeafFor(m, T, way, r, j, va)
            /\ ~Present(m.tab[r][j]) => NoLeaf(m, T, way, va)

\* The walk that finds the directory can go on.
LEMMA FromDirectory ==
  ASSUME NEW m, NEW T, NEW way, State(m, T, way), NEW va \in Vas, NEW q,
         Finds(m, T, way, va, Depth - 2, q)
  PROVE  LeadsOn(m, T, way, va, q, va[Depth - 1], va[Depth])
<1> DEFINE i == va[Depth - 1]
           j == va[Depth]
<1>1. Tree(m, T, way) /\ NULL \notin T
  BY Parts, Bounds
<1>2. /\ Depth - 1 \in 1..Depth /\ Depth \in 1..Depth /\ Depth - 1 \in 1..(Depth - 1)
      /\ (Depth - 1) - 1 = Depth - 2 /\ Depth - 2 # Depth - 1
  BY Bounds
<1>3. i \in Index /\ j \in Index
  BY <1>2, PrefixStep, PageTablesAssumption DEF Address
<1> DEFINE r == NextDown(m, way, q, i)
<1>4. Finds(m, T, way, va, Depth - 1, r)
  BY <1>2, FindsNext
<1> HIDE DEF r
\* A leaf is at the entry of the directory, or at that of the table below.
<1>5. ASSUME NEW t \in T, NEW k \in Index, LeafFor(m, T, way, t, k, va)
      PROVE  \/ t = q /\ k = i /\ Present(m.tab[q][i]) /\ m.tab[q][i].huge
             \/ t = r /\ k = j /\ r # NULL /\ Present(m.tab[r][j])
  <2>1. \/ /\ way[t] = Prefix(va, Depth - 2) /\ k = va[Depth - 1]
           /\ Present(m.tab[t][k]) /\ m.tab[t][k].huge
        \/ /\ way[t] = Prefix(va, Depth - 1) /\ k = va[Depth]
           /\ Present(m.tab[t][k])
    BY <1>5, LeafPlaces
  <2>2. way[t] = Prefix(va, Depth - 2) => t = q
    BY <1>1 DEF Tree, Finds
  <2>3. way[t] = Prefix(va, Depth - 1) => t = r
    BY <1>1, <1>4 DEF Tree, Finds
  <2> QED BY <1>1, <2>1, <2>2, <2>3
<1>6. ASSUME q = NULL PROVE NoLeaf(m, T, way, va)
  <2>1. r = NULL /\ q \notin T
    BY <1>1, <1>6 DEF r, NextDown
  <2> QED BY <1>5, <2>1 DEF NoLeaf
<1>7. ASSUME q # NULL PROVE q \in T /\ way[q] = Prefix(va, Depth - 2) /\ Len(way[q]) = Depth - 2
  <2>1. q \in T /\ way[q] = Prefix(va, (Depth - 1) - 1)
    BY <1>2, <1>7 DEF Finds
  <2> QED BY <1>2, <2>1, OnTheWay
<1>8. ASSUME q # NULL, ~Present(m.tab[q][i]) PROVE NoLeaf(m, T, way, va)
  <2>1. r = NULL
    BY <1>8 DEF r, NextDown
  <2> QED BY <1>5, <1>8, <2>1 DEF NoLeaf
<1>9. ASSUME q # NULL, Present(m.tab[q][i]), m.tab[q][i].huge PROVE LeafFor(m, T, way, q, i, va)
  BY <1>3, <1>7, <1>9, LeafPlaces
<1>10. ASSUME q # NULL, Present(m.tab[q][i]), ~m.tab[q][i].huge
       PROVE  /\ r = m.tab[q][i].page /\ r \in T /\ r # NULL /\ way[r] = Prefix(va, Depth - 1)
              /\ Present(m.tab[r][j]) => LeafFor(m, T, way, r, j, va)
              /\ ~Present(m.tab[r][j]) => NoLeaf(m, T, way, va)
  <2>1. ~IsLeaf(m, way, q, i)
    BY <1>2, <1>7, <1>10 DEF IsLeaf
  <2>2. r = m.tab[q][i].page /\ r # NULL
    BY <1>10, <2>1 DEF r, NextDown, Present
  <2>3. r \in T /\ way[r] = Prefix(va, Depth - 1)
    BY <1>4, <2>2 DEF Finds
  <2>4. Present(m.tab[r][j]) => LeafFor(m, T, way, r, j, va)
    BY <1>3, <2>3, LeafPlaces
  <2>5. ~Present(m.tab[r][j]) => NoLeaf(m, T, way, va)
    BY <1>5, <1>10 DEF NoLeaf
  <2> QED BY <2>2, <2>3, <2>4, <2>5
<1> HIDE DEF i, j
<1>11. LeadsOn(m, T, way, va, q, i, j)
  BY <1>6, <1>8, <1>9, <1>10 DEF LeadsOn
<1> QED BY <1>11 DEF i, j

\* page_walk, looking up an address, changes nothing and finds its leaf.
LEMMA Lookup ==
  ASSUME NEW m, NEW T, NEW way, State(m, T, way), NEW va \in Vas
  PROVE  LET w == page_walk(m, va, "lookup")
         IN /\ w.m = m
            /\ \/ w.table = NULL /\ NoLeaf(m, T, way, va)
               \/ w.table # NULL /\ LeafFor(m, T, way, w.table, w.index, va)
<1> DEFINE i == va[Depth - 1]
           j == va[Depth]
           s == Descend([m |-> m, table |-> m.root], va, FALSE)
           p == LastStep(s, va, "lookup")
           w == page_walk(m, va, "lookup")
<1>1. PICK q : s = [m |-> m, table |-> q] /\ Finds(m, T, way, va, Depth - 2, q)
  BY DescendFinds
<1>2. w = Result(p, "lookup")
  BY DEF page_walk
<1>3. /\ q = NULL => NoLeaf(m, T, way, va)
      /\ q # NULL =>
           /\ ~Present(m.tab[q][i]) => NoLeaf(m, T, way, va)
           /\ Present(m.tab[q][i]) /\ m.tab[q][i].huge => LeafFor(m, T, way, q, i, va)
           /\ Present(m.tab[q][i]) /\ ~m.tab[q][i].huge =>
                LET r == m.tab[q][i].page
                IN /\ r \in T /\ r # NULL
                   /\ Present(m.tab[r][j]) => LeafFor(m, T, way, r, j, va)
                   /\ ~Present(m.tab[r][j]) => NoLeaf(m, T, way, va)
  <2>1. LeadsOn(m, T, way, va, q, va[Depth - 1], va[Depth])
    BY <1>1, FromDirectory
  <2> HIDE DEF i, j
  <2>2. LeadsOn(m, T, way, va, q, i, j)
    BY <2>1 DEF i, j
  <2> QED BY <2>2 DEF LeadsOn
<1>4. p = IF q = NULL \/ m.tab[q][i].huge THEN [m |-> m, table |-> q, index |-> i]
          ELSE At(entry_in_table([m |-> m, table |-> q], i, FALSE), j)
  <2>1. p = LastStep([m |-> m, table |-> q], va, "lookup")
    BY <1>1
  <2> HIDE DEF p
  <2>2. LastStep([m |-> m, table |-> q], va, "lookup")
          = IF q = NULL \/ m.tab[q][i].huge THEN At([m |-> m, table |-> q], i)
            ELSE At(entry_in_table([m |-> m, table |-> q], i, FALSE), j)
    BY DEF LastStep
  <2>3. At([m |-> m, table |-> q], i) = [m |-> m, table |-> q, index |-> i]
    BY DEF At
  <2> QED BY <2>1, <2>2, <2>3
<1> HIDE DEF w, p, i, j
<1>5. CASE q = NULL
  <2>1. p = [m |-> m, table |-> q, index |-> i]
    BY <1>4, <1>5
  <2>2. w = p
    BY <1>2, <1>5, <2>1 DEF Result
  <2> QED BY <1>3, <1>5, <2>1, <2>2 DEF w
<1>6. CASE q # NULL /\ m.tab[q][i].huge
  <2>1. p = [m |-> m, table |-> q, index |-> i]
    BY <1>4, <1>6
  <2>2. w = IF Present(m.tab[q][i]) THEN p ELSE [p EXCEPT !.table = NULL]
    BY <1>2, <1>6, <2>1 DEF Result
  <2>3. CASE Present(m.tab[q][i])
    BY <1>3, <1>6, <2>1, <2>2, <2>3 DEF w
  <2>4. CASE ~Present(m.tab[q][i])
    BY <1>3, <1>6, <2>1, <2>2, <2>4 DEF w
  <2> QED BY <2>3, <2>4
<1>7. CASE q # NULL /\ ~m.tab[q][i].huge
  <2> DEFINE r == IF Present(m.tab[q][i]) THEN m.tab[q][i].page ELSE NULL
  <2>1. p = [m |-> m, table |-> r, index |-> j]
    <3>1. entry_in_table([m |-> m, table |-> q], i, FALSE) = [m |-> m, table |-> r]
      BY LookupStep
    <3> HIDE DEF r
    <3>2. p = At([m |-> m, table |-> r], j)
      BY <1>4, <1>7, <3>1
    <3> QED BY <3>2 DEF At
  <2>2. w = IF r # NULL /\ ~Present(m.tab[r][j]) THEN [p EXCEPT !.table = NULL] ELSE p
    BY <1>2, <2>1 DEF Result
  <2>3. CASE ~Present(m.tab[q][i])
    <3>1. w = [m |-> m, table |-> NULL, index |-> j]
      BY <2>1, <2>2, <2>3
    <3> QED BY <1>3, <1>7, <2>3, <3>1 DEF w
  <2>4. CASE Present(m.tab[q][i])
    <3>1. /\ r \in T /\ r # NULL
          /\ Present(m.tab[r][j]) => LeafFor(m, T, way, r, j, va)
          /\ ~Present(m.tab[r][j]) => NoLeaf(m, T, way, va)
      BY <1>3, <1>7, <2>4
    <3> HIDE DEF r
    <3>2. CASE Present(m.tab[r][j])
      BY <2>1, <2>2, <3>1, <3>2 DEF w
    <3>3. CASE ~Present(m.tab[r][j])
      BY <2>1, <2>2, <3>1, <3>3 DEF w
    <3> QED BY <3>2, <3>3
  <2> QED BY <2>3, <2>4
<1> QED BY <1>5, <1>6, <1>7

\* The processor finds the page of the leaf for va, or nothing if there is none.
LEMMA Translates ==
  ASSUME NEW m, NEW T, NEW way, State(m, T, way), NEW va \in Vas
  PROVE  /\ NoLeaf(m, T, way, va) => Translation(m, va) = NULL
         /\ \A t, i : LeafFor(m, T, way, t, i, va) => Translation(m, va) = m.tab[t][i].page
<1> DEFINE i == va[Depth - 1]
           j == va[Depth]
<1>1. PICK f : IsTrace(f, m, va) /\ Translation(m, va) = EndOfTrace(f, m, va)
  BY TraceExists
<1>2. /\ f[1] = m.root
      /\ \A n \in 2..Depth : f[n] = Follow(m, f[n - 1], va[n - 1])
  BY <1>1 DEF IsTrace
<1> DEFINE Found(n) == Finds(m, T, way, va, n - 1, f[n])
           Bad == {n \in 1..(Depth - 1) : ~Found(n)}
<1>3. Found(1)
  BY <1>2, FindsRoot
<1>4. ASSUME NEW n \in 2..(Depth - 1), Found(n - 1) PROVE Found(n)
  <2> DEFINE k == n - 1
             q == f[k]
  <2>1. /\ k \in 1..(Depth - 1) /\ k \in 1..Depth /\ k - 1 < Depth - 2 /\ n \in 2..Depth
        /\ k = n - 1
    BY Bounds
  <2> HIDE DEF k
  <2>2. Finds(m, T, way, va, k - 1, q)
    BY <1>4, <2>1
  <2>3. Finds(m, T, way, va, k, NextDown(m, way, q, va[k]))
    BY <2>1, <2>2, FindsNext
  <2>4. f[n] = Follow(m, q, va[k])
    BY <1>2, <2>1
  <2> HIDE DEF q
  <2>5. CASE q = NULL
    <3>1. f[n] = NextDown(m, way, q, va[k])
      BY <2>4, <2>5 DEF Follow, NextDown
    <3> QED BY <2>1, <2>3, <3>1
  <2>6. CASE q # NULL
    <3>1. q \in T /\ Len(way[q]) = k - 1 /\ va[k] \in Index
      BY <2>1, <2>2, <2>6, OnTheWay DEF Finds
    <3>2. ~IsLeaf(m, way, q, va[k])
      BY <2>1, <3>1, Interior
    <3>3. f[n] = m.tab[q][va[k]].page
      BY <2>4, <2>6 DEF Follow
    <3>4. f[n] = NextDown(m, way, q, va[k])
      BY <2>6, <3>2, <3>3 DEF NextDown, Present
    <3> QED BY <2>1, <2>3, <3>4
  <2> QED BY <2>5, <2>6
<1> HIDE DEF Found
<1>5. Bad = {}
  <2> SUFFICES ASSUME Bad # {} PROVE FALSE
    OBVIOUS
  <2>1. PICK n \in Bad : \A y \in Bad : n <= y
    <3>1. Bad \in SUBSET Nat
      BY Bounds
    <3> HIDE DEF Bad
    <3> QED BY <3>1, LeastExists
  <2>2. n # 1
    BY <1>3, <2>1
  <2>3. n \in 2..(Depth - 1) /\ n - 1 \in 1..(Depth - 1) /\ n - 1 \notin Bad
    BY <2>1, <2>2, Bounds
  <2> QED BY <1>4, <2>1, <2>3
<1> DEFINE q == f[Depth - 1]
<1>6. Finds(m, T, way, va, Depth - 2, q)
  <2>1. Depth - 1 \in 1..(Depth - 1) /\ (Depth - 1) - 1 = Depth - 2
    BY Bounds
  <2>2. Found(Depth - 1)
    BY <1>5, <2>1
  <2> QED BY <2>1, <2>2 DEF Found
<1>7. /\ q = NULL => NoLeaf(m, T, way, va)
      /\ q # NULL =>
           /\ ~Present(m.tab[q][i]) => NoLeaf(m, T, way, va)
           /\ Present(m.tab[q][i]) /\ m.tab[q][i].huge => LeafFor(m, T, way, q, i, va)
           /\ Present(m.tab[q][i]) /\ ~m.tab[q][i].huge =>
                LET r == m.tab[q][i].page
                IN /\ r \in T /\ r # NULL
                   /\ Present(m.tab[r][j]) => LeafFor(m, T, way, r, j, va)
                   /\ ~Present(m.tab[r][j]) => NoLeaf(m, T, way, va)
  <2>1. LeadsOn(m, T, way, va, q, va[Depth - 1], va[Depth])
    BY <1>6, FromDirectory
  <2> HIDE DEF i, j
  <2>2. LeadsOn(m, T, way, va, q, i, j)
    BY <2>1 DEF i, j
  <2> QED BY <2>2 DEF LeadsOn
<1>8. /\ f[Depth] = IF q = NULL THEN NULL ELSE m.tab[q][i].page
      /\ Translation(m, va)
           = IF q # NULL /\ m.tab[q][i].huge THEN f[Depth]
             ELSE IF f[Depth] = NULL THEN NULL ELSE m.tab[f[Depth]][j].page
  <2>1. Depth \in 2..Depth
    BY Bounds
  <2> QED BY <1>1, <1>2, <2>1 DEF EndOfTrace, Follow
<1> DEFINE p == Translation(m, va)
<1> HIDE DEF p, q, i, j
<1>9. \/ p = NULL /\ NoLeaf(m, T, way, va)
      \/ \E t, k : LeafFor(m, T, way, t, k, va) /\ p = m.tab[t][k].page
  <2>1. CASE q = NULL
    BY <1>7, <1>8, <2>1 DEF p
  <2>2. CASE q # NULL /\ ~Present(m.tab[q][i])
    <3>1. f[Depth] = NULL
      BY <1>8, <2>2 DEF Present
    <3> QED BY <1>7, <1>8, <2>2, <3>1 DEF p
  <2>3. CASE q # NULL /\ Present(m.tab[q][i]) /\ m.tab[q][i].huge
    BY <1>7, <1>8, <2>3 DEF p
  <2>4. CASE q # NULL /\ Present(m.tab[q][i]) /\ ~m.tab[q][i].huge
    <3> DEFINE r == m.tab[q][i].page
    <3>1. /\ r # NULL
          /\ Present(m.tab[r][j]) => LeafFor(m, T, way, r, j, va)
          /\ ~Present(m.tab[r][j]) => NoLeaf(m, T, way, va)
          /\ p = m.tab[r][j].page
      BY <1>7, <1>8, <2>4 DEF p
    <3> HIDE DEF r
    <3>2. CASE Present(m.tab[r][j])
      BY <3>1, <3>2
    <3>3. CASE ~Present(m.tab[r][j])
      BY <3>1, <3>3 DEF Present
    <3> QED BY <3>2, <3>3
  <2> QED BY <2>1, <2>2, <2>3, <2>4
<1>10. \A t, k : LeafFor(m, T, way, t, k, va) => t \in T /\ k \in Index /\ m.tab[t][k].page # NULL
  BY DEF LeafFor, IsLeaf, Present
<1>11. ASSUME NEW t, NEW k, LeafFor(m, T, way, t, k, va) PROVE p = m.tab[t][k].page
  <2>1. ~NoLeaf(m, T, way, va)
    BY <1>10, <1>11 DEF NoLeaf
  <2>2. PICK u, l : LeafFor(m, T, way, u, l, va) /\ p = m.tab[u][l].page
    BY <1>9, <2>1
  <2>3. t = u /\ k = l
    BY <1>11, <2>2, OneLeaf
  <2> QED BY <2>2, <2>3
<1>12. ASSUME NoLeaf(m, T, way, va) PROVE p = NULL
  BY <1>9, <1>10, <1>12 DEF NoLeaf
<1> QED BY <1>11, <1>12 DEF p

-----------------------------------------------------------------------------
(* Removing a page. *)

\* RemoveEntry drops the entry that the walk w has found.
LEMMA RemoveFields ==
  ASSUME NEW m \in Memory, NEW t \in Pages, NEW i \in Index, NEW va, NEW w,
         w.m = m, w.table = t, w.index = i,
         NEW q \in Pages, m.tab[t][i].page = q, m.ref[q] # 0,
         FreedIn(m, q, page_free(m.fl, 0, q))
  PROVE  RemoveEntry(w, va) \in Memory /\ DropsLeaf(m, RemoveEntry(w, va), t, i, va)
<1> DEFINE fl == page_free(m.fl, 0, q)
           x == page_decref(m, q)
           n == RemoveEntry(w, va)
           E == [page : Ptr, huge : BOOLEAN]
<1>1. /\ m.fl \in FreeList /\ m.ref \in [Pages -> 0..MaxRef] /\ m.lent \subseteq Pages
      /\ m.tab \in [Pages -> [Index -> E]]
      /\ m.root \in Pages /\ m.tlb \subseteq [at : Seq(Index), page : Pages]
  BY Fields
<1>2. m = [fl |-> m.fl, ref |-> m.ref, lent |-> m.lent, tab |-> m.tab, root |-> m.root,
           tlb |-> m.tlb]
  BY DEF Memory
<1>3. (m.ref[q] - 1) % Uint16 = m.ref[q] - 1 /\ m.ref[q] \in 1..MaxRef
  <2>1. m.ref[q] \in 1..MaxRef
    BY <1>1, Bounds
  <2> QED BY <2>1, Decrement
<1>4. t # NULL /\ EntryAt(w).page = q
  BY Bounds DEF EntryAt
<1>5. n = tlb_invalidate(SetEntry(x, t, i, Empty), va)
  BY <1>4 DEF RemoveEntry
<1> HIDE DEF n, x
<1>6. /\ n.fl = x.fl /\ n.ref = x.ref /\ n.lent = x.lent /\ n.root = x.root
      /\ n.tab = [x.tab EXCEPT ![t][i] = Empty]
      /\ n.tlb = {c \in x.tlb : ~Covers(c.at, va)}
      /\ n = [fl |-> n.fl, ref |-> n.ref, lent |-> n.lent, tab |-> n.tab, root |-> n.root,
              tlb |-> n.tlb]
      /\ x.tab = m.tab /\ x.root = m.root /\ x.tlb = m.tlb
      /\ x.ref = [m.ref EXCEPT ![q] = m.ref[q] - 1]
      /\ IF m.ref[q] = 1 THEN x.fl = fl /\ x.lent = m.lent \ {q}
                         ELSE x.fl = m.fl /\ x.lent = m.lent
  <2>1. CASE m.ref[q] = 1
    <3>1. x = [m EXCEPT !.ref[q] = 0, !.fl = fl, !.lent = @ \ {q}]
      BY <1>3, <2>1 DEF x, page_decref
    <3> HIDE DEF fl
    <3>2. /\ x.tab = m.tab /\ x.root = m.root /\ x.tlb = m.tlb /\ x.fl = fl /\ x.lent = m.lent \ {q}
          /\ x.ref = [m.ref EXCEPT ![q] = 0]
          /\ x = [fl |-> x.fl, ref |-> x.ref, lent |-> x.lent, tab |-> x.tab, root |-> x.root,
                  tlb |-> x.tlb]
      BY <1>2, <3>1
    <3>3. /\ n.fl = x.fl /\ n.ref = x.ref /\ n.lent = x.lent /\ n.root = x.root
          /\ n.tab = [x.tab EXCEPT ![t][i] = Empty]
          /\ n.tlb = {c \in x.tlb : ~Covers(c.at, va)}
          /\ n = [fl |-> n.fl, ref |-> n.ref, lent |-> n.lent, tab |-> n.tab, root |-> n.root,
                  tlb |-> n.tlb]
      BY <1>5, <3>2 DEF tlb_invalidate, SetEntry
    <3>4. 0 = m.ref[q] - 1
      BY <2>1
    <3> QED BY <2>1, <3>2, <3>3, <3>4
  <2>2. CASE m.ref[q] # 1
    <3>1. m.ref[q] - 1 # 0
      BY <1>3, <2>2
    <3>2. x = [m EXCEPT !.ref[q] = m.ref[q] - 1]
      BY <1>3, <3>1 DEF x, page_decref
    <3>3. /\ x.tab = m.tab /\ x.root = m.root /\ x.tlb = m.tlb /\ x.fl = m.fl /\ x.lent = m.lent
          /\ x.ref = [m.ref EXCEPT ![q] = m.ref[q] - 1]
          /\ x = [fl |-> x.fl, ref |-> x.ref, lent |-> x.lent, tab |-> x.tab, root |-> x.root,
                  tlb |-> x.tlb]
      BY <1>2, <3>2
    <3>4. /\ n.fl = x.fl /\ n.ref = x.ref /\ n.lent = x.lent /\ n.root = x.root
          /\ n.tab = [x.tab EXCEPT ![t][i] = Empty]
          /\ n.tlb = {c \in x.tlb : ~Covers(c.at, va)}
          /\ n = [fl |-> n.fl, ref |-> n.ref, lent |-> n.lent, tab |-> n.tab, root |-> n.root,
                  tlb |-> n.tlb]
      BY <1>5, <3>3 DEF tlb_invalidate, SetEntry
    <3> QED BY <2>2, <3>3, <3>4
  <2> QED BY <2>1, <2>2
<1> HIDE DEF fl
<1>7. fl \in FreeList
  BY DEF FreedIn, fl
<1>8. n.fl \in FreeList /\ n.lent \subseteq Pages
  BY <1>1, <1>6, <1>7
<1>9. /\ n.tab \in [Pages -> [Index -> E]]
      /\ \A u \in Pages, k \in Index :
           n.tab[u][k] = IF u = t /\ k = i THEN Empty ELSE m.tab[u][k]
  <2>1. Empty \in E
    BY DEF Empty, Ptr
  <2>2. n.tab = [m.tab EXCEPT ![t][i] = Empty]
    BY <1>6
  <2> HIDE DEF E
  <2>3. n.tab \in [Pages -> [Index -> E]]
    BY <1>1, <2>1, <2>2
  <2>4. \A u \in Pages, k \in Index :
          n.tab[u][k] = IF u = t /\ k = i THEN Empty ELSE m.tab[u][k]
    BY <1>1, <2>2
  <2> QED BY <2>3, <2>4
<1>10. /\ n.ref \in [Pages -> 0..MaxRef]
       /\ \A p \in Pages : n.ref[p] = IF p = q THEN m.ref[p] - 1 ELSE m.ref[p]
  <2>1. m.ref[q] - 1 \in 0..MaxRef
    BY <1>3, Bounds
  <2>2. n.ref = [m.ref EXCEPT ![q] = m.ref[q] - 1]
    BY <1>6
  <2> QED BY <1>1, <2>1, <2>2
<1>11. n \in Memory
  <2>1. n.root \in Pages /\ n.tlb \subseteq [at : Seq(Index), page : Pages]
    BY <1>1, <1>6
  <2> QED BY <1>6, <1>8, <1>9, <1>10, <2>1 DEF Memory
<1>12. DropsLeaf(m, n, t, i, va)
  BY <1>6, <1>9, <1>10 DEF DropsLeaf, fl
<1> QED BY <1>11, <1>12 DEF n

\* page_remove drops the leaf for va, if there is one.
LEMMA Removed ==
  ASSUME NEW m, NEW T, NEW way, State(m, T, way), NEW va \in Vas
  PROVE  /\ NoLeaf(m, T, way, va) => page_remove(m, va) = m
         /\ \A t, i : LeafFor(m, T, way, t, i, va) =>
              page_remove(m, va) \in Memory /\ DropsLeaf(m, page_remove(m, va), t, i, va)
<1> DEFINE w == page_walk(m, va, "lookup")
<1>1. /\ w.m = m
      /\ \/ w.table = NULL /\ NoLeaf(m, T, way, va)
         \/ w.table # NULL /\ LeafFor(m, T, way, w.table, w.index, va)
  BY Lookup
<1>2. page_remove(m, va) = RemoveEntry(w, va)
  BY DEF page_remove
<1> HIDE DEF w
<1>3. /\ m \in Memory /\ Tree(m, T, way) /\ Counted(m, T) /\ T \subseteq Pages
      /\ m.lent \subseteq Pages /\ NULL \notin Pages
  BY Parts, Bounds
<1>4. ASSUME NEW t, NEW i, LeafFor(m, T, way, t, i, va)
      PROVE  page_remove(m, va) \in Memory /\ DropsLeaf(m, page_remove(m, va), t, i, va)
  <2> DEFINE q == m.tab[t][i].page
  <2>1. t \in T /\ i \in Index /\ IsLeaf(m, way, t, i) /\ t \in Pages
    BY <1>3, <1>4 DEF LeafFor
  <2>2. w.table = t /\ w.index = i
    <3>1. ~NoLeaf(m, T, way, va)
      BY <1>4, <2>1 DEF NoLeaf
    <3>2. LeafFor(m, T, way, w.table, w.index, va)
      BY <1>1, <3>1
    <3> QED BY <1>4, <3>2, OneLeaf
  <2>3. q \in m.lent /\ q \in Pages
    BY <1>3, <2>1 DEF Tree, EntryOK, IsLeaf
  <2>4. m.ref[q] # 0
    <3>1. <<t, i>> \in EntriesTo(m, T, q)
      BY <2>1 DEF EntriesTo
    <3>2. IsFiniteSet(EntriesTo(m, T, q)) /\ Cardinality(EntriesTo(m, T, q)) \in Nat
      BY <1>3, EntriesFinite, FS_CardinalityType
    <3>3. Cardinality(EntriesTo(m, T, q)) # 0
      BY <3>1, <3>2, FS_EmptySet
    <3>4. m.ref[q] = Count(m, T, q)
      BY <1>3, <2>3 DEF Counted
    <3> QED BY <3>2, <3>3, <3>4 DEF Count
  <2>5. FreedIn(m, q, page_free(m.fl, 0, q))
    BY <2>3, Freed
  <2> HIDE DEF q
  <2>6. m.tab[t][i].page = q
    BY DEF q
  <2>7. RemoveEntry(w, va) \in Memory /\ DropsLeaf(m, RemoveEntry(w, va), t, i, va)
    BY <1>1, <1>3, <2>1, <2>2, <2>3, <2>4, <2>5, <2>6, RemoveFields
  <2> QED BY <1>2, <2>7
<1>5. ASSUME NoLeaf(m, T, way, va) PROVE page_remove(m, va) = m
  <2>1. w.table = NULL
    BY <1>1, <1>5 DEF NoLeaf, LeafFor
  <2> QED BY <1>1, <1>2, <2>1 DEF RemoveEntry
<1> QED BY <1>4, <1>5

-----------------------------------------------------------------------------
(* Walking down and creating the tables that are missing.                   *)

\* Growing twice is growing.
LEMMA GrownTransitive ==
  ASSUME NEW m, NEW T, NEW way, NEW m1, NEW T1, NEW way1, NEW m2, NEW T2, NEW way2,
         Grown(m, T, way, m1, T1, way1), Grown(m1, T1, way1, m2, T2, way2)
  PROVE  Grown(m, T, way, m2, T2, way2)
BY DEF Grown

\* Every way of the new tables is old or at most n long.
Short(T, way, T2, way2, n) ==
    \A u \in T2 : Len(way2[u]) <= n \/ \E t \in T : way[t] = way2[u]

\* The walk w to level n for va has left the data and the leaves of m alone.
WalkTo(m, T, way, va, n, w) ==
    /\ w = [m |-> w.m, table |-> w.table]
    /\ \E T2, way2 : /\ State(w.m, T2, way2) /\ Grown(m, T, way, w.m, T2, way2)
                     /\ Short(T, way, T2, way2, n)
                     /\ w.table # NULL => w.table \in T2 /\ way2[w.table] = Prefix(va, n)

\* A creating step down goes to the table that is there, or to a new one.
LEMMA CreatingStep ==
  ASSUME NEW m, NEW t, NEW i
  PROVE  entry_in_table([m |-> m, table |-> t], i, TRUE)
           = IF Present(m.tab[t][i]) THEN [m |-> m, table |-> m.tab[t][i].page]
             ELSE AddTable([m |-> m, table |-> t], i, page_alloc(m.fl, FALSE))
<1>1. CASE Present(m.tab[t][i])
  BY <1>1 DEF entry_in_table
<1>2. CASE ~Present(m.tab[t][i])
  BY <1>2 DEF entry_in_table
<1> QED BY <1>1, <1>2

\* entry_in_table, creating: the next table of the way is there, or memory ran out.
LEMMA CreateStep ==
  ASSUME NEW m, NEW T, NEW way, State(m, T, way), NEW va \in Vas, NEW n \in 1..(Depth - 1),
         NEW t \in T, way[t] = Prefix(va, n - 1), NEW i, i = va[n], ~IsLeaf(m, way, t, i)
  PROVE  WalkTo(m, T, way, va, n, entry_in_table([m |-> m, table |-> t], i, TRUE))
<1> DEFINE e == m.tab[t][i]
           r == page_alloc(m.fl, FALSE)
           w == entry_in_table([m |-> m, table |-> t], i, TRUE)
<1>1. /\ Tree(m, T, way) /\ m \in Memory /\ T \subseteq Pages /\ T \subseteq m.lent
      /\ way \in [Pages -> Seq(Index)]
  BY Parts
<1>2. n \in 1..Depth /\ n - 1 < Depth - 1
  BY Bounds
<1>3. /\ Len(way[t]) = n - 1 /\ i \in Index /\ Prefix(va, Len(way[t]) + 1) = Append(way[t], i)
      /\ Prefix(va, n) = Append(way[t], i) /\ Len(Prefix(va, n)) = n
  <2>1. Len(way[t]) = n - 1 /\ i \in Index /\ Prefix(va, Len(way[t]) + 1) = Append(way[t], i)
    BY <1>2, OnTheWay
  <2>2. va \in Address
    BY OnTheWay
  <2>3. Len(Prefix(va, n)) = n /\ Prefix(va, n) = Append(way[t], i)
    BY <1>2, <2>2, PrefixStep
  <2> QED BY <2>1, <2>3
<1>4. w = IF Present(e) THEN [m |-> m, table |-> e.page]
          ELSE AddTable([m |-> m, table |-> t], i, r)
  BY CreatingStep
<1>5. Grown(m, T, way, m, T, way) /\ Short(T, way, T, way, n)
  BY DEF Grown, Short
<1> HIDE DEF w, e, r
<1>6. CASE Present(e)
  <2>1. w = [m |-> m, table |-> e.page]
    BY <1>4, <1>6
  <2>2. e.page \in T /\ way[e.page] = Append(way[t], i)
    BY <1>1, <1>3, <1>6 DEF Tree, EntryOK, e
  <2>3. /\ w.m = m /\ w.table = e.page /\ w = [m |-> w.m, table |-> w.table]
    BY <2>1
  <2>4. w.table # NULL => w.table \in T /\ way[w.table] = Prefix(va, n)
    BY <1>3, <2>2, <2>3
  <2>5. WalkTo(m, T, way, va, n, w)
    BY <1>5, <2>3, <2>4 DEF WalkTo
  <2> QED BY <2>5 DEF w
<1>7. CASE ~Present(e) /\ r.page = NULL
  <2>1. w = [m |-> m, table |-> NULL]
    BY <1>4, <1>7 DEF AddTable
  <2>2. w.m = m /\ w.table = NULL /\ w = [m |-> w.m, table |-> w.table]
    BY <2>1
  <2>3. WalkTo(m, T, way, va, n, w)
    BY <1>5, <2>2 DEF WalkTo
  <2> QED BY <2>3 DEF w
<1>8. CASE ~Present(e) /\ r.page # NULL
  <2>1. AllocatedBy(m, T, r, FALSE)
    BY <1>8, Allocated DEF r
  <2>2. r.page \in Pages /\ r.page \notin T /\ t # r.page /\ r.page # NULL
    BY <2>1, Bounds DEF AllocatedBy
  <2>3. w = AddTable([m |-> m, table |-> t], i, r)
    BY <1>4, <1>8
  <2>4. w.m \in Memory /\ AddsTable(m, w.m, t, i, r) /\ w.table = r.page
    BY <1>1, <1>3, <2>1, <2>2, <2>3, AddTableFields
  <2>5. w = [m |-> w.m, table |-> w.table]
    BY <2>2, <2>3 DEF AddTable
  <2> HIDE DEF w
  <2>6. TablePlace(m, T, way, t, i)
    BY <1>2, <1>3, <1>8 DEF TablePlace, e
  <2> DEFINE T2 == T \cup {r.page}
             way2 == [way EXCEPT ![r.page] = Append(way[t], i)]
  <2>7. Extended(T, way, r.page, Append(way[t], i), T2, way2)
    BY DEF Extended
  <2>8. way2[r.page] = Prefix(va, n) /\ \A u \in T : way2[u] = way[u]
    BY <1>1, <1>3, <2>2
  <2>9. r.page \in T2 /\ \A u \in T2 : u \in T \/ u = r.page
    OBVIOUS
  <2> HIDE DEF T2, way2
  <2>10. State(w.m, T2, way2) /\ Grown(m, T, way, w.m, T2, way2)
    BY <2>1, <2>4, <2>6, <2>7, NewTable
  <2>11. Short(T, way, T2, way2, n)
    <3>1. Len(way2[r.page]) <= n
      BY <1>2, <1>3, <2>8
    <3> QED BY <2>8, <2>9, <3>1 DEF Short
  <2> QED BY <2>4, <2>5, <2>8, <2>9, <2>10, <2>11 DEF WalkTo, w
<1> QED BY <1>6, <1>7, <1>8 DEF w

\* Two parts of a walk make one.
LEMMA WalkFurther ==
  ASSUME NEW m, NEW T, NEW way, NEW va \in Vas, NEW n \in 1..(Depth - 1), NEW w,
         NEW T1, NEW way1, State(w.m, T1, way1), Grown(m, T, way, w.m, T1, way1),
         Short(T, way, T1, way1, n - 1), NEW w2, WalkTo(w.m, T1, way1, va, n, w2)
  PROVE  WalkTo(m, T, way, va, n, w2)
<1>1. PICK T2, way2 : /\ State(w2.m, T2, way2) /\ Grown(w.m, T1, way1, w2.m, T2, way2)
                      /\ Short(T1, way1, T2, way2, n)
                      /\ w2.table # NULL => w2.table \in T2 /\ way2[w2.table] = Prefix(va, n)
  BY DEF WalkTo
<1>2. Grown(m, T, way, w2.m, T2, way2)
  BY <1>1, GrownTransitive
<1>3. \A u \in T1 : Len(way1[u]) \in Nat
  BY Parts
<1>4. Short(T, way, T2, way2, n)
  <2> SUFFICES ASSUME NEW u \in T2, ~(Len(way2[u]) <= n) PROVE \E t \in T : way[t] = way2[u]
    BY DEF Short
  <2>1. PICK t \in T1 : way1[t] = way2[u]
    BY <1>1 DEF Short
  <2>2. ~(Len(way1[t]) <= n - 1)
    BY <1>3, <2>1, Bounds
  <2>3. \E v \in T : way[v] = way1[t]
    BY <2>2 DEF Short
  <2> QED BY <2>1, <2>3
<1> QED BY <1>1, <1>2, <1>4 DEF WalkTo

\* The way down to the directory.
LEMMA CreateDescends ==
  ASSUME NEW m, NEW T, NEW way, State(m, T, way), NEW va \in Vas
  PROVE  WalkTo(m, T, way, va, Depth - 2, Descend([m |-> m, table |-> m.root], va, TRUE))
<1> DEFINE w == [m |-> m, table |-> m.root]
<1>1. PICK f : IsDescent(f, w, va, TRUE) /\ Descend(w, va, TRUE) = f[Depth - 2]
  BY DescentExists
<1>2. /\ f[0] = w
      /\ \A n \in 1..(Depth - 2) : f[n] = DescendFrom(f[n - 1], va[n], TRUE)
  BY <1>1 DEF IsDescent
<1> DEFINE Bad == {n \in 0..(Depth - 2) : ~WalkTo(m, T, way, va, n, f[n])}
<1>3. WalkTo(m, T, way, va, 0, f[0])
  <2>1. m.root \in T /\ way[m.root] = Prefix(va, 0)
    BY Parts, FindsRoot, Bounds DEF Finds
  <2>2. Grown(m, T, way, m, T, way) /\ Short(T, way, T, way, 0)
    BY DEF Grown, Short
  <2>3. f[0] = [m |-> m, table |-> m.root]
    BY <1>2
  <2> QED BY <2>1, <2>2, <2>3 DEF WalkTo
<1> HIDE DEF w
<1>4. ASSUME NEW n \in 1..(Depth - 2), WalkTo(m, T, way, va, n - 1, f[n - 1])
      PROVE  WalkTo(m, T, way, va, n, f[n])
  <2> DEFINE g == f[n - 1]
             t == g.table
             i == va[n]
  <2>1. n \in 1..(Depth - 1) /\ n \in 1..Depth /\ n - 1 < Depth - 2 /\ n \in Nat
    BY Bounds
  <2>2. g = [m |-> g.m, table |-> t]
    BY <1>4 DEF WalkTo
  <2>3. PICK T1, way1 : /\ State(g.m, T1, way1) /\ Grown(m, T, way, g.m, T1, way1)
                        /\ Short(T, way, T1, way1, n - 1)
                        /\ t # NULL => t \in T1 /\ way1[t] = Prefix(va, n - 1)
    BY <1>4 DEF WalkTo
  <2>4. f[n] = DescendFrom(g, i, TRUE)
    BY <1>2
  <2> HIDE DEF g, i
  <2>5. CASE t = NULL
    <3>1. f[n] = g
      BY <2>4, <2>5 DEF DescendFrom
    <3>2. Short(T, way, T1, way1, n)
      <4>1. \A u \in T1 : Len(way1[u]) \in Nat
        BY <2>3, Parts
      <4>2. \A u \in T1 : Len(way1[u]) <= n - 1 => Len(way1[u]) <= n
        BY <2>1, <4>1
      <4> QED BY <2>3, <4>2 DEF Short
    <3> QED BY <2>2, <2>3, <2>5, <3>1, <3>2 DEF WalkTo
  <2>6. CASE t # NULL
    <3>1. t \in T1 /\ way1[t] = Prefix(va, n - 1)
      BY <2>3, <2>6
    <3> HIDE DEF t
    <3>2. Len(way1[t]) = n - 1 /\ i \in Index
      BY <2>1, <2>3, <3>1, OnTheWay DEF i
    <3>3. ~IsLeaf(g.m, way1, t, i)
      BY <2>1, <2>3, <3>1, <3>2, Interior
    <3>4. WalkTo(g.m, T1, way1, va, n, entry_in_table([m |-> g.m, table |-> t], i, TRUE))
      BY <2>1, <2>3, <3>1, <3>3, CreateStep DEF i
    <3>5. f[n] = entry_in_table([m |-> g.m, table |-> t], i, TRUE)
      <4>1. f[n] = entry_in_table(g, i, TRUE)
        BY <2>4, <2>6 DEF DescendFrom, t
      <4> QED BY <2>2, <4>1
    <3>6. WalkTo(g.m, T1, way1, va, n, f[n])
      BY <3>4, <3>5
    <3> QED BY <2>1, <2>3, <3>6, WalkFurther
  <2> QED BY <2>5, <2>6
<1>5. Bad = {}
  <2> SUFFICES ASSUME Bad # {} PROVE FALSE
    OBVIOUS
  <2>1. PICK n \in Bad : \A y \in Bad : n <= y
    <3>1. Bad \in SUBSET Nat
      BY Bounds
    <3> HIDE DEF Bad
    <3> QED BY <3>1, LeastExists
  <2>2. n # 0
    BY <1>3, <2>1
  <2>3. n \in 1..(Depth - 2) /\ n - 1 \in 0..(Depth - 2) /\ n - 1 \notin Bad
    BY <2>1, <2>2, Bounds
  <2> QED BY <1>4, <2>1, <2>3
<1>6. WalkTo(m, T, way, va, Depth - 2, f[Depth - 2])
  BY <1>5, Bounds
<1> QED BY <1>1, <1>6 DEF w

\* Two trees that map the same have the same leaf for an address.
LEMMA SameLeaf ==
  ASSUME NEW m, NEW T, NEW way, State(m, T, way), NEW m2, NEW T2, NEW way2, State(m2, T2, way2),
         Leaves(m2, T2, way2) = Leaves(m, T, way), NEW va \in Vas,
         NEW u, NEW j, LeafFor(m2, T2, way2, u, j, va)
  PROVE  \E t : /\ LeafFor(m, T, way, t, j, va) /\ way[t] = way2[u]
                /\ m.tab[t][j].page = m2.tab[u][j].page
<1>1. /\ u \in T2 /\ j \in Index /\ IsLeaf(m2, way2, u, j)
      /\ Prefix(va, Len(way2[u]) + 1) = Append(way2[u], j)
  BY DEF LeafFor
<1>2. LeafRecord(m2, way2, u, j) \in Leaves(m, T, way)
  BY <1>1, LeafRecords
<1>3. PICK t \in T, i \in Index : IsLeaf(m, way, t, i)
                                 /\ LeafRecord(m2, way2, u, j) = LeafRecord(m, way, t, i)
  BY <1>2, LeafRecords
<1>4. Append(way2[u], j) = Append(way[t], i) /\ m2.tab[u][j].page = m.tab[t][i].page
  <2>1. /\ LeafRecord(m2, way2, u, j).at = Append(way2[u], j)
        /\ LeafRecord(m2, way2, u, j).page = m2.tab[u][j].page
    BY DEF LeafRecord
  <2>2. /\ LeafRecord(m, way, t, i).at = Append(way[t], i)
        /\ LeafRecord(m, way, t, i).page = m.tab[t][i].page
    BY DEF LeafRecord
  <2> QED BY <1>3, <2>1, <2>2
<1>5. way[t] = way2[u] /\ i = j
  <2>1. way[t] \in Seq(Index) /\ way2[u] \in Seq(Index)
    BY <1>1, Parts
  <2>2. j \in Index /\ Append(way2[u], j) = Append(way[t], i)
    BY <1>1, <1>4
  <2> QED BY <2>1, <2>2, SameWay
<1> QED BY <1>1, <1>3, <1>4, <1>5 DEF LeafFor

\* page_lookup finds the entry of the leaf.
LEMMA LookedUp ==
  ASSUME NEW m, NEW T, NEW way, State(m, T, way), NEW va \in Vas,
         NEW t, NEW i, LeafFor(m, T, way, t, i, va)
  PROVE  page_lookup(m, va) = m.tab[t][i]
<1> DEFINE w == page_walk(m, va, "lookup")
<1>1. /\ w.m = m
      /\ \/ w.table = NULL /\ NoLeaf(m, T, way, va)
         \/ w.table # NULL /\ LeafFor(m, T, way, w.table, w.index, va)
  BY Lookup
<1>2. page_lookup(m, va) = EntryAt(w)
  BY DEF page_lookup
<1> HIDE DEF w
<1>3. ~NoLeaf(m, T, way, va)
  BY DEF NoLeaf, LeafFor
<1>4. w.table = t /\ w.index = i /\ w.table # NULL
  BY <1>1, <1>3, OneLeaf
<1> QED BY <1>1, <1>2, <1>4 DEF EntryAt

\* No page of the other kind is in the way of the page that is to be mapped.
Fits(m, T, way, huge, va) ==
    IF huge THEN \A t \in T : way[t] # Prefix(va, Depth - 1)
    ELSE \A t \in T : way[t] = Prefix(va, Depth - 2) =>
           ~ (Present(m.tab[t][va[Depth - 1]]) /\ m.tab[t][va[Depth - 1]].huge)

\* KindFits, said of the tables and their ways.
LEMMA KindsFit ==
  ASSUME NEW m, NEW T, NEW way, State(m, T, way), NEW va \in Vas, NEW p, KindFits(m, p, va)
  PROVE  Fits(m, T, way, p \in m.fl.huge, va)
<1> DEFINE i == va[Depth - 1]
<1>1. PICK q : /\ Descend([m |-> m, table |-> m.root], va, FALSE) = [m |-> m, table |-> q]
               /\ Finds(m, T, way, va, Depth - 2, q)
  BY DescendFinds
<1>2. q # NULL /\ Present(m.tab[q][i]) => (m.tab[q][i].huge <=> p \in m.fl.huge)
  <2> DEFINE e == EntryAt(At([m |-> m, table |-> q], i))
  <2>1. Present(e) => (e.huge <=> p \in m.fl.huge)
    BY <1>1 DEF KindFits
  <2>2. q # NULL => e = m.tab[q][i]
    BY DEF EntryAt, At
  <2> HIDE DEF e
  <2> QED BY <2>1, <2>2
<1>3. Depth - 1 \in 1..(Depth - 1) /\ (Depth - 1) - 1 = Depth - 2
  BY Bounds
<1>4. Tree(m, T, way) /\ NULL \notin T
  BY Parts, Bounds
<1>5. ASSUME p \in m.fl.huge, NEW t \in T, way[t] = Prefix(va, Depth - 1) PROVE FALSE
  <2>1. Finds(m, T, way, va, Depth - 1, NextDown(m, way, q, va[Depth - 1]))
    BY <1>1, <1>3, FindsNext
  <2>2. NextDown(m, way, q, i) # NULL
    BY <1>4, <1>5, <2>1 DEF Finds
  <2>3. q # NULL /\ Present(m.tab[q][i]) /\ ~IsLeaf(m, way, q, i)
    BY <2>2 DEF NextDown
  <2> QED BY <1>2, <1>5, <2>3 DEF IsLeaf
<1>6. ASSUME p \notin m.fl.huge, NEW t \in T, way[t] = Prefix(va, Depth - 2)
      PROVE  ~ (Present(m.tab[t][i]) /\ m.tab[t][i].huge)
  <2>1. q = t
    BY <1>1, <1>4, <1>6 DEF Finds, Tree
  <2> QED BY <1>2, <1>4, <1>6, <2>1
<1> QED BY <1>5, <1>6 DEF Fits

\* Where page_insert may enter a page of this kind for va.
NewPlace(m, T, way, w, huge, va) ==
    /\ w.table \in T /\ w.index \in Index
    /\ Len(way[w.table]) = IF huge THEN Depth - 2 ELSE Depth - 1
    /\ Prefix(va, Len(way[w.table]) + 1) = Append(way[w.table], w.index)
    /\ Present(m.tab[w.table][w.index]) => LeafFor(m, T, way, w.table, w.index, va)

\* page_walk, creating, leaves the data alone and ends at such a place.
LEMMA CreatingWalk ==
  ASSUME NEW m, NEW T, NEW way, State(m, T, way), NEW va \in Vas, NEW huge \in BOOLEAN,
         Fits(m, T, way, huge, va), NEW mode, mode = IF huge THEN "huge" ELSE "normal"
  PROVE  LET w == page_walk(m, va, mode)
         IN \E T2, way2 : /\ State(w.m, T2, way2) /\ Grown(m, T, way, w.m, T2, way2)
                          /\ w.table # NULL => NewPlace(w.m, T2, way2, w, huge, va)
<1> DEFINE i == va[Depth - 1]
           j == va[Depth]
           s == Descend([m |-> m, table |-> m.root], va, TRUE)
           w == page_walk(m, va, mode)
<1>1. /\ Depth - 1 \in 1..(Depth - 1) /\ Depth - 1 \in 1..Depth /\ Depth \in 1..Depth
      /\ (Depth - 1) - 1 = Depth - 2 /\ ~(Depth - 1 <= Depth - 2)
  BY Bounds
<1>2. WalkTo(m, T, way, va, Depth - 2, s)
  BY CreateDescends
<1>3. PICK T1, way1 : /\ State(s.m, T1, way1) /\ Grown(m, T, way, s.m, T1, way1)
                      /\ Short(T, way, T1, way1, Depth - 2)
                      /\ s.table # NULL => s.table \in T1 /\ way1[s.table] = Prefix(va, Depth - 2)
  BY <1>2 DEF WalkTo
<1>4. w = IF s.table = NULL \/ huge THEN At(s, i) ELSE At(entry_in_table(s, i, TRUE), j)
  <2>1. w = Result(LastStep(s, va, mode), mode)
    BY DEF page_walk
  <2>2. LastStep(s, va, mode)
          = IF s.table = NULL \/ huge THEN At(s, i) ELSE At(entry_in_table(s, i, TRUE), j)
    <3> HIDE DEF s
    <3> QED BY DEF LastStep
  <2> HIDE DEF w, s
  <2> QED BY <2>1, <2>2 DEF Result
<1>5. s = [m |-> s.m, table |-> s.table]
  BY <1>2 DEF WalkTo
<1> HIDE DEF s, w
<1> DEFINE t == s.table
<1>6. Tree(s.m, T1, way1) /\ NULL \notin T1
  BY <1>3, Parts, Bounds
<1>7. ASSUME t # NULL
      PROVE  /\ t \in T1 /\ way1[t] = Prefix(va, Depth - 2) /\ Len(way1[t]) = Depth - 2
             /\ i \in Index /\ Prefix(va, Len(way1[t]) + 1) = Append(way1[t], i)
  <2>1. t \in T1 /\ way1[t] = Prefix(va, (Depth - 1) - 1)
    BY <1>1, <1>3, <1>7
  <2> QED BY <1>1, <1>3, <2>1, OnTheWay
<1>8. CASE t = NULL
  <2>1. w.m = s.m /\ w.table = NULL
    BY <1>4, <1>8 DEF At
  <2> QED BY <1>3, <2>1 DEF w
<1>9. CASE t # NULL /\ huge
  <2>1. w.m = s.m /\ w.table = t /\ w.index = i
    BY <1>4, <1>9 DEF At
  <2>2. ASSUME Present(s.m.tab[t][i]) PROVE LeafFor(s.m, T1, way1, t, i, va)
    <3>1. EntryOK(s.m, T1, way1, t, i)
      BY <1>6, <1>7, <1>9, <2>2 DEF Tree
    <3>2. CASE ~IsLeaf(s.m, way1, t, i)
      <4> DEFINE r == s.m.tab[t][i].page
      <4>1. r \in T1 /\ way1[r] = Append(way1[t], i)
        BY <3>1, <3>2 DEF EntryOK
      <4> HIDE DEF r
      <4>2. way1[r] = Prefix(va, Depth - 1) /\ Len(way1[r]) = Depth - 1
        <5>1. Prefix(va, Depth - 1) = Append(way1[t], i) /\ Len(Prefix(va, Depth - 1)) = Depth - 1
          <6>1. (Depth - 2) + 1 = Depth - 1 /\ va \in Address
            BY PageTablesAssumption DEF Address
          <6> QED BY <1>1, <1>7, <1>9, <6>1, PrefixStep
        <5> QED BY <4>1, <5>1
      <4>3. PICK v \in T : way[v] = way1[r]
        BY <1>1, <1>3, <4>1, <4>2 DEF Short
      <4> QED BY <1>9, <4>2, <4>3 DEF Fits
    <3>3. CASE IsLeaf(s.m, way1, t, i)
      BY <1>7, <1>9, <3>3 DEF LeafFor
    <3> QED BY <3>2, <3>3
  <2>3. NewPlace(s.m, T1, way1, w, huge, va)
    BY <1>7, <1>9, <2>1, <2>2 DEF NewPlace
  <2> QED BY <1>3, <2>1, <2>3 DEF w
<1>10. CASE t # NULL /\ ~huge
  <2> DEFINE x == entry_in_table(s, i, TRUE)
  <2>1. w.m = x.m /\ w.table = x.table /\ w.index = j
    BY <1>4, <1>10 DEF At
  <2>2. ~IsLeaf(s.m, way1, t, i)
    <3> SUFFICES ASSUME IsLeaf(s.m, way1, t, i) PROVE FALSE
      OBVIOUS
    <3>1. LeafFor(s.m, T1, way1, t, i, va)
      BY <1>7, <1>10 DEF LeafFor
    <3>2. PICK v : LeafFor(m, T, way, v, i, va) /\ way[v] = way1[t]
      BY <1>3, <3>1, SameLeaf DEF Grown
    <3>3. v \in T /\ IsLeaf(m, way, v, i) /\ way[v] = Prefix(va, Depth - 2) /\ Len(way[v]) = Depth - 2
      BY <1>7, <1>10, <3>2 DEF LeafFor
    <3>4. Present(m.tab[v][i]) /\ m.tab[v][i].huge
      BY <1>1, <3>3, Bounds DEF IsLeaf
    <3> QED BY <1>10, <3>3, <3>4 DEF Fits
  <2>3. WalkTo(s.m, T1, way1, va, Depth - 1, x)
    <3>1. x = entry_in_table([m |-> s.m, table |-> t], i, TRUE)
      BY <1>5
    <3>2. way1[t] = Prefix(va, (Depth - 1) - 1) /\ t \in T1
      BY <1>1, <1>7, <1>10
    <3> QED BY <1>1, <1>3, <2>2, <3>1, <3>2, CreateStep
  <2> HIDE DEF x
  <2>4. PICK T2, way2 : /\ State(x.m, T2, way2) /\ Grown(s.m, T1, way1, x.m, T2, way2)
                        /\ x.table # NULL => x.table \in T2 /\ way2[x.table] = Prefix(va, Depth - 1)
    BY <2>3 DEF WalkTo
  <2>5. Grown(m, T, way, x.m, T2, way2)
    BY <1>3, <2>4, GrownTransitive
  <2>6. ASSUME x.table # NULL PROVE NewPlace(x.m, T2, way2, w, huge, va)
    <3> DEFINE u == x.table
    <3>1. u \in T2 /\ way2[u] = Prefix(va, Depth - 1)
      BY <2>4, <2>6
    <3> HIDE DEF u
    <3>2. /\ Len(way2[u]) = Depth - 1 /\ j \in Index
          /\ Prefix(va, Len(way2[u]) + 1) = Append(way2[u], j)
      BY <1>1, <2>4, <3>1, OnTheWay
    <3>3. Present(x.m.tab[u][j]) => LeafFor(x.m, T2, way2, u, j, va)
      BY <2>4, <3>1, <3>2, LeafPlaces
    <3>4. w.table = u
      BY <2>1 DEF u
    <3> QED BY <1>10, <2>1, <3>1, <3>2, <3>3, <3>4 DEF NewPlace
  <2> QED BY <2>1, <2>4, <2>5, <2>6 DEF w
<1> QED BY <1>8, <1>9, <1>10

-----------------------------------------------------------------------------
(* Inserting a page. *)

\* The indexes that lead to the entry of a page.
EntryWay(huge, va) == IF huge THEN Prefix(va, Depth - 1) ELSE va

\* Map enters a leaf.
LEMMA MapFields ==
  ASSUME NEW m \in Memory, NEW w, NEW t \in Pages, w.table = t, NEW i \in Index, w.index = i,
         NEW e \in [page : Pages, huge : BOOLEAN], m.ref[e.page] < MaxRef, NEW va \in Vas
  PROVE  Map(m, w, e, va) \in Memory /\ AddsLeaf(m, Map(m, w, e, va), t, i, e, EntryWay(e.huge, va))
<1> DEFINE q == e.page
           at == EntryWay(e.huge, va)
           c == [at |-> at, page |-> q]
           x == [m EXCEPT !.ref[q] = @ + 1, !.tlb = @ \cup {c}]
           n == Map(m, w, e, va)
           E == [page : Ptr, huge : BOOLEAN]
<1>1. /\ m.fl \in FreeList /\ m.ref \in [Pages -> 0..MaxRef] /\ m.lent \subseteq Pages
      /\ m.tab \in [Pages -> [Index -> E]]
      /\ m.root \in Pages /\ m.tlb \subseteq [at : Seq(Index), page : Pages]
  BY Fields
<1>2. m = [fl |-> m.fl, ref |-> m.ref, lent |-> m.lent, tab |-> m.tab, root |-> m.root,
           tlb |-> m.tlb]
  BY DEF Memory
<1>3. q \in Pages /\ e \in E
  BY DEF Ptr
<1>4. at \in Seq(Index)
  <2>1. va \in Address /\ Depth \in 1..Depth /\ Depth - 1 \in 1..Depth
    BY PageTablesAssumption DEF Address
  <2>2. Prefix(va, Depth) \in Seq(Index) /\ Prefix(va, Depth) = va
        /\ Prefix(va, Depth - 1) \in Seq(Index)
    BY <2>1, PrefixStep, PrefixEnds
  <2> QED BY <2>2 DEF EntryWay
<1>5. n = SetEntry(x, t, i, e)
  BY DEF Map, EntryWay, Prefix
<1> HIDE DEF c, n
<1>6. /\ n.fl = m.fl /\ n.lent = m.lent /\ n.root = m.root
      /\ n.ref = [m.ref EXCEPT ![q] = m.ref[q] + 1]
      /\ n.tlb = m.tlb \cup {c}
      /\ n.tab = [m.tab EXCEPT ![t][i] = e]
      /\ n = [fl |-> n.fl, ref |-> n.ref, lent |-> n.lent, tab |-> n.tab, root |-> n.root,
              tlb |-> n.tlb]
  <2>1. /\ x.fl = m.fl /\ x.lent = m.lent /\ x.root = m.root /\ x.tab = m.tab
        /\ x.ref = [m.ref EXCEPT ![q] = m.ref[q] + 1]
        /\ x.tlb = m.tlb \cup {c}
        /\ x = [fl |-> x.fl, ref |-> x.ref, lent |-> x.lent, tab |-> x.tab, root |-> x.root,
                tlb |-> x.tlb]
    <3>1. x = [m EXCEPT !.ref[q] = @ + 1, !.tlb = @ \cup {c}]
      OBVIOUS
    <3> HIDE DEF x, q
    <3> QED BY <1>2, <3>1
  <2> HIDE DEF x
  <2> QED BY <1>5, <2>1 DEF SetEntry
<1> HIDE DEF x, at, q
<1>7. c \in [at : Seq(Index), page : Pages]
  BY <1>3, <1>4 DEF c
<1>8. /\ n.tab \in [Pages -> [Index -> E]]
      /\ \A u \in Pages, k \in Index :
           n.tab[u][k] = IF u = t /\ k = i THEN e ELSE m.tab[u][k]
  <2> HIDE DEF E
  <2>1. n.tab \in [Pages -> [Index -> E]]
    BY <1>1, <1>3, <1>6
  <2>2. \A u \in Pages, k \in Index :
          n.tab[u][k] = IF u = t /\ k = i THEN e ELSE m.tab[u][k]
    BY <1>1, <1>6
  <2> QED BY <2>1, <2>2
<1>9. /\ n.ref \in [Pages -> 0..MaxRef]
      /\ \A p \in Pages : n.ref[p] = IF p = q THEN m.ref[p] + 1 ELSE m.ref[p]
  <2>1. m.ref[q] + 1 \in 0..MaxRef
    <3>1. m.ref[q] < MaxRef /\ m.ref[q] \in 0..MaxRef
      BY <1>1, <1>3 DEF q
    <3> QED BY <3>1, Bounds
  <2> QED BY <1>1, <1>3, <1>6, <2>1
<1>10. n \in Memory
  <2>1. n.tlb \subseteq [at : Seq(Index), page : Pages]
    BY <1>1, <1>6, <1>7
  <2> QED BY <1>1, <1>6, <1>8, <1>9, <2>1 DEF Memory
<1>11. AddsLeaf(m, n, t, i, e, at)
  BY <1>6, <1>8, <1>9 DEF AddsLeaf, c, q
<1> QED BY <1>10, <1>11 DEF n, at

\* A page that is in use is not on the free list: there is nothing to take back.
LEMMA NothingTakenBack ==
  ASSUME NEW m, NEW T, NEW way, State(m, T, way), NEW p \in m.lent
  PROVE  TakeBack(m, p) = m
<1>1. p \notin m.fl.avail
  BY Parts DEF Good
<1> QED BY <1>1 DEF TakeBack

PagesOf(L) == {x.page : x \in L}

\* m2 maps what m maps, but the page p (none if p is NULL) where `at' leads.  A
\* page that has lost its last mapping is not in use any more.
Remapped(m, T, way, m2, T2, way2, at, p) ==
    /\ Leaves(m2, T2, way2) = {c \in Leaves(m, T, way) : c.at # at}
                              \cup (IF p = NULL THEN {} ELSE {[at |-> at, page |-> p]})
    /\ m2.lent \ T2 = (m.lent \ T) \ (PagesOf(Leaves(m, T, way)) \ PagesOf(Leaves(m2, T2, way2)))

\* page_remove, at an address that is mapped.
LEMMA RemovesLeaf ==
  ASSUME NEW m, NEW T, NEW way, State(m, T, way), NEW va \in Vas,
         NEW t, NEW i, LeafFor(m, T, way, t, i, va), NEW at, Leads(way, t, i, at),
         NEW m2, m2 = page_remove(m, va)
  PROVE  /\ State(m2, T, way) /\ Remapped(m, T, way, m2, T, way, at, NULL)
         /\ ~Present(m2.tab[t][i])
         /\ \A p \in m2.lent : p \in m2.fl.huge <=> p \in m.fl.huge
         /\ \A p \in m.lent : /\ m2.ref[p] <= m.ref[p]
                              /\ p # m.tab[t][i].page \/ m.ref[p] # 1 => p \in m2.lent
<1> DEFINE q == m.tab[t][i].page
           c == LeafRecord(m, way, t, i)
<1>1. m2 \in Memory /\ DropsLeaf(m, m2, t, i, va)
  BY Removed
<1>2. /\ State(m2, T, way)
      /\ Leaves(m2, T, way) = Leaves(m, T, way) \ {c}
      /\ m2.lent = m.lent \ ({q} \ {x.page : x \in Leaves(m2, T, way)})
      /\ \A p \in m2.lent : p \in m2.fl.huge <=> p \in m.fl.huge
      /\ \A p \in Pages : p # q => m2.ref[p] = m.ref[p]
  BY <1>1, OldLeaf
<1>3. t \in T /\ i \in Index /\ IsLeaf(m, way, t, i) /\ t \in Pages /\ m \in Memory
      /\ m.lent \subseteq Pages /\ q \notin T
  <2>1. t \in T /\ i \in Index /\ IsLeaf(m, way, t, i)
    BY DEF LeafFor
  <2>2. Tree(m, T, way) /\ t \in Pages /\ m \in Memory /\ m.lent \subseteq Pages
    BY <2>1, Parts
  <2> QED BY <2>1, <2>2 DEF Tree, EntryOK, IsLeaf
<1>4. c \in Leaves(m, T, way) /\ c.at = at /\ c.page = q /\ at = Append(way[t], i)
  <2>1. c \in Leaves(m, T, way)
    BY <1>3, LeafRecords
  <2> QED BY <2>1 DEF LeafRecord, Leads
<1> HIDE DEF c
<1>5. \A x \in Leaves(m, T, way) : x.at = at => x = c
  <2> SUFFICES ASSUME NEW x \in Leaves(m, T, way), x.at = at PROVE x = c
    OBVIOUS
  <2>1. PICK u \in T, j \in Index : IsLeaf(m, way, u, j) /\ x = LeafRecord(m, way, u, j)
    BY LeafRecords
  <2>2. Append(way[u], j) = Append(way[t], i)
    BY <1>4, <2>1 DEF LeafRecord
  <2>3. u = t /\ j = i
    BY <1>3, <2>1, <2>2, LeafRecords
  <2> QED BY <2>1, <2>3 DEF c
<1>6. Leaves(m2, T, way) = {x \in Leaves(m, T, way) : x.at # at}
  BY <1>2, <1>4, <1>5
<1> HIDE DEF q
<1>7. PagesOf(Leaves(m, T, way)) \ PagesOf(Leaves(m2, T, way)) = {q} \ PagesOf(Leaves(m2, T, way))
  <2>1. \A x \in Leaves(m, T, way) : x \in Leaves(m2, T, way) \/ x.page = q
    BY <1>2, <1>4
  <2> QED BY <1>4, <2>1 DEF PagesOf
<1>8. m2.lent \ T = (m.lent \ T) \ (PagesOf(Leaves(m, T, way)) \ PagesOf(Leaves(m2, T, way)))
  BY <1>2, <1>7 DEF PagesOf
<1>9. Remapped(m, T, way, m2, T, way, at, NULL)
  BY <1>6, <1>8 DEF Remapped
<1>10. ~Present(m2.tab[t][i])
  <2>1. m2.tab[t][i] = Empty
    BY <1>1, <1>3 DEF DropsLeaf
  <2> QED BY <2>1 DEF Present, Empty
<1>11. ASSUME NEW p \in m.lent
       PROVE  /\ m2.ref[p] <= m.ref[p]
              /\ p # q \/ m.ref[p] # 1 => p \in m2.lent
  <2>1. m.ref[p] \in Nat
    <3>1. m.ref \in [Pages -> 0..MaxRef] /\ p \in Pages
      BY <1>3, <1>11, Fields
    <3> QED BY <3>1
  <2>2. CASE p # q
    BY <1>2, <1>3, <2>1, <2>2
  <2>3. CASE p = q
    <3>1. m2.ref[p] = m.ref[p] - 1 /\ (m.ref[p] # 1 => m2.lent = m.lent)
      BY <1>1, <1>3, <2>3 DEF DropsLeaf, q
    <3> QED BY <2>1, <2>3, <3>1
  <2> QED BY <2>2, <2>3
<1> QED BY <1>2, <1>9, <1>10, <1>11 DEF q

\* m3 is m1 with nothing at entry i of table t, and p still in use.
Cleared(m1, T, way, m3, t, i, at, p) ==
    /\ State(m3, T, way) /\ Remapped(m1, T, way, m3, T, way, at, NULL)
    /\ ~Present(m3.tab[t][i])
    /\ p \in m3.lent \ T /\ m3.ref[p] < MaxRef

\* The last part of page_insert enters the page where nothing is any more.
LEMMA EntersLeaf ==
  ASSUME NEW m1, NEW T, NEW way, NEW m3, NEW w, NEW va \in Vas,
         NEW t, w.table = t, NEW i, w.index = i, NEW at, Leads(way, t, i, at),
         NEW p, NEW huge \in BOOLEAN, Cleared(m1, T, way, m3, t, i, at, p),
         NewPlace(m1, T, way, w, huge, va), p \in m3.fl.huge <=> huge,
         NEW m4, m4 = Map(TakeBack(m3, p), w, [page |-> p, huge |-> huge], va)
  PROVE  /\ State(m4, T, way) /\ Remapped(m1, T, way, m4, T, way, at, p)
         /\ at = EntryWay(huge, va)
<1> DEFINE e == [page |-> p, huge |-> huge]
<1>1. /\ State(m3, T, way) /\ Remapped(m1, T, way, m3, T, way, at, NULL)
      /\ ~Present(m3.tab[t][i])
      /\ p \in m3.lent /\ p \notin T /\ m3.ref[p] < MaxRef
  BY DEF Cleared
<1>2. /\ t \in T /\ i \in Index /\ Len(way[t]) = (IF huge THEN Depth - 2 ELSE Depth - 1)
      /\ Prefix(va, Len(way[t]) + 1) = at /\ at = Append(way[t], i)
  BY DEF NewPlace, Leads
<1>3. m3 \in Memory /\ m3.lent \subseteq Pages /\ T \subseteq Pages
  BY <1>1, Parts
<1>4. at = EntryWay(huge, va)
  <2>1. (Depth - 2) + 1 = Depth - 1 /\ (Depth - 1) + 1 = Depth
    BY Bounds
  <2>2. Prefix(va, Depth) = va
    BY PrefixEnds, PageTablesAssumption DEF Address
  <2> QED BY <1>2, <2>1, <2>2 DEF EntryWay
<1>5. e.page = p /\ e.huge = huge /\ e \in [page : Pages, huge : BOOLEAN]
  BY <1>1, <1>3
<1>6. m4 = Map(m3, w, e, va)
  BY <1>1, NothingTakenBack
<1> HIDE DEF e
<1>7. m4 \in Memory /\ AddsLeaf(m3, m4, t, i, e, at)
  <2>1. m3.ref[e.page] < MaxRef /\ t \in Pages
    BY <1>1, <1>2, <1>3, <1>5
  <2> QED BY <1>2, <1>3, <1>4, <1>5, <1>6, <2>1, MapFields
<1>8. LeafPlace(m3, T, way, t, i, e)
  BY <1>1, <1>2, <1>5 DEF LeafPlace
<1>9. /\ State(m4, T, way)
      /\ Leaves(m4, T, way) = Leaves(m3, T, way) \cup {[at |-> at, page |-> p]}
  <2>1. /\ State(m4, T, way)
        /\ Leaves(m4, T, way) = Leaves(m3, T, way) \cup {[at |-> at, page |-> e.page]}
    <3>1. Leads(way, t, i, at)
      OBVIOUS
    <3> QED BY ONLY <1>1, <1>7, <1>8, <3>1, NewLeaf
  <2> QED BY <1>5, <2>1
<1>10. /\ m4.lent = m3.lent /\ p # NULL
       /\ Leaves(m3, T, way) = {c \in Leaves(m1, T, way) : c.at # at}
       /\ m3.lent \ T = (m1.lent \ T) \ (PagesOf(Leaves(m1, T, way)) \ PagesOf(Leaves(m3, T, way)))
  BY <1>1, <1>3, <1>7, Bounds DEF AddsLeaf, Remapped
<1>11. PagesOf(Leaves(m4, T, way)) = PagesOf(Leaves(m3, T, way)) \cup {p}
  <2> DEFINE L3 == Leaves(m3, T, way)
             L4 == Leaves(m4, T, way)
             c == [at |-> at, page |-> p]
  <2>1. L4 = L3 \cup {c} /\ c.page = p
    BY <1>9
  <2> HIDE DEF L3, L4, c
  <2>2. PagesOf(L4) = PagesOf(L3) \cup {p}
    BY ONLY <2>1 DEF PagesOf
  <2> QED BY <2>2 DEF L3, L4
<1>12. m4.lent \ T = (m1.lent \ T) \ (PagesOf(Leaves(m1, T, way)) \ PagesOf(Leaves(m4, T, way)))
  <2>1. p \in m3.lent \ T
    BY <1>1
  <2> QED BY <1>10, <1>11, <2>1
<1> QED BY <1>4, <1>9, <1>10, <1>12 DEF Remapped

\* page_insert: the page is mapped at va, or memory ran out and the data and what
\* is mapped have not changed.
LEMMA Inserted ==
  ASSUME NEW m, NEW T, NEW way, State(m, T, way), NEW va \in Vas, NEW p \in m.lent \ T,
         KindFits(m, p, va), m.ref[p] < MaxRef, m.ref[p] # 1 \/ page_lookup(m, va).page # p,
         NEW m2, m2 = page_insert(m, p, va)
  PROVE  \E T2, way2 : /\ State(m2, T2, way2)
                       /\ \/ Grown(m, T, way, m2, T2, way2)
                          \/ Remapped(m, T, way, m2, T2, way2, EntryWay(p \in m.fl.huge, va), p)
<1> DEFINE huge == p \in m.fl.huge
           mode == IF huge THEN "huge" ELSE "normal"
           w == page_walk(m, va, mode)
           m1 == w.m
           t == w.table
           i == w.index
           e == [page |-> p, huge |-> huge]
<1>1. m2 = InsertEntry(w, e, va) /\ huge \in BOOLEAN
  BY DEF page_insert
<1>2. Fits(m, T, way, huge, va)
  BY KindsFit
<1> HIDE DEF huge
<1>3. PICK T1, way1 : /\ State(m1, T1, way1) /\ Grown(m, T, way, m1, T1, way1)
                      /\ t # NULL => NewPlace(m1, T1, way1, w, huge, va)
  BY <1>1, <1>2, CreatingWalk
<1> HIDE DEF w, mode
<1>4. CASE t = NULL
  <2>1. m2 = m1
    BY <1>1, <1>4 DEF InsertEntry
  <2> QED BY <1>3, <2>1
<1>5. CASE t # NULL
  <2> DEFINE at == Append(way1[t], i)
             m3 == IF Present(m1.tab[t][i]) THEN page_remove(m1, va) ELSE m1
             q == m1.tab[t][i].page
  <2>1. m2 = Map(TakeBack(m3, p), w, e, va)
    BY <1>1, <1>5 DEF InsertEntry, EntryAt
  <2>2. /\ NewPlace(m1, T1, way1, w, huge, va) /\ t \in T1 /\ i \in Index
        /\ Present(m1.tab[t][i]) => LeafFor(m1, T1, way1, t, i, va)
    BY <1>3, <1>5 DEF NewPlace
  <2>3. /\ p \in m1.lent \ T1 /\ m1.ref[p] = m.ref[p] /\ (p \in m1.fl.huge <=> huge)
        /\ Leaves(m1, T1, way1) = Leaves(m, T, way) /\ m1.lent \ T1 = m.lent \ T
    BY <1>3 DEF Grown, huge
  <2>4. m1.ref[p] \in Nat /\ MaxRef \in Nat /\ p \in Pages
    <3>1. p \in Pages /\ m1 \in Memory
      BY <1>3, <2>3, Parts
    <3>2. m1.ref[p] \in 0..MaxRef
      BY <3>1, Fields
    <3> QED BY <3>1, <3>2, Bounds
  <2> HIDE DEF t, i
  <2>5. Cleared(m1, T1, way1, m3, t, i, at, p) /\ (p \in m3.fl.huge <=> huge)
    <3>1. CASE Present(m1.tab[t][i])
      <4>1. LeafFor(m1, T1, way1, t, i, va) /\ m3 = page_remove(m1, va)
        BY <2>2, <3>1
      <4> HIDE DEF m3
      <4>2. /\ State(m3, T1, way1) /\ Remapped(m1, T1, way1, m3, T1, way1, at, NULL)
            /\ ~Present(m3.tab[t][i])
            /\ p \in m3.lent => (p \in m3.fl.huge <=> p \in m1.fl.huge)
            /\ m3.ref[p] <= m1.ref[p]
            /\ p # q \/ m1.ref[p] # 1 => p \in m3.lent
        <5>1. Leads(way1, t, i, at) /\ va \in Vas
          BY DEF Leads
        <5> HIDE DEF at
        <5>2. /\ State(m3, T1, way1) /\ Remapped(m1, T1, way1, m3, T1, way1, at, NULL)
              /\ ~Present(m3.tab[t][i])
              /\ \A x \in m3.lent : x \in m3.fl.huge <=> x \in m1.fl.huge
              /\ \A x \in m1.lent : /\ m3.ref[x] <= m1.ref[x]
                                    /\ x # m1.tab[t][i].page \/ m1.ref[x] # 1 => x \in m3.lent
          BY ONLY <1>3, <4>1, <5>1, RemovesLeaf
        <5>3. p \in m1.lent
          BY <2>3
        <5> QED BY ONLY <5>2, <5>3 DEF q
      <4>3. ASSUME p = q PROVE m1.ref[p] # 1
        <5>1. PICK u : LeafFor(m, T, way, u, i, va) /\ m.tab[u][i].page = q
          BY <1>3, <2>3, <4>1, SameLeaf
        <5>2. page_lookup(m, va) = m.tab[u][i]
          BY <5>1, LookedUp
        <5> QED BY <2>3, <4>3, <5>1, <5>2
      <4>4. p \in m3.lent
        BY <4>2, <4>3
      <4>5. m3.ref[p] < MaxRef
        <5>1. m3.ref[p] \in Nat
          <6>1. m3 \in Memory
            BY <4>2, Parts
          <6>2. m3.ref[p] \in 0..MaxRef
            BY <2>4, <6>1, Fields
          <6> QED BY <6>2
        <5> QED BY <2>3, <2>4, <4>2, <5>1
      <4> QED BY <2>3, <4>2, <4>4, <4>5 DEF Cleared
    <3>2. CASE ~Present(m1.tab[t][i])
      <4>1. m3 = m1
        BY <3>2
      <4> HIDE DEF m3
      <4>2. ASSUME NEW c \in Leaves(m1, T1, way1) PROVE c.at # at
        <5> SUFFICES ASSUME c.at = at PROVE FALSE
          OBVIOUS
        <5>1. PICK u \in T1, j \in Index : IsLeaf(m1, way1, u, j) /\ c = LeafRecord(m1, way1, u, j)
          BY <1>3, <4>2, LeafRecords
        <5>2. Append(way1[u], j) = Append(way1[t], i)
          BY <5>1 DEF LeafRecord
        <5>3. u = t /\ j = i
          BY <1>3, <2>2, <5>1, <5>2, LeafRecords
        <5> QED BY <3>2, <5>1, <5>3 DEF IsLeaf
      <4>3. {c \in Leaves(m1, T1, way1) : c.at # at} = Leaves(m1, T1, way1)
        BY <4>2
      <4> HIDE DEF at
      <4>4. Remapped(m1, T1, way1, m1, T1, way1, at, NULL)
        BY <4>3 DEF Remapped
      <4> QED BY <1>3, <2>3, <3>2, <4>1, <4>4 DEF Cleared
    <3> QED BY <3>1, <3>2
  <2> HIDE DEF m3, at
  <2>6. /\ State(m2, T1, way1) /\ Remapped(m1, T1, way1, m2, T1, way1, at, p)
        /\ at = EntryWay(huge, va)
    <3>1. /\ w.table = t /\ w.index = i /\ Leads(way1, t, i, at) /\ va \in Vas
          /\ m2 = Map(TakeBack(m3, p), w, [page |-> p, huge |-> huge], va)
      BY <2>1 DEF t, i, at, Leads
    <3> QED BY ONLY <1>1, <2>2, <2>5, <3>1, EntersLeaf
  <2>7. Remapped(m, T, way, m2, T1, way1, at, p)
    BY <2>3, <2>6 DEF Remapped
  <2> QED BY <2>6, <2>7 DEF huge
<1> QED BY <1>4, <1>5

-----------------------------------------------------------------------------
(* The invariant holds of every state.                                      *)

\* The pages with a count are the root and those that entries lead to.
LEMMA InUse ==
  ASSUME NEW m, NEW T, NEW way, State(m, T, way), NEW p \in Pages
  PROVE  /\ m.ref[p] > 0 <=> p = m.root \/ \E t \in T, i \in Index : m.tab[t][i].page = p
         /\ m.ref[p] > 0 => p \in m.lent
         /\ p \in T => m.ref[p] > 0
<1>1. /\ Tree(m, T, way) /\ Counted(m, T) /\ T \subseteq Pages /\ T \subseteq m.lent /\ m.root \in T
  BY Parts
<1> DEFINE S == EntriesTo(m, T, p)
<1>2. IsFiniteSet(S) /\ Cardinality(S) \in Nat /\ (Cardinality(S) = 0 <=> S = {})
  BY <1>1, EntriesFinite, FS_CardinalityType, FS_EmptySet
<1>3. m.ref[p] = Cardinality(S) + (IF p = m.root THEN 1 ELSE 0)
  BY <1>1 DEF Counted, Count
<1>4. S # {} <=> \E t \in T, i \in Index : m.tab[t][i].page = p
  <2>1. ASSUME NEW t \in T, NEW i \in Index, m.tab[t][i].page = p PROVE S # {}
    <3>1. <<t, i>> \in S
      BY <2>1 DEF EntriesTo
    <3> QED BY <3>1
  <2>2. ASSUME S # {} PROVE \E t \in T, i \in Index : m.tab[t][i].page = p
    BY <2>2 DEF EntriesTo
  <2> QED BY <2>1, <2>2
<1> HIDE DEF S
<1>5. m.ref[p] > 0 <=> p = m.root \/ S # {}
  BY <1>2, <1>3
<1>6. ASSUME NEW t \in T, NEW i \in Index, m.tab[t][i].page = p PROVE p \in m.lent
  <2>1. Present(m.tab[t][i])
    BY <1>6, Bounds DEF Present
  <2> QED BY <1>1, <1>6, <2>1 DEF Tree, EntryOK
<1>7. p \in T => p = m.root \/ \E t \in T, i \in Index : m.tab[t][i].page = p
  BY <1>1 DEF Tree
<1> QED BY <1>1, <1>4, <1>5, <1>6, <1>7

\* m2 is m with another free list and other pages in use.
SameTables(m, m2) ==
    /\ m2.ref = m.ref /\ m2.tab = m.tab /\ m2.root = m.root /\ m2.tlb = m.tlb
    /\ Good(m2.fl, m2.lent)
    /\ \A p \in m.lent : m.ref[p] > 0 => p \in m2.lent /\ (p \in m2.fl.huge <=> p \in m.fl.huge)

\* Pages that are not mapped come and go without a change to the tree.
LEMMA TreeKept ==
  ASSUME NEW m, NEW T, NEW way, State(m, T, way), NEW m2 \in Memory, SameTables(m, m2)
  PROVE  State(m2, T, way) /\ Leaves(m2, T, way) = Leaves(m, T, way)
<1>1. /\ Tree(m, T, way) /\ Counted(m, T) /\ m.tlb \subseteq Leaves(m, T, way)
      /\ T \subseteq Pages /\ T \subseteq m.lent /\ T \cap m.fl.huge = {} /\ m.lent \subseteq Pages
  BY Parts
<1>2. /\ m2.ref = m.ref /\ m2.tab = m.tab /\ m2.root = m.root /\ m2.tlb = m.tlb
      /\ Good(m2.fl, m2.lent)
      /\ \A p \in m.lent : m.ref[p] > 0 => p \in m2.lent /\ (p \in m2.fl.huge <=> p \in m.fl.huge)
  BY DEF SameTables
<1>3. \A t \in T, i \in Index : IsLeaf(m2, way, t, i) <=> IsLeaf(m, way, t, i)
  BY <1>2 DEF IsLeaf
<1>4. Leaves(m2, T, way) = Leaves(m, T, way)
  BY <1>2, <1>3 DEF Leaves
<1>5. Counted(m2, T)
  <2>1. \A p : EntriesTo(m2, T, p) = EntriesTo(m, T, p)
    BY <1>2 DEF EntriesTo
  <2> QED BY <1>1, <1>2, <2>1 DEF Counted, Count
<1>6. \A p \in T : m.ref[p] > 0
  BY <1>1, InUse
<1>7. Owned(m2, T)
  BY <1>1, <1>2, <1>6 DEF Owned
<1>8. ASSUME NEW t \in T, NEW i \in Index, Present(m2.tab[t][i]) PROVE EntryOK(m2, T, way, t, i)
  <2> DEFINE p == m.tab[t][i].page
  <2>1. EntryOK(m, T, way, t, i) /\ m2.tab[t][i] = m.tab[t][i]
    BY <1>1, <1>2, <1>8 DEF Tree
  <2>2. p \in m.lent /\ (m.tab[t][i].huge <=> p \in m.fl.huge)
    BY <2>1 DEF EntryOK
  <2> HIDE DEF p
  <2>3. m.ref[p] > 0
    BY <1>1, <2>2, InUse DEF p
  <2>4. p \in m2.lent /\ (p \in m2.fl.huge <=> p \in m.fl.huge)
    BY <1>2, <2>2, <2>3
  <2> QED BY <1>3, <2>1, <2>2, <2>4 DEF EntryOK, p
<1>9. Tree(m2, T, way)
  BY <1>1, <1>2, <1>8 DEF Tree
<1>10. m2.tlb \subseteq Leaves(m2, T, way)
  BY <1>1, <1>2, <1>4
<1> QED BY <1>4, <1>5, <1>7, <1>9, <1>10 DEF State

\* A root without entries is a tree.
LEMMA RootOnly ==
  ASSUME NEW m \in Memory, Good(m.fl, m.lent), m.root \in m.lent \ m.fl.huge, m.tlb = {},
         \A p \in Pages : m.ref[p] = IF p = m.root THEN 1 ELSE 0,
         \A p \in Pages, i \in Index : m.tab[p][i].page = NULL
  PROVE  \E way : State(m, {m.root}, way) /\ Leaves(m, {m.root}, way) = {}
<1> DEFINE T == {m.root}
           way == [p \in Pages |-> <<>>]
<1>1. m.root \in Pages /\ m.lent \subseteq Pages
  BY Fields
<1>2. \A t \in T, i \in Index : m.tab[t][i].page = NULL /\ ~Present(m.tab[t][i])
  BY <1>1 DEF Present
<1>3. way \in [Pages -> Seq(Index)] /\ way[m.root] = <<>> /\ Len(way[m.root]) = 0
  BY <1>1
<1> HIDE DEF way
<1>4. Tree(m, T, way)
  BY <1>1, <1>2, <1>3, Bounds DEF Tree
<1>5. Counted(m, T)
  <2>1. ASSUME NEW p \in Pages PROVE EntriesTo(m, T, p) = {}
    BY <1>2, <2>1, Bounds DEF EntriesTo
  <2>2. Cardinality({}) = 0
    BY FS_EmptySet
  <2>3. ASSUME NEW p \in Pages PROVE m.ref[p] = Count(m, T, p)
    <3>1. Cardinality(EntriesTo(m, T, p)) = 0
      BY <2>1, <2>2
    <3>2. m.ref[p] = IF p = m.root THEN 1 ELSE 0
      OBVIOUS
    <3> HIDE DEF T
    <3> QED BY ONLY <3>1, <3>2 DEF Count
  <2> HIDE DEF T
  <2> QED BY ONLY <2>3 DEF Counted
<1>6. Owned(m, T)
  BY DEF Owned
<1>7. Leaves(m, T, way) = {}
  BY <1>2 DEF Leaves, IsLeaf
<1>8. State(m, T, way)
  BY <1>4, <1>5, <1>6, <1>7 DEF State
<1> QED BY <1>7, <1>8

\* The first memory: a root without entries.
LEMMA InitState ==
  ASSUME NEW m, NEW r, r = page_alloc(page_init, FALSE), r.page # NULL,
         m = [fl   |-> r.fl, ref |-> [p \in Pages |-> IF p = r.page THEN 1 ELSE 0],
              lent |-> {r.page}, tab |-> [p \in Pages |-> NoEntries],
              root |-> r.page, tlb |-> {}]
  PROVE  \E way : State(m, {r.page}, way) /\ Leaves(m, {r.page}, way) = {}
<1> DEFINE q == r.page
<1>1. Good(page_init, {})
  <2>1. page_init.avail = InitialHeads /\ page_init.panic = FALSE
    BY DEF page_init
  <2>2. Tiled(page_init, page_init.avail \cup {})
    BY <2>1, InitTiled
  <2> QED BY <2>1, <2>2, InitLinked DEF Good
<1>2. /\ q \in Pages /\ Good(r.fl, {} \cup {q}) /\ q \notin r.fl.huge
  BY <1>1, AllocGood, AllocKind
<1>3. r.fl \in FreeList
  BY <1>2 DEF Good, Linked
<1>4. /\ m.fl = r.fl /\ m.ref = [p \in Pages |-> IF p = q THEN 1 ELSE 0] /\ m.lent = {q}
      /\ m.tab = [p \in Pages |-> NoEntries] /\ m.root = q /\ m.tlb = {}
      /\ m = [fl |-> m.fl, ref |-> m.ref, lent |-> m.lent, tab |-> m.tab, root |-> m.root,
              tlb |-> m.tlb]
  OBVIOUS
<1> HIDE DEF q
<1>5. /\ NoEntries \in [Index -> [page : Ptr, huge : BOOLEAN]]
      /\ \A i \in Index : NoEntries[i].page = NULL
  BY DEF NoEntries, Empty, Ptr
<1>6. m \in Memory
  <2>1. m.ref \in [Pages -> 0..MaxRef]
    BY <1>4, Bounds
  <2>2. m.tab \in [Pages -> [Index -> [page : Ptr, huge : BOOLEAN]]]
    BY <1>4, <1>5
  <2>3. m.lent \subseteq Pages /\ m.root \in Pages /\ m.fl \in FreeList
        /\ m.tlb \subseteq [at : Seq(Index), page : Pages]
    BY <1>2, <1>3, <1>4
  <2> QED BY <1>4, <2>1, <2>2, <2>3 DEF Memory
<1>7. /\ Good(m.fl, m.lent) /\ m.root \in m.lent \ m.fl.huge
      /\ \A p \in Pages : m.ref[p] = IF p = m.root THEN 1 ELSE 0
      /\ \A p \in Pages, i \in Index : m.tab[p][i].page = NULL
  <2>1. m.lent = {} \cup {q} /\ m.fl = r.fl
    BY <1>4
  <2>2. Good(m.fl, m.lent)
    BY <1>2, <2>1
  <2> QED BY <1>2, <1>4, <1>5, <2>2
<1>8. \E way : State(m, {m.root}, way) /\ Leaves(m, {m.root}, way) = {}
  BY <1>4, <1>6, <1>7, RootOnly
<1> QED BY <1>4, <1>8 DEF q

\* AllocatePage and FreePage as relations of two memories.
Takes(m, m2, r) == m2 = [m EXCEPT !.fl = r.fl, !.lent = @ \cup {r.page}]
GivesBack(m, m2, p) == m2 = [m EXCEPT !.fl = page_free(@, 0, p), !.lent = @ \ {p}]

\* AllocatePage keeps the tree; one page more is in use.
LEMMA TakesPage ==
  ASSUME NEW m, NEW T, NEW way, State(m, T, way), NEW k \in BOOLEAN,
         NEW r, r = page_alloc(m.fl, k), r.page # NULL, NEW m2, Takes(m, m2, r)
  PROVE  /\ State(m2, T, way) /\ Leaves(m2, T, way) = Leaves(m, T, way)
         /\ r.page \notin m.lent /\ m2.lent \ T = (m.lent \ T) \cup {r.page}
<1>1. AllocatedBy(m, T, r, k)
  BY Allocated
<1>2. /\ r.page \in Pages /\ r.page \notin m.lent /\ r.page \notin T
      /\ r.fl \in FreeList /\ Good(r.fl, m.lent \cup {r.page})
      /\ \A p \in m.lent : p \in r.fl.huge <=> p \in m.fl.huge
  BY <1>1 DEF AllocatedBy
<1>3. m \in Memory
  BY Parts
<1>4. m = [fl |-> m.fl, ref |-> m.ref, lent |-> m.lent, tab |-> m.tab, root |-> m.root,
           tlb |-> m.tlb]
  BY <1>3 DEF Memory
<1>5. /\ m2.fl = r.fl /\ m2.ref = m.ref /\ m2.lent = m.lent \cup {r.page} /\ m2.tab = m.tab
      /\ m2.root = m.root /\ m2.tlb = m.tlb
      /\ m2 = [fl |-> m2.fl, ref |-> m2.ref, lent |-> m2.lent, tab |-> m2.tab, root |-> m2.root,
               tlb |-> m2.tlb]
  BY <1>4 DEF Takes
<1>6. m2 \in Memory
  BY <1>2, <1>3, <1>5, Fields DEF Memory
<1>7. SameTables(m, m2)
  BY <1>2, <1>5 DEF SameTables
<1>8. State(m2, T, way) /\ Leaves(m2, T, way) = Leaves(m, T, way)
  BY <1>6, <1>7, TreeKept
<1> QED BY <1>2, <1>5, <1>8

\* FreePage keeps the tree; one page less is in use.
LEMMA GivesPageBack ==
  ASSUME NEW m, NEW T, NEW way, State(m, T, way), NEW p \in m.lent \ T, m.ref[p] = 0,
         NEW m2, GivesBack(m, m2, p)
  PROVE  /\ State(m2, T, way) /\ Leaves(m2, T, way) = Leaves(m, T, way)
         /\ m2.lent \ T = (m.lent \ T) \ {p}
<1> DEFINE fl == page_free(m.fl, 0, p)
<1>1. FreedIn(m, p, fl)
  BY Freed
<1>2. /\ fl \in FreeList /\ Good(fl, m.lent \ {p})
      /\ \A x \in m.lent \ {p} : x \in fl.huge <=> x \in m.fl.huge
  BY <1>1 DEF FreedIn
<1>3. m \in Memory
  BY Parts
<1>4. m = [fl |-> m.fl, ref |-> m.ref, lent |-> m.lent, tab |-> m.tab, root |-> m.root,
           tlb |-> m.tlb]
  BY <1>3 DEF Memory
<1>5. m2 = [m EXCEPT !.fl = fl, !.lent = @ \ {p}]
  BY DEF GivesBack
<1> HIDE DEF fl
<1>6. /\ m2.fl = fl /\ m2.ref = m.ref /\ m2.lent = m.lent \ {p} /\ m2.tab = m.tab
      /\ m2.root = m.root /\ m2.tlb = m.tlb
      /\ m2 = [fl |-> m2.fl, ref |-> m2.ref, lent |-> m2.lent, tab |-> m2.tab, root |-> m2.root,
               tlb |-> m2.tlb]
  BY <1>4, <1>5
<1>7. m2 \in Memory
  <2>1. m2.lent \subseteq Pages
    BY <1>3, <1>6, Fields
  <2> QED BY <1>2, <1>3, <1>6, <2>1, Fields DEF Memory
<1>8. SameTables(m, m2)
  <2>1. \A x \in m.lent : m.ref[x] > 0 => x # p
    OBVIOUS
  <2> QED BY <1>2, <1>6, <2>1 DEF SameTables
<1>9. State(m2, T, way) /\ Leaves(m2, T, way) = Leaves(m, T, way)
  BY <1>7, <1>8, TreeKept
<1> QED BY <1>6, <1>9

\* page_remove, whether or not the address is mapped.
LEMMA Removes ==
  ASSUME NEW m, NEW T, NEW way, State(m, T, way), NEW va \in Vas, NEW m2, m2 = page_remove(m, va)
  PROVE  \/ m2 = m /\ NoLeaf(m, T, way, va)
         \/ /\ State(m2, T, way)
            /\ \E t, i : /\ LeafFor(m, T, way, t, i, va)
                         /\ Remapped(m, T, way, m2, T, way, Append(way[t], i), NULL)
<1>1. CASE NoLeaf(m, T, way, va)
  BY <1>1, Removed
<1>2. CASE ~NoLeaf(m, T, way, va)
  <2>1. PICK t, i : LeafFor(m, T, way, t, i, va)
    BY <1>2 DEF NoLeaf
  <2>2. Leads(way, t, i, Append(way[t], i))
    BY DEF Leads
  <2>3. State(m2, T, way) /\ Remapped(m, T, way, m2, T, way, Append(way[t], i), NULL)
    BY <2>1, <2>2, RemovesLeaf
  <2> QED BY <2>1, <2>3
<1> QED BY <1>1, <1>2

\* The invariant holds of the first memory: one root without entries.
THEOREM InvInit == Init => IInv
<1> SUFFICES ASSUME Init PROVE IInv
  OBVIOUS
<1> DEFINE r == page_alloc(page_init, FALSE)
<1>1. /\ r.page # NULL
      /\ mem = [fl   |-> r.fl, ref |-> [p \in Pages |-> IF p = r.page THEN 1 ELSE 0],
                lent |-> {r.page}, tab |-> [p \in Pages |-> NoEntries],
                root |-> r.page, tlb |-> {}]
  BY DEF Init
<1> HIDE DEF r
<1>2. PICK way : State(mem, {r.page}, way)
  BY <1>1, InitState DEF r
<1>3. {r.page} \in SUBSET Pages
  BY <1>2, Parts
<1> QED BY <1>2, <1>3 DEF IInv

\* Every call, and every step that is none, keeps the invariant.
THEOREM InvStep == IInv /\ [Next]_mem => IInv'
<1> SUFFICES ASSUME IInv, [Next]_mem PROVE IInv'
  OBVIOUS
<1>0. PICK T \in SUBSET Pages : \E way : State(mem, T, way)
  BY DEF IInv
<1>1. PICK way : State(mem, T, way)
  BY <1>0
<1>2. ASSUME NEW T2, NEW way2, State(mem', T2, way2) PROVE IInv'
  <2>1. T2 \in SUBSET Pages
    BY <1>2, Parts
  <2> QED BY <1>2, <2>1 DEF IInv
<1>3. Data(mem) = mem.lent \ T
  BY <1>1, TablesAre DEF Data
<1>4. ASSUME NEW huge \in BOOLEAN, AllocatePage(huge) PROVE IInv'
  <2> DEFINE r == page_alloc(mem.fl, huge)
  <2>1. r.page # NULL /\ Takes(mem, mem', r)
    BY <1>4 DEF AllocatePage, Takes
  <2> HIDE DEF r
  <2>2. State(mem', T, way)
    BY <1>1, <2>1, TakesPage DEF r
  <2> QED BY <1>2, <2>2
<1>5. ASSUME NEW p \in Data(mem), FreePage(p) PROVE IInv'
  <2>1. mem.ref[p] = 0 /\ GivesBack(mem, mem', p)
    BY <1>5 DEF FreePage, GivesBack
  <2>2. State(mem', T, way)
    BY <1>1, <1>3, <2>1, GivesPageBack
  <2> QED BY <1>2, <2>2
<1>6. ASSUME NEW p \in Data(mem), NEW va \in Vas, InsertPage(p, va) PROVE IInv'
  <2>1. /\ KindFits(mem, p, va) /\ mem.ref[p] < MaxRef
        /\ mem.ref[p] # 1 \/ page_lookup(mem, va).page # p
        /\ mem' = page_insert(mem, p, va)
    BY <1>6 DEF InsertPage
  <2>2. \E T2, way2 : State(mem', T2, way2)
    BY <1>1, <1>3, <2>1, Inserted
  <2> QED BY <1>2, <2>2
<1>7. ASSUME NEW va \in Vas, RemovePage(va) PROVE IInv'
  <2>1. mem' = page_remove(mem, va)
    BY <1>7 DEF RemovePage
  <2>2. State(mem', T, way)
    BY <1>1, <2>1, Removes
  <2> QED BY <1>2, <2>2
<1>8. CASE UNCHANGED mem
  BY <1>1, <1>2, <1>8
<1> QED BY <1>4, <1>5, <1>6, <1>7, <1>8 DEF Next

\* The tables always form a tree of which the invariant's parts hold.
THEOREM Invariant == Spec => []IInv
BY InvInit, InvStep, PTL DEF Spec

-----------------------------------------------------------------------------
(* What the invariant implies.                                              *)

\* The properties of one state, from the tables and their ways.
LEMMA Typed ==
  ASSUME NEW T, NEW way, State(mem, T, way) PROVE TypeOK
<1>1. mem \in Memory
  BY Parts
<1>2. \A p \in Pages, i \in Index :
        mem.tab[p][i].page \in Pages \cup {NULL} /\ mem.tab[p][i].huge \in BOOLEAN
  BY <1>1, Fields DEF Ptr
<1>3. /\ mem.fl \in FreeList /\ mem.ref \in [Pages -> 0..MaxRef] /\ mem.lent \subseteq Pages
      /\ mem.tlb \subseteq [at : Seq(Index), page : Pages]
  BY <1>1, Fields
<1> QED BY <1>2, <1>3 DEF TypeOK

\* The present entries of the tables that lead to a page are all entries that do.
LEMMA EntriesAre ==
  ASSUME NEW T, NEW way, State(mem, T, way), NEW p \in Pages
  PROVE  {x \in Entries : EntryOf(x).page = p} = EntriesTo(mem, T, p)
<1>1. Tables(mem) = T
  BY TablesAre
<1>2. p # NULL
  BY Bounds
<1> QED BY <1>1, <1>2 DEF Entries, EntryOf, EntriesTo, Present

\* The counts are those of the tree's entries.
LEMMA Exact ==
  ASSUME NEW T, NEW way, State(mem, T, way) PROVE RefsExact
<1>1. Counted(mem, T)
  BY Parts
<1>2. ASSUME NEW p \in Pages \ Reserved
      PROVE  mem.ref[p] = Cardinality({x \in Entries : EntryOf(x).page = p})
                          + (IF p = mem.root THEN 1 ELSE 0)
  <2>1. {x \in Entries : EntryOf(x).page = p} = EntriesTo(mem, T, p)
    BY EntriesAre
  <2>2. mem.ref[p] = Cardinality(EntriesTo(mem, T, p)) + (IF p = mem.root THEN 1 ELSE 0)
    BY <1>1 DEF Counted, Count
  <2> QED BY <2>1, <2>2
<1> QED BY <1>2 DEF RefsExact

\* Pages in use are not free, and entries lead to pages in use.
LEMMA Sound ==
  ASSUME NEW T, NEW way, State(mem, T, way) PROVE AllocatorOK
<1>1. Good(mem.fl, mem.lent) /\ Tree(mem, T, way)
  BY Parts
<1>2. \A p \in Pages : mem.ref[p] > 0 => p \in mem.lent
  BY InUse
<1>3. ListSound(mem.fl) /\ Partitioned(mem.fl, mem.ref, mem.lent) /\ ~mem.fl.panic
  BY <1>1, <1>2, GoodSound DEF Good
<1>4. ASSUME NEW x \in Entries
      PROVE  EntryOf(x).page \in mem.lent /\ (EntryOf(x).huge <=> EntryOf(x).page \in mem.fl.huge)
  <2>1. Tables(mem) = T
    BY TablesAre
  <2>2. PICK t \in T, i \in Index : x = <<t, i>> /\ Present(EntryOf(x))
    BY <1>4, <2>1 DEF Entries
  <2>3. EntryOf(x) = mem.tab[t][i]
    BY <2>2 DEF EntryOf
  <2>4. EntryOK(mem, T, way, t, i)
    BY <1>1, <2>2, <2>3 DEF Tree
  <2> QED BY <2>3, <2>4 DEF EntryOK
<1> QED BY <1>3, <1>4 DEF AllocatorOK

\* One entry leads to each table but the root.
LEMMA OwnTables ==
  ASSUME NEW T, NEW way, State(mem, T, way) PROVE TablesOwned
<1>1. Tree(mem, T, way) /\ T \subseteq Pages /\ T \subseteq mem.lent /\ T \cap mem.fl.huge = {}
      /\ (\A t \in T : way[t] \in Seq(Index)) /\ Tables(mem) = T
  BY Parts, TablesAre
<1>2. ASSUME NEW q \in T, NEW t \in T, NEW i \in Index, mem.tab[t][i].page = q
      PROVE  way[q] = Append(way[t], i)
  <2>1. Present(mem.tab[t][i])
    BY <1>1, <1>2, Bounds DEF Present
  <2> QED BY <1>1, <1>2, <2>1 DEF Tree, EntryOK
<1>3. ASSUME NEW q \in T
      PROVE  Cardinality(EntriesTo(mem, T, q)) = IF q = mem.root THEN 0 ELSE 1
  <2>1. CASE q = mem.root
    <3>1. \A t \in T, i \in Index : Append(way[t], i) # <<>>
      BY <1>1, AppendProperties
    <3>2. way[q] = <<>>
      BY <1>1, <2>1 DEF Tree
    <3>3. \A t \in T, i \in Index : mem.tab[t][i].page # q
      BY <1>2, <3>1, <3>2
    <3>4. EntriesTo(mem, T, q) = {}
      BY <3>3 DEF EntriesTo
    <3> QED BY <2>1, <3>4, FS_EmptySet
  <2>2. CASE q # mem.root
    <3>1. PICK t \in T, i \in Index : mem.tab[t][i].page = q
      BY <1>1, <2>2 DEF Tree
    <3>2. ASSUME NEW u \in T, NEW j \in Index, mem.tab[u][j].page = q PROVE u = t /\ j = i
      <4>1. way[q] = Append(way[t], i) /\ way[q] = Append(way[u], j)
        BY <1>2, <3>1, <3>2
      <4>2. Append(way[u], j) = Append(way[t], i)
        BY <4>1
      <4> QED BY <3>1, <3>2, <4>2, LeafRecords
    <3>3. EntriesTo(mem, T, q) = {<<t, i>>}
      BY <3>1, <3>2 DEF EntriesTo
    <3> QED BY <2>2, <3>3, FS_Singleton
  <2> QED BY <2>1, <2>2
<1>4. ASSUME NEW q \in T
      PROVE  /\ q \in mem.lent \ mem.fl.huge
             /\ Cardinality({x \in Entries : EntryOf(x).page = q}) = IF q = mem.root THEN 0 ELSE 1
  <2>1. q \in Pages /\ q \in mem.lent \ mem.fl.huge
    BY <1>1
  <2>2. {x \in Entries : EntryOf(x).page = q} = EntriesTo(mem, T, q)
    BY <2>1, EntriesAre
  <2> QED BY <1>3, <2>1, <2>2
<1> QED BY <1>1, <1>4 DEF TablesOwned

\* A leaf whose way covers an address is the leaf for the address.
LEMMA CoveringLeaf ==
  ASSUME NEW m, NEW T, NEW way, State(m, T, way), NEW c \in Leaves(m, T, way),
         NEW va \in Vas, Covers(c.at, va)
  PROVE  \E t, i : /\ LeafFor(m, T, way, t, i, va) /\ c.at = Append(way[t], i)
                   /\ c.page = m.tab[t][i].page
<1>1. PICK t \in T, i \in Index : IsLeaf(m, way, t, i) /\ c = LeafRecord(m, way, t, i)
  BY LeafRecords
<1>2. c.at = Append(way[t], i) /\ c.page = m.tab[t][i].page
  BY <1>1 DEF LeafRecord
<1>3. Len(c.at) = Len(way[t]) + 1
  <2>1. way[t] \in Seq(Index)
    BY <1>1, Parts
  <2> QED BY <1>1, <1>2, <2>1, AppendProperties
<1>4. c.at = Prefix(va, Len(way[t]) + 1)
  BY <1>3 DEF Covers, Prefix
<1>5. LeafFor(m, T, way, t, i, va)
  BY <1>1, <1>2, <1>4 DEF LeafFor
<1> QED BY <1>2, <1>5

\* What is cached for an address is where its leaf leads.
LEMMA Coherent ==
  ASSUME NEW T, NEW way, State(mem, T, way) PROVE TlbCoherent
<1> SUFFICES ASSUME NEW c \in mem.tlb, NEW va \in Vas, Covers(c.at, va)
             PROVE  Translation(mem, va) = c.page
  BY DEF TlbCoherent
<1>1. c \in Leaves(mem, T, way)
  BY Parts
<1>2. PICK t, i : LeafFor(mem, T, way, t, i, va) /\ c.page = mem.tab[t][i].page
  BY <1>1, CoveringLeaf
<1> QED BY <1>2, Translates

\* Memory, tables and cache always have their types: no walk leaves a null table
\* in an entry, no count leaves its range.
THEOREM TypeCorrect == Spec => []TypeOK
<1>1. IInv => TypeOK
  BY Typed DEF IInv
<1> QED BY <1>1, Invariant, PTL

\* A page's count is exactly the number of the entries that lead to it, whatever
\* page_insert, page_remove and failed walks have done.
THEOREM CountsExact == Spec => []RefsExact
<1>1. IInv => RefsExact
  BY Exact DEF IInv
<1> QED BY <1>1, Invariant, PTL

\* The allocator stays sound, never panics, and never gets back a page that is
\* still mapped.
THEOREM AllocatorSound == Spec => []AllocatorOK
<1>1. IInv => AllocatorOK
  BY Sound DEF IInv
<1> QED BY <1>1, Invariant, PTL

\* The tables are a tree of small pages that nothing else uses.
THEOREM TreeOfTables == Spec => []TablesOwned
<1>1. IInv => TablesOwned
  BY OwnTables DEF IInv
<1> QED BY <1>1, Invariant, PTL

\* The processor never uses a translation that the tables do not have.
THEOREM CacheCoherent == Spec => []TlbCoherent
<1>1. IInv => TlbCoherent
  BY Coherent DEF IInv
<1> QED BY <1>1, Invariant, PTL
-----------------------------------------------------------------------------
(* The tables are a map from addresses to pages.                            *)

\* The map as the processor finds it.
MapOf(m) == [va \in Vas |-> Translation(m, va)]

\* At an address that a leaf covers its page is found, at the others nothing; no
\* address is covered twice and no leaf is in vain.
LEMMA LeavesMap ==
  ASSUME NEW m, NEW T, NEW way, State(m, T, way)
  PROVE  /\ \A c \in Leaves(m, T, way) : c.page \in Pages /\ \E va \in Vas : Covers(c.at, va)
         /\ \A c \in Leaves(m, T, way), va \in Vas : Covers(c.at, va) => Translation(m, va) = c.page
         /\ \A c, d \in Leaves(m, T, way), va \in Vas : Covers(c.at, va) /\ Covers(d.at, va) => c.at = d.at
         /\ \A va \in Vas : (\A c \in Leaves(m, T, way) : ~Covers(c.at, va)) => Translation(m, va) = NULL
<1>1. ASSUME NEW c \in Leaves(m, T, way)
      PROVE  c.page \in Pages /\ \E va \in Vas : Covers(c.at, va)
  <2>1. PICK t \in T, i \in Index : IsLeaf(m, way, t, i) /\ c = LeafRecord(m, way, t, i)
    BY LeafRecords
  <2>2. Tree(m, T, way)
    BY Parts
  <2>3. PICK va \in Vas : Prefix(va, Len(way[t]) + 1) = Append(way[t], i)
    BY <2>1, <2>2 DEF Tree, EntryOK, IsLeaf
  <2>4. Len(way[t]) + 1 \in 1..Depth
    BY <2>3, OnTheWay
  <2>5. Covers(Append(way[t], i), va)
    BY <2>3, <2>4, PrefixCovers
  <2>6. c.at = Append(way[t], i)
    BY <2>1 DEF LeafRecord
  <2>7. c.page \in Pages
    BY DEF Leaves
  <2> QED BY <2>5, <2>6, <2>7
<1>2. ASSUME NEW c \in Leaves(m, T, way), NEW va \in Vas, Covers(c.at, va)
      PROVE  Translation(m, va) = c.page
  <2>1. PICK t, i : LeafFor(m, T, way, t, i, va) /\ c.page = m.tab[t][i].page
    BY <1>2, CoveringLeaf
  <2> QED BY <2>1, Translates
<1>3. ASSUME NEW c \in Leaves(m, T, way), NEW d \in Leaves(m, T, way), NEW va \in Vas,
             Covers(c.at, va), Covers(d.at, va)
      PROVE  c.at = d.at
  <2>1. PICK t, i : LeafFor(m, T, way, t, i, va) /\ c.at = Append(way[t], i)
    BY <1>3, CoveringLeaf
  <2>2. PICK u, j : LeafFor(m, T, way, u, j, va) /\ d.at = Append(way[u], j)
    BY <1>3, CoveringLeaf
  <2>3. t = u /\ i = j
    BY <2>1, <2>2, OneLeaf
  <2> QED BY <2>1, <2>2, <2>3
<1>4. ASSUME NEW va \in Vas, \A c \in Leaves(m, T, way) : ~Covers(c.at, va)
      PROVE  Translation(m, va) = NULL
  <2>1. ASSUME NEW t \in T, NEW i \in Index, LeafFor(m, T, way, t, i, va) PROVE FALSE
    <3>1. IsLeaf(m, way, t, i) /\ Prefix(va, Len(way[t]) + 1) = Append(way[t], i)
      BY <2>1 DEF LeafFor
    <3>2. LeafRecord(m, way, t, i) \in Leaves(m, T, way)
      BY <3>1, LeafRecords
    <3>3. Len(way[t]) + 1 \in 1..Depth
      BY <3>1, OnTheWay
    <3>4. Covers(Append(way[t], i), va)
      BY <3>1, <3>3, PrefixCovers
    <3>5. LeafRecord(m, way, t, i).at = Append(way[t], i)
      BY DEF LeafRecord
    <3> QED BY <1>4, <3>2, <3>4, <3>5
  <2>2. NoLeaf(m, T, way, va)
    BY <2>1 DEF NoLeaf
  <2> QED BY <2>2, Translates
<1> QED BY <1>1, <1>2, <1>3, <1>4

\* What is mapped are the pages of the leaves.
LEMMA MappedPages ==
  ASSUME NEW m, NEW T, NEW way, State(m, T, way)
  PROVE  Space!Mapped(MapOf(m)) = PagesOf(Leaves(m, T, way))
<1>1. ASSUME NEW q \in Space!Mapped(MapOf(m)) PROVE q \in PagesOf(Leaves(m, T, way))
  <2>1. PICK va \in Vas : q = Translation(m, va) /\ q # NULL
    BY DEF Space!Mapped, MapOf
  <2>2. PICK c \in Leaves(m, T, way) : Covers(c.at, va)
    BY <2>1, LeavesMap
  <2>3. q = c.page
    BY <2>1, <2>2, LeavesMap
  <2> QED BY <2>3 DEF PagesOf
<1>2. ASSUME NEW q \in PagesOf(Leaves(m, T, way)) PROVE q \in Space!Mapped(MapOf(m))
  <2>1. PICK c \in Leaves(m, T, way) : q = c.page
    BY DEF PagesOf
  <2>2. PICK va \in Vas : Covers(c.at, va)
    BY LeavesMap
  <2>3. q = Translation(m, va) /\ q # NULL
    BY <2>1, <2>2, LeavesMap, Bounds
  <2> QED BY <2>3 DEF Space!Mapped, MapOf
<1> QED BY <1>1, <1>2

\* The map depends on the leaves only.
LEMMA SameMap ==
  ASSUME NEW m, NEW T, NEW way, State(m, T, way), NEW m2, NEW T2, NEW way2, State(m2, T2, way2),
         Leaves(m2, T2, way2) = Leaves(m, T, way)
  PROVE  MapOf(m2) = MapOf(m)
<1>1. ASSUME NEW va \in Vas PROVE Translation(m2, va) = Translation(m, va)
  <2>1. CASE \E c \in Leaves(m, T, way) : Covers(c.at, va)
    <3>1. PICK c \in Leaves(m, T, way) : Covers(c.at, va)
      BY <2>1
    <3>2. Translation(m, va) = c.page
      BY <3>1, LeavesMap
    <3>3. Translation(m2, va) = c.page
      <4>1. c \in Leaves(m2, T2, way2)
        BY <3>1
      <4> QED BY <3>1, <4>1, LeavesMap
    <3> QED BY <3>2, <3>3
  <2>2. CASE \A c \in Leaves(m, T, way) : ~Covers(c.at, va)
    <3>1. Translation(m, va) = NULL
      BY <2>2, LeavesMap
    <3>2. Translation(m2, va) = NULL
      <4>1. \A c \in Leaves(m2, T2, way2) : ~Covers(c.at, va)
        BY <2>2
      <4> QED BY <4>1, LeavesMap
    <3> QED BY <3>1, <3>2
  <2> QED BY <2>1, <2>2
<1> QED BY <1>1 DEF MapOf

\* The addresses that a way covers.
CoveredBy(at) == {v \in Vas : Covers(at, v)}

\* Mapping a page, or none, where there is one way: the map changes there and
\* nowhere else.
LEMMA RemappedMap ==
  ASSUME NEW m, NEW T, NEW way, State(m, T, way), NEW m2, NEW T2, NEW way2, State(m2, T2, way2),
         NEW at, NEW p, Remapped(m, T, way, m2, T2, way2, at, p),
         p # NULL \/ \E c \in Leaves(m, T, way) : c.at = at
  PROVE  MapOf(m2) = Space!Overlay(MapOf(m), CoveredBy(at), p)
<1> DEFINE L == Leaves(m, T, way)
           L2 == Leaves(m2, T2, way2)
<1>1. L2 = {c \in L : c.at # at} \cup (IF p = NULL THEN {} ELSE {[at |-> at, page |-> p]})
  BY DEF Remapped
<1>2. ASSUME NEW va \in Vas, Covers(at, va) PROVE Translation(m2, va) = p
  <2>1. CASE p # NULL
    <3> DEFINE c == [at |-> at, page |-> p]
    <3>1. c \in L2 /\ c.at = at /\ c.page = p
      BY <1>1, <2>1
    <3> HIDE DEF c
    <3> QED BY <1>2, <3>1, LeavesMap
  <2>2. CASE p = NULL
    <3>1. PICK c \in L : c.at = at
      BY <2>2
    <3>2. ASSUME NEW d \in L2, Covers(d.at, va) PROVE FALSE
      <4>1. d \in L /\ d.at # at
        BY <1>1, <2>2
      <4>2. Covers(c.at, va)
        BY <1>2, <3>1
      <4>3. d.at = c.at
        BY <3>1, <3>2, <4>1, <4>2, LeavesMap
      <4> QED BY <3>1, <4>1, <4>3
    <3>3. Translation(m2, va) = NULL
      BY <3>2, LeavesMap
    <3> QED BY <2>2, <3>3
  <2> QED BY <2>1, <2>2
<1>3. ASSUME NEW va \in Vas, ~Covers(at, va) PROVE Translation(m2, va) = Translation(m, va)
  <2>1. CASE \E c \in L : Covers(c.at, va)
    <3>1. PICK c \in L : Covers(c.at, va)
      BY <2>1
    <3>2. Translation(m, va) = c.page
      BY <3>1, LeavesMap
    <3>3. c \in L2
      BY <1>1, <1>3, <3>1
    <3>4. Translation(m2, va) = c.page
      BY <3>1, <3>3, LeavesMap
    <3> QED BY <3>2, <3>4
  <2>2. CASE \A c \in L : ~Covers(c.at, va)
    <3>1. Translation(m, va) = NULL
      BY <2>2, LeavesMap
    <3>2. ASSUME NEW d \in L2, Covers(d.at, va) PROVE FALSE
      <4>1. d \in L \/ d = [at |-> at, page |-> p]
        BY <1>1
      <4>2. d \in L \/ d.at = at
        BY <4>1
      <4> QED BY <1>3, <2>2, <3>2, <4>2
    <3>3. Translation(m2, va) = NULL
      BY <3>2, LeavesMap
    <3> QED BY <3>1, <3>3
  <2> QED BY <2>1, <2>2
<1>4. MapOf(m2) = [va \in Vas |-> IF va \in CoveredBy(at) THEN p ELSE Translation(m, va)]
  BY <1>2, <1>3 DEF MapOf, CoveredBy
<1> QED BY <1>4 DEF Space!Overlay, MapOf

\* The spans of AddressSpace.
Spans == {{va} : va \in Vas} \cup {HugeSpan(va) : va \in Vas}

\* What one entry can map is a span.
LEMMA EntryMapsSpan ==
  ASSUME NEW va \in Vas, NEW huge \in BOOLEAN
  PROVE  CoveredBy(EntryWay(huge, va)) \in Spans
<1>1. CASE huge
  BY <1>1 DEF CoveredBy, EntryWay, Spans, HugeSpan, Prefix
<1>2. CASE ~huge
  <2>1. ASSUME NEW v \in Vas PROVE Covers(va, v) <=> v = va
    <3>1. v \in Seq(Index) /\ Len(v) = Depth /\ va \in Seq(Index) /\ Len(va) = Depth
      BY PageTablesAssumption
    <3>2. SubSeq(v, 1, Depth) = v
      BY <3>1, SubSeqFull
    <3> QED BY <3>1, <3>2 DEF Covers
  <2>2. CoveredBy(va) = {va}
    BY <2>1 DEF CoveredBy
  <2> QED BY <1>2, <2>2 DEF EntryWay, Spans
<1> QED BY <1>1, <1>2

\* The leaf for an address is at one of the two places such an entry can be.
LEMMA LeafWay ==
  ASSUME NEW m, NEW T, NEW way, State(m, T, way), NEW va, NEW t, NEW i, LeafFor(m, T, way, t, i, va)
  PROVE  \E huge \in BOOLEAN : Append(way[t], i) = EntryWay(huge, va)
<1>1. t \in T /\ i \in Index /\ va \in Vas
  BY DEF LeafFor
<1>2. va \in Address /\ Depth - 1 \in 1..Depth /\ Depth \in 1..Depth /\ (Depth - 1) - 1 = Depth - 2
  BY <1>1, PageTablesAssumption DEF Address
<1>3. /\ Append(Prefix(va, Depth - 2), va[Depth - 1]) = Prefix(va, Depth - 1)
      /\ Append(Prefix(va, Depth - 1), va[Depth]) = va
  <2>1. Prefix(va, Depth - 1) = Append(Prefix(va, (Depth - 1) - 1), va[Depth - 1])
    BY <1>2, PrefixStep
  <2>2. Prefix(va, Depth) = Append(Prefix(va, Depth - 1), va[Depth])
    BY <1>2, PrefixStep
  <2>3. Prefix(va, Depth) = va
    BY <1>2, PrefixEnds
  <2> QED BY <1>2, <2>1, <2>2, <2>3
<1>4. \/ way[t] = Prefix(va, Depth - 2) /\ i = va[Depth - 1]
      \/ way[t] = Prefix(va, Depth - 1) /\ i = va[Depth]
  BY <1>1, LeafPlaces
<1>5. Append(way[t], i) = EntryWay(TRUE, va) \/ Append(way[t], i) = EntryWay(FALSE, va)
  BY <1>3, <1>4 DEF EntryWay
<1> QED BY <1>5

\* A change of the map, as a relation of two memories.
Turns(m, m2) ==
    /\ \E V \in Spans, p \in (m.lent \ Tables(m)) \cup {NULL} : MapOf(m2) = Space!Overlay(MapOf(m), V, p)
    /\ Data(m2) = Data(m) \ (Space!Mapped(MapOf(m)) \ Space!Mapped(MapOf(m2)))

\* Leaves that change in one place are one change of the map.
LEMMA RemappedTurns ==
  ASSUME NEW m, NEW T, NEW way, State(m, T, way), NEW m2, NEW T2, NEW way2, State(m2, T2, way2),
         NEW at, NEW p \in (m.lent \ T) \cup {NULL}, Remapped(m, T, way, m2, T2, way2, at, p),
         p # NULL \/ \E c \in Leaves(m, T, way) : c.at = at,
         NEW va \in Vas, NEW huge \in BOOLEAN, at = EntryWay(huge, va)
  PROVE  Turns(m, m2)
<1>1. MapOf(m2) = Space!Overlay(MapOf(m), CoveredBy(at), p)
  BY RemappedMap
<1>2. CoveredBy(at) \in Spans
  BY EntryMapsSpan
<1>3. Data(m) = m.lent \ T /\ Data(m2) = m2.lent \ T2 /\ Tables(m) = T
  BY TablesAre DEF Data
<1>4. /\ Space!Mapped(MapOf(m)) = PagesOf(Leaves(m, T, way))
      /\ Space!Mapped(MapOf(m2)) = PagesOf(Leaves(m2, T2, way2))
  BY MappedPages
<1>5. m2.lent \ T2 = (m.lent \ T) \ (PagesOf(Leaves(m, T, way)) \ PagesOf(Leaves(m2, T2, way2)))
  BY DEF Remapped
<1> QED BY <1>1, <1>2, <1>3, <1>4, <1>5 DEF Turns

\* The first memory is an empty map.
LEMMA InitSpace == Init => Space!Init
<1> SUFFICES ASSUME Init PROVE Space!Init
  OBVIOUS
<1> DEFINE r == page_alloc(page_init, FALSE)
<1>1. /\ r.page # NULL
      /\ mem = [fl   |-> r.fl, ref |-> [p \in Pages |-> IF p = r.page THEN 1 ELSE 0],
                lent |-> {r.page}, tab |-> [p \in Pages |-> NoEntries],
                root |-> r.page, tlb |-> {}]
  BY DEF Init
<1> HIDE DEF r
<1>2. PICK T, way : T = {r.page} /\ State(mem, T, way) /\ Leaves(mem, T, way) = {}
  <2>1. PICK way : State(mem, {r.page}, way) /\ Leaves(mem, {r.page}, way) = {}
    BY <1>1, InitState DEF r
  <2> QED BY <2>1
<1>3. ASSUME NEW va \in Vas PROVE Translation(mem, va) = NULL
  <2>1. \A c \in Leaves(mem, T, way) : ~Covers(c.at, va)
    BY <1>2
  <2>2. State(mem, T, way)
    BY <1>2
  <2> QED BY <2>1, <2>2, LeavesMap
<1>4. Data(mem) = {}
  <2>1. mem.lent = {r.page}
    BY <1>1
  <2>2. Tables(mem) = {r.page}
    BY <1>2, TablesAre
  <2> QED BY <2>1, <2>2 DEF Data
<1> QED BY <1>3, <1>4 DEF Space!Init

\* Every call is a step of the map, or none.
LEMMA NextSpace == IInv /\ [Next]_mem => [Space!Next]_(Space!vars)
<1> SUFFICES ASSUME IInv, [Next]_mem PROVE Space!Next \/ UNCHANGED Space!vars
  BY Zenon
<1>0. PICK T \in SUBSET Pages : \E way : State(mem, T, way)
  BY DEF IInv
<1>1. PICK way : State(mem, T, way)
  BY <1>0
<1>2. Data(mem) = mem.lent \ T /\ Tables(mem) = T
  BY <1>1, TablesAre DEF Data
<1>3. ASSUME MapOf(mem') = MapOf(mem), Data(mem') = Data(mem) PROVE UNCHANGED Space!vars
  BY <1>3 DEF Space!vars, MapOf
<1>4. ASSUME Turns(mem, mem') PROVE Space!Next
  <2>1. Space!Change
    BY <1>4 DEF Turns, Space!Change, MapOf, Data, Spans
  <2> QED BY <2>1 DEF Space!Next
<1>5. ASSUME NEW huge \in BOOLEAN, AllocatePage(huge) PROVE Space!Next
  <2> DEFINE r == page_alloc(mem.fl, huge)
  <2>1. r.page # NULL /\ Takes(mem, mem', r)
    BY <1>5 DEF AllocatePage, Takes
  <2> HIDE DEF r
  <2>2. /\ State(mem', T, way) /\ Leaves(mem', T, way) = Leaves(mem, T, way)
        /\ r.page \notin mem.lent /\ mem'.lent \ T = (mem.lent \ T) \cup {r.page}
    BY <1>1, <2>1, TakesPage DEF r
  <2>3. MapOf(mem') = MapOf(mem)
    BY <1>1, <2>2, SameMap
  <2>4. Data(mem') = mem'.lent \ T
    BY <2>2, TablesAre DEF Data
  <2>5. r.page \notin Data(mem) /\ Data(mem') = Data(mem) \cup {r.page}
    BY <1>2, <2>2, <2>4
  <2>6. Space!Take(r.page)
    BY <2>3, <2>5 DEF Space!Take, MapOf
  <2> QED BY <2>5, <2>6 DEF Space!Next
<1>6. ASSUME NEW p \in Data(mem), FreePage(p) PROVE Space!Next
  <2>1. mem.ref[p] = 0 /\ GivesBack(mem, mem', p) /\ p \in mem.lent \ T
    BY <1>2, <1>6 DEF FreePage, GivesBack
  <2>2. /\ State(mem', T, way) /\ Leaves(mem', T, way) = Leaves(mem, T, way)
        /\ mem'.lent \ T = (mem.lent \ T) \ {p}
    BY <1>1, <2>1, GivesPageBack
  <2>3. MapOf(mem') = MapOf(mem)
    BY <1>1, <2>2, SameMap
  <2>4. Data(mem') = Data(mem) \ {p}
    BY <1>2, <2>2, TablesAre DEF Data
  <2>5. p \notin Space!Mapped(MapOf(mem))
    <3>1. ASSUME NEW c \in Leaves(mem, T, way), c.page = p PROVE FALSE
      <4>1. PICK t \in T, i \in Index : mem.tab[t][i].page = p
        BY <3>1 DEF Leaves
      <4>2. p \in Pages
        BY <1>1, <2>1, Parts
      <4> QED BY <1>1, <2>1, <4>1, <4>2, InUse
    <3>2. p \notin PagesOf(Leaves(mem, T, way))
      BY <3>1 DEF PagesOf
    <3> QED BY <1>1, <3>2, MappedPages
  <2>6. Space!GiveBack(p)
    BY <2>3, <2>4, <2>5 DEF Space!GiveBack, MapOf
  <2>7. p \in Data(mem) \ Data(mem')
    BY <2>4
  <2> QED BY <2>6, <2>7 DEF Space!Next
<1>7. ASSUME NEW p \in Data(mem), NEW va \in Vas, InsertPage(p, va)
      PROVE  Space!Next \/ UNCHANGED Space!vars
  <2>1. /\ KindFits(mem, p, va) /\ mem.ref[p] < MaxRef
        /\ mem.ref[p] # 1 \/ page_lookup(mem, va).page # p
        /\ mem' = page_insert(mem, p, va)
    BY <1>7 DEF InsertPage
  <2> DEFINE at == EntryWay(p \in mem.fl.huge, va)
  <2> HIDE DEF at
  <2>2. PICK T2, way2 : /\ State(mem', T2, way2)
                        /\ \/ Grown(mem, T, way, mem', T2, way2)
                           \/ Remapped(mem, T, way, mem', T2, way2, at, p)
    BY <1>1, <1>2, <2>1, Inserted DEF at
  <2>3. CASE Grown(mem, T, way, mem', T2, way2)
    <3>1. MapOf(mem') = MapOf(mem)
      BY <1>1, <2>2, <2>3, SameMap DEF Grown
    <3>2. Data(mem') = Data(mem)
      BY <1>2, <2>2, <2>3, TablesAre DEF Data, Grown
    <3> QED BY <1>3, <3>1, <3>2
  <2>4. CASE Remapped(mem, T, way, mem', T2, way2, at, p)
    <3>1. p \in (mem.lent \ T) \cup {NULL} /\ p # NULL
      BY <1>1, <1>2, Parts, Bounds
    <3>2. PICK huge \in BOOLEAN : at = EntryWay(huge, va)
      <4>1. CASE p \in mem.fl.huge
        <5>1. at = EntryWay(TRUE, va)
          BY <4>1 DEF at, EntryWay
        <5> QED BY <5>1
      <4>2. CASE p \notin mem.fl.huge
        <5>1. at = EntryWay(FALSE, va)
          BY <4>2 DEF at, EntryWay
        <5> QED BY <5>1
      <4> QED BY <4>1, <4>2
    <3>3. Turns(mem, mem')
      BY <1>1, <2>2, <2>4, <3>1, <3>2, RemappedTurns
    <3> QED BY <1>4, <3>3
  <2> QED BY <2>2, <2>3, <2>4
<1>8. ASSUME NEW va \in Vas, RemovePage(va) PROVE Space!Next \/ UNCHANGED Space!vars
  <2>1. mem' = page_remove(mem, va)
    BY <1>8 DEF RemovePage
  <2>2. CASE mem' = mem
    BY <1>3, <2>2
  <2>3. CASE mem' # mem
    <3>1. /\ State(mem', T, way)
          /\ \E t, i : /\ LeafFor(mem, T, way, t, i, va)
                       /\ Remapped(mem, T, way, mem', T, way, Append(way[t], i), NULL)
      BY <1>1, <2>1, <2>3, Removes
    <3>2. PICK t, i : /\ LeafFor(mem, T, way, t, i, va)
                      /\ Remapped(mem, T, way, mem', T, way, Append(way[t], i), NULL)
      BY <3>1
    <3>3. PICK huge \in BOOLEAN : Append(way[t], i) = EntryWay(huge, va)
      BY <1>1, <3>2, LeafWay
    <3>4. \E c \in Leaves(mem, T, way) : c.at = Append(way[t], i)
      <4>1. t \in T /\ i \in Index /\ IsLeaf(mem, way, t, i)
        BY <3>2 DEF LeafFor
      <4>2. LeafRecord(mem, way, t, i) \in Leaves(mem, T, way)
        BY <1>1, <4>1, LeafRecords
      <4>3. LeafRecord(mem, way, t, i).at = Append(way[t], i)
        BY DEF LeafRecord
      <4> QED BY <4>2, <4>3
    <3>5. Turns(mem, mem')
      BY <1>1, <3>1, <3>2, <3>3, <3>4, RemappedTurns
    <3> QED BY <1>4, <3>5
  <2> QED BY <2>2, <2>3
<1>9. CASE UNCHANGED mem
  BY <1>3, <1>9
<1> QED BY <1>5, <1>6, <1>7, <1>8, <1>9 DEF Next

\* Whatever tables were made on the way, freed pages reused and cached, and however
\* far memory reached: to its users a tree of page tables is a map from addresses to
\* pages.  page_insert maps one page at one address or changes nothing, page_remove
\* clears one mapping, and a page is given back when its last mapping goes.
THEOREM Refinement == Spec => ImplementsAddressSpace
<1>1. Init => Space!Init
  BY InitSpace
<1>2. IInv /\ [Next]_mem => [Space!Next]_(Space!vars)
  BY NextSpace
<1> QED BY <1>1, <1>2, Invariant, PTL DEF Spec, ImplementsAddressSpace, Space!Spec
=============================================================================
