-------------------------- MODULE PageAllocProofs --------------------------
(***************************************************************************)
(* Theorems about PageAlloc for every memory size, size of a huge page and *)
(* set of reserved frames: its invariants, that it implements FramePool,   *)
(* and that its steps are what the loops of PageAllocLoops compute.        *)
(***************************************************************************)
EXTENDS PageAllocLoops, PageListProofs, FiniteSetTheorems

-----------------------------------------------------------------------------
(* The inductive invariant: the list is good with the lent pages lent out,  *)
(* and only lent pages are referenced.                                      *)

IInv == /\ Good(fl, lent)
        /\ pp_ref \in [Pages -> 0..MaxRef]
        /\ \A p \in Pages : pp_ref[p] > 0 => p \in lent

LEMMA InitIInv == Init => IInv
<1> SUFFICES ASSUME Init PROVE IInv
  OBVIOUS
<1>1. fl = page_init /\ lent = {} /\ pp_ref = [p \in Pages |-> 0]
  BY DEF Init
<1>2. page_init.avail = InitialHeads /\ page_init.panic = FALSE
  BY DEF page_init
<1>3. Good(page_init, {})
  <2>1. page_init.avail \cup {} = InitialHeads
    BY <1>2
  <2>2. Tiled(page_init, page_init.avail \cup {})
    BY <2>1, InitTiled
  <2> QED BY <1>2, <2>2, InitLinked DEF Good
<1>4. pp_ref \in [Pages -> 0..MaxRef] /\ \A p \in Pages : ~ (pp_ref[p] > 0)
  BY <1>1, PageAllocAssumption
<1> QED BY <1>1, <1>3, <1>4 DEF IInv

LEMMA NextIInv == IInv /\ [Next]_vars => IInv'
<1> SUFFICES ASSUME IInv, [Next]_vars PROVE IInv'
  OBVIOUS
<1>1. /\ Good(fl, lent) /\ lent \subseteq Pages /\ pp_ref \in [Pages -> 0..MaxRef]
      /\ \A p \in Pages : pp_ref[p] > 0 => p \in lent
  BY DEF IInv, Good
<1>2. ASSUME NEW k \in BOOLEAN, AllocPage(k) PROVE IInv'
  <2> DEFINE r == page_alloc(fl, k)
  <2>1. r.page # NULL /\ fl' = r.fl /\ lent' = lent \cup {r.page} /\ pp_ref' = pp_ref
    BY <1>2 DEF AllocPage
  <2>2. Good(r.fl, lent \cup {r.page})
    BY <1>1, <2>1, AllocGood
  <2> QED BY <1>1, <2>1, <2>2 DEF IInv
<1>3. ASSUME NEW p \in lent, Reference(p) PROVE IInv'
  <2>1. /\ fl' = fl /\ lent' = lent /\ pp_ref[p] < MaxRef
        /\ pp_ref' = [pp_ref EXCEPT ![p] = @ + 1]
    BY <1>3 DEF Reference
  <2>2. pp_ref' \in [Pages -> 0..MaxRef]
    BY <1>1, <2>1, PageAllocAssumption
  <2>3. \A q \in Pages : pp_ref'[q] > 0 => q \in lent
    BY <1>1, <2>1
  <2> QED BY <1>1, <2>1, <2>2, <2>3 DEF IInv
<1>4. ASSUME NEW p \in lent, page_decref(p) PROVE IInv'
  <2>1. pp_ref[p] > 0 /\ pp_ref' = [pp_ref EXCEPT ![p] = @ - 1]
    BY <1>4 DEF page_decref
  <2>2. pp_ref' \in [Pages -> 0..MaxRef]
    BY <1>1, <2>1, PageAllocAssumption
  <2>3. CASE pp_ref[p] = 1
    <3>1. fl' = page_free(fl, 0, p) /\ lent' = lent \ {p}
      BY <1>4, <2>3 DEF page_decref
    <3>2. Good(page_free(fl, 0, p), lent \ {p})
      BY <1>1, FreeGood
    <3>3. \A q \in Pages : pp_ref'[q] > 0 => q \in lent \ {p}
      BY <1>1, <2>1, <2>3
    <3> QED BY <2>2, <3>1, <3>2, <3>3 DEF IInv
  <2>4. CASE pp_ref[p] # 1
    <3>1. fl' = fl /\ lent' = lent
      BY <1>4, <2>4 DEF page_decref
    <3>2. \A q \in Pages : pp_ref'[q] > 0 => q \in lent
      BY <1>1, <2>1
    <3> QED BY <1>1, <2>2, <3>1, <3>2 DEF IInv
  <2> QED BY <2>3, <2>4
<1>5. ASSUME NEW p \in lent, FreePage(p) PROVE IInv'
  <2>1. /\ pp_ref[p] = 0 /\ fl' = page_free(fl, 0, p) /\ lent' = lent \ {p}
        /\ pp_ref' = pp_ref
    BY <1>5 DEF FreePage
  <2>2. Good(page_free(fl, 0, p), lent \ {p})
    BY <1>1, FreeGood
  <2>3. \A q \in Pages : pp_ref[q] > 0 => q \in lent \ {p}
    BY <1>1, <2>1
  <2> QED BY <1>1, <2>1, <2>2, <2>3 DEF IInv
<1>6. CASE UNCHANGED vars
  BY <1>6 DEF IInv, vars
<1> QED BY <1>2, <1>3, <1>4, <1>5, <1>6 DEF Next

-----------------------------------------------------------------------------
(* The theorems. *)

\* The inductive invariant holds in every reachable state.
THEOREM Invariance == Spec => []IInv
BY InitIInv, NextIInv, PTL DEF Spec

\* Every variable of the allocator always has its type.
THEOREM TypeCorrect == Spec => []TypeOK
<1>1. IInv => TypeOK
  BY DEF IInv, Good, Linked, TypeOK
<1> QED BY <1>1, Invariance, PTL

\* The free list of pmap.c is always well linked and holds exactly the pages
\* whose is_available flag is set.
THEOREM FreeListCorrect == Spec => []FreeListOK
<1>1. IInv => FreeListOK
  BY GoodSound DEF IInv, FreeListOK
<1> QED BY <1>1, Invariance, PTL

\* No split, merge, allocation or release loses a frame or hands one out twice.
THEOREM PartitionCorrect == Spec => []FramesPartitioned
<1>1. IInv => FramesPartitioned
  BY GoodSound DEF IInv, FramesPartitioned
<1> QED BY <1>1, Invariance, PTL

\* The sanity checks of page_free never fire.
THEOREM NeverPanics == Spec => []NoPanic
<1>1. IInv => NoPanic
  BY DEF IInv, Good, NoPanic
<1> QED BY <1>1, Invariance, PTL

\* page_alloc returns NULL only when the list holds no page it could return.
THEOREM OutOfMemoryCorrect == Spec => []OutOfMemoryIsReal
<1>1. IInv => OutOfMemoryIsReal
  <2> SUFFICES ASSUME IInv PROVE OutOfMemoryIsReal
    OBVIOUS
  <2>1. LinksOK(fl) /\ Whole(fl) /\ fl.avail \subseteq Pages /\ Linked(fl) /\ NULL \notin Pages
    BY PageListAssumption DEF IInv, Good, Linked, FreeList
  <2>2. ASSUME NEW k \in BOOLEAN, page_alloc(fl, k).page = NULL
        PROVE  FirstOfKind(fl, k) = {} /\ (k \/ fl.head = NULL)
    <3> DEFINE found == FirstOfKind(fl, k)
    <3>1. CASE found # {}
      <4>1. (CHOOSE q \in found : TRUE) \in fl.avail
        BY <2>1, <3>1, Search
      <4> HIDE DEF found
      <4>2. page_alloc(fl, k).page = CHOOSE q \in found : TRUE
        BY <3>1 DEF page_alloc, found
      <4> QED BY <2>1, <2>2, <4>1, <4>2
    <3>2. CASE found = {}
      BY <2>2, <3>2 DEF page_alloc
    <3> QED BY <3>1, <3>2
  <2>3. page_alloc(fl, FALSE).page = NULL => fl.avail = {}
    BY <2>1, <2>2 DEF LinksOK
  <2>4. ASSUME page_alloc(fl, TRUE).page = NULL PROVE fl.avail \cap fl.huge = {}
    <3>1. FirstOfKind(fl, TRUE) = {}
      BY <2>2, <2>4
    <3>2. CASE fl.head = NULL
      BY <2>1, <3>2 DEF LinksOK
    <3>3. CASE fl.head # NULL
      <4> DEFINE S == Scan(fl, fl.huge)
      <4>1. S \cap fl.huge = {}
        BY <3>1, <3>3 DEF FirstOfKind
      <4>2. fl.avail \in Closed(fl, fl.huge)
        BY <2>1, <3>3 DEF Closed, LinksOK
      <4>3. S \subseteq fl.avail /\ fl.head \in S
        BY <2>1, <4>2 DEF Scan, Closed
      <4>4. ASSUME NEW q \in S, fl.link[q] # NULL PROVE fl.link[q] \in S
        <5>1. q \notin fl.huge /\ q \in fl.avail
          BY <4>1, <4>3, <4>4
        <5>2. fl.link[q] \in Pages
          BY <2>1, <4>4, <5>1 DEF LinksOK
        <5>3. \A C \in Closed(fl, fl.huge) : fl.link[q] \in C
          BY <4>4, <5>1 DEF Scan, Closed
        <5> QED BY <5>2, <5>3 DEF Scan
      <4>5. S \in Closed(fl, {})
        BY <4>3, <4>4 DEF Closed
      <4>6. S = fl.avail
        BY <2>1, <4>5 DEF Whole
      <4> QED BY <4>1, <4>6
    <3> QED BY <3>2, <3>3
  <2> QED BY <2>3, <2>4 DEF OutOfMemoryIsReal
<1> QED BY <1>1, Invariance, PTL

-----------------------------------------------------------------------------
(* The refinement of FramePool. *)

\* A unit in use is one of the units of the pool.
LEMMA UnitInPool ==
  ASSUME NEW s, NEW L, Good(s, L), NEW p \in L
  PROVE  Unit(s, p) \in Pool!Units /\ p \in Unit(s, p)
<1>1. p \in Pages /\ s.huge \subseteq HugeStarts
  BY DEF Good, Tiled
<1>2. p \in Unit(s, p)
  BY <1>1, UnitHasPage
<1> QED BY <1>1, <1>2 DEF Unit, Pool!Units, Pool!Pages, Pool!HugeStarts, Pool!Block, Pages,
                          HugeStarts, Block

LEMMA InitPool == Init => Pool!Init
<1> SUFFICES ASSUME Init PROVE Pool!Init
  OBVIOUS
<1>1. Good(fl, {}) /\ lent = {}
  BY InitIInv DEF IInv, Init
<1>2. freeFrames = Usable \ Frames(fl, {})
  BY <1>1, FreeIsRest DEF freeFrames, Frames
<1>3. Frames(fl, {}) = {} /\ heldUnits = {}
  BY <1>1 DEF Frames, heldUnits
<1> QED BY <1>2, <1>3 DEF Pool!Init, Pool!Pages, Usable, Pages

\* A successful page_alloc takes a free unit.
LEMMA AllocStep ==
  ASSUME Good(fl, lent), NEW k \in BOOLEAN, AllocPage(k)
  PROVE  \E u \in Pool!Units : Pool!Allocate(u)
<1> DEFINE r == page_alloc(fl, k)
           u == Unit(fl', r.page)
<1>1. r.page # NULL /\ fl' = r.fl /\ lent' = lent \cup {r.page}
  BY DEF AllocPage
<1>2. r.page \in Pages \ lent /\ Good(fl', lent') /\ SameUnits(fl, fl', lent)
  BY <1>1, AllocGood, AllocSame
<1> HIDE DEF r
<1>3. u \in Pool!Units
  BY <1>1, <1>2, UnitInPool
<1>4. Frames(fl', lent') = Frames(fl, lent) \cup u
  BY <1>1, <1>2 DEF Frames, SameUnits
<1>5. freeFrames = Usable \ Frames(fl, lent) /\ freeFrames' = Usable \ Frames(fl', lent')
  BY <1>2, FreeIsRest DEF freeFrames, Frames
<1>6. heldUnits' = heldUnits \cup {u}
  BY <1>1, <1>2 DEF heldUnits, SameUnits
<1>7. u \subseteq Usable
  BY <1>1, <1>2 DEF Good, Tiled, Usable
<1>8. u \cap Frames(fl, lent) = {}
  <2> SUFFICES ASSUME NEW q \in lent PROVE u \cap Unit(fl, q) = {}
    BY DEF Frames
  <2>1. Unit(fl, q) = Unit(fl', q) /\ q # r.page
    BY <1>2 DEF SameUnits
  <2> QED BY <1>1, <1>2, <2>1 DEF Good, Tiled
<1> HIDE DEF u
<1>9. u \subseteq freeFrames /\ freeFrames' = freeFrames \ u
  BY <1>4, <1>5, <1>7, <1>8
<1> QED BY <1>3, <1>6, <1>9 DEF Pool!Allocate

\* page_free gives back the unit of the page.
LEMMA FreeStep ==
  ASSUME Good(fl, lent), NEW p \in lent, fl' = page_free(fl, 0, p), lent' = lent \ {p}
  PROVE  \E u \in Pool!Units : Pool!GiveBack(u)
<1> DEFINE u == Unit(fl, p)
<1>1. Good(fl', lent') /\ SameUnits(fl, fl', lent')
  BY FreeGood, FreeSame
<1>2. u \in Pool!Units /\ p \in u
  BY UnitInPool
<1>3. u \subseteq Usable /\ \A q \in lent : q # p => Unit(fl, q) \cap u = {} /\ Unit(fl, q) # u
  BY <1>2 DEF Good, Tiled, Usable
<1>4. Frames(fl, lent) = Frames(fl', lent') \cup u
  BY <1>1 DEF Frames, SameUnits
<1>5. Frames(fl', lent') \cap u = {}
  BY <1>1, <1>3 DEF Frames, SameUnits
<1>6. freeFrames = Usable \ Frames(fl, lent) /\ freeFrames' = Usable \ Frames(fl', lent')
  BY <1>1, FreeIsRest DEF freeFrames, Frames
<1>7. heldUnits' = heldUnits \ {u} /\ u \in heldUnits
  BY <1>1, <1>3 DEF heldUnits, SameUnits
<1> HIDE DEF u
<1>8. freeFrames' = freeFrames \cup u
  BY <1>3, <1>4, <1>5, <1>6
<1> QED BY <1>2, <1>7, <1>8 DEF Pool!GiveBack

\* Every step of the allocator is a step of the pool, or none.
LEMMA NextPool == IInv /\ [Next]_vars => [Pool!Next]_(Pool!vars)
<1> SUFFICES ASSUME IInv, [Next]_vars PROVE [Pool!Next]_(Pool!vars)
  OBVIOUS
<1>1. Good(fl, lent)
  BY DEF IInv
<1>2. ASSUME NEW k \in BOOLEAN, AllocPage(k) PROVE Pool!Next
  BY <1>1, <1>2, AllocStep DEF Pool!Next
<1>3. ASSUME UNCHANGED <<fl, lent>> PROVE UNCHANGED Pool!vars
  BY <1>3 DEF Pool!vars, freeFrames, heldUnits
<1>4. ASSUME NEW p \in lent, Reference(p) PROVE UNCHANGED Pool!vars
  BY <1>3, <1>4 DEF Reference
<1>5. ASSUME NEW p \in lent, page_decref(p) PROVE Pool!Next \/ UNCHANGED Pool!vars
  <2>1. CASE pp_ref[p] = 1
    <3>1. fl' = page_free(fl, 0, p) /\ lent' = lent \ {p}
      BY <1>5, <2>1 DEF page_decref
    <3> QED BY <1>1, <3>1, FreeStep DEF Pool!Next
  <2>2. CASE pp_ref[p] # 1
    BY <1>3, <1>5, <2>2 DEF page_decref
  <2> QED BY <2>1, <2>2
<1>6. ASSUME NEW p \in lent, FreePage(p) PROVE Pool!Next
  <2>1. fl' = page_free(fl, 0, p) /\ lent' = lent \ {p}
    BY <1>6 DEF FreePage
  <2> QED BY <1>1, <2>1, FreeStep DEF Pool!Next
<1>7. CASE UNCHANGED vars
  BY <1>3, <1>7 DEF vars
<1> QED BY <1>2, <1>4, <1>5, <1>6, <1>7 DEF Next

\* The allocator of pmap.c, with its lists, splits and merges, does what the pool of
\* frames does: page_alloc hands out one frame or one aligned block that was free, and
\* page_free takes back exactly what was handed out.
THEOREM Refinement == Spec => ImplementsFramePool
<1>1. Init => Pool!Init
  BY InitPool
<1>2. IInv /\ [Next]_vars => [Pool!Next]_(Pool!vars)
  BY NextPool
<1> QED BY <1>1, <1>2, Invariance, PTL DEF Spec, ImplementsFramePool, Pool!Spec
-----------------------------------------------------------------------------
(* The loops of the C code do what the operators of PageList do in one step. *)

\* Two sequences of values that begin in the same way and go on in the same way.
LEMMA SameRounds ==
  ASSUME NEW k \in Nat, NEW f, NEW g, f[0] = g[0],
         \A i \in 1..k : f[i - 1] = g[i - 1] => f[i] = g[i]
  PROVE  \A i \in 0..k : f[i] = g[i]
<1> DEFINE Bad == {i \in 0..k : f[i] # g[i]}
<1>1. Bad = {}
  <2> SUFFICES ASSUME Bad # {} PROVE FALSE
    OBVIOUS
  <2>1. PICK j \in Bad : \A y \in Bad : j <= y
    <3>1. Bad \in SUBSET Nat
      OBVIOUS
    <3> HIDE DEF Bad
    <3> QED BY <3>1, LeastExists
  <2>2. j \in 1..k /\ j - 1 \in 0..k /\ j - 1 \notin Bad
    BY <2>1
  <2>3. f[j - 1] = g[j - 1]
    BY <2>2
  <2> QED BY <2>1, <2>2, <2>3
<1> QED BY <1>1

\* A record with the fields of a list.
IsList(s) == s = [head |-> s.head, link |-> s.link, prev |-> s.prev, huge |-> s.huge,
                  avail |-> s.avail, panic |-> s.panic]

LEMMA SameLists ==
  ASSUME NEW s, NEW t, IsList(s), IsList(t), s.head = t.head, s.link = t.link,
         s.prev = t.prev, s.huge = t.huge, s.avail = t.avail, s.panic = t.panic
  PROVE  s = t
BY DEF IsList

LEMMA ListsAre ==
  /\ \A s \in FreeList : IsList(s)
  /\ \A s, x : IsList(s) =>
       /\ IsList([s EXCEPT !.huge = x]) /\ [s EXCEPT !.huge = x].huge = x
       /\ [s EXCEPT !.huge = x].head = s.head /\ [s EXCEPT !.huge = x].link = s.link
       /\ [s EXCEPT !.huge = x].prev = s.prev /\ [s EXCEPT !.huge = x].avail = s.avail
       /\ [s EXCEPT !.huge = x].panic = s.panic
<1>1. ASSUME NEW s \in FreeList PROVE IsList(s)
  BY DEF IsList, FreeList
<1>2. ASSUME NEW s, NEW x, IsList(s)
      PROVE  /\ IsList([s EXCEPT !.huge = x]) /\ [s EXCEPT !.huge = x].huge = x
             /\ [s EXCEPT !.huge = x].head = s.head /\ [s EXCEPT !.huge = x].link = s.link
             /\ [s EXCEPT !.huge = x].prev = s.prev /\ [s EXCEPT !.huge = x].avail = s.avail
             /\ [s EXCEPT !.huge = x].panic = s.panic
  BY <1>2 DEF IsList
<1> QED BY <1>1, <1>2

\* The fields after a page has been taken out, and put in front.
UnlinkedAt(s, p, u) ==
    /\ IsList(u)
    /\ u.head = IF s.prev[p] = NULL THEN s.link[s.head] ELSE s.head
    /\ u.link = [q \in Pages |-> IF q = p THEN NULL
                                 ELSE IF q = s.prev[p] THEN s.link[p] ELSE s.link[q]]
    /\ u.prev = [q \in Pages |-> IF q = p THEN NULL
                                 ELSE IF q = s.link[p] THEN s.prev[p] ELSE s.prev[q]]
    /\ u.huge = s.huge /\ u.avail = s.avail \ {p} /\ u.panic = s.panic

LEMMA UnlinkIs ==
  ASSUME NEW s, IsList(s), NEW p
  PROVE  UnlinkedAt(s, p, Unlink(s, p))
<1> DEFINE a == IF s.prev[p] = NULL THEN s.link[s.head] ELSE s.head
           b == [q \in Pages |-> IF q = p THEN NULL
                                 ELSE IF q = s.prev[p] THEN s.link[p] ELSE s.link[q]]
           c == [q \in Pages |-> IF q = p THEN NULL
                                 ELSE IF q = s.link[p] THEN s.prev[p] ELSE s.prev[q]]
           d == s.avail \ {p}
<1>1. Unlink(s, p) = [s EXCEPT !.head = a, !.link = b, !.prev = c, !.avail = d]
  BY DEF Unlink
<1> HIDE DEF a, b, c, d
<1>2. Unlink(s, p) = [head |-> a, link |-> b, prev |-> c, huge |-> s.huge, avail |-> d,
                      panic |-> s.panic]
  BY <1>1 DEF IsList
<1> QED BY <1>2 DEF UnlinkedAt, IsList, a, b, c, d

PrependedAt(s, p, n) ==
    /\ IsList(n) /\ n.head = p /\ n.link = [s.link EXCEPT ![p] = s.head]
    /\ n.prev = IF s.head = NULL THEN s.prev ELSE [s.prev EXCEPT ![s.head] = p]
    /\ n.huge = s.huge \ {p} /\ n.avail = s.avail \cup {p} /\ n.panic = s.panic

LEMMA PrependIs ==
  ASSUME NEW s, IsList(s), NEW p
  PROVE  PrependedAt(s, p, Prepend(s, p))
<1> DEFINE b == [s.link EXCEPT ![p] = s.head]
           c == IF s.head = NULL THEN s.prev ELSE [s.prev EXCEPT ![s.head] = p]
           g == s.huge \ {p}
           d == s.avail \cup {p}
<1>1. Prepend(s, p) = [s EXCEPT !.head = p, !.link = b, !.prev = c, !.huge = g, !.avail = d]
  BY DEF Prepend
<1> HIDE DEF b, c, g, d
<1>2. Prepend(s, p) = [head |-> p, link |-> b, prev |-> c, huge |-> g, avail |-> d,
                       panic |-> s.panic]
  BY <1>1 DEF IsList
<1> QED BY <1>2 DEF PrependedAt, IsList, b, c, g, d

\* The list when i inner pages of the huge page h have been put in front of it.
SplitAt(s, h, i) ==
    [head  |-> IF i = 0 THEN s.link[h] ELSE h + i,
     link  |-> [q \in Pages |-> IF q = h THEN NULL
                                ELSE IF q = h + 1 /\ i > 0 THEN s.link[h]
                                ELSE IF q \in (h + 1)..(h + i) THEN q - 1
                                ELSE s.link[q]],
     prev  |-> [q \in Pages |-> IF q = h THEN NULL
                                ELSE IF q \in (h + 1)..(h + i - 1) THEN q + 1
                                ELSE IF q = s.link[h] THEN (IF i = 0 THEN NULL ELSE h + 1)
                                ELSE s.prev[q]],
     huge  |-> s.huge \ (h..(h + i)),
     avail |-> (s.avail \ {h}) \cup ((h + 1)..(h + i)),
     panic |-> s.panic]

\* Its huge head can be split.
HugeHead(s, h) ==
    /\ s \in FreeList /\ h \in Nat /\ h + HugeSize <= NPages
    /\ s.head = h /\ s.prev[h] = NULL /\ s.link[h] \notin Block(h)

LEMMA SplitStart ==
  ASSUME NEW s, NEW h, HugeHead(s, h)
  PROVE  [Unlink(s, h) EXCEPT !.huge = @ \ {h}] = SplitAt(s, h, 0)
<1>1. /\ s \in FreeList /\ h \in Pages /\ h \in Nat /\ NULL \notin Pages
      /\ s.head = h /\ s.prev[h] = NULL
  BY PageListAssumption DEF HugeHead, Pages
<1> PICK u : u = Unlink(s, h)
  OBVIOUS
<1> PICK v : v = [u EXCEPT !.huge = u.huge \ {h}]
  OBVIOUS
<1> PICK w : w = SplitAt(s, h, 0)
  OBVIOUS
<1>2. UnlinkedAt(s, h, u) /\ IsList(s)
  BY <1>1, ListsAre, UnlinkIs
<1>3. /\ IsList(v) /\ v.huge = u.huge \ {h} /\ v.head = u.head /\ v.link = u.link
      /\ v.prev = u.prev /\ v.avail = u.avail /\ v.panic = u.panic
  BY <1>2, ListsAre DEF UnlinkedAt
<1>4. IsList(w) /\ w.head = s.link[h] /\ w.panic = s.panic
  BY DEF SplitAt, IsList
<1>5. v.link = w.link
  <2>1. (h + 1)..(h + 0) = {}
    BY <1>1
  <2>2. \A q \in Pages : q # NULL
    BY <1>1
  <2>3. w.link = [q \in Pages |-> IF q = h THEN NULL ELSE s.link[q]]
    BY <2>1 DEF SplitAt
  <2>4. u.link = [q \in Pages |-> IF q = h THEN NULL ELSE s.link[q]]
    BY <1>1, <1>2, <2>2 DEF UnlinkedAt
  <2> QED BY <1>3, <2>3, <2>4
<1>6. v.prev = w.prev
  <2>1. (h + 1)..(h + 0 - 1) = {}
    BY <1>1
  <2>2. w.prev = [q \in Pages |-> IF q = h THEN NULL
                                  ELSE IF q = s.link[h] THEN NULL ELSE s.prev[q]]
    BY <2>1 DEF SplitAt
  <2>3. u.prev = [q \in Pages |-> IF q = h THEN NULL
                                  ELSE IF q = s.link[h] THEN NULL ELSE s.prev[q]]
    BY <1>1, <1>2 DEF UnlinkedAt
  <2> QED BY <1>3, <2>2, <2>3
<1>7. v.huge = w.huge /\ v.avail = w.avail
  <2>1. h..(h + 0) = {h} /\ (h + 1)..(h + 0) = {}
    BY <1>1
  <2>2. w.huge = s.huge \ (h..(h + 0)) /\ w.avail = (s.avail \ {h}) \cup ((h + 1)..(h + 0))
    BY DEF SplitAt
  <2> QED BY <1>2, <1>3, <2>1, <2>2 DEF UnlinkedAt
<1>8. v.head = w.head /\ v.panic = w.panic
  BY <1>1, <1>2, <1>3, <1>4 DEF UnlinkedAt
<1>9. v = w
  BY <1>3, <1>4, <1>5, <1>6, <1>7, <1>8, SameLists
<1> QED BY <1>9

LEMMA SplitRound ==
  ASSUME NEW s, NEW h, HugeHead(s, h), NEW i \in 1..(HugeSize - 1)
  PROVE  Prepend(SplitAt(s, h, i - 1), h + i) = SplitAt(s, h, i)
<1>1. /\ s \in FreeList /\ h \in Pages /\ h \in Nat /\ NULL \notin Pages /\ HugeSize \in Nat
      /\ s.link[h] \in Ptr /\ i \in Nat /\ i >= 1 /\ h + i \in Pages /\ i < HugeSize
      /\ \A q \in Pages : q \in Nat
  BY PageListAssumption DEF HugeHead, Pages, FreeList
<1>2. s.link[h] # h /\ \A j \in 1..i : s.link[h] # h + j
  BY <1>1 DEF HugeHead, Block
<1> DEFINE a == SplitAt(s, h, i - 1)
           b == SplitAt(s, h, i)
           p == Prepend(a, h + i)
<1>3. /\ a.head = (IF i = 1 THEN s.link[h] ELSE h + i - 1)
      /\ a.link \in [Pages -> Ptr] /\ a.prev \in [Pages -> Ptr]
  <2>1. \A q \in Pages : q \in (h + 1)..(h + (i - 1)) => q - 1 \in Pages
    BY <1>1, PageListAssumption DEF Pages
  <2>2. \A q \in Pages : q \in (h + 1)..(h + (i - 1) - 1) => q + 1 \in Pages
    BY <1>1, PageListAssumption DEF Pages
  <2>4. NULL \in Ptr /\ Pages \subseteq Ptr
    BY DEF Ptr
  <2>5. a.head = (IF i = 1 THEN s.link[h] ELSE h + i - 1)
    BY <1>1 DEF SplitAt
  <2>6. s.link \in [Pages -> Ptr] /\ s.prev \in [Pages -> Ptr] /\ (i - 1 # 0 => h + 1 \in Pages)
    BY <1>1, PageListAssumption DEF FreeList, Pages
  <2>7. a.link \in [Pages -> Ptr]
    BY <1>1, <2>1, <2>4, <2>6 DEF SplitAt
  <2>8. a.prev \in [Pages -> Ptr]
    BY <1>1, <2>2, <2>4, <2>6 DEF SplitAt
  <2> QED BY <2>5, <2>7, <2>8
<1>4. /\ p.head = h + i
      /\ p.link = [a.link EXCEPT ![h + i] = a.head]
      /\ p.prev = IF a.head = NULL THEN a.prev ELSE [a.prev EXCEPT ![a.head] = h + i]
      /\ p.huge = a.huge \ {h + i} /\ p.avail = a.avail \cup {h + i} /\ p.panic = s.panic
      /\ IsList(p)
  <2>1. IsList(a) /\ a.panic = s.panic
    BY DEF SplitAt, IsList
  <2> HIDE DEF a
  <2>2. PrependedAt(a, h + i, p)
    BY <2>1, PrependIs
  <2> HIDE DEF p
  <2> QED BY <2>1, <2>2 DEF PrependedAt
<1>5. b.head = h + i /\ b.panic = s.panic /\ IsList(b)
  BY <1>1 DEF SplitAt, IsList
<1>6. p.huge = b.huge /\ p.avail = b.avail
  <2>1. (h + 1)..(h + i) = ((h + 1)..(h + (i - 1))) \cup {h + i}
    BY <1>1
  <2>2. h..(h + i) = (h..(h + (i - 1))) \cup {h + i}
    BY <1>1
  <2>3. /\ a.huge = s.huge \ (h..(h + (i - 1))) /\ b.huge = s.huge \ (h..(h + i))
        /\ a.avail = (s.avail \ {h}) \cup ((h + 1)..(h + (i - 1)))
        /\ b.avail = (s.avail \ {h}) \cup ((h + 1)..(h + i))
    BY DEF SplitAt
  <2> QED BY <1>4, <2>1, <2>2, <2>3
<1>7. p.link = b.link
  <2>1. \A q \in Pages : a.link[q] = IF q = h THEN NULL
                                ELSE IF q = h + 1 /\ i - 1 > 0 THEN s.link[h]
                                ELSE IF q \in (h + 1)..(h + (i - 1)) THEN q - 1
                                ELSE s.link[q]
    BY DEF SplitAt
  <2>2. b.link = [q \in Pages |-> IF q = h THEN NULL
                                ELSE IF q = h + 1 /\ i > 0 THEN s.link[h]
                                ELSE IF q \in (h + 1)..(h + i) THEN q - 1
                                ELSE s.link[q]]
    BY DEF SplitAt
  <2> HIDE DEF a, b, p
  <2>3. p.link = [q \in Pages |-> IF q = h + i THEN a.head ELSE a.link[q]]
    BY <1>3, <1>4
  <2>4. \A q \in Pages : (IF q = h + i THEN a.head ELSE a.link[q]) =
                             IF q = h THEN NULL
                                ELSE IF q = h + 1 /\ i > 0 THEN s.link[h]
                                ELSE IF q \in (h + 1)..(h + i) THEN q - 1
                                ELSE s.link[q]
    BY <1>1, <1>3, <2>1
  <2> QED BY <2>2, <2>3, <2>4
<1>8. p.prev = b.prev
  <2>1. \A q \in Pages : a.prev[q] = IF q = h THEN NULL
                                ELSE IF q \in (h + 1)..(h + (i - 1) - 1) THEN q + 1
                                ELSE IF q = s.link[h] THEN (IF i - 1 = 0 THEN NULL ELSE h + 1)
                                ELSE s.prev[q]
    BY DEF SplitAt
  <2>2. b.prev = [q \in Pages |-> IF q = h THEN NULL
                                ELSE IF q \in (h + 1)..(h + i - 1) THEN q + 1
                                ELSE IF q = s.link[h] THEN (IF i = 0 THEN NULL ELSE h + 1)
                                ELSE s.prev[q]]
    BY DEF SplitAt
  <2> HIDE DEF a, b, p
  <2>3. p.prev = [q \in Pages |-> IF q = a.head THEN h + i ELSE a.prev[q]]
    <3>1. CASE a.head = NULL
      <4>1. p.prev = a.prev
        BY <1>4, <3>1
      <4>2. \A q \in Pages : q # a.head
        BY <1>1, <3>1
      <4> QED BY <1>3, <4>1, <4>2
    <3>2. CASE a.head # NULL
      BY <1>3, <1>4, <3>2
    <3> QED BY <3>1, <3>2
  <2>4. \A q \in Pages : (IF q = a.head THEN h + i ELSE a.prev[q]) =
                             IF q = h THEN NULL
                                ELSE IF q \in (h + 1)..(h + i - 1) THEN q + 1
                                ELSE IF q = s.link[h] THEN (IF i = 0 THEN NULL ELSE h + 1)
                                ELSE s.prev[q]
    <3>1. CASE i = 1
      BY <1>1, <1>2, <1>3, <2>1, <3>1
    <3>2. CASE i # 1
      <4>1. a.head = h + i - 1 /\ i - 1 # 0 /\ i # 0 /\ i > 1
        BY <1>1, <1>3, <3>2
      <4>2. i - 1 \in 1..i
        BY <1>1, <4>1
      <4>3. s.link[h] # h + (i - 1)
        BY <1>2, <4>2
      <4> SUFFICES ASSUME NEW q \in Pages
                   PROVE  (IF q = a.head THEN h + i ELSE a.prev[q]) =
                             IF q = h THEN NULL
                                ELSE IF q \in (h + 1)..(h + i - 1) THEN q + 1
                                ELSE IF q = s.link[h] THEN h + 1
                                ELSE s.prev[q]
        BY <4>1
      <4>4. q \in Nat
        BY <1>1
      <4>5. a.prev[q] = IF q = h THEN NULL
                        ELSE IF q \in (h + 1)..(h + (i - 1) - 1) THEN q + 1
                        ELSE IF q = s.link[h] THEN h + 1
                        ELSE s.prev[q]
        BY <2>1, <4>1
      <4>6. CASE q = h + i - 1
        <5>1. q # h /\ q \in (h + 1)..(h + i - 1) /\ q + 1 = h + i
          BY <1>1, <4>1, <4>6
        <5> QED BY <4>1, <4>6, <5>1
      <4>7. CASE q # h + i - 1
        <5>1. q \in (h + 1)..(h + i - 1) <=> q \in (h + 1)..(h + (i - 1) - 1)
          BY <1>1, <4>1, <4>4, <4>7
        <5> QED BY <4>1, <4>5, <4>7, <5>1
      <4> QED BY <4>6, <4>7
    <3> QED BY <3>1, <3>2
  <2> QED BY <2>2, <2>3, <2>4
<1> HIDE DEF a, b, p
<1>9. p = b
  BY <1>4, <1>5, <1>6, <1>7, <1>8, SameLists
<1> QED BY <1>9 DEF p, a, b

LEMMA SplitEnd ==
  ASSUME NEW s, NEW h, HugeHead(s, h), NEW a, a = SplitAt(s, h, HugeSize - 1)
  PROVE  [a EXCEPT !.prev[a.head] = NULL] = Split(s, h)
<1> DEFINE l == h + HugeSize - 1
           b == [a EXCEPT !.prev[a.head] = NULL]
<1>1. /\ s \in FreeList /\ h \in Pages /\ h \in Nat /\ NULL \notin Pages /\ HugeSize \in Nat
      /\ HugeSize > 1 /\ l \in Pages /\ l # h
      /\ \A q \in Pages : q \in Nat
  BY PageListAssumption DEF HugeHead, Pages
<1>2. /\ a.head = l
      /\ a.prev = [q \in Pages |-> IF q = h THEN NULL
                                ELSE IF q \in (h + 1)..(h + (HugeSize - 1) - 1) THEN q + 1
                                ELSE IF q = s.link[h] THEN h + 1
                                ELSE s.prev[q]]
      /\ a.link = [q \in Pages |-> IF q = h THEN NULL
                                ELSE IF q = h + 1 THEN s.link[h]
                                ELSE IF q \in (h + 1)..(h + (HugeSize - 1)) THEN q - 1
                                ELSE s.link[q]]
      /\ a.huge = s.huge \ (h..(h + (HugeSize - 1)))
      /\ a.avail = (s.avail \ {h}) \cup ((h + 1)..(h + (HugeSize - 1))) /\ a.panic = s.panic
      /\ a = [head |-> a.head, link |-> a.link, prev |-> a.prev, huge |-> a.huge,
              avail |-> a.avail, panic |-> a.panic]
  BY <1>1 DEF SplitAt
<1>3. b = [head |-> a.head, link |-> a.link, prev |-> [a.prev EXCEPT ![a.head] = NULL],
           huge |-> a.huge, avail |-> a.avail, panic |-> a.panic]
  BY <1>2
<1>4. [a.prev EXCEPT ![a.head] = NULL] =
        [q \in Pages |-> IF q = h \/ q = l THEN NULL
                         ELSE IF q \in Inner(h) THEN q + 1
                         ELSE IF q = s.link[h] THEN h + 1 ELSE s.prev[q]]
  <2>1. [a.prev EXCEPT ![a.head] = NULL] =
          [q \in Pages |-> IF q = l THEN NULL ELSE a.prev[q]]
    BY <1>1, <1>2
  <2>2. \A q \in Pages : (IF q = l THEN NULL ELSE a.prev[q]) =
                         IF q = h \/ q = l THEN NULL
                         ELSE IF q \in Inner(h) THEN q + 1
                         ELSE IF q = s.link[h] THEN h + 1 ELSE s.prev[q]
    <3>1. \A q \in Pages : q # l => (q \in (h + 1)..(h + (HugeSize - 1) - 1) <=> q \in Inner(h))
      BY <1>1 DEF Inner
    <3> QED BY <1>2, <3>1
  <2> QED BY <2>1, <2>2
<1>5. a.link = [q \in Pages |-> IF q = h THEN NULL
                                ELSE IF q = h + 1 THEN s.link[h]
                                ELSE IF q \in Inner(h) THEN q - 1
                                ELSE s.link[q]]
  <2>1. (h + 1)..(h + (HugeSize - 1)) = Inner(h)
    BY <1>1 DEF Inner
  <2> QED BY <1>2, <2>1
<1>6. a.huge = s.huge \ Block(h) /\ a.avail = (s.avail \ {h}) \cup Inner(h)
  <2>1. (h + 1)..(h + (HugeSize - 1)) = Inner(h) /\ h..(h + (HugeSize - 1)) = Block(h)
    BY <1>1 DEF Inner, Block
  <2> QED BY <1>2, <2>1
<1> DEFINE y == [q \in Pages |-> IF q = h THEN NULL
                                 ELSE IF q = h + 1 THEN s.link[h]
                                 ELSE IF q \in Inner(h) THEN q - 1
                                 ELSE s.link[q]]
           z == [q \in Pages |-> IF q = h \/ q = l THEN NULL
                                 ELSE IF q \in Inner(h) THEN q + 1
                                 ELSE IF q = s.link[h] THEN h + 1
                                 ELSE s.prev[q]]
           g == s.huge \ Block(h)
           e == (s.avail \ {h}) \cup Inner(h)
<1>7. Split(s, h) = [s EXCEPT !.head = l, !.link = y, !.prev = z, !.huge = g, !.avail = e]
  BY DEF Split
<1>8. b = [head |-> l, link |-> y, prev |-> z, huge |-> g, avail |-> e, panic |-> s.panic]
  BY <1>2, <1>3, <1>4, <1>5, <1>6
<1> HIDE DEF l, y, z, g, e, b
<1>9. Split(s, h) = [head |-> l, link |-> y, prev |-> z, huge |-> g, avail |-> e,
                     panic |-> s.panic]
  BY <1>1, <1>7 DEF FreeList
<1> QED BY <1>8, <1>9 DEF b

\* The loop of page_alloc splits the huge head as Split does.
LEMMA SplitLoopIs ==
  ASSUME NEW s, NEW h, HugeHead(s, h)
  PROVE  SplitLoop(s, h) = Split(s, h)
<1> DEFINE off == [Unlink(s, h) EXCEPT !.huge = @ \ {h}]
           Rounds(f) == [i \in 0..(HugeSize - 1) |->
                           IF i = 0 THEN off ELSE Prepend(f[i - 1], h + i)]
           list == CHOOSE f : f = Rounds(f)
           g == [i \in 0..(HugeSize - 1) |-> SplitAt(s, h, i)]
<1>1. HugeSize - 1 \in Nat /\ HugeSize \in Nat
  BY PageListAssumption
<1>2. off = SplitAt(s, h, 0)
  BY SplitStart
<1>3. g = Rounds(g)
  <2>1. ASSUME NEW i \in 0..(HugeSize - 1)
        PROVE  SplitAt(s, h, i) = IF i = 0 THEN off ELSE Prepend(g[i - 1], h + i)
    <3>1. CASE i = 0
      BY <1>2, <3>1
    <3>2. CASE i # 0
      <4>1. i \in 1..(HugeSize - 1) /\ i - 1 \in 0..(HugeSize - 1)
        BY <1>1, <3>2
      <4>2. g[i - 1] = SplitAt(s, h, i - 1)
        BY <4>1
      <4> HIDE DEF g, off
      <4> QED BY <3>2, <4>1, <4>2, SplitRound
    <3> QED BY <3>1, <3>2
  <2> HIDE DEF off
  <2> QED BY <2>1
<1>4. list = Rounds(list)
  <2> HIDE DEF Rounds
  <2> QED BY <1>3
<1>5. \A i \in 0..(HugeSize - 1) : list[i] = g[i]
  <2> HIDE DEF list, g, off
  <2>1. 0 \in 0..(HugeSize - 1)
    BY <1>1
  <2>2. list[0] = off /\ g[0] = off
    BY <1>3, <1>4, <2>1
  <2>3. \A i \in 1..(HugeSize - 1) : list[i - 1] = g[i - 1] => list[i] = g[i]
    <3> SUFFICES ASSUME NEW i \in 1..(HugeSize - 1), list[i - 1] = g[i - 1]
                 PROVE  list[i] = g[i]
      OBVIOUS
    <3>1. i \in 0..(HugeSize - 1) /\ i # 0
      BY <1>1
    <3>2. list[i] = Prepend(list[i - 1], h + i) /\ g[i] = Prepend(g[i - 1], h + i)
      BY <1>3, <1>4, <3>1
    <3> QED BY <3>2
  <2> QED BY ONLY <1>1, <2>2, <2>3, SameRounds
<1>6. SplitLoop(s, h) = [list[HugeSize - 1] EXCEPT !.prev[list[HugeSize - 1].head] = NULL]
  BY DEF SplitLoop
<1>7. list[HugeSize - 1] = SplitAt(s, h, HugeSize - 1)
  BY <1>1, <1>5
<1> HIDE DEF list
<1> QED BY <1>6, <1>7, SplitEnd

\* The list when the first i inner pages of block h have been taken out.
MergeAt(s, h, i) ==
    [head  |-> s.head,
     link  |-> [q \in Pages |-> IF q \in (h + 1)..(h + i) THEN NULL
                                ELSE IF q = h THEN s.link[h + i] ELSE s.link[q]],
     prev  |-> [q \in Pages |-> IF q \in (h + 1)..(h + i) THEN NULL
                                ELSE IF q = s.link[h + i] THEN h ELSE s.prev[q]],
     huge  |-> s.huge,
     avail |-> s.avail \ ((h + 1)..(h + i)),
     panic |-> s.panic]

\* The pages of a block that can be merged follow one another in both directions.
LEMMA BlockChain ==
  ASSUME NEW s, s \in FreeList, LinksOK(s), NEW h, CanMerge(s, h)
  PROVE  /\ h \in Nat /\ h \in HugeStarts /\ HugeSize \in Nat /\ HugeSize > 1
         /\ \A i \in 0..(HugeSize - 1) : h + i \in Pages /\ h + i \in s.avail
         /\ \A i \in 1..(HugeSize - 1) : /\ s.prev[h + i] = h + i - 1
                                         /\ s.link[h + i - 1] = h + i
         /\ \A i \in 0..(HugeSize - 1) : \A j \in 1..i : s.link[h + i] # h + j
<1>1. h \in HugeStarts /\ Block(h) \subseteq s.avail /\ \A q \in Inner(h) : s.prev[q] = q - 1
  BY DEF CanMerge
<1>2. /\ h \in Nat /\ HugeSize \in Nat /\ HugeSize > 1 /\ s.avail \subseteq Pages
      /\ NULL \notin Pages
  BY <1>1, PageListAssumption DEF HugeStarts, Pages, FreeList
<1>3. \A i \in 0..(HugeSize - 1) : h + i \in Pages /\ h + i \in s.avail
  <2>1. \A i \in 0..(HugeSize - 1) : h + i \in Block(h)
    BY <1>2 DEF Block
  <2> QED BY <1>1, <1>2, <2>1
<1>4. \A i \in 1..(HugeSize - 1) : s.prev[h + i] = h + i - 1
  <2> SUFFICES ASSUME NEW i \in 1..(HugeSize - 1) PROVE s.prev[h + i] = h + i - 1
    OBVIOUS
  <2>1. h + i \in Inner(h) /\ h + i \in Nat
    BY <1>2 DEF Inner
  <2> PICK q : q = h + i
    OBVIOUS
  <2>2. s.prev[q] = q - 1
    BY <1>1, <2>1
  <2>3. q - 1 = h + i - 1
    BY <1>2
  <2> QED BY <2>2, <2>3
<1>5. \A i \in 1..(HugeSize - 1) : s.link[h + i - 1] = h + i
  <2> SUFFICES ASSUME NEW i \in 1..(HugeSize - 1) PROVE s.link[h + i - 1] = h + i
    OBVIOUS
  <2>1. i \in 0..(HugeSize - 1) /\ i - 1 \in 0..(HugeSize - 1) /\ h + (i - 1) = h + i - 1
    BY <1>2
  <2>2. h + i \in s.avail /\ s.prev[h + i] # NULL
    BY <1>2, <1>3, <1>4, <2>1
  <2>3. s.link[s.prev[h + i]] = h + i
    BY <2>2 DEF LinksOK
  <2> QED BY <1>4, <2>3
<1>6. ASSUME NEW i \in 0..(HugeSize - 1), NEW j \in 1..i, s.link[h + i] = h + j PROVE FALSE
  <2>1. j \in 1..(HugeSize - 1) /\ j \in 0..(HugeSize - 1) /\ j <= i /\ i \in Nat
    BY <1>2
  <2>2. h + j # NULL /\ h + i \in s.avail
    BY <1>2, <1>3, <2>1
  <2>3. s.prev[h + j] = h + i
    BY <1>6, <2>2 DEF LinksOK
  <2>4. h + j - 1 = h + i
    BY <1>4, <2>1, <2>3
  <2> QED BY <1>2, <2>1, <2>4
<1> QED BY <1>1, <1>2, <1>3, <1>4, <1>5, <1>6

LEMMA MergeStart ==
  ASSUME NEW s, s \in FreeList, LinksOK(s), NEW h, CanMerge(s, h)
  PROVE  MergeAt(s, h, 0) = s
<1>1. h \in Nat /\ h \in Pages /\ 0 \in 0..(HugeSize - 1) /\ 1 \in 1..(HugeSize - 1)
  <2>1. h \in Nat /\ HugeSize \in Nat /\ HugeSize > 1 /\ h \in HugeStarts
    BY BlockChain
  <2> QED BY <2>1 DEF HugeStarts
<1>2. s.prev[h + 1] = h + 1 - 1 /\ s.link[h + 1 - 1] = h + 1
  BY <1>1, BlockChain
<1>3. s.prev[h + 1] = h /\ s.link[h] = h + 1 /\ h + 0 = h /\ (h + 1)..(h + 0) = {}
  BY <1>1, <1>2
<1> PICK w : w = MergeAt(s, h, 0)
  OBVIOUS
<1>4. s.link \in [Pages -> Ptr] /\ s.prev \in [Pages -> Ptr] /\ IsList(s)
  BY ListsAre DEF FreeList
<1>5. IsList(w) /\ w.head = s.head /\ w.huge = s.huge /\ w.panic = s.panic
  BY DEF MergeAt, IsList
<1>6. w.link = s.link
  <2>1. w.link = [q \in Pages |-> IF q = h THEN s.link[h] ELSE s.link[q]]
    BY <1>3 DEF MergeAt
  <2> QED BY <1>4, <2>1
<1>7. w.prev = s.prev
  <2>1. w.prev = [q \in Pages |-> IF q = s.link[h] THEN h ELSE s.prev[q]]
    BY <1>3 DEF MergeAt
  <2> QED BY <1>3, <1>4, <2>1
<1>8. w.avail = s.avail
  BY <1>3 DEF MergeAt
<1>9. w = s
  BY <1>4, <1>5, <1>6, <1>7, <1>8, SameLists
<1> QED BY <1>9

LEMMA MergeRound ==
  ASSUME NEW s, s \in FreeList, LinksOK(s), NEW h, CanMerge(s, h),
         NEW i \in 1..(HugeSize - 1)
  PROVE  Unlink(MergeAt(s, h, i - 1), h + i) = MergeAt(s, h, i)
<1>1. /\ h \in Nat /\ h \in Pages /\ HugeSize \in Nat /\ i \in Nat /\ i >= 1
      /\ i \in 0..(HugeSize - 1) /\ i - 1 \in 0..(HugeSize - 1) /\ h + i \in Pages
      /\ NULL \notin Pages /\ \A q \in Pages : q \in Nat
  <2>1. h \in Nat /\ HugeSize \in Nat /\ HugeSize > 1 /\ h \in HugeStarts
    BY BlockChain
  <2>2. i \in 0..(HugeSize - 1)
    BY <2>1
  <2>3. h + i \in Pages
    BY <2>2, BlockChain
  <2> QED BY <2>1, <2>2, <2>3, PageListAssumption DEF HugeStarts, Pages
<1>2. /\ s.prev[h + i] = h + i - 1 /\ s.link[h + (i - 1)] = h + i
      /\ \A j \in 1..i : s.link[h + i] # h + j
  <2>1. s.prev[h + i] = h + i - 1 /\ s.link[h + i - 1] = h + i
    BY BlockChain
  <2>2. h + (i - 1) = h + i - 1
    BY <1>1
  <2>3. \A j \in 1..i : s.link[h + i] # h + j
    BY <1>1, BlockChain
  <2> QED BY <2>1, <2>2, <2>3
<1> PICK a : a = MergeAt(s, h, i - 1)
  OBVIOUS
<1> PICK b : b = MergeAt(s, h, i)
  OBVIOUS
<1> PICK u : u = Unlink(a, h + i)
  OBVIOUS
<1>3. IsList(a) /\ IsList(b)
  BY DEF MergeAt, IsList
<1>4. UnlinkedAt(a, h + i, u)
  BY <1>3, UnlinkIs
<1>5. \A q \in Pages : a.link[q] = IF q \in (h + 1)..(h + (i - 1)) THEN NULL
                                   ELSE IF q = h THEN h + i ELSE s.link[q]
  BY <1>2 DEF MergeAt
<1>6. \A q \in Pages : a.prev[q] = IF q \in (h + 1)..(h + (i - 1)) THEN NULL
                                   ELSE IF q = h + i THEN h ELSE s.prev[q]
  BY <1>2 DEF MergeAt
<1>7. a.link[h + i] = s.link[h + i] /\ a.prev[h + i] = h /\ h # NULL
  <2>1. h + i \notin (h + 1)..(h + (i - 1)) /\ h + i # h
    BY <1>1
  <2> QED BY <1>1, <1>5, <1>6, <2>1
<1>8. u.head = b.head /\ u.huge = b.huge /\ u.panic = b.panic
  <2>1. /\ a.head = s.head /\ a.huge = s.huge /\ a.panic = s.panic
        /\ b.head = s.head /\ b.huge = s.huge /\ b.panic = s.panic
    BY DEF MergeAt
  <2> QED BY <1>4, <1>7, <2>1 DEF UnlinkedAt
<1>9. u.avail = b.avail
  <2>1. /\ a.avail = s.avail \ ((h + 1)..(h + (i - 1)))
        /\ b.avail = s.avail \ ((h + 1)..(h + i))
    BY DEF MergeAt
  <2>2. (h + 1)..(h + i) = ((h + 1)..(h + (i - 1))) \cup {h + i}
    BY <1>1
  <2> QED BY <1>4, <2>1, <2>2 DEF UnlinkedAt
<1>10. u.link = b.link
  <2>1. u.link = [q \in Pages |-> IF q = h + i THEN NULL
                                  ELSE IF q = h THEN s.link[h + i] ELSE a.link[q]]
    BY <1>4, <1>7 DEF UnlinkedAt
  <2>2. b.link = [q \in Pages |-> IF q \in (h + 1)..(h + i) THEN NULL
                                  ELSE IF q = h THEN s.link[h + i] ELSE s.link[q]]
    BY DEF MergeAt
  <2>3. \A q \in Pages :
          (IF q = h + i THEN NULL ELSE IF q = h THEN s.link[h + i] ELSE a.link[q]) =
          IF q \in (h + 1)..(h + i) THEN NULL
          ELSE IF q = h THEN s.link[h + i] ELSE s.link[q]
    BY <1>1, <1>5
  <2> QED BY <2>1, <2>2, <2>3
<1>11. u.prev = b.prev
  <2>1. u.prev = [q \in Pages |-> IF q = h + i THEN NULL
                                  ELSE IF q = s.link[h + i] THEN h ELSE a.prev[q]]
    BY <1>4, <1>7 DEF UnlinkedAt
  <2>2. b.prev = [q \in Pages |-> IF q \in (h + 1)..(h + i) THEN NULL
                                  ELSE IF q = s.link[h + i] THEN h ELSE s.prev[q]]
    BY DEF MergeAt
  <2>3. s.link[h + i] \notin (h + 1)..(h + i)
    <3>1. ASSUME s.link[h + i] \in (h + 1)..(h + i) PROVE FALSE
      <4>1. s.link[h + i] - h \in 1..i /\ s.link[h + i] = h + (s.link[h + i] - h)
        BY <1>1, <3>1
      <4> QED BY <1>2, <4>1
    <3> QED BY <3>1
  <2>4. ASSUME NEW q \in Pages
        PROVE  (IF q = h + i THEN NULL
                ELSE IF q = s.link[h + i] THEN h ELSE a.prev[q]) =
               IF q \in (h + 1)..(h + i) THEN NULL
               ELSE IF q = s.link[h + i] THEN h ELSE s.prev[q]
    <3>1. CASE q \in (h + 1)..(h + i)
      <4>1. q # s.link[h + i]
        BY <2>3, <3>1
      <4>2. q = h + i \/ q \in (h + 1)..(h + (i - 1))
        BY <1>1, <3>1
      <4> QED BY <1>6, <3>1, <4>1, <4>2
    <3>2. CASE q \notin (h + 1)..(h + i)
      <4>1. q # h + i /\ q \notin (h + 1)..(h + (i - 1))
        BY <1>1, <3>2
      <4> QED BY <1>6, <3>2, <4>1
    <3> QED BY <3>1, <3>2
  <2> QED BY <2>1, <2>2, <2>4
<1>12. IsList(u)
  BY <1>4 DEF UnlinkedAt
<1>13. u = b
  BY <1>3, <1>8, <1>9, <1>10, <1>11, <1>12, SameLists
<1> QED BY <1>13

LEMMA MergeEnd ==
  ASSUME NEW s, s \in FreeList, LinksOK(s), NEW h, CanMerge(s, h)
  PROVE  [MergeAt(s, h, HugeSize - 1) EXCEPT !.huge = @ \cup {h}] = Merge(s, h)
<1>1. h \in Nat /\ HugeSize \in Nat /\ HugeSize > 1 /\ h + (HugeSize - 1) = h + HugeSize - 1
  <2>1. h \in Nat /\ HugeSize \in Nat /\ HugeSize > 1
    BY BlockChain
  <2> QED BY <2>1
<1>2. (h + 1)..(h + (HugeSize - 1)) = Inner(h) /\ h \notin Inner(h)
  BY <1>1 DEF Inner
<1> PICK a : a = MergeAt(s, h, HugeSize - 1)
  OBVIOUS
<1> PICK b : b = [a EXCEPT !.huge = a.huge \cup {h}]
  OBVIOUS
<1>3. IsList(a) /\ IsList(s)
  BY ListsAre DEF MergeAt, IsList
<1> DEFINE y == [q \in Pages |-> IF q = h THEN s.link[h + HugeSize - 1]
                                 ELSE IF q \in Inner(h) THEN NULL ELSE s.link[q]]
           z == [q \in Pages |-> IF q \in Inner(h) THEN NULL
                                 ELSE IF q = s.link[h + HugeSize - 1] THEN h
                                 ELSE s.prev[q]]
           g == s.huge \cup {h}
           e == s.avail \ Inner(h)
<1>4. a.link = y /\ a.prev = z /\ a.avail = e
  BY <1>1, <1>2 DEF MergeAt
<1>5. a.head = s.head /\ a.huge = s.huge /\ a.panic = s.panic
  BY DEF MergeAt
<1>6. Merge(s, h) = [s EXCEPT !.link = y, !.prev = z, !.huge = g, !.avail = e]
  BY DEF Merge
<1>7. /\ IsList(b) /\ b.huge = a.huge \cup {h} /\ b.head = a.head /\ b.link = a.link
      /\ b.prev = a.prev /\ b.avail = a.avail /\ b.panic = a.panic
  BY <1>3, ListsAre
<1>8. a.huge \cup {h} = g
  BY <1>5
<1> HIDE DEF y, z, g, e
<1>9. Merge(s, h) = [head |-> s.head, link |-> y, prev |-> z, huge |-> g, avail |-> e,
                     panic |-> s.panic]
  BY <1>3, <1>6 DEF IsList
<1>10. b = [head |-> s.head, link |-> y, prev |-> z, huge |-> g, avail |-> e,
            panic |-> s.panic]
  BY <1>4, <1>5, <1>7, <1>8 DEF IsList
<1> QED BY <1>9, <1>10

\* Removing the inner pages one by one, and marking the first, is Merge.
LEMMA MergeBlockIs ==
  ASSUME NEW s, s \in FreeList, LinksOK(s), NEW h, CanMerge(s, h)
  PROVE  MergeBlock(s, h) = Merge(s, h)
<1> DEFINE Rounds(f) == [i \in 0..(HugeSize - 1) |->
                           IF i = 0 THEN s ELSE Unlink(f[i - 1], h + i)]
           list == CHOOSE f : f = Rounds(f)
           g == [i \in 0..(HugeSize - 1) |-> MergeAt(s, h, i)]
<1>1. HugeSize - 1 \in Nat /\ HugeSize \in Nat
  BY PageListAssumption
<1>2. MergeAt(s, h, 0) = s
  BY MergeStart
<1>3. g = Rounds(g)
  <2>1. ASSUME NEW i \in 0..(HugeSize - 1)
        PROVE  MergeAt(s, h, i) = IF i = 0 THEN s ELSE Unlink(g[i - 1], h + i)
    <3>1. CASE i = 0
      BY <1>2, <3>1
    <3>2. CASE i # 0
      <4>1. i \in 1..(HugeSize - 1) /\ i - 1 \in 0..(HugeSize - 1)
        BY <1>1, <3>2
      <4>2. g[i - 1] = MergeAt(s, h, i - 1)
        BY <4>1
      <4> HIDE DEF g
      <4> QED BY <3>2, <4>1, <4>2, MergeRound
    <3> QED BY <3>1, <3>2
  <2> QED BY <2>1
<1>4. list = Rounds(list)
  <2> HIDE DEF Rounds
  <2> QED BY <1>3
<1>5. \A i \in 0..(HugeSize - 1) : list[i] = g[i]
  <2> HIDE DEF list, g
  <2>1. 0 \in 0..(HugeSize - 1)
    BY <1>1
  <2>2. list[0] = s /\ g[0] = s
    BY <1>3, <1>4, <2>1
  <2>3. \A i \in 1..(HugeSize - 1) : list[i - 1] = g[i - 1] => list[i] = g[i]
    <3> SUFFICES ASSUME NEW i \in 1..(HugeSize - 1), list[i - 1] = g[i - 1]
                 PROVE  list[i] = g[i]
      OBVIOUS
    <3>1. i \in 0..(HugeSize - 1) /\ i # 0
      BY <1>1
    <3>2. list[i] = Unlink(list[i - 1], h + i) /\ g[i] = Unlink(g[i - 1], h + i)
      BY <1>3, <1>4, <3>1
    <3> QED BY <3>2
  <2> QED BY ONLY <1>1, <2>2, <2>3, SameRounds
<1>6. MergeBlock(s, h) = [list[HugeSize - 1] EXCEPT !.huge = @ \cup {h}]
  BY DEF MergeBlock
<1>7. list[HugeSize - 1] = MergeAt(s, h, HugeSize - 1)
  BY <1>1, <1>5
<1> HIDE DEF list
<1> QED BY <1>6, <1>7, MergeEnd

\* merge_after_free checks and merges what its loops do.
LEMMA MergeLoopIs ==
  ASSUME NEW s, s \in FreeList, LinksOK(s), NEW p \in Pages
  PROVE  merge_after_free(s, p) = MergeLoop(s, p)
<1> DEFINE h == p - (p % HugeSize)
           ok == \A i \in 0..(HugeSize - 1) :
                   /\ h + i \in s.avail
                   /\ i > 0 => s.prev[h + i] = h + i - 1
<1>1. /\ HugeSize \in Nat /\ HugeSize > 1 /\ p \in Nat /\ s.avail \subseteq Pages
      /\ NPages \in Nat
  BY PageListAssumption DEF Pages, FreeList
<1>2. h \in Nat /\ h % HugeSize = 0
  BY <1>1, BlockStart
<1> HIDE DEF h
<1>3. ok <=> CanMerge(s, h)
  <2>1. ASSUME ok PROVE CanMerge(s, h)
    <3>1. h + 0 \in s.avail /\ h + (HugeSize - 1) \in s.avail
      BY <1>1, <2>1
    <3>2. h \in HugeStarts
      BY <1>1, <1>2, <3>1 DEF HugeStarts, Pages
    <3>3. Block(h) \subseteq s.avail
      <4> SUFFICES ASSUME NEW q \in Block(h) PROVE q \in s.avail
        OBVIOUS
      <4>1. q - h \in 0..(HugeSize - 1) /\ h + (q - h) = q
        BY <1>1, <1>2 DEF Block
      <4> QED BY <2>1, <4>1
    <3>4. \A q \in Inner(h) : s.prev[q] = q - 1
      <4> SUFFICES ASSUME NEW q \in Inner(h) PROVE s.prev[q] = q - 1
        OBVIOUS
      <4> PICK i : i = q - h
        OBVIOUS
      <4>1. i \in 0..(HugeSize - 1) /\ h + i = q /\ i > 0
        BY <1>1, <1>2 DEF Inner
      <4>2. s.prev[h + i] = h + i - 1
        BY <2>1, <4>1
      <4>3. h + i - 1 = q - 1
        BY <1>2, <4>1
      <4> QED BY <4>1, <4>2, <4>3
    <3> QED BY <3>2, <3>3, <3>4 DEF CanMerge
  <2>2. ASSUME CanMerge(s, h) PROVE ok
    <3> SUFFICES ASSUME NEW i \in 0..(HugeSize - 1)
                 PROVE  /\ h + i \in s.avail
                        /\ i > 0 => s.prev[h + i] = h + i - 1
      OBVIOUS
    <3>1. h + i \in s.avail
      BY <2>2, BlockChain
    <3>2. i > 0 => i \in 1..(HugeSize - 1)
      BY <1>1
    <3>3. i > 0 => s.prev[h + i] = h + i - 1
      BY <2>2, <3>2, BlockChain
    <3> QED BY <3>1, <3>3
  <2> QED BY <2>1, <2>2
<1>4. merge_after_free(s, p) = IF CanMerge(s, h) THEN Merge(s, h) ELSE s
  BY DEF merge_after_free, h
<1>5. MergeLoop(s, p) = IF ok THEN MergeBlock(s, h) ELSE s
  BY DEF MergeLoop, h
<1> HIDE DEF ok
<1> QED BY <1>3, <1>4, <1>5, MergeBlockIs

-----------------------------------------------------------------------------
(* The search of the list. *)

\* Where the search stops, and where it goes from q.
Settled(s, k, q) == q = NULL \/ (q \in s.huge <=> k)
OneRound(s, k, q) == IF Settled(s, k, q) THEN q ELSE s.link[q]

\* The rounds of the search up to round m.
Walk(s, k, m, c) == c = [n \in 0..m |-> IF n = 0 THEN s.head ELSE OneRound(s, k, c[n - 1])]

LEMMA WalkExists ==
  ASSUME NEW s, NEW k, NEW m \in Nat
  PROVE  \E c : Walk(s, k, m, c)
<1> DEFINE Bad == {j \in Nat : ~ \E c : Walk(s, k, j, c)}
<1>1. Bad = {}
  <2> SUFFICES ASSUME Bad # {} PROVE FALSE
    OBVIOUS
  <2>1. PICK j \in Bad : \A y \in Bad : j <= y
    <3>1. Bad \in SUBSET Nat
      OBVIOUS
    <3> HIDE DEF Bad
    <3> QED BY <3>1, LeastExists
  <2>2. CASE j = 0
    <3> DEFINE c == [n \in 0..0 |-> s.head]
    <3>1. \A n \in 0..0 : n = 0
      OBVIOUS
    <3>2. Walk(s, k, 0, c)
      BY <3>1 DEF Walk
    <3> QED BY <2>1, <2>2, <3>2
  <2>3. CASE j # 0
    <3>1. j \in Nat /\ j - 1 \in Nat /\ j - 1 \notin Bad
      BY <2>1, <2>3
    <3>2. PICK b : Walk(s, k, j - 1, b)
      BY <3>1
    <3> DEFINE c == [n \in 0..j |-> IF n = j THEN OneRound(s, k, b[j - 1]) ELSE b[n]]
    <3>3. ASSUME NEW n \in 0..j
          PROVE  c[n] = IF n = 0 THEN s.head ELSE OneRound(s, k, c[n - 1])
      <4>1. CASE n = j
        <5>1. c[n] = OneRound(s, k, b[j - 1]) /\ n # 0
          BY <2>3, <4>1
        <5>2. c[n - 1] = b[j - 1]
          BY <3>1, <4>1
        <5> HIDE DEF c
        <5> QED BY <4>1, <5>1, <5>2
      <4>2. CASE n # j
        <5>1. n \in 0..(j - 1) /\ c[n] = b[n]
          BY <3>1, <4>2
        <5>2. n # 0 => c[n - 1] = b[n - 1]
          BY <3>1, <4>2
        <5> HIDE DEF c
        <5>3. b[n] = IF n = 0 THEN s.head ELSE OneRound(s, k, b[n - 1])
          BY <3>2, <5>1 DEF Walk
        <5> QED BY <5>1, <5>2, <5>3
      <4> QED BY <4>1, <4>2
    <3>4. Walk(s, k, j, c)
      <4> DEFINE d == [n \in 0..j |-> IF n = 0 THEN s.head ELSE OneRound(s, k, c[n - 1])]
      <4>1. c = d
        <5>1. \A n \in 0..j : c[n] = d[n]
          BY <3>3
        <5> HIDE DEF OneRound
        <5> QED BY <5>1
      <4> HIDE DEF c
      <4> QED BY <4>1 DEF Walk
    <3> HIDE DEF c
    <3>5. j \notin Bad
      BY <3>4
    <3> QED BY <2>1, <3>5
  <2> QED BY <2>2, <2>3
<1> QED BY <1>1

\* What the rounds visit: available pages, until the search stops for good.
LEMMA WalkVisits ==
  ASSUME NEW s, Linked(s), NEW k, NEW c, Walk(s, k, NPages, c)
  PROVE  /\ c[0] = s.head
         /\ \A n \in 1..NPages : c[n] = OneRound(s, k, c[n - 1])
         /\ \A n \in 0..NPages : c[n] = NULL \/ c[n] \in s.avail
         /\ \A n \in 0..NPages : Settled(s, k, c[n]) => c[NPages] = c[n]
<1>1. NPages \in Nat /\ LinksOK(s)
  BY PageListAssumption DEF Linked
<1>2. c[0] = s.head
  BY <1>1 DEF Walk
<1>3. ASSUME NEW n \in 1..NPages PROVE c[n] = OneRound(s, k, c[n - 1])
  <2>1. n \in 0..NPages /\ n # 0
    BY <1>1
  <2> QED BY <2>1 DEF Walk
<1>4. \A n \in 0..NPages : c[n] = NULL \/ c[n] \in s.avail
  <2> DEFINE Bad == {n \in 0..NPages : ~ (c[n] = NULL \/ c[n] \in s.avail)}
  <2> SUFFICES ASSUME Bad # {} PROVE FALSE
    OBVIOUS
  <2>1. PICK n \in Bad : \A y \in Bad : n <= y
    <3>1. Bad \in SUBSET Nat
      BY <1>1
    <3> HIDE DEF Bad
    <3> QED BY <3>1, LeastExists
  <2>2. n # 0
    BY <1>1, <1>2, <2>1 DEF LinksOK
  <2>3. n \in 1..NPages /\ n - 1 \in 0..NPages /\ n - 1 \notin Bad
    BY <1>1, <2>1, <2>2
  <2>4. c[n] = OneRound(s, k, c[n - 1]) /\ (c[n - 1] = NULL \/ c[n - 1] \in s.avail)
    BY <1>3, <2>3
  <2>5. c[n] = NULL \/ c[n] \in s.avail
    BY <1>1, <2>4 DEF OneRound, Settled, LinksOK
  <2> QED BY <2>1, <2>5
<1>5. ASSUME NEW n \in 0..NPages, Settled(s, k, c[n]) PROVE c[NPages] = c[n]
  <2> DEFINE Bad == {m \in n..NPages : c[m] # c[n]}
  <2> SUFFICES ASSUME Bad # {} PROVE FALSE
    BY <1>1
  <2>1. PICK m \in Bad : \A y \in Bad : m <= y
    <3>1. Bad \in SUBSET Nat
      BY <1>1
    <3> HIDE DEF Bad
    <3> QED BY <3>1, LeastExists
  <2>2. m # n /\ m \in n..NPages
    BY <2>1
  <2>3. m \in 1..NPages /\ m - 1 \in n..NPages /\ m - 1 \notin Bad
    BY <1>1, <2>1, <2>2
  <2>4. c[m - 1] = c[n] /\ c[m] = OneRound(s, k, c[m - 1])
    BY <1>3, <2>3
  <2>5. c[m] = c[n]
    BY <1>5, <2>4 DEF OneRound
  <2> QED BY <2>1, <2>5
<1> QED BY <1>2, <1>3, <1>4, <1>5

\* The search has stopped when it has made as many rounds as there are pages,
\* because no page comes up twice.
LEMMA WalkEnds ==
  ASSUME NEW s, Linked(s), NEW k, NEW c, Walk(s, k, NPages, c)
  PROVE  Settled(s, k, c[NPages])
<1> SUFFICES ASSUME ~ Settled(s, k, c[NPages]) PROVE FALSE
  OBVIOUS
<1>1. NPages \in Nat /\ LinksOK(s) /\ s.avail \subseteq Pages /\ NULL \notin Pages
  BY PageListAssumption DEF Linked, FreeList
<1>2. ASSUME NEW n \in 0..NPages PROVE ~ Settled(s, k, c[n]) /\ c[n] \in s.avail
  <2>1. ~ Settled(s, k, c[n])
    BY WalkVisits
  <2>2. c[n] # NULL
    BY <2>1 DEF Settled
  <2> QED BY <2>1, <2>2, WalkVisits
<1>3. ASSUME NEW n \in 1..NPages PROVE s.prev[c[n]] = c[n - 1] /\ n - 1 \in 0..NPages
  <2>1. n - 1 \in 0..NPages /\ n \in 0..NPages
    BY <1>1
  <2>2. c[n] = s.link[c[n - 1]]
    BY <1>2, <2>1, WalkVisits DEF OneRound
  <2>3. c[n] # NULL /\ c[n - 1] \in s.avail
    BY <1>1, <1>2, <2>1
  <2> QED BY <1>1, <2>1, <2>2, <2>3 DEF LinksOK
<1> DEFINE Twice == {i \in 0..NPages : \E j \in 0..NPages : i < j /\ c[i] = c[j]}
<1>4. Twice # {}
  <2>1. /\ IsFiniteSet(0..NPages) /\ Cardinality(0..NPages) = NPages + 1
        /\ IsFiniteSet(0..(NPages - 1)) /\ Cardinality(0..(NPages - 1)) = NPages
    <3>1. 0 \in Int /\ NPages \in Int /\ NPages - 1 \in Int
      BY <1>1
    <3>2. Cardinality(0..NPages) = (IF 0 > NPages THEN 0 ELSE NPages - 0 + 1)
      BY <3>1, FS_Interval
    <3>3. Cardinality(0..(NPages - 1)) = (IF 0 > NPages - 1 THEN 0 ELSE NPages - 1 - 0 + 1)
      BY <3>1, FS_Interval
    <3>4. IsFiniteSet(0..NPages) /\ IsFiniteSet(0..(NPages - 1))
      BY <3>1, FS_Interval
    <3> QED BY <1>1, <3>2, <3>3, <3>4
  <2> PICK d : d = [n \in 0..NPages |-> c[n]]
    OBVIOUS
  <2>2. d \in [0..NPages -> 0..(NPages - 1)]
    BY <1>1, <1>2 DEF Pages
  <2>3. Cardinality(0..(NPages - 1)) < Cardinality(0..NPages)
    BY <1>1, <2>1
  <2>4. PICK x, y \in 0..NPages : x # y /\ d[x] = d[y]
    <3> DEFINE S == 0..NPages
               T == 0..(NPages - 1)
    <3>1. /\ IsFiniteSet(S) /\ IsFiniteSet(T) /\ Cardinality(T) < Cardinality(S)
          /\ d \in [S -> T]
      BY <2>1, <2>2, <2>3
    <3> HIDE DEF S, T
    <3>2. \E x, y \in S : x # y /\ d[x] = d[y]
      BY ONLY <3>1, FS_PigeonHole
    <3> QED BY <3>2 DEF S
  <2>5. c[x] = c[y] /\ (x < y \/ y < x)
    BY <1>1, <2>4
  <2> QED BY <2>5
<1>5. PICK i \in Twice : \A y \in Twice : i <= y
  <2>1. Twice \in SUBSET Nat
    BY <1>1
  <2> HIDE DEF Twice
  <2> QED BY <1>4, <2>1, LeastExists
<1>6. PICK j \in 0..NPages : i < j /\ c[i] = c[j] /\ i \in 0..NPages
  BY <1>5
<1>7. j \in 1..NPages
  BY <1>1, <1>6
<1>8. CASE i = 0
  <2>1. c[j] = s.head /\ s.prev[c[j]] = c[j - 1] /\ c[j - 1] \in s.avail
    BY <1>2, <1>3, <1>6, <1>7, <1>8, WalkVisits
  <2>2. s.head # NULL /\ s.prev[s.head] # NULL
    BY <1>1, <1>2, <1>6, <2>1
  <2> QED BY <1>1, <2>2 DEF LinksOK
<1>9. CASE i # 0
  <2>1. i \in 1..NPages
    BY <1>1, <1>6, <1>9
  <2>2. c[i - 1] = c[j - 1] /\ i - 1 \in 0..NPages /\ j - 1 \in 0..NPages /\ i - 1 < j - 1
    BY <1>1, <1>3, <1>6, <1>7, <2>1
  <2>3. i - 1 \in Twice /\ ~ (i <= i - 1)
    BY <1>1, <2>1, <2>2
  <2> HIDE DEF Twice
  <2> QED BY <1>5, <2>3
<1> QED BY <1>8, <1>9

\* The page where the search stops is the first one of the wanted kind.
LEMMA WalkFinds ==
  ASSUME NEW s, Linked(s), NEW k \in BOOLEAN, NEW c, Walk(s, k, NPages, c)
  PROVE  FirstOfKind(s, k) = {c[NPages]} \ {NULL}
<1> DEFINE match == IF k THEN s.huge ELSE Pages \ s.huge
           V == {c[n] : n \in 0..NPages} \ {NULL}
           end == c[NPages]
<1>1. /\ NPages \in Nat /\ LinksOK(s) /\ s.avail \subseteq Pages /\ NULL \notin Pages
      /\ NPages \in 0..NPages /\ 0 \in 0..NPages
  BY PageListAssumption DEF Linked, FreeList
<1>2. /\ c[0] = s.head
      /\ \A n \in 1..NPages : c[n] = OneRound(s, k, c[n - 1])
      /\ \A n \in 0..NPages : c[n] = NULL \/ c[n] \in s.avail
      /\ \A n \in 0..NPages : Settled(s, k, c[n]) => end = c[n]
  BY WalkVisits
<1>3. Settled(s, k, end)
  BY WalkEnds
<1>4. \A q \in Pages : q \in match <=> Settled(s, k, q)
  BY <1>1 DEF Settled
<1> HIDE DEF match
<1>5. CASE s.head = NULL
  <2>1. end = NULL
    BY <1>1, <1>2, <1>5 DEF Settled
  <2> QED BY <1>5, <2>1 DEF FirstOfKind
<1>6. CASE s.head # NULL
  <2>1. V \in Closed(s, match)
    <3>1. V \subseteq s.avail /\ s.head \in V
      BY <1>1, <1>2, <1>6
    <3>2. ASSUME NEW q \in V \ match, s.link[q] # NULL PROVE s.link[q] \in V
      <4>1. PICK n \in 0..NPages : q = c[n]
        BY <3>2
      <4>2. ~ Settled(s, k, c[n])
        BY <1>1, <1>4, <3>1, <4>1
      <4>3. n # NPages
        BY <1>3, <4>2
      <4>4. n + 1 \in 1..NPages /\ n + 1 \in 0..NPages /\ n + 1 - 1 = n
        BY <1>1, <4>3
      <4>5. c[n + 1] = OneRound(s, k, c[n])
        BY <1>2, <4>4
      <4>6. c[n + 1] = s.link[q]
        BY <4>1, <4>2, <4>5 DEF OneRound
      <4> QED BY <3>2, <4>4, <4>6
    <3> QED BY <3>1, <3>2 DEF Closed
  <2>2. ASSUME NEW S \in Closed(s, match) PROVE V \subseteq S
    <3> DEFINE Bad == {n \in 0..NPages : ~ (c[n] = NULL \/ c[n] \in S)}
    <3>1. /\ s.head \in S /\ S \subseteq s.avail
          /\ \A q \in S \ match : s.link[q] # NULL => s.link[q] \in S
      BY DEF Closed
    <3>2. Bad = {}
      <4> SUFFICES ASSUME Bad # {} PROVE FALSE
        OBVIOUS
      <4>1. PICK n \in Bad : \A y \in Bad : n <= y
        <5>1. Bad \in SUBSET Nat
          BY <1>1
        <5> HIDE DEF Bad
        <5> QED BY <5>1, LeastExists
      <4>2. n # 0
        BY <1>2, <3>1, <4>1
      <4>3. n \in 1..NPages /\ n - 1 \in 0..NPages /\ n - 1 \notin Bad
        BY <1>1, <4>1, <4>2
      <4>4. c[n] = OneRound(s, k, c[n - 1]) /\ (c[n - 1] = NULL \/ c[n - 1] \in S)
        BY <1>2, <4>3
      <4>5. CASE Settled(s, k, c[n - 1])
        BY <4>1, <4>4, <4>5 DEF OneRound
      <4>6. CASE ~ Settled(s, k, c[n - 1])
        <5>1. c[n - 1] \in S
          BY <4>4, <4>6 DEF Settled
        <5>2. c[n - 1] \notin match
          BY <1>1, <1>4, <3>1, <4>6, <5>1
        <5>3. c[n] = s.link[c[n - 1]]
          BY <4>4, <4>6 DEF OneRound
        <5> QED BY <3>1, <4>1, <5>1, <5>2, <5>3
      <4> QED BY <4>5, <4>6
    <3>3. \A n \in 0..NPages : c[n] = NULL \/ c[n] \in S
      BY <3>2
    <3> QED BY <3>3
  <2>3. V \subseteq Pages
    BY <1>1, <1>2
  <2>4. \A q \in V \cap match : q = end
    BY <1>2, <1>4, <2>3
  <2>5. end # NULL => end \in V \cap match
    <3>1. end # NULL => end \in V
      BY <1>1
    <3> QED BY <1>3, <1>4, <2>3, <3>1
  <2>6. Scan(s, match) = V
    <3> HIDE DEF V
    <3> QED BY <2>1, <2>2, <2>3 DEF Scan
  <2>7. FirstOfKind(s, k) = Scan(s, match) \cap match
    BY <1>6 DEF FirstOfKind, match
  <2>8. NULL \notin V
    OBVIOUS
  <2> HIDE DEF V, end
  <2>9. FirstOfKind(s, k) = V \cap match
    BY <2>6, <2>7
  <2>10. V \cap match = {end} \ {NULL}
    <3>1. CASE end = NULL
      BY <2>4, <2>8, <3>1
    <3>2. CASE end # NULL
      BY <2>4, <2>5, <3>2
    <3> QED BY <3>1, <3>2
  <2> QED BY <2>9, <2>10 DEF end
<1> QED BY <1>5, <1>6

\* The loop of delete_from_free ends where FirstOfKind says.
LEMMA FindLoopIs ==
  ASSUME NEW s, Linked(s), NEW k \in BOOLEAN
  PROVE  FirstOfKind(s, k) = {FindLoop(s, k)} \ {NULL}
<1> DEFINE Rounds(f) == [n \in 0..NPages |->
                           IF n = 0 THEN s.head
                           ELSE IF f[n - 1] = NULL \/ (f[n - 1] \in s.huge <=> k)
                                THEN f[n - 1] ELSE s.link[f[n - 1]]]
           cur == CHOOSE f : f = Rounds(f)
<1>1. \E c : c = Rounds(c)
  <2>1. PICK c : Walk(s, k, NPages, c)
    BY PageListAssumption, WalkExists
  <2>2. c = Rounds(c)
    BY <2>1 DEF Walk, OneRound, Settled
  <2> QED BY <2>2
<1>2. cur = Rounds(cur)
  <2> HIDE DEF Rounds
  <2> QED BY <1>1
<1>3. Walk(s, k, NPages, cur)
  <2> HIDE DEF cur
  <2> QED BY <1>2 DEF Walk, OneRound, Settled
<1>4. FindLoop(s, k) = cur[NPages]
  BY DEF FindLoop
<1> HIDE DEF cur
<1> QED BY <1>3, <1>4, WalkFinds

\* What a good list tells of a huge page at its head.
LEMMA GoodHugeHead ==
  ASSUME NEW s, NEW L, Good(s, L), s.head \in s.huge, s.head # NULL
  PROVE  HugeHead(s, s.head)
<1> DEFINE h == s.head
<1>1. /\ s \in FreeList /\ LinksOK(s) /\ Tiled(s, s.avail \cup L) /\ s.huge \subseteq HugeStarts
      /\ NULL \notin Pages
  BY PageListAssumption DEF Good, Linked, Tiled
<1>2. h \in s.avail /\ s.prev[h] = NULL /\ h \in HugeStarts
  BY <1>1 DEF LinksOK
<1>3. h \in Nat /\ h + HugeSize <= NPages /\ h \in Pages /\ s.link[h] \in Ptr
  BY <1>1, <1>2, PageListAssumption DEF HugeStarts, Pages, FreeList
<1>4. Inner(h) \cap s.avail = {}
  <2> PICK t : t = [s EXCEPT !.huge = s.huge \ Block(h)]
    OBVIOUS
  <2>1. t.huge = s.huge \ Block(h)
    BY <1>1, ListsAre
  <2>2. Inner(h) \cap (s.avail \cup L) = {}
    BY <1>1, <1>2, <2>1, SplitTiled
  <2> QED BY <2>2
<1>5. s.link[h] \notin Block(h)
  <2>1. ASSUME s.link[h] \in Block(h) PROVE FALSE
    <3>1. Block(h) \subseteq Pages /\ Inner(h) = Block(h) \ {h}
      BY <1>2, Blocks
    <3>2. s.link[h] # NULL
      BY <1>1, <2>1, <3>1
    <3>3. s.link[h] \in s.avail /\ s.prev[s.link[h]] = h
      BY <1>1, <1>2, <3>2 DEF LinksOK
    <3>4. s.link[h] = h
      BY <1>4, <2>1, <3>1, <3>3
    <3> QED BY <1>1, <1>2, <1>3, <3>3, <3>4
  <2> QED BY <2>1
<1> QED BY <1>1, <1>2, <1>3, <1>5 DEF HugeHead

\* page_alloc: the search, and the split when there is no small page.
LEMMA AllocLoopIs ==
  ASSUME NEW s, NEW L, Good(s, L), NEW k \in BOOLEAN
  PROVE  page_alloc(s, k) = AllocLoop(s, k)
<1> DEFINE found == FindLoop(s, k)
           kind == FirstOfKind(s, k)
<1>1. Linked(s) /\ NULL \notin Pages
  BY PageListAssumption DEF Good
<1>2. kind = {found} \ {NULL}
  BY <1>1, FindLoopIs
<1> HIDE DEF found, kind
<1>3. CASE found # NULL
  <2>1. kind = {found} /\ kind # {}
    BY <1>2, <1>3
  <2>2. (CHOOSE q \in kind : TRUE) = found
    BY <2>1
  <2>3. page_alloc(s, k) = [page |-> CHOOSE q \in kind : TRUE,
                            fl |-> Unlink(s, CHOOSE q \in kind : TRUE)]
    BY <2>1 DEF page_alloc, kind
  <2>4. AllocLoop(s, k) = [page |-> found, fl |-> Unlink(s, found)]
    BY <1>3 DEF AllocLoop, found
  <2> QED BY <2>2, <2>3, <2>4
<1>4. CASE found = NULL
  <2>1. kind = {}
    BY <1>2, <1>4
  <2>2. page_alloc(s, k) = IF k \/ s.head = NULL THEN [page |-> NULL, fl |-> s]
                           ELSE [page |-> s.head, fl |-> Split(s, s.head)]
    BY <2>1 DEF page_alloc, kind
  <2>3. AllocLoop(s, k) = IF k \/ s.head = NULL THEN [page |-> NULL, fl |-> s]
                          ELSE [page |-> s.head, fl |-> SplitLoop(s, s.head)]
    BY <1>4 DEF AllocLoop, found
  <2>4. ~ k /\ s.head # NULL => SplitLoop(s, s.head) = Split(s, s.head)
    <3> SUFFICES ASSUME ~ k, s.head # NULL PROVE SplitLoop(s, s.head) = Split(s, s.head)
      OBVIOUS
    <3>1. s.head \in s.huge
      BY <1>1, <2>1, Search DEF kind
    <3>2. HugeHead(s, s.head)
      BY <3>1, GoodHugeHead
    <3> QED BY <3>2, SplitLoopIs
  <2> QED BY <2>2, <2>3, <2>4
<1> QED BY <1>3, <1>4

-----------------------------------------------------------------------------
(* The list that page_init builds is in descending order all along. *)

\* x is the greatest page of A, the next one below p, the next one above p, or
\* NULL if there is none.
Top(A, x) == \/ x = NULL /\ A = {}
             \/ x \in A /\ \A y \in A : y <= x
Lower(A, p, x) == \/ x = NULL /\ \A y \in A : p <= y
                  \/ x \in A /\ x < p /\ \A y \in A : y < p => y <= x
Upper(A, p, x) == \/ x = NULL /\ \A y \in A : y <= p
                  \/ x \in A /\ p < x /\ \A y \in A : p < y => x <= y

\* s holds the pages in A in descending order, and those in G are huge.
Descending(s, A, G) ==
    /\ s \in FreeList /\ s.avail = A /\ s.huge = G /\ ~s.panic
    /\ Top(A, s.head)
    /\ \A p \in A : Lower(A, p, s.link[p]) /\ Upper(A, p, s.prev[p])
    /\ \A p \in Pages \ A : s.link[p] = NULL /\ s.prev[p] = NULL

\* That list.
Ordered(A, G) ==
    [head  |-> IF A = {} THEN NULL ELSE Greatest(A),
     link  |-> [p \in Pages |-> IF p \in A /\ {q \in A : q < p} # {}
                                THEN Greatest({q \in A : q < p}) ELSE NULL],
     prev  |-> [p \in Pages |-> IF p \in A /\ {q \in A : q > p} # {}
                                THEN Least({q \in A : q > p}) ELSE NULL],
     huge  |-> G, avail |-> A, panic |-> FALSE]

LEMMA OrderedIs ==
  ASSUME NEW A \in SUBSET Pages, NEW G \in SUBSET Pages
  PROVE  Descending(Ordered(A, G), A, G)
<1> PICK w : w = Ordered(A, G)
  OBVIOUS
<1>1. NULL \in Ptr /\ A \subseteq Ptr /\ \A q \in Pages : q \in Nat
  BY PageListAssumption DEF Ptr, Pages
<1>2. Top(A, w.head)
  <2>1. w.head = IF A = {} THEN NULL ELSE Greatest(A)
    BY DEF Ordered
  <2> QED BY <2>1, Extremes DEF Top
<1>3. ASSUME NEW p \in A PROVE Lower(A, p, w.link[p])
  <2> DEFINE T == {q \in A : q < p}
  <2>1. w.link[p] = IF T # {} THEN Greatest(T) ELSE NULL
    BY DEF Ordered
  <2>2. CASE T = {}
    BY <1>1, <2>1, <2>2 DEF Lower
  <2>3. CASE T # {}
    <3>1. T \in SUBSET Pages
      OBVIOUS
    <3>2. Greatest(T) \in T /\ \A y \in T : y <= Greatest(T)
      <4> HIDE DEF T
      <4> QED BY <2>3, <3>1, Extremes
    <3> QED BY <2>1, <2>3, <3>2 DEF Lower
  <2> QED BY <2>2, <2>3
<1>4. ASSUME NEW p \in A PROVE Upper(A, p, w.prev[p])
  <2> DEFINE T == {q \in A : q > p}
  <2>1. w.prev[p] = IF T # {} THEN Least(T) ELSE NULL
    BY DEF Ordered
  <2>2. CASE T = {}
    BY <1>1, <2>1, <2>2 DEF Upper
  <2>3. CASE T # {}
    <3>1. T \in SUBSET Pages
      OBVIOUS
    <3>2. Least(T) \in T /\ \A y \in T : Least(T) <= y
      <4> HIDE DEF T
      <4> QED BY <2>3, <3>1, Extremes
    <3> QED BY <1>1, <2>1, <2>3, <3>2 DEF Upper
  <2> QED BY <2>2, <2>3
<1>5. \A p \in Pages \ A : w.link[p] = NULL /\ w.prev[p] = NULL
  BY DEF Ordered
<1>6. w \in FreeList /\ w.avail = A /\ w.huge = G /\ ~w.panic
  <2>1. \A p \in Pages : w.link[p] \in Ptr
    BY <1>1, <1>3, <1>5 DEF Lower
  <2>2. \A p \in Pages : w.prev[p] \in Ptr
    BY <1>1, <1>4, <1>5 DEF Upper
  <2>3. w.head \in Ptr
    BY <1>1, <1>2 DEF Top
  <2>4. /\ IsList(w) /\ w.avail = A /\ w.huge = G /\ w.panic = FALSE
        /\ w.link = [p \in Pages |-> w.link[p]] /\ w.prev = [p \in Pages |-> w.prev[p]]
    BY DEF Ordered, IsList
  <2>5. w.link \in [Pages -> Ptr] /\ w.prev \in [Pages -> Ptr]
    BY <2>1, <2>2, <2>4
  <2> QED BY <2>3, <2>4, <2>5 DEF FreeList, IsList
<1>7. Descending(w, A, G)
  BY <1>2, <1>3, <1>4, <1>5, <1>6 DEF Descending
<1> QED BY <1>7

\* There is one such list.
LEMMA DescendingIs ==
  ASSUME NEW A \in SUBSET Pages, NEW G \in SUBSET Pages, NEW s, Descending(s, A, G)
  PROVE  s = Ordered(A, G)
<1> PICK w : w = Ordered(A, G)
  OBVIOUS
<1>1. Descending(w, A, G)
  BY OrderedIs
<1>2. /\ IsList(s) /\ IsList(w) /\ s.link \in [Pages -> Ptr] /\ w.link \in [Pages -> Ptr]
      /\ s.prev \in [Pages -> Ptr] /\ w.prev \in [Pages -> Ptr]
      /\ s.panic \in BOOLEAN /\ w.panic \in BOOLEAN
  BY <1>1, ListsAre DEF Descending, FreeList
<1>3. NULL \notin A /\ \A q \in A : q \in Nat
  <2>1. NULL \notin A
    BY PageListAssumption
  <2>2. \A q \in A : q \in Nat
    <3>1. \A q \in Pages : q \in Nat
      BY PageListAssumption DEF Pages
    <3> QED BY <3>1
  <2> QED BY <2>1, <2>2
<1>4. \A x, y : Top(A, x) /\ Top(A, y) => x = y
  BY <1>3 DEF Top
<1>5. \A p \in A : \A x, y : Lower(A, p, x) /\ Lower(A, p, y) => x = y
  BY <1>3 DEF Lower
<1>6. \A p \in A : \A x, y : Upper(A, p, x) /\ Upper(A, p, y) => x = y
  BY <1>3 DEF Upper
<1>7. \A p \in Pages : s.link[p] = w.link[p] /\ s.prev[p] = w.prev[p]
  BY <1>1, <1>5, <1>6 DEF Descending
<1>8. s.link = w.link /\ s.prev = w.prev
  BY <1>2, <1>7
<1>9. /\ s.head = w.head /\ s.huge = w.huge /\ s.avail = w.avail /\ s.panic = w.panic
  BY <1>1, <1>2, <1>4 DEF Descending
<1>10. s = w
  BY <1>2, <1>8, <1>9, SameLists
<1> QED BY <1>10

\* page_init is the list of the initial heads.
LEMMA InitOrdered == page_init = Ordered(InitialHeads, InitialHuge)
<1>1. \A p \in Pages : Below(p) = {q \in InitialHeads : q < p}
  BY DEF Below
<1>2. \A p \in Pages : Above(p) = {q \in InitialHeads : q > p}
  BY DEF Above
<1> QED BY <1>1, <1>2 DEF page_init, Ordered

\* Pushing a page above all others, and taking any page out, keep the order.
LEMMA PushOrdered ==
  ASSUME NEW A \in SUBSET Pages, NEW G \in SUBSET Pages, NEW p \in Pages,
         \A q \in A : q < p
  PROVE  Push(Ordered(A, G), p) = Ordered(A \cup {p}, G)
<1> PICK s : s = Ordered(A, G)
  OBVIOUS
<1> PICK n : n = Push(s, p)
  OBVIOUS
<1>1. Descending(s, A, G) /\ IsList(s)
  <2>1. Descending(s, A, G)
    BY OrderedIs
  <2> QED BY <2>1, ListsAre DEF Descending
<1>2. p \notin A /\ NULL \notin Pages /\ \A q \in Pages : q \in Nat
  BY PageListAssumption DEF Pages
<1> DEFINE b == [s.link EXCEPT ![p] = s.head]
           c == [q \in Pages |-> IF q = p THEN NULL
                                 ELSE IF q = s.head THEN p ELSE s.prev[q]]
           e == s.avail \cup {p}
<1>3. n = [s EXCEPT !.head = p, !.link = b, !.prev = c, !.avail = e]
  BY DEF Push
<1> HIDE DEF b, c, e
<1>4. n = [head |-> p, link |-> b, prev |-> c, huge |-> s.huge, avail |-> e,
           panic |-> s.panic]
  BY <1>1, <1>3 DEF IsList
<1>5. /\ n.head = p /\ n.link = b /\ n.prev = c /\ n.huge = s.huge /\ n.avail = e
      /\ n.panic = s.panic /\ IsList(n)
  BY <1>4 DEF IsList
<1>6. s.link \in [Pages -> Ptr] /\ s.prev \in [Pages -> Ptr] /\ s.head \in Ptr
  BY <1>1 DEF Descending, FreeList
<1>7. \A q \in Pages : n.link[q] = IF q = p THEN s.head ELSE s.link[q]
  BY <1>5, <1>6 DEF b
<1>8. \A q \in Pages : n.prev[q] = IF q = p THEN NULL
                                   ELSE IF q = s.head THEN p ELSE s.prev[q]
  BY <1>5 DEF c
<1>9. n.avail = A \cup {p} /\ n.huge = G /\ n.panic = s.panic
  BY <1>1, <1>5 DEF e, Descending
<1>10. n \in FreeList
  <2>1. n.link \in [Pages -> Ptr] /\ n.prev \in [Pages -> Ptr]
    BY <1>5, <1>6 DEF b, c, Ptr
  <2>2. n.head \in Ptr /\ n.avail \subseteq Pages /\ n.huge \subseteq Pages /\ n.panic \in BOOLEAN
    <3>1. s.panic \in BOOLEAN
      BY <1>1 DEF Descending, FreeList
    <3> QED BY <1>5, <1>9, <3>1 DEF Ptr
  <2> QED BY <1>5, <2>1, <2>2 DEF FreeList, IsList
<1>11. Top(A \cup {p}, n.head)
  BY <1>2, <1>5 DEF Top
<1>12. Top(A, s.head) /\ \A q \in A : Lower(A, q, s.link[q]) /\ Upper(A, q, s.prev[q])
  BY <1>1 DEF Descending
<1>13. ASSUME NEW q \in A \cup {p} PROVE Lower(A \cup {p}, q, n.link[q])
  <2>1. CASE q = p
    BY <1>2, <1>7, <1>12, <2>1 DEF Lower, Top
  <2>2. CASE q # p
    BY <1>2, <1>7, <1>12, <2>2 DEF Lower
  <2> QED BY <2>1, <2>2
<1>14. ASSUME NEW q \in A \cup {p} PROVE Upper(A \cup {p}, q, n.prev[q])
  <2>1. CASE q = p
    BY <1>2, <1>8, <2>1 DEF Upper
  <2>2. CASE q # p /\ q = s.head
    BY <1>2, <1>8, <1>12, <2>2 DEF Upper, Top
  <2>3. CASE q # p /\ q # s.head
    <3>1. s.head \in A /\ q <= s.head /\ q < s.head
      BY <1>2, <1>12, <2>3 DEF Top
    <3>2. Upper(A, q, s.prev[q]) /\ n.prev[q] = s.prev[q]
      BY <1>8, <1>12, <2>3
    <3> QED BY <1>2, <2>3, <3>1, <3>2 DEF Upper
  <2> QED BY <2>1, <2>2, <2>3
<1>15. \A q \in Pages \ (A \cup {p}) : n.link[q] = NULL /\ n.prev[q] = NULL
  <2>1. \A q \in Pages \ (A \cup {p}) : q # s.head
    BY <1>2, <1>12 DEF Top
  <2> QED BY <1>1, <1>7, <1>8, <2>1 DEF Descending
<1>16. Descending(n, A \cup {p}, G)
  BY <1>1, <1>9, <1>10, <1>11, <1>13, <1>14, <1>15 DEF Descending
<1>17. n = Ordered(A \cup {p}, G)
  <2> PICK B : B = A \cup {p}
    OBVIOUS
  <2>1. B \in SUBSET Pages /\ Descending(n, B, G)
    BY <1>16
  <2> QED BY <2>1, DescendingIs
<1> QED BY <1>17

\* Neighbours in a set of pages: who is next to p has p next to it, and becomes a
\* neighbour of p's other neighbour when p goes.
LEMMA Neighbours ==
  ASSUME NEW A \in SUBSET Pages, NEW p \in A, NEW q \in A, p # q, NEW x
  PROVE  /\ Lower(A, q, p) /\ Upper(A, p, x) => x = q
         /\ Upper(A, q, p) /\ Lower(A, p, x) => x = q
         /\ Upper(A, p, q) /\ Lower(A, p, x) => Lower(A \ {p}, q, x)
         /\ Lower(A, p, q) /\ Upper(A, p, x) => Upper(A \ {p}, q, x)
<1>1. NULL \notin A /\ p \in Nat /\ q \in Nat /\ \A y \in A : y \in Nat
  <2>1. NULL \notin A
    BY PageListAssumption
  <2>2. \A y \in Pages : y \in Nat
    BY PageListAssumption DEF Pages
  <2> QED BY <2>1, <2>2
<1>2. ASSUME Lower(A, q, p), Upper(A, p, x) PROVE x = q
  <2>1. p < q /\ \A y \in A : y < q => y <= p
    BY <1>1, <1>2 DEF Lower
  <2>2. x \in A /\ p < x /\ \A y \in A : p < y => x <= y
    BY <1>1, <1>2, <2>1 DEF Upper
  <2>3. x <= q /\ ~ (x < q) /\ x \in Nat
    BY <1>1, <2>1, <2>2
  <2> QED BY <1>1, <2>3
<1>3. ASSUME Upper(A, q, p), Lower(A, p, x) PROVE x = q
  <2>1. q < p /\ \A y \in A : q < y => p <= y
    BY <1>1, <1>3 DEF Upper
  <2>2. x \in A /\ x < p /\ \A y \in A : y < p => y <= x
    BY <1>1, <1>3, <2>1 DEF Lower
  <2>3. q <= x /\ ~ (q < x) /\ x \in Nat
    BY <1>1, <2>1, <2>2
  <2> QED BY <1>1, <2>3
<1>4. ASSUME Upper(A, p, q), Lower(A, p, x) PROVE Lower(A \ {p}, q, x)
  <2>1. p < q /\ \A y \in A : p < y => q <= y
    BY <1>1, <1>4 DEF Upper
  <2>2. \A y \in A \ {p} : y < q <=> y < p
    BY <1>1, <2>1
  <2>3. CASE x = NULL /\ \A y \in A : p <= y
    <3>1. \A y \in A \ {p} : q <= y
      BY <1>1, <2>2, <2>3
    <3> QED BY <2>3, <3>1 DEF Lower
  <2>4. CASE x \in A /\ x < p /\ \A y \in A : y < p => y <= x
    <3>1. x \in A \ {p} /\ x < q
      BY <1>1, <2>1, <2>4
    <3>2. \A y \in A \ {p} : y < q => y <= x
      BY <2>2, <2>4
    <3> QED BY <3>1, <3>2 DEF Lower
  <2> QED BY <1>4, <2>3, <2>4 DEF Lower
<1>5. ASSUME Lower(A, p, q), Upper(A, p, x) PROVE Upper(A \ {p}, q, x)
  <2>1. q < p /\ \A y \in A : y < p => y <= q
    BY <1>1, <1>5 DEF Lower
  <2>2. \A y \in A \ {p} : q < y <=> p < y
    BY <1>1, <2>1
  <2>3. CASE x = NULL /\ \A y \in A : y <= p
    <3>1. \A y \in A \ {p} : y <= q
      BY <1>1, <2>2, <2>3
    <3> QED BY <2>3, <3>1 DEF Upper
  <2>4. CASE x \in A /\ p < x /\ \A y \in A : p < y => x <= y
    <3>1. x \in A \ {p} /\ q < x
      BY <1>1, <2>1, <2>4
    <3>2. \A y \in A \ {p} : q < y => x <= y
      BY <2>2, <2>4
    <3> QED BY <3>1, <3>2 DEF Upper
  <2> QED BY <1>5, <2>3, <2>4 DEF Upper
<1> QED BY <1>2, <1>3, <1>4, <1>5

LEMMA UnlinkOrdered ==
  ASSUME NEW A \in SUBSET Pages, NEW G \in SUBSET Pages, NEW p \in A
  PROVE  Unlink(Ordered(A, G), p) = Ordered(A \ {p}, G)
<1> PICK s : s = Ordered(A, G)
  OBVIOUS
<1> PICK n : n = Unlink(s, p)
  OBVIOUS
<1>1. Descending(s, A, G) /\ IsList(s)
  <2>1. Descending(s, A, G)
    BY OrderedIs
  <2> QED BY <2>1, ListsAre DEF Descending
<1>2. p \in Pages /\ NULL \notin Pages /\ \A q \in Pages : q \in Nat
  BY PageListAssumption DEF Pages
<1>3. UnlinkedAt(s, p, n)
  BY <1>1, UnlinkIs
<1>4. /\ s.link \in [Pages -> Ptr] /\ s.prev \in [Pages -> Ptr] /\ s.head \in Ptr
      /\ s.panic \in BOOLEAN
  BY <1>1 DEF Descending, FreeList
<1> DEFINE pr == s.prev[p]
           nx == s.link[p]
           B == A \ {p}
<1>5. pr \in Ptr /\ nx \in Ptr
  BY <1>2, <1>4
<1>6. /\ Top(A, s.head) /\ \A q \in A : Lower(A, q, s.link[q]) /\ Upper(A, q, s.prev[q])
      /\ \A q \in Pages \ A : s.link[q] = NULL /\ s.prev[q] = NULL
      /\ Lower(A, p, nx) /\ Upper(A, p, pr)
  BY <1>1 DEF Descending
<1>7. /\ n.head = IF pr = NULL THEN s.link[s.head] ELSE s.head
      /\ \A q \in Pages : n.link[q] = IF q = p THEN NULL
                                      ELSE IF q = pr THEN nx ELSE s.link[q]
      /\ \A q \in Pages : n.prev[q] = IF q = p THEN NULL
                                      ELSE IF q = nx THEN pr ELSE s.prev[q]
      /\ n.huge = G /\ n.avail = B /\ n.panic = s.panic /\ IsList(n)
  BY <1>1, <1>3 DEF UnlinkedAt, Descending
<1>8. n.link \in [Pages -> Ptr] /\ n.prev \in [Pages -> Ptr]
  <2>1. NULL \in Ptr
    BY DEF Ptr
  <2> QED BY <1>3, <1>4, <1>5, <2>1 DEF UnlinkedAt
<1> HIDE DEF pr, nx, B
<1>9. B \in SUBSET Pages /\ p \notin B /\ \A q : q \in B <=> q \in A /\ q # p
  BY DEF B
<1>10. Top(B, n.head)
  <2>1. CASE pr = NULL
    <3>1. s.head = p
      BY <1>2, <1>5, <1>6, <2>1 DEF Upper, Top
    <3>2. n.head = nx
      BY <1>7, <2>1, <3>1 DEF nx
    <3> QED BY <1>2, <1>6, <1>9, <2>1, <3>1, <3>2 DEF Upper, Lower, Top
  <2>2. CASE pr # NULL
    <3>1. s.head \in A /\ s.head # p
      BY <1>2, <1>6, <2>2 DEF Upper, Top
    <3> QED BY <1>6, <1>7, <1>9, <2>2, <3>1 DEF Top
  <2> QED BY <2>1, <2>2
<1>11. ASSUME NEW q \in B PROVE Lower(B, q, n.link[q])
  <2>1. q \in A /\ q # p /\ q \in Nat /\ p \in Nat
    BY <1>2, <1>9
  <2>2. CASE q = pr
    <3>1. n.link[q] = nx
      BY <1>7, <1>9, <2>1, <2>2
    <3>2. Upper(A, p, q)
      BY <1>6, <2>2
    <3>3. Lower(A \ {p}, q, nx)
      BY <1>6, <2>1, <3>2, Neighbours
    <3> QED BY <3>1, <3>3 DEF B
  <2>3. CASE q # pr
    <3>1. n.link[q] = s.link[q] /\ Lower(A, q, s.link[q])
      BY <1>6, <1>7, <1>9, <2>1, <2>3
    <3>2. ASSUME s.link[q] = p PROVE FALSE
      <4>1. Lower(A, q, p) /\ Upper(A, p, pr)
        BY <1>6, <3>1, <3>2
      <4>2. pr = q
        BY <2>1, <4>1, Neighbours
      <4> QED BY <2>3, <4>2
    <3> QED BY <1>2, <1>9, <3>1, <3>2 DEF Lower
  <2> QED BY <2>2, <2>3
<1>12. ASSUME NEW q \in B PROVE Upper(B, q, n.prev[q])
  <2>1. q \in A /\ q # p /\ q \in Nat /\ p \in Nat
    BY <1>2, <1>9
  <2>2. CASE q = nx
    <3>1. n.prev[q] = pr
      BY <1>7, <1>9, <2>1, <2>2
    <3>2. Lower(A, p, q)
      BY <1>6, <2>2
    <3>3. Upper(A \ {p}, q, pr)
      BY <1>6, <2>1, <3>2, Neighbours
    <3> QED BY <3>1, <3>3 DEF B
  <2>3. CASE q # nx
    <3>1. n.prev[q] = s.prev[q] /\ Upper(A, q, s.prev[q])
      BY <1>6, <1>7, <1>9, <2>1, <2>3
    <3>2. ASSUME s.prev[q] = p PROVE FALSE
      <4>1. Upper(A, q, p) /\ Lower(A, p, nx)
        BY <1>6, <3>1, <3>2
      <4>2. nx = q
        BY <2>1, <4>1, Neighbours
      <4> QED BY <2>3, <4>2
    <3> QED BY <1>2, <1>9, <3>1, <3>2 DEF Upper
  <2> QED BY <2>2, <2>3
<1>13. \A q \in Pages \ B : n.link[q] = NULL /\ n.prev[q] = NULL
  <2>1. \A q \in Pages \ A : q # pr /\ q # nx
    BY <1>2, <1>6 DEF Lower, Upper
  <2> QED BY <1>6, <1>7, <1>9, <2>1
<1>14. n \in FreeList
  <2>1. n.head \in Ptr
    BY <1>9, <1>10 DEF Top, Ptr
  <2> QED BY <1>4, <1>7, <1>8, <1>9, <2>1 DEF FreeList, IsList
<1>15. Descending(n, B, G)
  <2>1. ~n.panic
    BY <1>1, <1>7 DEF Descending
  <2> QED BY <1>7, <1>10, <1>11, <1>12, <1>13, <1>14, <2>1 DEF Descending
<1>16. n = Ordered(B, G)
  BY <1>9, <1>15, DescendingIs
<1> QED BY <1>16 DEF B

\* The order does not depend on which pages are huge.
LEMMA ReplaceHuge ==
  ASSUME NEW u, NEW w, NEW K, IsList(u), IsList(w), w.head = u.head, w.link = u.link,
         w.prev = u.prev, w.avail = u.avail, w.panic = u.panic, w.huge = K
  PROVE  [u EXCEPT !.huge = K] = w
<1>1. w = [head |-> u.head, link |-> u.link, prev |-> u.prev, huge |-> K,
           avail |-> u.avail, panic |-> u.panic]
  BY DEF IsList
<1>2. [u EXCEPT !.huge = K] =
        [head |-> u.head, link |-> u.link, prev |-> u.prev, huge |-> K,
         avail |-> u.avail, panic |-> u.panic]
  BY ONLY IsList(u) DEF IsList
<1> QED BY <1>1, <1>2

LEMMA OrderedHuge ==
  ASSUME NEW A, NEW G, NEW K
  PROVE  [Ordered(A, G) EXCEPT !.huge = K] = Ordered(A, K)
<1>1. IsList(Ordered(A, G)) /\ IsList(Ordered(A, K)) /\ Ordered(A, K).huge = K
  BY DEF Ordered, IsList
<1>2. /\ Ordered(A, G).head = Ordered(A, K).head /\ Ordered(A, G).link = Ordered(A, K).link
      /\ Ordered(A, G).prev = Ordered(A, K).prev /\ Ordered(A, G).avail = Ordered(A, K).avail
      /\ Ordered(A, G).panic = Ordered(A, K).panic
  BY DEF Ordered
<1> QED BY <1>1, <1>2, ReplaceHuge

\* Merging a block of that list takes its inner pages out of the order.
LEMMA MergeOrdered ==
  ASSUME NEW A \in SUBSET Pages, NEW G \in SUBSET Pages, NEW h \in Pages, Inner(h) \subseteq A
  PROVE  MergeBlock(Ordered(A, G), h) = Ordered(A \ Inner(h), G \cup {h})
<1> DEFINE s == Ordered(A, G)
           Left(i) == A \ ((h + 1)..(h + i))
           Rounds(f) == [i \in 0..(HugeSize - 1) |->
                           IF i = 0 THEN s ELSE Unlink(f[i - 1], h + i)]
           list == CHOOSE f : f = Rounds(f)
           g == [i \in 0..(HugeSize - 1) |-> Ordered(Left(i), G)]
<1>1. HugeSize - 1 \in Nat /\ HugeSize \in Nat /\ h \in Nat
  BY PageListAssumption DEF Pages
<1>2. Ordered(Left(0), G) = s
  <2>1. (h + 1)..(h + 0) = {}
    BY <1>1
  <2>2. Left(0) = A
    BY <2>1
  <2> HIDE DEF Left
  <2> QED BY <2>2
<1>3. ASSUME NEW i \in 1..(HugeSize - 1)
      PROVE  Unlink(Ordered(Left(i - 1), G), h + i) = Ordered(Left(i), G)
  <2>1. h + i \in Inner(h) /\ h + i \notin (h + 1)..(h + (i - 1))
    BY <1>1 DEF Inner
  <2>2. (h + 1)..(h + i) = ((h + 1)..(h + (i - 1))) \cup {h + i}
    BY <1>1
  <2>3. h + i \in Left(i - 1) /\ Left(i - 1) \in SUBSET Pages
    BY <2>1
  <2>4. Left(i) = Left(i - 1) \ {h + i}
    BY <2>2
  <2> HIDE DEF Left
  <2> QED BY <2>3, <2>4, UnlinkOrdered
<1> HIDE DEF Left, s
<1>4. g = Rounds(g)
  <2>1. ASSUME NEW i \in 0..(HugeSize - 1)
        PROVE  Ordered(Left(i), G) = IF i = 0 THEN s ELSE Unlink(g[i - 1], h + i)
    <3>1. CASE i = 0
      BY <1>2, <3>1
    <3>2. CASE i # 0
      <4>1. i \in 1..(HugeSize - 1) /\ i - 1 \in 0..(HugeSize - 1)
        BY <1>1, <3>2
      <4>2. g[i - 1] = Ordered(Left(i - 1), G)
        BY <4>1
      <4> HIDE DEF g
      <4> QED BY <1>3, <3>2, <4>1, <4>2
    <3> QED BY <3>1, <3>2
  <2> QED BY <2>1
<1>5. list = Rounds(list)
  <2> HIDE DEF Rounds
  <2> QED BY <1>4
<1>6. \A i \in 0..(HugeSize - 1) : list[i] = g[i]
  <2> HIDE DEF list, g
  <2>1. 0 \in 0..(HugeSize - 1)
    BY <1>1
  <2>2. list[0] = s /\ g[0] = s
    BY <1>4, <1>5, <2>1
  <2>3. \A i \in 1..(HugeSize - 1) : list[i - 1] = g[i - 1] => list[i] = g[i]
    <3> SUFFICES ASSUME NEW i \in 1..(HugeSize - 1), list[i - 1] = g[i - 1]
                 PROVE  list[i] = g[i]
      OBVIOUS
    <3>1. i \in 0..(HugeSize - 1) /\ i # 0
      BY <1>1
    <3>2. list[i] = Unlink(list[i - 1], h + i) /\ g[i] = Unlink(g[i - 1], h + i)
      BY <1>4, <1>5, <3>1
    <3> QED BY <3>2
  <2> QED BY ONLY <1>1, <2>2, <2>3, SameRounds
<1>7. MergeBlock(s, h) = [list[HugeSize - 1] EXCEPT !.huge = @ \cup {h}]
  BY DEF MergeBlock
<1>8. list[HugeSize - 1] = Ordered(Left(HugeSize - 1), G)
  BY <1>1, <1>6
<1>9. Left(HugeSize - 1) = A \ Inner(h)
  <2>1. (h + 1)..(h + (HugeSize - 1)) = Inner(h)
    BY <1>1 DEF Inner
  <2> QED BY <2>1 DEF Left
<1> HIDE DEF list
<1>10. MergeBlock(s, h) = [Ordered(A \ Inner(h), G) EXCEPT !.huge = @ \cup {h}]
  BY <1>7, <1>8, <1>9
<1>11. [Ordered(A \ Inner(h), G) EXCEPT !.huge = @ \cup {h}] =
         Ordered(A \ Inner(h), G \cup {h})
  <2>1. Ordered(A \ Inner(h), G).huge = G
    BY DEF Ordered
  <2> QED BY <2>1, OrderedHuge
<1> QED BY <1>10, <1>11 DEF s

\* The pages pushed, the huge pages made and the records on the list when page_init
\* has walked over n pages.
PushedUpTo(n) == {q \in Usable : q < n}
HugeUpTo(n) == {h \in InitialHuge : h + HugeSize <= n}
HeadsUpTo(n) == {p \in Usable : \A h \in HugeUpTo(n) : p \notin Inner(h)}

\* One round of the first pass: a usable page is pushed.
LEMMA PushRound ==
  ASSUME NEW n \in 1..NPages
  PROVE  Ordered(PushedUpTo(n), {}) =
           IF n - 1 \in Reserved THEN Ordered(PushedUpTo(n - 1), {})
           ELSE Push(Ordered(PushedUpTo(n - 1), {}), n - 1)
<1> DEFINE A == PushedUpTo(n - 1)
           B == PushedUpTo(n)
<1>1. /\ NPages \in Nat /\ n \in Nat /\ n - 1 \in Pages /\ \A q \in Pages : q \in Nat
      /\ Usable \subseteq Pages
  BY PageListAssumption DEF Pages, Usable
<1>2. n - 1 \in Reserved => A = B
  BY <1>1 DEF PushedUpTo, Usable
<1>3. n - 1 \notin Reserved => B = A \cup {n - 1}
  BY <1>1 DEF PushedUpTo, Usable
<1>4. A \in SUBSET Pages /\ \A q \in A : q < n - 1
  BY <1>1 DEF PushedUpTo
<1> HIDE DEF A, B
<1>5. Push(Ordered(A, {}), n - 1) = Ordered(A \cup {n - 1}, {})
  BY <1>1, <1>4, PushOrdered
<1>6. Ordered(B, {}) = IF n - 1 \in Reserved THEN Ordered(A, {})
                       ELSE Push(Ordered(A, {}), n - 1)
  BY <1>2, <1>3, <1>5
<1> QED BY <1>6 DEF A, B

\* A number is aligned if and only if the one a huge page below it is.
LEMMA NextAligned ==
  ASSUME NEW H \in Nat, H > 1, NEW m \in Nat
  PROVE  (m + H) % H = 0 <=> m % H = 0
<1>1. ASSUME m % H = 0 PROVE (m + H) % H = 0
  <2> PICK i : i = m \div H
    OBVIOUS
  <2>1. i \in Nat /\ m = H * i
    <3>1. i \in Nat /\ m = H * i + (m % H)
      BY Division
    <3>2. H * i \in Nat
      BY <3>1, SMT
    <3> QED BY <1>1, <3>1, <3>2, SMT
  <2>2. m + H = H * (i + 1) /\ i + 1 \in Nat
    BY <2>1, SMT
  <2>3. (H * (i + 1)) % H = 0
    BY <2>1, SMT
  <2> QED BY <2>2, <2>3
<1>2. ASSUME (m + H) % H = 0 PROVE m % H = 0
  <2> PICK i : i = (m + H) \div H
    OBVIOUS
  <2>1. i \in Nat /\ m + H = H * i
    <3>1. i \in Nat /\ m + H = H * i + ((m + H) % H)
      BY Division
    <3>2. H * i \in Nat
      BY <3>1, SMT
    <3> QED BY <1>2, <3>1, <3>2, SMT
  <2>2. i # 0
    BY <2>1, SMT
  <2>3. m = H * (i - 1) /\ i - 1 \in Nat
    BY <2>1, <2>2, SMT
  <2> PICK j : j = i - 1
    OBVIOUS
  <2>4. j \in Nat /\ m = H * j
    BY <2>3
  <2>5. (H * j) % H = 0
    BY ONLY <2>4, H \in Nat, H > 1, SMT
  <2> QED BY <2>4, <2>5
<1> QED BY <1>1, <1>2

\* One round of the second: a block that ends here and is free is merged.
LEMMA MergedRound ==
  ASSUME NEW n \in 1..NPages
  PROVE  Ordered(HeadsUpTo(n), HugeUpTo(n)) =
           IF n % HugeSize = 0 /\ Block(n - HugeSize) \subseteq HeadsUpTo(n - 1)
           THEN MergeBlock(Ordered(HeadsUpTo(n - 1), HugeUpTo(n - 1)), n - HugeSize)
           ELSE Ordered(HeadsUpTo(n - 1), HugeUpTo(n - 1))
<1> DEFINE h == n - HugeSize
           A == HeadsUpTo(n - 1)
           G == HugeUpTo(n - 1)
           B == HeadsUpTo(n)
           K == HugeUpTo(n)
           ends == n % HugeSize = 0 /\ Block(h) \subseteq A
<1>1. /\ NPages \in Nat /\ n \in Nat /\ n >= 1 /\ n <= NPages /\ HugeSize \in Nat
      /\ HugeSize > 1 /\ \A q \in Pages : q \in Nat
  BY PageListAssumption DEF Pages
<1>2. /\ InitialHuge \subseteq HugeStarts /\ HugeStarts \subseteq Pages
      /\ Usable \subseteq Pages
  BY DEF InitialHuge, HugeStarts, Usable
<1>3. ASSUME ends PROVE h \in InitialHuge
  <2>1. 0 % HugeSize = 0 /\ n % HugeSize = 0 /\ 0 \in Nat
    BY <1>1, <1>3
  <2>2. 0 + HugeSize <= n
    BY <1>1, <2>1, Aligned
  <2>3. h \in Nat /\ h + HugeSize = n
    BY <1>1, <2>2
  <2>4. h % HugeSize = 0
    <3>1. (h + HugeSize) % HugeSize = 0
      BY <2>1, <2>3
    <3> HIDE DEF h
    <3> QED BY <1>1, <2>3, <3>1, NextAligned
  <2>5. h \in HugeStarts
    BY <1>1, <2>3, <2>4 DEF HugeStarts, Pages
  <2>6. Block(h) \cap Reserved = {}
    BY <1>3 DEF HeadsUpTo, Usable
  <2> QED BY <2>5, <2>6 DEF InitialHuge
<1>4. ASSUME h \in InitialHuge PROVE ends
  <2>1. h \in HugeStarts /\ h % HugeSize = 0 /\ h \in Nat /\ h + HugeSize = n
    BY <1>1, <1>2, <1>4 DEF HugeStarts
  <2>2. n % HugeSize = 0
    <3>1. (h + HugeSize) % HugeSize = 0
      <4> HIDE DEF h
      <4> QED BY <1>1, <2>1, NextAligned
    <3> QED BY <2>1, <3>1
  <2>3. Block(h) \subseteq Usable
    BY <1>4, <2>1, Blocks DEF InitialHuge, Usable
  <2>4. ASSUME NEW g \in G PROVE Block(h) \cap Inner(g) = {}
    <3>1. g \in HugeStarts /\ g + HugeSize <= n - 1 /\ g \in Nat
      BY <1>1, <1>2 DEF HugeUpTo
    <3>2. g # h
      BY <1>1, <2>1, <3>1
    <3>3. Block(g) \cap Block(h) = {} /\ Inner(g) \subseteq Block(g)
      BY <2>1, <3>1, <3>2, Blocks
    <3> QED BY <3>3
  <2>5. Block(h) \subseteq A
    BY <2>3, <2>4 DEF HeadsUpTo
  <2> QED BY <2>2, <2>5
<1>5. \A g \in InitialHuge : g + HugeSize <= n <=> (g + HugeSize <= n - 1 \/ g = h)
  BY <1>1, <1>2
<1>6. CASE h \in InitialHuge
  <2>1. K = G \cup {h}
    <3>1. \A g : g \in K <=> g \in InitialHuge /\ (g + HugeSize <= n - 1 \/ g = h)
      BY <1>5 DEF HugeUpTo
    <3>2. \A g : g \in G <=> g \in InitialHuge /\ g + HugeSize <= n - 1
      BY DEF HugeUpTo
    <3> HIDE DEF K, G, h
    <3> QED BY <1>6, <3>1, <3>2
  <2>2. B = A \ Inner(h)
    <3>1. \A p : p \in B <=> p \in Usable /\ \A g \in K : p \notin Inner(g)
      BY DEF HeadsUpTo
    <3>2. \A p : p \in A <=> p \in Usable /\ \A g \in G : p \notin Inner(g)
      BY DEF HeadsUpTo
    <3> HIDE DEF A, B, K, G, h
    <3> QED BY <2>1, <3>1, <3>2
  <2>3. ends /\ h \in HugeStarts /\ h \in Pages
    BY <1>2, <1>4, <1>6
  <2>4. Inner(h) \subseteq A
    BY <2>3, Blocks
  <2>5. A \in SUBSET Pages /\ G \in SUBSET Pages
    BY <1>2 DEF HeadsUpTo, HugeUpTo
  <2> HIDE DEF A, B, K, G, h
  <2>6. MergeBlock(Ordered(A, G), h) = Ordered(A \ Inner(h), G \cup {h})
    BY <2>3, <2>4, <2>5, MergeOrdered
  <2>7. Ordered(B, K) = IF ends THEN MergeBlock(Ordered(A, G), h) ELSE Ordered(A, G)
    BY <2>1, <2>2, <2>3, <2>6
  <2> QED BY <2>7 DEF A, B, K, G, h, ends
<1>7. CASE h \notin InitialHuge
  <2>1. K = G
    <3>1. \A g : g \in K <=> g \in InitialHuge /\ (g + HugeSize <= n - 1 \/ g = h)
      BY <1>5 DEF HugeUpTo
    <3>2. \A g : g \in G <=> g \in InitialHuge /\ g + HugeSize <= n - 1
      BY DEF HugeUpTo
    <3> HIDE DEF K, G, h
    <3> QED BY <1>7, <3>1, <3>2
  <2>2. B = A
    <3>1. B = {p \in Usable : \A g \in K : p \notin Inner(g)}
      BY DEF HeadsUpTo
    <3>2. A = {p \in Usable : \A g \in G : p \notin Inner(g)}
      BY DEF HeadsUpTo
    <3> HIDE DEF A, B, K, G
    <3> QED BY <2>1, <3>1, <3>2
  <2>3. ~ ends
    BY <1>3, <1>7
  <2> HIDE DEF A, B, K, G, ends
  <2>4. Ordered(B, K) = IF ends THEN MergeBlock(Ordered(A, G), h) ELSE Ordered(A, G)
    BY <2>1, <2>2, <2>3
  <2> QED BY <2>4 DEF A, B, K, G, ends
<1> QED BY <1>6, <1>7

\* The two passes of page_init build the list that its closed form gives.
LEMMA InitLoopIs == page_init = InitLoop
<1> DEFINE empty == [head |-> NULL, link |-> [p \in Pages |-> NULL],
                     prev |-> [p \in Pages |-> NULL], huge |-> {}, avail |-> {},
                     panic |-> FALSE]
           First(f) == [n \in 0..NPages |->
                          IF n = 0 THEN empty
                          ELSE IF n - 1 \in Reserved THEN f[n - 1] ELSE Push(f[n - 1], n - 1)]
           pushed == CHOOSE f : f = First(f)
           Visit(t, n) == IF n % HugeSize = 0 /\ Block(n - HugeSize) \subseteq t.avail
                          THEN MergeBlock(t, n - HugeSize) ELSE t
           Second(f) == [n \in 0..NPages |->
                           IF n = 0 THEN pushed[NPages] ELSE Visit(f[n - 1], n)]
           merged == CHOOSE f : f = Second(f)
           g == [n \in 0..NPages |-> Ordered(PushedUpTo(n), {})]
           k == [n \in 0..NPages |-> Ordered(HeadsUpTo(n), HugeUpTo(n))]
<1>1. NPages \in Nat /\ HugeSize \in Nat /\ HugeSize > 1 /\ \A q \in Pages : q \in 0..(NPages - 1)
  BY PageListAssumption DEF Pages
<1>2. empty = Ordered(PushedUpTo(0), {})
  <2>1. PushedUpTo(0) = {}
    BY <1>1 DEF PushedUpTo, Usable, Pages
  <2>2. empty = Ordered({}, {})
    BY DEF Ordered
  <2> QED BY <2>1, <2>2
<1>3. InitLoop = merged[NPages]
  BY DEF InitLoop
<1> HIDE DEF empty, Visit
<1>4. g = First(g)
  <2>1. ASSUME NEW n \in 0..NPages
        PROVE  Ordered(PushedUpTo(n), {}) =
                 IF n = 0 THEN empty
                 ELSE IF n - 1 \in Reserved THEN g[n - 1] ELSE Push(g[n - 1], n - 1)
    <3>1. CASE n = 0
      BY <1>2, <3>1
    <3>2. CASE n # 0
      <4>1. n \in 1..NPages /\ n - 1 \in 0..NPages
        BY <1>1, <3>2
      <4>2. g[n - 1] = Ordered(PushedUpTo(n - 1), {})
        BY <4>1
      <4> HIDE DEF g
      <4> QED BY <3>2, <4>1, <4>2, PushRound
    <3> QED BY <3>1, <3>2
  <2> QED BY <2>1
<1>5. pushed = First(pushed)
  <2> HIDE DEF First
  <2> QED BY <1>4
<1> HIDE DEF pushed
<1>6. pushed[NPages] = g[NPages]
  <2> HIDE DEF g
  <2>1. 0 \in 0..NPages /\ NPages \in 0..NPages
    BY <1>1
  <2>2. pushed[0] = g[0]
    BY <1>4, <1>5, <2>1
  <2>3. \A n \in 1..NPages : pushed[n - 1] = g[n - 1] => pushed[n] = g[n]
    <3> SUFFICES ASSUME NEW n \in 1..NPages, pushed[n - 1] = g[n - 1]
                 PROVE  pushed[n] = g[n]
      OBVIOUS
    <3>1. n \in 0..NPages /\ n # 0
      BY <1>1
    <3>2. /\ pushed[n] = IF n - 1 \in Reserved THEN pushed[n - 1]
                         ELSE Push(pushed[n - 1], n - 1)
          /\ g[n] = IF n - 1 \in Reserved THEN g[n - 1] ELSE Push(g[n - 1], n - 1)
      BY <1>4, <1>5, <3>1
    <3> QED BY <3>2
  <2>4. \A n \in 0..NPages : pushed[n] = g[n]
    BY ONLY <1>1, <2>2, <2>3, SameRounds
  <2> QED BY <2>1, <2>4
<1>7. pushed[NPages] = Ordered(HeadsUpTo(0), HugeUpTo(0))
  <2>1. HugeUpTo(0) = {}
    BY <1>1 DEF HugeUpTo, InitialHuge, HugeStarts, Pages
  <2>2. HeadsUpTo(0) = Usable
    BY <2>1 DEF HeadsUpTo
  <2>3. PushedUpTo(NPages) = Usable
    BY <1>1 DEF PushedUpTo, Usable
  <2>4. g[NPages] = Ordered(PushedUpTo(NPages), {})
    BY <1>1
  <2> QED BY <1>6, <2>1, <2>2, <2>3, <2>4
<1>8. k = Second(k)
  <2>1. ASSUME NEW n \in 0..NPages
        PROVE  Ordered(HeadsUpTo(n), HugeUpTo(n)) =
                 IF n = 0 THEN pushed[NPages] ELSE Visit(k[n - 1], n)
    <3>1. CASE n = 0
      BY <1>7, <3>1
    <3>2. CASE n # 0
      <4>1. n \in 1..NPages /\ n - 1 \in 0..NPages
        BY <1>1, <3>2
      <4>2. k[n - 1] = Ordered(HeadsUpTo(n - 1), HugeUpTo(n - 1))
        BY <4>1
      <4> HIDE DEF k
      <4>3. k[n - 1].avail = HeadsUpTo(n - 1)
        BY <4>2 DEF Ordered
      <4>4. Visit(k[n - 1], n) =
              IF n % HugeSize = 0 /\ Block(n - HugeSize) \subseteq HeadsUpTo(n - 1)
              THEN MergeBlock(k[n - 1], n - HugeSize) ELSE k[n - 1]
        BY <4>3 DEF Visit
      <4> QED BY <3>2, <4>1, <4>2, <4>4, MergedRound
    <3> QED BY <3>1, <3>2
  <2> QED BY <2>1
<1>9. merged = Second(merged)
  <2> HIDE DEF Second
  <2> QED BY <1>8
<1> HIDE DEF merged
<1>10. merged[NPages] = k[NPages]
  <2> HIDE DEF k
  <2>1. 0 \in 0..NPages /\ NPages \in 0..NPages
    BY <1>1
  <2>2. merged[0] = k[0]
    BY <1>8, <1>9, <2>1
  <2>3. \A n \in 1..NPages : merged[n - 1] = k[n - 1] => merged[n] = k[n]
    <3> SUFFICES ASSUME NEW n \in 1..NPages, merged[n - 1] = k[n - 1]
                 PROVE  merged[n] = k[n]
      OBVIOUS
    <3>1. n \in 0..NPages /\ n # 0
      BY <1>1
    <3>2. merged[n] = Visit(merged[n - 1], n) /\ k[n] = Visit(k[n - 1], n)
      BY <1>8, <1>9, <3>1
    <3> QED BY <3>2
  <2>4. \A n \in 0..NPages : merged[n] = k[n]
    BY ONLY <1>1, <2>2, <2>3, SameRounds
  <2> QED BY <2>1, <2>4
<1>11. HugeUpTo(NPages) = InitialHuge /\ HeadsUpTo(NPages) = InitialHeads
  <2>1. HugeUpTo(NPages) = InitialHuge
    BY DEF HugeUpTo, InitialHuge, HugeStarts
  <2> QED BY <2>1 DEF HeadsUpTo, InitialHeads, Usable
<1>12. k[NPages] = Ordered(HeadsUpTo(NPages), HugeUpTo(NPages))
  BY <1>1
<1> HIDE DEF k
<1> QED BY <1>3, <1>10, <1>11, <1>12, InitOrdered

-----------------------------------------------------------------------------
(* On every list that the allocator reaches, the steps are the loops. *)

LEMMA GoodSteps == IInv => StepsAreTheLoops
<1> SUFFICES ASSUME IInv PROVE StepsAreTheLoops
  OBVIOUS
<1>1. Good(fl, lent) /\ Linked(fl) /\ lent \subseteq Pages /\ lent \cap fl.avail = {}
  BY DEF IInv, Good
<1>2. \A wantHuge \in BOOLEAN : page_alloc(fl, wantHuge) = AllocLoop(fl, wantHuge)
  BY <1>1, AllocLoopIs
<1>3. fl.head \in fl.huge => Split(fl, fl.head) = SplitLoop(fl, fl.head)
  <2> SUFFICES ASSUME fl.head \in fl.huge PROVE Split(fl, fl.head) = SplitLoop(fl, fl.head)
    OBVIOUS
  <2>1. fl.head # NULL
    BY <1>1, PageListAssumption DEF Linked, FreeList
  <2> QED BY <1>1, <2>1, GoodHugeHead, SplitLoopIs
<1>4. ASSUME NEW p \in lent \ fl.huge
      PROVE  merge_after_free(Push(fl, p), p) = MergeLoop(Push(fl, p), p)
  <2>1. p \in Pages /\ p \notin fl.avail
    BY <1>1
  <2>2. Linked(Push(fl, p))
    BY <1>1, <2>1, PushLinked
  <2> QED BY <2>1, <2>2, MergeLoopIs DEF Linked
<1> QED BY <1>2, <1>3, <1>4, InitLoopIs DEF StepsAreTheLoops

\* The search, the split, the merge and the set-up that the model takes in one step
\* each are what the loops of pmap.c and lab1.c compute.
THEOREM LoopsCorrect == Spec => []StepsAreTheLoops
BY GoodSteps, Invariance, PTL
=============================================================================
