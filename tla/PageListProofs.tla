--------------------------- MODULE PageListProofs ---------------------------
(***************************************************************************)
(* What page_alloc and page_free do to a list of free pages, for every     *)
(* memory size, size of a huge page and set of reserved frames: the list   *)
(* stays well linked, the units of the pages tile the usable frames, and   *)
(* the units that callers hold stay what they are.                         *)
(***************************************************************************)
EXTENDS PageList, WellFoundedInduction, TLAPS

-----------------------------------------------------------------------------
(* Arithmetic of aligned blocks. *)

\* A number is its quotient times the divisor plus its remainder.
LEMMA Division ==
  ASSUME NEW H \in Nat, H > 1, NEW a \in Nat
  PROVE  /\ a \div H \in Nat
         /\ a % H \in 0..(H - 1)
         /\ a = H * (a \div H) + (a % H)
BY SMT

\* Multiples of H are at least H apart.
LEMMA Multiples ==
  ASSUME NEW H \in Nat, H > 1, NEW i \in Nat, NEW j \in Nat, i < j
  PROVE  H * i + H <= H * j
BY SMT

\* Aligned numbers are at least H apart.
LEMMA Aligned ==
  ASSUME NEW H \in Nat, H > 1, NEW a \in Nat, NEW b \in Nat,
         a % H = 0, b % H = 0, a < b
  PROVE  a + H <= b
<1> DEFINE i == a \div H
           j == b \div H
<1>1. i \in Nat /\ j \in Nat /\ a = H * i /\ b = H * j
  <2>1. i \in Nat /\ a = H * i + (a % H)
    BY Division
  <2>2. j \in Nat /\ b = H * j + (b % H)
    BY Division
  <2> HIDE DEF i, j
  <2>3. H * i \in Nat /\ H * j \in Nat
    BY <2>1, <2>2, SMT
  <2> QED BY <2>1, <2>2, <2>3, SMT
<1> HIDE DEF i, j
<1>2. i < j
  <2> SUFFICES ASSUME j <= i PROVE FALSE
    BY <1>1
  <2>1. CASE j = i
    BY <2>1, <1>1
  <2>2. CASE j < i
    BY <2>2, <1>1, Multiples
  <2> QED BY <2>1, <2>2, <1>1
<1> QED BY <1>1, <1>2, Multiples

\* The start of the block around a page.
LEMMA BlockStart ==
  ASSUME NEW H \in Nat, H > 1, NEW a \in Nat
  PROVE  /\ a - (a % H) \in Nat
         /\ (a - (a % H)) % H = 0
         /\ a \in (a - (a % H))..(a - (a % H) + H - 1)
<1>1. a \div H \in Nat /\ a % H \in 0..(H - 1) /\ a = H * (a \div H) + (a % H)
  BY Division
<1>2. a - (a % H) = H * (a \div H)
  BY <1>1, SMT
<1>3. (H * (a \div H)) % H = 0
  BY <1>1, SMT
<1> QED BY <1>1, <1>2, <1>3, SMT

\* Two different blocks share no page, and every page of a block exists.
LEMMA Blocks ==
  ASSUME NEW h \in HugeStarts
  PROVE  /\ h \in Pages /\ h \in Block(h) /\ Inner(h) = Block(h) \ {h}
         /\ Block(h) \subseteq Pages
         /\ \A k \in HugeStarts : k # h => Block(h) \cap Block(k) = {}
         /\ \A k \in HugeStarts : k \notin Inner(h)
<1> USE PageListAssumption DEF HugeStarts, Pages, Block, Inner
<1>1. h \in Pages /\ h \in Block(h) /\ Inner(h) = Block(h) \ {h}
  OBVIOUS
<1>2. Block(h) \subseteq Pages
  OBVIOUS
<1>3. ASSUME NEW k \in HugeStarts, k # h PROVE Block(h) \cap Block(k) = {}
  <2>1. /\ HugeSize \in Nat /\ HugeSize > 1
        /\ h \in Nat /\ k \in Nat /\ h % HugeSize = 0 /\ k % HugeSize = 0
    OBVIOUS
  <2>2. h < k => h + HugeSize <= k
    BY ONLY <2>1, Aligned
  <2>3. k < h => k + HugeSize <= h
    BY ONLY <2>1, Aligned
  <2> QED BY <2>1, <2>2, <2>3, <1>3
<1>4. ASSUME NEW k \in HugeStarts PROVE k \notin Inner(h)
  <2>1. k \in Block(k)
    OBVIOUS
  <2>2. CASE k = h
    BY <2>2, <1>1
  <2>3. CASE k # h
    BY <2>1, <2>3, <1>1, <1>3
  <2> QED BY <2>2, <2>3
<1> QED BY <1>1, <1>2, <1>3, <1>4

-----------------------------------------------------------------------------
(* Least and greatest numbers. *)

\* A nonempty set of natural numbers has a least element.
LEMMA LeastExists ==
  ASSUME NEW T \in SUBSET Nat, T # {}
  PROVE  \E x \in T : \A y \in T : x <= y
<1>1. \E x \in T : \A y \in T : ~ (<<y, x>> \in OpToRel(<, Nat))
  BY NatLessThanWellFounded, WFMin
<1>2. \A x \in T : \A y \in T : <<y, x>> \in OpToRel(<, Nat) <=> y < x
  BY DEF OpToRel
<1>3. PICK x \in T : \A y \in T : ~ (y < x)
  BY <1>1, <1>2
<1>4. \A y \in T : x <= y
  BY <1>3
<1> QED BY <1>4

\* A nonempty bounded set of natural numbers has a greatest element.
LEMMA GreatestExists ==
  ASSUME NEW T \in SUBSET Nat, T # {}, NEW b \in Nat, \A x \in T : x <= b
  PROVE  \E x \in T : \A y \in T : y <= x
<1> DEFINE U == {n \in Nat : n <= b /\ b - n \in T}
<1>1. PICK x \in T : TRUE
  OBVIOUS
<1>2. b - x \in U /\ U \in SUBSET Nat
  BY <1>1
<1>3. PICK n \in U : \A m \in U : n <= m
  BY <1>2, LeastExists
<1>4. ASSUME NEW y \in T PROVE y <= b - n
  <2>1. b - y \in U
    OBVIOUS
  <2>2. n <= b - y
    BY <1>3, <2>1
  <2> QED BY <2>2, <1>3
<1>5. b - n \in T
  BY <1>3
<1> QED BY <1>4, <1>5

\* A set that holds b and, with every number above a, the number before it,
\* holds all of a..b.
LEMMA DownwardClosed ==
  ASSUME NEW a \in Nat, NEW b \in Nat, NEW S, b \in S,
         \A q \in S : q \in (a + 1)..b => q - 1 \in S
  PROVE  a..b \subseteq S
<1> SUFFICES ASSUME NEW c \in a..b, c \notin S PROVE FALSE
  OBVIOUS
<1> DEFINE T == {q \in a..b : q \notin S}
<1>1. T \in SUBSET Nat /\ T # {} /\ \A q \in T : q <= b
  OBVIOUS
<1>2. PICK m \in T : \A q \in T : q <= m
  BY <1>1, GreatestExists
<1>3. m + 1 \in S /\ m + 1 \in (a + 1)..b
  BY <1>2
<1> QED BY <1>2, <1>3

-----------------------------------------------------------------------------
(* The list operations keep the list well linked. *)

\* Every page of the list can be reached from its head.
Whole(s) == \A S \in Closed(s, {}) : S = s.avail

\* A list of the right type whose pointers agree and that is in one piece.
Linked(s) == s \in FreeList /\ LinksOK(s) /\ Whole(s)

\* Taking a page out of a well linked list leaves a well linked list of the
\* other pages.
LEMMA UnlinkLinked ==
  ASSUME NEW s, Linked(s), NEW p \in s.avail
  PROVE  /\ Linked(Unlink(s, p))
         /\ Unlink(s, p).avail = s.avail \ {p}
         /\ Unlink(s, p).huge = s.huge
         /\ Unlink(s, p).panic = s.panic
<1> DEFINE t == Unlink(s, p)
           pr == s.prev[p]
           nx == s.link[p]
<1>1. /\ s \in FreeList /\ p \in Pages /\ NULL \notin Pages /\ s.head # NULL
      /\ s.avail \subseteq Pages
  BY PageListAssumption DEF Linked, LinksOK, FreeList
<1>2. /\ pr \in Ptr /\ nx \in Ptr
      /\ pr # NULL => pr \in s.avail /\ s.link[pr] = p
      /\ nx # NULL => nx \in s.avail /\ s.prev[nx] = p
      /\ pr = NULL => p = s.head
  BY <1>1 DEF Linked, LinksOK, FreeList
<1>3. /\ t.head = (IF pr = NULL THEN nx ELSE s.head)
      /\ t.link = [q \in Pages |-> IF q = p THEN NULL
                                   ELSE IF q = pr THEN nx ELSE s.link[q]]
      /\ t.prev = [q \in Pages |-> IF q = p THEN NULL
                                   ELSE IF q = nx THEN pr ELSE s.prev[q]]
      /\ t.avail = s.avail \ {p} /\ t.huge = s.huge /\ t.panic = s.panic
  BY <1>1, <1>2 DEF Unlink, FreeList
<1>4. t \in FreeList
  BY <1>1, <1>2 DEF Unlink, FreeList, Ptr
<1>5. s.link[p] = nx /\ s.prev[p] = pr /\ LinksOK(s)
  BY DEF Linked
<1> HIDE DEF t, pr, nx
<1>6. LinksOK(t)
  <2> USE <1>1, <1>2, <1>3, <1>5 DEF LinksOK
  <2>1. (t.head = NULL) <=> (t.avail = {})
    <3>1. ASSUME t.head = NULL PROVE s.avail = {p}
      <4>1. pr = NULL /\ nx = NULL
        BY <3>1
      <4>2. {p} \in Closed(s, {})
        BY <4>1 DEF Closed
      <4> QED BY <4>2 DEF Linked, Whole
    <3>2. ASSUME t.head # NULL PROVE t.head \in t.avail
      BY <3>2
    <3> QED BY <3>1, <3>2
  <2>2. t.head # NULL => t.head \in t.avail /\ t.prev[t.head] = NULL
    OBVIOUS
  <2>3. ASSUME NEW q \in t.avail
        PROVE  /\ t.prev[q] = NULL => q = t.head
               /\ t.prev[q] # NULL => t.prev[q] \in t.avail /\ t.link[t.prev[q]] = q
               /\ t.link[q] # NULL => t.link[q] \in t.avail /\ t.prev[t.link[q]] = q
    OBVIOUS
  <2>4. ASSUME NEW q \in Pages \ t.avail PROVE t.link[q] = NULL /\ t.prev[q] = NULL
    OBVIOUS
  <2> QED BY <2>1, <2>2, <2>3, <2>4
<1>7. Whole(t)
  <2> SUFFICES ASSUME NEW S \in Closed(t, {}) PROVE S = t.avail
    BY DEF Whole
  <2> DEFINE S2 == IF pr = NULL \/ pr \in S THEN S \cup {p} ELSE S
  <2>1. /\ S \subseteq t.avail /\ t.head \in S
        /\ \A q \in S : t.link[q] # NULL => t.link[q] \in S
    BY DEF Closed
  <2>2. S2 \subseteq s.avail /\ s.head \in S2
    BY <1>2, <1>3, <1>5, <2>1
  <2>3. ASSUME NEW q \in S2, s.link[q] # NULL PROVE s.link[q] \in S2
    <3>1. CASE q = p
      BY <1>1, <1>2, <1>3, <1>5, <2>1, <2>2, <2>3, <3>1
    <3>2. CASE q # p
      BY <1>1, <1>2, <1>3, <1>5, <2>1, <2>2, <2>3, <3>2
    <3> QED BY <3>1, <3>2
  <2>4. S2 \in Closed(s, {})
    BY <2>2, <2>3 DEF Closed
  <2>5. S2 = s.avail
    BY <2>4 DEF Linked, Whole
  <2> QED BY <2>1, <2>5, <1>3
<1> QED BY <1>3, <1>4, <1>6, <1>7 DEF Linked, t

\* Putting a page in front of a well linked list leaves a well linked list.
LEMMA PushLinked ==
  ASSUME NEW s, Linked(s), NEW p \in Pages, p \notin s.avail
  PROVE  /\ Linked(Push(s, p))
         /\ Push(s, p).avail = s.avail \cup {p}
         /\ Push(s, p).huge = s.huge
         /\ Push(s, p).panic = s.panic
<1> DEFINE t == Push(s, p)
           hd == s.head
<1>1. /\ s \in FreeList /\ NULL \notin Pages /\ s.avail \subseteq Pages
      /\ hd \in Ptr /\ hd # NULL => hd \in s.avail
      /\ LinksOK(s)
  BY PageListAssumption DEF Linked, LinksOK, FreeList
<1>2. /\ t.head = p
      /\ t.link = [q \in Pages |-> IF q = p THEN hd ELSE s.link[q]]
      /\ t.prev = [q \in Pages |-> IF q = p THEN NULL
                                   ELSE IF q = hd THEN p ELSE s.prev[q]]
      /\ t.avail = s.avail \cup {p} /\ t.huge = s.huge /\ t.panic = s.panic
  BY <1>1 DEF Push, FreeList
<1>3. t \in FreeList
  BY <1>1 DEF Push, FreeList, Ptr
<1>4. hd = s.head
  OBVIOUS
<1> HIDE DEF t, hd
<1>5. LinksOK(t)
  <2> USE <1>1, <1>2, <1>4 DEF LinksOK
  <2>1. /\ (t.head = NULL) <=> (t.avail = {})
        /\ t.head # NULL => t.head \in t.avail /\ t.prev[t.head] = NULL
    OBVIOUS
  <2>2. ASSUME NEW q \in t.avail
        PROVE  /\ t.prev[q] = NULL => q = t.head
               /\ t.prev[q] # NULL => t.prev[q] \in t.avail /\ t.link[t.prev[q]] = q
               /\ t.link[q] # NULL => t.link[q] \in t.avail /\ t.prev[t.link[q]] = q
    OBVIOUS
  <2>3. ASSUME NEW q \in Pages \ t.avail PROVE t.link[q] = NULL /\ t.prev[q] = NULL
    OBVIOUS
  <2> QED BY <2>1, <2>2, <2>3
<1>6. Whole(t)
  <2> SUFFICES ASSUME NEW S \in Closed(t, {}) PROVE S = t.avail
    BY DEF Whole
  <2>1. /\ S \subseteq t.avail /\ p \in S
        /\ \A q \in S : t.link[q] # NULL => t.link[q] \in S
    BY <1>2 DEF Closed
  <2>2. CASE hd = NULL
    BY <2>1, <2>2, <1>1, <1>2, <1>4 DEF LinksOK
  <2>3. CASE hd # NULL
    <3>1. S \ {p} \in Closed(s, {})
      BY <2>1, <2>3, <1>1, <1>2, <1>4 DEF Closed, LinksOK
    <3>2. S \ {p} = s.avail
      BY <3>1 DEF Linked, Whole
    <3> QED BY <3>2, <2>1, <1>2
  <2> QED BY <2>2, <2>3
<1> QED BY <1>2, <1>3, <1>5, <1>6 DEF Linked, t

\* Splitting the huge page at the head leaves a well linked list, with the
\* inner pages in the place of the huge page.
LEMMA SplitLinked ==
  ASSUME NEW s, Linked(s), NEW h \in HugeStarts, h = s.head,
         Inner(h) \cap s.avail = {}
  PROVE  /\ Linked(Split(s, h))
         /\ Split(s, h).avail = (s.avail \ {h}) \cup Inner(h)
         /\ Split(s, h).huge = s.huge \ Block(h)
         /\ Split(s, h).panic = s.panic
<1> DEFINE t == Split(s, h)
           nx == s.link[h]
           last == h + HugeSize - 1
<1>1. /\ s \in FreeList /\ NULL \notin Pages /\ s.avail \subseteq Pages
      /\ LinksOK(s) /\ h \in s.avail /\ h \in Pages
  BY PageListAssumption DEF Linked, LinksOK, FreeList, HugeStarts
<1>2. /\ Inner(h) \subseteq Pages /\ h \notin Inner(h) /\ h \in Nat
      /\ last \in Inner(h) /\ h + 1 \in Inner(h)
      /\ \A q \in Inner(h) : q \in Nat
      /\ \A q \in Inner(h) : q # h + 1 => q - 1 \in Inner(h)
      /\ \A q \in Inner(h) : q # last => q + 1 \in Inner(h)
      /\ \A q \in Inner(h) : q # h + 1 => (q - 1) + 1 = q /\ q - 1 # last
      /\ \A q \in Inner(h) : q # last => (q + 1) - 1 = q /\ q + 1 # h + 1
  <2>1. h \in Nat /\ HugeSize \in Nat /\ HugeSize > 1
    BY PageListAssumption DEF HugeStarts, Pages
  <2>2. Inner(h) \subseteq Pages
    BY PageListAssumption DEF HugeStarts, Pages, Inner
  <2>3. h \notin Inner(h) /\ last \in Inner(h) /\ h + 1 \in Inner(h)
    BY <2>1 DEF Inner
  <2>4. ASSUME NEW q \in Inner(h)
        PROVE  /\ q \in Nat
               /\ q # h + 1 => q - 1 \in Inner(h) /\ (q - 1) + 1 = q /\ q - 1 # last
               /\ q # last => q + 1 \in Inner(h) /\ (q + 1) - 1 = q /\ q + 1 # h + 1
    BY <2>1, <2>4 DEF Inner
  <2> QED BY <2>1, <2>2, <2>3, <2>4
<1>3. /\ nx \in Ptr /\ nx # h /\ nx \notin Inner(h)
      /\ nx # NULL => nx \in s.avail /\ s.prev[nx] = h
  <2>1. nx \in Ptr
    BY <1>1 DEF FreeList
  <2>2. nx # NULL => nx \in s.avail /\ s.prev[nx] = h
    BY <1>1 DEF LinksOK
  <2>3. s.prev[h] = NULL /\ h # NULL
    BY <1>1 DEF LinksOK
  <2> HIDE DEF nx
  <2> QED BY <2>1, <2>2, <2>3, <1>1, <1>2
<1>4. /\ t.head = last
      /\ t.link = [q \in Pages |-> IF q = h THEN NULL
                                   ELSE IF q = h + 1 THEN nx
                                   ELSE IF q \in Inner(h) THEN q - 1
                                   ELSE s.link[q]]
      /\ t.prev = [q \in Pages |-> IF q = h \/ q = last THEN NULL
                                   ELSE IF q \in Inner(h) THEN q + 1
                                   ELSE IF q = nx THEN h + 1
                                   ELSE s.prev[q]]
      /\ t.avail = (s.avail \ {h}) \cup Inner(h)
      /\ t.huge = s.huge \ Block(h) /\ t.panic = s.panic
  BY <1>1 DEF Split, FreeList
<1>5. t \in FreeList
  <2>1. [q \in Pages |-> IF q = h THEN NULL
                         ELSE IF q = h + 1 THEN nx
                         ELSE IF q \in Inner(h) THEN q - 1
                         ELSE s.link[q]] \in [Pages -> Ptr]
    <3> HIDE DEF nx
    <3> QED BY <1>1, <1>2, <1>3 DEF FreeList, Ptr
  <2>2. [q \in Pages |-> IF q = h \/ q = last THEN NULL
                         ELSE IF q \in Inner(h) THEN q + 1
                         ELSE IF q = nx THEN h + 1
                         ELSE s.prev[q]] \in [Pages -> Ptr]
    <3> HIDE DEF nx, last
    <3> QED BY <1>1, <1>2, <1>3 DEF FreeList, Ptr
  <2>3. last \in Ptr /\ Inner(h) \subseteq Pages
    BY <1>2 DEF Ptr
  <2> QED BY <1>1, <2>1, <2>2, <2>3 DEF Split, FreeList
<1>6. s.link[h] = nx
  OBVIOUS
<1> HIDE DEF t, nx, last
<1>7. LinksOK(t)
  <2> USE <1>1, <1>2, <1>3, <1>4, <1>6 DEF LinksOK
  <2>1. /\ (t.head = NULL) <=> (t.avail = {})
        /\ t.head # NULL => t.head \in t.avail /\ t.prev[t.head] = NULL
    OBVIOUS
  <2>2. ASSUME NEW q \in Inner(h)
        PROVE  /\ t.prev[q] = NULL => q = t.head
               /\ t.prev[q] # NULL => t.prev[q] \in t.avail /\ t.link[t.prev[q]] = q
               /\ t.link[q] # NULL => t.link[q] \in t.avail /\ t.prev[t.link[q]] = q
    <3>1. t.prev[q] = NULL => q = t.head
      OBVIOUS
    <3>2. t.prev[q] # NULL => t.prev[q] \in t.avail /\ t.link[t.prev[q]] = q
      OBVIOUS
    <3>3. t.link[q] # NULL => t.link[q] \in t.avail /\ t.prev[t.link[q]] = q
      <4>1. CASE q = h + 1
        BY <4>1
      <4>2. CASE q # h + 1
        <5>1. t.link[q] = q - 1 /\ q - 1 \in Inner(h) /\ q - 1 # last
          BY <4>2
        <5>2. t.prev[q - 1] = q
          BY <4>2, <5>1
        <5> QED BY <5>1, <5>2
      <4> QED BY <4>1, <4>2
    <3> QED BY <3>1, <3>2, <3>3
  <2>3. ASSUME NEW q \in s.avail \ {h}
        PROVE  /\ t.prev[q] = NULL => q = t.head
               /\ t.prev[q] # NULL => t.prev[q] \in t.avail /\ t.link[t.prev[q]] = q
               /\ t.link[q] # NULL => t.link[q] \in t.avail /\ t.prev[t.link[q]] = q
    <3>0. q \notin Inner(h) /\ q \in Pages
      OBVIOUS
    <3>1. t.prev[q] = NULL => q = t.head
      BY <3>0
    <3>2. t.prev[q] # NULL => t.prev[q] \in t.avail /\ t.link[t.prev[q]] = q
      BY <3>0
    <3>3. t.link[q] # NULL => t.link[q] \in t.avail /\ t.prev[t.link[q]] = q
      BY <3>0
    <3> QED BY <3>1, <3>2, <3>3
  <2>4. ASSUME NEW q \in Pages \ t.avail PROVE t.link[q] = NULL /\ t.prev[q] = NULL
    OBVIOUS
  <2> QED BY <2>1, <2>2, <2>3, <2>4
<1>8. Whole(t)
  <2> SUFFICES ASSUME NEW S \in Closed(t, {}) PROVE S = t.avail
    BY DEF Whole
  <2>1. /\ S \subseteq t.avail /\ last \in S
        /\ \A q \in S : t.link[q] # NULL => t.link[q] \in S
    BY <1>4 DEF Closed
  <2>2. Inner(h) \subseteq S
    <3>1. last \in Nat /\ h + 1 \in Nat /\ Inner(h) = (h + 1)..last
      BY PageListAssumption, <1>2 DEF Inner, last
    <3>2. ASSUME NEW q \in S, q \in ((h + 1) + 1)..last PROVE q - 1 \in S
      <4>1. q \in Inner(h) /\ q # h + 1 /\ q # h
        BY <3>1, <3>2, <1>2
      <4>2. q \in Pages /\ q - 1 \in Pages
        BY <4>1, <1>2
      <4>3. t.link[q] = q - 1 /\ q - 1 # NULL
        BY <4>1, <4>2, <1>1, <1>4
      <4> QED BY <4>3, <2>1
    <3>3. (h + 1)..last \subseteq S
      BY <3>1, <3>2, <2>1, DownwardClosed
    <3> QED BY <3>1, <3>3
  <2>3. (S \ Inner(h)) \cup {h} \in Closed(s, {})
    <3> DEFINE S2 == (S \ Inner(h)) \cup {h}
    <3>1. S2 \subseteq s.avail /\ s.head \in S2
      BY <1>1, <1>4, <2>1
    <3>2. nx # NULL => nx \in S
      BY <1>1, <1>2, <1>4, <2>1, <2>2
    <3>3. ASSUME NEW q \in S2, s.link[q] # NULL PROVE s.link[q] \in S2
      <4>1. CASE q = h
        BY <4>1, <3>2, <3>3, <1>3, <1>6
      <4>2. CASE q # h
        <5>1. q \in S /\ q \in s.avail /\ q \notin Inner(h) /\ q \in Pages
          BY <4>2, <3>1, <1>1
        <5>2. t.link[q] = s.link[q]
          BY <5>1, <4>2, <1>4, <1>2
        <5>3. s.link[q] \in s.avail
          BY <5>1, <3>3, <1>1 DEF LinksOK
        <5> QED BY <5>1, <5>2, <5>3, <3>3, <2>1
      <4> QED BY <4>1, <4>2
    <3> QED BY <3>1, <3>3 DEF Closed
  <2>4. (S \ Inner(h)) \cup {h} = s.avail
    BY <2>3 DEF Linked, Whole
  <2> QED BY <2>1, <2>2, <2>4, <1>1, <1>2, <1>4
<1> QED BY <1>4, <1>5, <1>7, <1>8 DEF Linked, t

\* Merging the pages of a block, when they follow one another on the list,
\* leaves a well linked list without the inner pages.
LEMMA MergeLinked ==
  ASSUME NEW s, Linked(s), NEW h, CanMerge(s, h)
  PROVE  /\ Linked(Merge(s, h))
         /\ Merge(s, h).avail = s.avail \ Inner(h)
         /\ Merge(s, h).huge = s.huge \cup {h}
         /\ Merge(s, h).panic = s.panic
<1> DEFINE t == Merge(s, h)
           last == h + HugeSize - 1
           nx == s.link[last]
<1>1. /\ s \in FreeList /\ NULL \notin Pages /\ s.avail \subseteq Pages /\ LinksOK(s)
      /\ h \in HugeStarts /\ Block(h) \subseteq s.avail
      /\ \A q \in Inner(h) : s.prev[q] = q - 1
  BY PageListAssumption DEF Linked, FreeList, CanMerge
<1>2. /\ h \in Pages /\ Inner(h) \subseteq s.avail /\ h \notin Inner(h) /\ h \in s.avail
      /\ last \in Inner(h) /\ last \in Pages
  BY <1>1, PageListAssumption DEF HugeStarts, Pages, Inner, Block
<1>3. /\ \A q \in Inner(h) : q \in Nat /\ (q - 1 \in Inner(h) \/ q - 1 = h)
      /\ \A q \in Inner(h) : q # last => q + 1 \in Inner(h) /\ (q + 1) - 1 = q
      /\ \A q \in Inner(h) : q - 1 # last
      /\ h + 1 \in Inner(h) /\ (h + 1) - 1 = h /\ h # last
      /\ \A q \in Inner(h) : q - 1 = h => q = h + 1
      /\ \A q \in Inner(h) : (q - 1) + 1 = q
  BY <1>1, PageListAssumption DEF HugeStarts, Pages, Inner
<1>4. \A q \in Inner(h) : s.prev[q] = q - 1 /\ s.link[q - 1] = q /\ q # s.head
  <2> SUFFICES ASSUME NEW q \in Inner(h)
               PROVE  s.prev[q] = q - 1 /\ s.link[q - 1] = q /\ q # s.head
    OBVIOUS
  <2>1. s.prev[q] = q - 1 /\ q - 1 # NULL /\ q \in s.avail
    BY <1>1, <1>2, <1>3
  <2> QED BY <2>1, <1>1 DEF LinksOK
<1>5. /\ nx \in Ptr /\ nx # h /\ nx \notin Inner(h)
      /\ nx # NULL => nx \in s.avail /\ s.prev[nx] = last
  <2>1. nx \in Ptr
    BY <1>1, <1>2 DEF FreeList
  <2>2. nx # NULL => nx \in s.avail /\ s.prev[nx] = last
    BY <1>1, <1>2 DEF LinksOK
  <2> HIDE DEF nx, last
  <2>3. nx \notin Inner(h)
    BY <1>1, <1>2, <1>3, <1>4, <2>2
  <2>4. ASSUME nx = h PROVE FALSE
    <3>1. s.prev[h] = last /\ h # NULL /\ s.link[last] = nx
      BY <1>1, <1>2, <2>2, <2>4 DEF nx
    <3> DEFINE S == Block(h)
    <3>2. Block(h) = Inner(h) \cup {h}
      BY <1>1, Blocks
    <3>3. \A q \in Block(h) : s.link[q] \in Block(h)
      <4> SUFFICES ASSUME NEW q \in Block(h) PROVE s.link[q] \in Block(h)
        OBVIOUS
      <4>1. CASE q = last
        BY <4>1, <3>1, <3>2, <2>4
      <4>2. CASE q # last /\ q = h
        BY <4>2, <3>2, <1>3, <1>4
      <4>3. CASE q # last /\ q \in Inner(h)
        <5>1. q + 1 \in Inner(h) /\ s.link[(q + 1) - 1] = q + 1 /\ (q + 1) - 1 = q
          BY <4>3, <1>3, <1>4
        <5> QED BY <5>1, <3>2
      <4> QED BY <4>1, <4>2, <4>3, <3>2
    <3>4. s.avail \ Block(h) \in Closed(s, {})
      <4>1. s.head \in s.avail \ Block(h)
        BY <1>1, <1>2, <1>4, <3>1, <3>2 DEF LinksOK
      <4>2. ASSUME NEW q \in s.avail \ Block(h), s.link[q] # NULL
            PROVE  s.link[q] \in s.avail \ Block(h)
        <5>1. s.link[q] \in s.avail /\ s.prev[s.link[q]] = q
          BY <4>2, <1>1 DEF LinksOK
        <5>2. ASSUME s.link[q] \in Block(h) PROVE FALSE
          BY <5>1, <5>2, <4>2, <3>1, <3>2, <1>2, <1>3, <1>4
        <5> QED BY <5>1, <5>2
      <4> QED BY <4>1, <4>2 DEF Closed
    <3>5. s.avail \ Block(h) = s.avail
      BY <3>4 DEF Linked, Whole
    <3> QED BY <3>5, <3>2, <1>2
  <2> QED BY <2>1, <2>2, <2>3, <2>4
<1>6. /\ t.head = s.head
      /\ t.link = [q \in Pages |-> IF q = h THEN nx
                                   ELSE IF q \in Inner(h) THEN NULL
                                   ELSE s.link[q]]
      /\ t.prev = [q \in Pages |-> IF q \in Inner(h) THEN NULL
                                   ELSE IF q = nx THEN h
                                   ELSE s.prev[q]]
      /\ t.avail = s.avail \ Inner(h)
      /\ t.huge = s.huge \cup {h} /\ t.panic = s.panic
  BY <1>1 DEF Merge, FreeList
<1>7. t \in FreeList
  <2>1. [q \in Pages |-> IF q = h THEN nx
                         ELSE IF q \in Inner(h) THEN NULL
                         ELSE s.link[q]] \in [Pages -> Ptr]
    <3> HIDE DEF nx
    <3> QED BY <1>1, <1>2, <1>5 DEF FreeList, Ptr
  <2>2. [q \in Pages |-> IF q \in Inner(h) THEN NULL
                         ELSE IF q = nx THEN h
                         ELSE s.prev[q]] \in [Pages -> Ptr]
    <3> HIDE DEF nx
    <3> QED BY <1>1, <1>2, <1>5 DEF FreeList, Ptr
  <2> QED BY <1>1, <1>2, <2>1, <2>2 DEF Merge, FreeList
<1>8. s.link[last] = nx
  OBVIOUS
<1> HIDE DEF t, nx, last
<1>9. LinksOK(t)
  <2> USE DEF LinksOK
  <2>1. /\ (t.head = NULL) <=> (t.avail = {})
        /\ t.head # NULL => t.head \in t.avail /\ t.prev[t.head] = NULL
    <3>1. s.head \in s.avail /\ s.head \notin Inner(h) /\ s.prev[s.head] = NULL
      BY <1>1, <1>2, <1>4
    <3>2. s.head # nx /\ s.head # NULL /\ s.head \in Pages
      BY <3>1, <1>1, <1>2, <1>5
    <3> QED BY <3>1, <3>2, <1>6
  <2>2. ASSUME NEW q \in t.avail
        PROVE  /\ t.prev[q] = NULL => q = t.head
               /\ t.prev[q] # NULL => t.prev[q] \in t.avail /\ t.link[t.prev[q]] = q
               /\ t.link[q] # NULL => t.link[q] \in t.avail /\ t.prev[t.link[q]] = q
    <3>1. q \in s.avail /\ q \notin Inner(h) /\ q \in Pages
      BY <1>1, <1>6
    <3>2. t.prev[q] = NULL => q = t.head
      BY <3>1, <1>1, <1>2, <1>5, <1>6
    <3>3. ASSUME t.prev[q] # NULL
          PROVE  t.prev[q] \in t.avail /\ t.link[t.prev[q]] = q
      <4>1. CASE q = nx
        BY <4>1, <3>1, <1>1, <1>2, <1>6
      <4>2. CASE q # nx
        <5>1. t.prev[q] = s.prev[q] /\ s.prev[q] \in s.avail /\ s.link[s.prev[q]] = q
          BY <4>2, <3>1, <3>3, <1>1, <1>6
        <5>2. s.prev[q] \notin Inner(h)
          <6> SUFFICES ASSUME s.prev[q] \in Inner(h) PROVE FALSE
            OBVIOUS
          <6>1. CASE s.prev[q] = last
            BY <6>1, <5>1, <4>2, <1>8
          <6>2. CASE s.prev[q] # last
            <7>1. PICK r \in Inner(h) : r = s.prev[q]
              OBVIOUS
            <7>2. r + 1 \in Inner(h) /\ (r + 1) - 1 = r
              BY <7>1, <6>2, <1>3
            <7>3. s.link[r] = r + 1
              BY <7>2, <1>4
            <7> QED BY <7>1, <7>2, <7>3, <5>1, <3>1
          <6> QED BY <6>1, <6>2
        <5>3. s.prev[q] # h
          BY <5>1, <3>1, <1>3, <1>4
        <5> QED BY <5>1, <5>2, <5>3, <1>1, <1>6
      <4> QED BY <4>1, <4>2
    <3>4. ASSUME t.link[q] # NULL
          PROVE  t.link[q] \in t.avail /\ t.prev[t.link[q]] = q
      <4>1. CASE q = h
        BY <4>1, <3>1, <3>4, <1>1, <1>2, <1>5, <1>6
      <4>2. CASE q # h
        <5>1. t.link[q] = s.link[q] /\ s.link[q] \in s.avail /\ s.prev[s.link[q]] = q
          BY <4>2, <3>1, <3>4, <1>1, <1>6
        <5>2. s.link[q] \notin Inner(h)
          BY <5>1, <4>2, <3>1, <1>3, <1>4
        <5>3. s.link[q] # nx
          BY <5>1, <3>1, <1>1, <1>2, <1>5
        <5> QED BY <5>1, <5>2, <5>3, <1>1, <1>6
      <4> QED BY <4>1, <4>2
    <3> QED BY <3>2, <3>3, <3>4
  <2>3. ASSUME NEW q \in Pages \ t.avail PROVE t.link[q] = NULL /\ t.prev[q] = NULL
    BY <1>1, <1>2, <1>5, <1>6
  <2> QED BY <2>1, <2>2, <2>3
<1>10. Whole(t)
  <2> SUFFICES ASSUME NEW S \in Closed(t, {}) PROVE S = t.avail
    BY DEF Whole
  <2> DEFINE S2 == IF h \in S THEN S \cup Inner(h) ELSE S
  <2>1. /\ S \subseteq t.avail /\ s.head \in S
        /\ \A q \in S : t.link[q] # NULL => t.link[q] \in S
    BY <1>6 DEF Closed
  <2>2. S2 \subseteq s.avail /\ s.head \in S2
    BY <2>1, <1>2, <1>6
  <2>3. ASSUME NEW q \in S2, s.link[q] # NULL PROVE s.link[q] \in S2
    <3>1. CASE q \in Inner(h)
      <4>1. h \in S
        BY <3>1, <2>1, <1>6
      <4>2. CASE q = last
        BY <4>1, <4>2, <2>1, <2>3, <1>2, <1>6, <1>8
      <4>3. CASE q # last
        BY <4>1, <4>3, <3>1, <1>3, <1>4
      <4> QED BY <4>2, <4>3
    <3>2. CASE q = h
      <4>1. h \in S
        BY <3>2, <1>2
      <4>2. s.link[h] = h + 1 /\ h + 1 \in Inner(h)
        BY <1>3, <1>4
      <4> QED BY <3>2, <4>1, <4>2
    <3>3. CASE q \notin Inner(h) /\ q # h
      BY <3>3, <2>1, <2>2, <2>3, <1>1, <1>6
    <3> QED BY <3>1, <3>2, <3>3
  <2>4. S2 \in Closed(s, {})
    BY <2>2, <2>3 DEF Closed
  <2>5. S2 = s.avail
    BY <2>4 DEF Linked, Whole
  <2>6. h \in S
    BY <2>5, <1>2
  <2> QED BY <2>1, <2>5, <2>6, <1>6
<1> QED BY <1>6, <1>7, <1>9, <1>10 DEF Linked, t

-----------------------------------------------------------------------------
(* The units of the records in A tile the usable memory. *)

Tiled(s, A) ==
    /\ A \subseteq Pages
    /\ s.huge \subseteq HugeStarts
    /\ \A p, q \in A : p # q => Unit(s, p) \cap Unit(s, q) = {}
    /\ \A p \in A : Unit(s, p) \subseteq Pages \ Reserved
    /\ \A x \in Pages \ Reserved : \E p \in A : x \in Unit(s, p)

\* A page belongs to its own unit.
LEMMA UnitHasPage ==
  ASSUME NEW s, NEW p \in Pages, s.huge \subseteq HugeStarts
  PROVE  p \in Unit(s, p)
BY Blocks DEF Unit

\* The units depend on the is_huge flags only.
LEMMA TiledSame ==
  ASSUME NEW s, NEW t, NEW A, Tiled(s, A), t.huge = s.huge
  PROVE  Tiled(t, A)
BY DEF Tiled, Unit

\* Breaking a huge page into its small pages keeps the tiling.
LEMMA SplitTiled ==
  ASSUME NEW s, NEW t, NEW A, Tiled(s, A), NEW h \in A, h \in s.huge,
         t.huge = s.huge \ Block(h)
  PROVE  /\ Inner(h) \cap A = {}
         /\ Tiled(t, A \cup Inner(h))
<1>1. /\ h \in HugeStarts /\ A \subseteq Pages /\ s.huge \subseteq HugeStarts
      /\ Unit(s, h) = Block(h)
  BY DEF Tiled, Unit
<1>2. Block(h) = Inner(h) \cup {h} /\ h \notin Inner(h) /\ Block(h) \subseteq Pages
  BY <1>1, Blocks
<1>3. ASSUME NEW p \in A, p # h PROVE Unit(s, p) \cap Block(h) = {} /\ p \notin Block(h)
  BY <1>1, <1>3, UnitHasPage DEF Tiled
<1>4. \A p \in A : p # h => Unit(t, p) = Unit(s, p)
  BY <1>3 DEF Unit
<1>5. \A p \in Block(h) : Unit(t, p) = {p}
  BY DEF Unit
<1>6. Inner(h) \cap A = {}
  BY <1>2, <1>3
<1>7. A \cup Inner(h) \subseteq Pages /\ t.huge \subseteq HugeStarts
  BY <1>1, <1>2
<1>8. ASSUME NEW p \in A \cup Inner(h), NEW q \in A \cup Inner(h), p # q
      PROVE  Unit(t, p) \cap Unit(t, q) = {}
  <2>1. CASE p \in Block(h) /\ q \in Block(h)
    BY <2>1, <1>5, <1>8
  <2>2. CASE p \in Block(h) /\ q \notin Block(h)
    BY <2>2, <1>2, <1>3, <1>4, <1>5
  <2>3. CASE p \notin Block(h) /\ q \in Block(h)
    BY <2>3, <1>2, <1>3, <1>4, <1>5
  <2>4. CASE p \notin Block(h) /\ q \notin Block(h)
    BY <2>4, <1>2, <1>4, <1>8 DEF Tiled
  <2> QED BY <2>1, <2>2, <2>3, <2>4
<1>9. ASSUME NEW p \in A \cup Inner(h) PROVE Unit(t, p) \subseteq Pages \ Reserved
  <2>1. CASE p \in Block(h)
    BY <2>1, <1>1, <1>5 DEF Tiled
  <2>2. CASE p \notin Block(h)
    BY <2>2, <1>2, <1>4 DEF Tiled
  <2> QED BY <2>1, <2>2
<1>10. ASSUME NEW x \in Pages \ Reserved PROVE \E p \in A \cup Inner(h) : x \in Unit(t, p)
  <2>1. PICK p \in A : x \in Unit(s, p)
    BY DEF Tiled
  <2>2. CASE p = h
    BY <2>1, <2>2, <1>1, <1>2, <1>5
  <2>3. CASE p # h
    BY <2>1, <2>3, <1>4
  <2> QED BY <2>2, <2>3
<1> QED BY <1>6, <1>7, <1>8, <1>9, <1>10 DEF Tiled

\* Joining the small pages of a block into a huge page keeps the tiling.
LEMMA MergeTiled ==
  ASSUME NEW s, NEW t, NEW A, Tiled(s, A), NEW h \in HugeStarts,
         Block(h) \subseteq A, t.huge = s.huge \cup {h}
  PROVE  Tiled(t, A \ Inner(h))
<1>1. A \subseteq Pages /\ s.huge \subseteq HugeStarts
  BY DEF Tiled
<1>2. /\ Block(h) = Inner(h) \cup {h} /\ h \notin Inner(h) /\ Block(h) \subseteq Pages
      /\ \A k \in HugeStarts : k \notin Inner(h)
  BY Blocks
<1>3. h \notin s.huge
  <2>1. h + 1 \in Inner(h) /\ h + 1 # h
    BY PageListAssumption DEF HugeStarts, Pages, Inner
  <2>2. Unit(s, h + 1) = {h + 1} /\ h + 1 \in A /\ h \in A /\ h + 1 \in Block(h)
    BY <2>1, <1>1, <1>2 DEF Unit
  <2>3. Unit(s, h) \cap Unit(s, h + 1) = {}
    BY <2>1, <2>2 DEF Tiled
  <2> QED BY <2>2, <2>3 DEF Unit
<1>4. \A p \in Block(h) : Unit(s, p) = {p}
  BY <1>1, <1>2, <1>3 DEF Unit
<1>5. Unit(t, h) = Block(h)
  BY DEF Unit
<1>6. \A p \in A : p # h => Unit(t, p) = Unit(s, p)
  BY DEF Unit
<1>7. ASSUME NEW p \in A \ Block(h) PROVE Unit(s, p) \cap Block(h) = {}
  <2>1. \A q \in Block(h) : Unit(s, p) \cap {q} = {}
    BY <1>4 DEF Tiled
  <2> QED BY <2>1
<1>8. A \ Inner(h) \subseteq Pages /\ t.huge \subseteq HugeStarts
  BY <1>1
<1>9. ASSUME NEW p \in A \ Inner(h), NEW q \in A \ Inner(h), p # q
      PROVE  Unit(t, p) \cap Unit(t, q) = {}
  <2>1. CASE p = h
    BY <2>1, <1>2, <1>5, <1>6, <1>7, <1>9
  <2>2. CASE q = h
    BY <2>2, <1>2, <1>5, <1>6, <1>7, <1>9
  <2>3. CASE p # h /\ q # h
    BY <2>3, <1>6, <1>9 DEF Tiled
  <2> QED BY <2>1, <2>2, <2>3
<1>10. ASSUME NEW p \in A \ Inner(h) PROVE Unit(t, p) \subseteq Pages \ Reserved
  <2>1. CASE p = h
    BY <2>1, <1>4, <1>5 DEF Tiled
  <2>2. CASE p # h
    BY <2>2, <1>6 DEF Tiled
  <2> QED BY <2>1, <2>2
<1>11. ASSUME NEW x \in Pages \ Reserved PROVE \E p \in A \ Inner(h) : x \in Unit(t, p)
  <2>1. PICK p \in A : x \in Unit(s, p)
    BY DEF Tiled
  <2>2. CASE p \in Block(h)
    BY <2>1, <2>2, <1>2, <1>4, <1>5
  <2>3. CASE p \notin Block(h)
    BY <2>1, <2>3, <1>2, <1>6
  <2> QED BY <2>2, <2>3
<1> QED BY <1>8, <1>9, <1>10, <1>11 DEF Tiled

-----------------------------------------------------------------------------
(* What the allocator's functions do to a good list s when the pages in L   *)
(* are lent out.                                                            *)

Good(s, L) ==
    /\ Linked(s)
    /\ L \subseteq Pages
    /\ L \cap s.avail = {}
    /\ Tiled(s, s.avail \cup L)
    /\ ~s.panic

\* The search finds an available page of the wanted kind; when it looks for a
\* small page in vain, the head of the list is huge.
LEMMA Search ==
  ASSUME NEW s, Linked(s), NEW k \in BOOLEAN
  PROVE  /\ FirstOfKind(s, k) \subseteq s.avail
         /\ FirstOfKind(s, k) = {} /\ s.head # NULL /\ ~k => s.head \in s.huge
<1>1. CASE s.head = NULL
  BY <1>1 DEF FirstOfKind
<1>2. CASE s.head # NULL
  <2> DEFINE match == IF k THEN s.huge ELSE Pages \ s.huge
  <2>1. s.head \in s.avail /\ s.avail \subseteq Pages
    BY <1>2 DEF Linked, LinksOK, FreeList
  <2>2. s.avail \in Closed(s, match)
    BY <2>1 DEF Closed, Linked, LinksOK
  <2>3. Scan(s, match) \subseteq s.avail /\ s.head \in Scan(s, match)
    BY <2>1, <2>2 DEF Scan, Closed
  <2>4. FirstOfKind(s, k) = Scan(s, match) \cap match
    BY <1>2 DEF FirstOfKind
  <2> QED BY <2>1, <2>3, <2>4
<1> QED BY <1>1, <1>2

\* A page that page_alloc returns was not lent out before, and the list it
\* leaves is good with that page lent out.
LEMMA AllocGood ==
  ASSUME NEW s, NEW L, Good(s, L), NEW k \in BOOLEAN, page_alloc(s, k).page # NULL
  PROVE  LET r == page_alloc(s, k)
         IN r.page \in Pages \ L /\ Good(r.fl, L \cup {r.page})
<1> DEFINE r == page_alloc(s, k)
           found == FirstOfKind(s, k)
           p == CHOOSE q \in found : TRUE
<1>1. /\ Linked(s) /\ L \subseteq Pages /\ L \cap s.avail = {} /\ ~s.panic
      /\ Tiled(s, s.avail \cup L) /\ s.avail \subseteq Pages
  BY DEF Good, Linked, FreeList
<1>2. CASE found # {}
  <2>1. p \in s.avail
    BY <1>1, <1>2, Search
  <2>2. r.page = p /\ r.fl = Unlink(s, p)
    BY <1>2 DEF page_alloc
  <2> HIDE DEF p, r, found
  <2>3. /\ Linked(r.fl) /\ r.fl.avail = s.avail \ {p} /\ r.fl.huge = s.huge
        /\ r.fl.panic = s.panic
    BY <1>1, <2>1, <2>2, UnlinkLinked
  <2>4. r.fl.avail \cup (L \cup {p}) = s.avail \cup L
    BY <2>1, <2>3
  <2>5. Tiled(r.fl, r.fl.avail \cup (L \cup {p}))
    BY <1>1, <2>3, <2>4, TiledSame
  <2>6. p \in Pages \ L
    BY <1>1, <2>1
  <2>7. Good(r.fl, L \cup {p})
    BY <1>1, <2>3, <2>5, <2>6 DEF Good
  <2> QED BY <2>2, <2>6, <2>7 DEF r
<1>3. CASE found = {}
  <2> DEFINE h == s.head
  <2>1. ~k /\ h # NULL /\ r.page = h /\ r.fl = Split(s, h)
    BY <1>3 DEF page_alloc
  <2>2. h \in s.huge /\ h \in s.avail
    BY <1>1, <1>3, <2>1, Search DEF Linked, LinksOK
  <2>3. h \in HugeStarts /\ h \in s.avail \cup L
    BY <1>1, <2>2 DEF Tiled
  <2> DEFINE t == Split(s, h)
             A == s.avail \cup L
  <2> HIDE DEF r, found
  <2>4. t.huge = s.huge \ Block(h)
    BY <1>1 DEF Linked, FreeList, Split
  <2>5. Inner(h) \cap A = {} /\ Tiled(t, A \cup Inner(h))
    <3> HIDE DEF t, A, h
    <3>1. Tiled(s, A) /\ h \in A /\ h \in s.huge
      BY <1>1, <2>2, <2>3 DEF A
    <3> QED BY <3>1, <2>4, SplitTiled
  <2>6. /\ Linked(t) /\ t.avail = (s.avail \ {h}) \cup Inner(h) /\ t.panic = s.panic
    <3>1. Inner(h) \cap s.avail = {}
      BY <2>5
    <3> QED BY <1>1, <2>3, <3>1, SplitLinked
  <2> HIDE DEF t, h
  <2>7. h \notin Inner(h)
    BY <2>3, Blocks
  <2>8. t.avail \cup (L \cup {h}) = A \cup Inner(h)
    BY <2>2, <2>6
  <2>9. h \in Pages \ L
    BY <1>1, <2>2
  <2>10. (L \cup {h}) \cap t.avail = {}
    BY <1>1, <2>5, <2>6, <2>7
  <2>11. Tiled(t, t.avail \cup (L \cup {h}))
    BY <2>5, <2>8
  <2>12. Good(t, L \cup {h})
    BY <1>1, <2>6, <2>9, <2>10, <2>11 DEF Good
  <2> QED BY <2>1, <2>9, <2>12 DEF r, t
<1> QED BY <1>2, <1>3

\* Freeing an unreferenced page that is lent out does not panic and leaves a
\* good list.
LEMMA FreeGood ==
  ASSUME NEW s, NEW L, Good(s, L), NEW p \in L
  PROVE  Good(page_free(s, 0, p), L \ {p})
<1> DEFINE t == Push(s, p)
           M == L \ {p}
           h == p - (p % HugeSize)
<1>1. /\ Linked(s) /\ L \subseteq Pages /\ L \cap s.avail = {} /\ ~s.panic
      /\ Tiled(s, s.avail \cup L) /\ p \in Pages /\ p \notin s.avail
  BY DEF Good
<1>2. s.link[p] = NULL
  BY <1>1 DEF Linked, LinksOK
<1>3. page_free(s, 0, p) = IF p \in s.huge THEN t ELSE merge_after_free(t, p)
  BY <1>1, <1>2 DEF page_free
<1>4. /\ Linked(t) /\ t.avail = s.avail \cup {p} /\ t.huge = s.huge /\ t.panic = s.panic
  BY <1>1, PushLinked
<1> HIDE DEF t
<1>5. Good(t, M)
  <2>1. t.avail \cup M = s.avail \cup L /\ M \cap t.avail = {} /\ M \subseteq Pages
    BY <1>1, <1>4
  <2>2. Tiled(t, t.avail \cup M)
    BY <1>1, <1>4, <2>1, TiledSame
  <2> QED BY <1>1, <1>4, <2>1, <2>2 DEF Good
<1>6. ASSUME CanMerge(t, h) PROVE Good(Merge(t, h), M)
  <2> DEFINE u == Merge(t, h)
  <2> HIDE DEF h
  <2>1. /\ Linked(u) /\ u.avail = t.avail \ Inner(h) /\ u.huge = t.huge \cup {h}
        /\ u.panic = t.panic
    BY <1>4, <1>6, MergeLinked
  <2> HIDE DEF u, M
  <2>2. h \in HugeStarts /\ Block(h) \subseteq t.avail /\ Inner(h) \subseteq t.avail
    BY <1>6, Blocks DEF CanMerge
  <2>3. u.avail \cup M = (t.avail \cup M) \ Inner(h)
    BY <1>5, <2>1, <2>2 DEF Good
  <2>4. Tiled(u, (t.avail \cup M) \ Inner(h))
    <3>1. Tiled(t, t.avail \cup M) /\ Block(h) \subseteq t.avail \cup M
      BY <1>5, <2>2 DEF Good
    <3> QED BY <2>1, <2>2, <3>1, MergeTiled
  <2>5. Good(u, M)
    BY <1>5, <2>1, <2>3, <2>4 DEF Good
  <2> QED BY <2>5 DEF u
<1>7. merge_after_free(t, p) = IF CanMerge(t, h) THEN Merge(t, h) ELSE t
  BY DEF merge_after_free
<1> QED BY <1>3, <1>5, <1>6, <1>7

-----------------------------------------------------------------------------
(* The list that page_init builds. *)

\* The CHOOSEs of page_init are defined for nonempty sets of pages.
LEMMA Extremes ==
  ASSUME NEW T \in SUBSET Pages, T # {}
  PROVE  /\ Greatest(T) \in T /\ \A y \in T : y <= Greatest(T)
         /\ Least(T) \in T /\ \A y \in T : Least(T) <= y
<1>1. T \in SUBSET Nat /\ NPages \in Nat /\ \A x \in T : x <= NPages
  BY PageListAssumption DEF Pages
<1>2. \E x \in T : \A y \in T : y <= x
  BY <1>1, GreatestExists
<1>3. \E x \in T : \A y \in T : x <= y
  BY <1>1, LeastExists
<1>4. Greatest(T) \in T /\ \A y \in T : y <= Greatest(T)
  BY <1>2 DEF Greatest
<1>5. Least(T) \in T /\ \A y \in T : Least(T) <= y
  BY <1>3 DEF Least
<1> QED BY <1>4, <1>5

\* The initial list is well linked and in one piece.
LEMMA InitLinked == Linked(page_init)
<1> DEFINE s == page_init
           A == InitialHeads
<1>1. /\ A \in SUBSET Pages /\ NULL \notin Pages /\ InitialHuge \in SUBSET Pages
      /\ \A x \in Pages : x \in Nat
      /\ \A p \in Pages : Below(p) \in SUBSET A /\ Above(p) \in SUBSET A
      /\ \A p \in Pages, q \in A : (q \in Below(p) <=> q < p) /\ (q \in Above(p) <=> q > p)
  BY PageListAssumption
     DEF InitialHeads, InitialHuge, HugeStarts, Below, Above, Pages
<1>2. /\ s.head = (IF A = {} THEN NULL ELSE Greatest(A))
      /\ s.link = [p \in Pages |-> IF p \in A /\ Below(p) # {}
                                   THEN Greatest(Below(p)) ELSE NULL]
      /\ s.prev = [p \in Pages |-> IF p \in A /\ Above(p) # {}
                                   THEN Least(Above(p)) ELSE NULL]
      /\ s.avail = A /\ s.huge = InitialHuge /\ s.panic = FALSE
  BY DEF page_init
<1>3. /\ A # {} => Greatest(A) \in A /\ \A y \in A : y <= Greatest(A)
      /\ \A p \in Pages : Below(p) # {} => /\ Greatest(Below(p)) \in Below(p)
                                         /\ \A y \in Below(p) : y <= Greatest(Below(p))
      /\ \A p \in Pages : Above(p) # {} => /\ Least(Above(p)) \in Above(p)
                                         /\ \A y \in Above(p) : Least(Above(p)) <= y
  <2>1. A # {} => Greatest(A) \in A /\ \A y \in A : y <= Greatest(A)
    BY <1>1, Extremes
  <2>2. ASSUME NEW p \in Pages, Below(p) # {}
        PROVE  Greatest(Below(p)) \in Below(p) /\ \A y \in Below(p) : y <= Greatest(Below(p))
    <3>1. Below(p) \in SUBSET Pages
      BY <1>1
    <3> QED BY <2>2, <3>1, Extremes
  <2>3. ASSUME NEW p \in Pages, Above(p) # {}
        PROVE  Least(Above(p)) \in Above(p) /\ \A y \in Above(p) : Least(Above(p)) <= y
    <3>1. Above(p) \in SUBSET Pages
      BY <1>1
    <3> QED BY <2>3, <3>1, Extremes
  <2> QED BY <2>1, <2>2, <2>3
<1>4. s \in FreeList
  <2>1. s.head \in Ptr
    BY <1>1, <1>2, <1>3 DEF Ptr
  <2>2. s.link \in [Pages -> Ptr]
    BY <1>1, <1>2, <1>3 DEF Ptr
  <2>3. s.prev \in [Pages -> Ptr]
    BY <1>1, <1>2, <1>3 DEF Ptr
  <2>4. s = [head |-> s.head, link |-> s.link, prev |-> s.prev, huge |-> InitialHuge,
             avail |-> A, panic |-> FALSE]
    BY DEF page_init
  <2> DEFINE hd == s.head
             lk == s.link
             pv == s.prev
  <2> HIDE DEF s, A
  <2>5. s = [head |-> hd, link |-> lk, prev |-> pv, huge |-> InitialHuge,
             avail |-> A, panic |-> FALSE]
    BY <2>4
  <2>6. hd \in Ptr /\ lk \in [Pages -> Ptr] /\ pv \in [Pages -> Ptr]
    BY <2>1, <2>2, <2>3
  <2> HIDE DEF hd, lk, pv
  <2>7. [head |-> hd, link |-> lk, prev |-> pv, huge |-> InitialHuge,
         avail |-> A, panic |-> FALSE] \in FreeList
    BY <1>1, <2>6 DEF FreeList
  <2> QED BY <2>5, <2>7
<1> HIDE DEF s, A
<1>5. ASSUME NEW p \in A, NEW r \in A, r \in Above(p), \A y \in Above(p) : r <= y
      PROVE  Below(r) # {} /\ Greatest(Below(r)) = p
  <2>1. p \in Pages /\ r \in Pages /\ p < r /\ p \in Below(r)
    BY <1>1, <1>5
  <2>2. Greatest(Below(r)) \in Below(r) /\ p <= Greatest(Below(r))
    BY <1>3, <2>1
  <2> DEFINE g == Greatest(Below(r))
  <2> HIDE DEF g
  <2>3. g \in A /\ g < r /\ p <= g /\ g \in Pages
    BY <1>1, <2>1, <2>2 DEF g
  <2>4. ~ (p < g)
    BY <1>1, <1>5, <2>1, <2>3
  <2>5. g = p
    BY <1>1, <2>1, <2>3, <2>4
  <2> QED BY <2>1, <2>5 DEF g
<1>6. ASSUME NEW p \in A, NEW r \in A, r \in Below(p), \A y \in Below(p) : y <= r
      PROVE  Above(r) # {} /\ Least(Above(r)) = p
  <2>1. p \in Pages /\ r \in Pages /\ r < p /\ p \in Above(r)
    BY <1>1, <1>6
  <2>2. Least(Above(r)) \in Above(r) /\ Least(Above(r)) <= p
    BY <1>3, <2>1
  <2> DEFINE g == Least(Above(r))
  <2> HIDE DEF g
  <2>3. g \in A /\ r < g /\ g <= p /\ g \in Pages
    BY <1>1, <2>1, <2>2 DEF g
  <2>4. ~ (g < p)
    BY <1>1, <1>6, <2>1, <2>3
  <2>5. g = p
    BY <1>1, <2>1, <2>3, <2>4
  <2> QED BY <2>1, <2>5 DEF g
<1>7. LinksOK(s)
  <2>1. (s.head = NULL) <=> (s.avail = {})
    BY <1>1, <1>2, <1>3
  <2>2. s.head # NULL => s.head \in s.avail /\ s.prev[s.head] = NULL
    <3> SUFFICES ASSUME A # {} PROVE s.head \in A /\ s.prev[s.head] = NULL
      BY <1>2
    <3>1. s.head \in A /\ s.head \in Pages /\ \A y \in A : y <= s.head
      BY <1>1, <1>2, <1>3
    <3>2. Above(s.head) = {}
      BY <1>1, <3>1
    <3> QED BY <1>2, <3>1, <3>2
  <2>3. ASSUME NEW p \in s.avail
        PROVE  /\ s.prev[p] = NULL => p = s.head
               /\ s.prev[p] # NULL => s.prev[p] \in s.avail /\ s.link[s.prev[p]] = p
               /\ s.link[p] # NULL => s.link[p] \in s.avail /\ s.prev[s.link[p]] = p
    <3>1. p \in A /\ p \in Pages
      BY <1>1, <1>2
    <3>2. ASSUME s.prev[p] = NULL PROVE p = s.head
      <4>1. Above(p) = {}
        BY <1>1, <1>2, <1>3, <3>1, <3>2
      <4>2. Greatest(A) \in A /\ p <= Greatest(A) /\ ~(p < Greatest(A))
        BY <1>1, <1>3, <3>1, <4>1
      <4> QED BY <1>1, <1>2, <3>1, <4>2
    <3>3. ASSUME s.prev[p] # NULL PROVE s.prev[p] \in s.avail /\ s.link[s.prev[p]] = p
      <4> DEFINE r == s.prev[p]
      <4>1. r \in Above(p) /\ \A y \in Above(p) : r <= y
        BY <1>2, <1>3, <3>1, <3>3
      <4>2. r \in A /\ r \in Pages
        BY <1>1, <3>1, <4>1
      <4> HIDE DEF r
      <4>3. Below(r) # {} /\ Greatest(Below(r)) = p
        BY <1>5, <3>1, <4>1, <4>2
      <4>4. s.link[r] = p
        BY <1>2, <4>2, <4>3
      <4> QED BY <1>2, <4>2, <4>4 DEF r
    <3>4. ASSUME s.link[p] # NULL PROVE s.link[p] \in s.avail /\ s.prev[s.link[p]] = p
      <4> DEFINE r == s.link[p]
      <4>1. r \in Below(p) /\ \A y \in Below(p) : y <= r
        BY <1>2, <1>3, <3>1, <3>4
      <4>2. r \in A /\ r \in Pages
        BY <1>1, <3>1, <4>1
      <4> HIDE DEF r
      <4>3. Above(r) # {} /\ Least(Above(r)) = p
        BY <1>6, <3>1, <4>1, <4>2
      <4>4. s.prev[r] = p
        BY <1>2, <4>2, <4>3
      <4> QED BY <1>2, <4>2, <4>4 DEF r
    <3> QED BY <3>2, <3>3, <3>4
  <2>4. ASSUME NEW p \in Pages \ s.avail PROVE s.link[p] = NULL /\ s.prev[p] = NULL
    BY <1>2
  <2> QED BY <2>1, <2>2, <2>3, <2>4 DEF LinksOK
<1>8. Whole(s)
  <2> SUFFICES ASSUME NEW S \in Closed(s, {}), A \ S # {} PROVE FALSE
    BY <1>2 DEF Whole, Closed
  <2>1. /\ S \subseteq A /\ s.head \in S
        /\ \A q \in S : s.link[q] # NULL => s.link[q] \in S
    BY <1>2 DEF Closed
  <2>2. A \ S \in SUBSET Pages
    BY <1>1
  <2>3. PICK m \in A \ S : \A y \in A \ S : y <= m
    BY <2>2, Extremes
  <2>4. m \in A /\ m \in Pages /\ m # s.head
    BY <1>1, <2>1, <2>3
  <2>5. s.prev[m] # NULL /\ s.prev[m] \in A /\ s.link[s.prev[m]] = m
    BY <1>2, <1>7, <2>4 DEF LinksOK
  <2>6. s.prev[m] \in Above(m)
    BY <1>2, <1>3, <2>4, <2>5
  <2>7. s.prev[m] \in S
    BY <1>1, <2>3, <2>4, <2>5, <2>6
  <2> QED BY <1>1, <2>1, <2>3, <2>4, <2>5, <2>7
<1> QED BY <1>4, <1>7, <1>8 DEF Linked, s

\* The initial units tile the usable memory.
LEMMA InitTiled == Tiled(page_init, InitialHeads)
<1> DEFINE s == page_init
           A == InitialHeads
<1>1. s.huge = InitialHuge
  BY DEF page_init
<1>2. A \subseteq Pages /\ InitialHuge \subseteq HugeStarts
  BY DEF InitialHeads, InitialHuge
<1>3. \A h \in InitialHuge : /\ Block(h) \subseteq Pages \ Reserved
                           /\ Block(h) = Inner(h) \cup {h}
  BY <1>2, Blocks DEF InitialHuge
<1>4. \A h \in InitialHuge : h \in A
  <2> SUFFICES ASSUME NEW h \in InitialHuge PROVE h \in A
    OBVIOUS
  <2>1. h \in Pages \ Reserved
    BY <1>3
  <2>2. \A k \in InitialHuge : h \notin Inner(k)
    BY <1>2, Blocks
  <2> QED BY <2>1, <2>2 DEF InitialHeads
<1>5. \A p \in A : \A h \in InitialHuge : p \notin Inner(h)
  BY DEF InitialHeads
<1>6. \A p \in A : Unit(s, p) = IF p \in InitialHuge THEN Block(p) ELSE {p}
  BY <1>1 DEF Unit
<1>7. \A p \in A : Unit(s, p) \subseteq Pages \ Reserved
  BY <1>3, <1>6 DEF InitialHeads
<1>8. ASSUME NEW p \in A, NEW q \in A, p # q PROVE Unit(s, p) \cap Unit(s, q) = {}
  <2>1. CASE p \in InitialHuge /\ q \in InitialHuge
    BY <2>1, <1>2, <1>6, <1>8, Blocks
  <2>2. CASE p \in InitialHuge /\ q \notin InitialHuge
    BY <2>2, <1>3, <1>5, <1>6, <1>8
  <2>3. CASE p \notin InitialHuge /\ q \in InitialHuge
    BY <2>3, <1>3, <1>5, <1>6, <1>8
  <2>4. CASE p \notin InitialHuge /\ q \notin InitialHuge
    BY <2>4, <1>6, <1>8
  <2> QED BY <2>1, <2>2, <2>3, <2>4
<1>9. ASSUME NEW x \in Pages \ Reserved PROVE \E p \in A : x \in Unit(s, p)
  <2>1. CASE \E h \in InitialHuge : x \in Inner(h)
    BY <2>1, <1>3, <1>4, <1>6
  <2>2. CASE \A h \in InitialHuge : x \notin Inner(h)
    <3>1. x \in A
      BY <2>2 DEF InitialHeads
    <3>2. x \in Unit(s, x)
      BY <1>1, <1>2, <3>1, UnitHasPage
    <3> QED BY <3>1, <3>2
  <2> QED BY <2>1, <2>2
<1> QED BY <1>1, <1>2, <1>7, <1>8, <1>9 DEF Tiled

-----------------------------------------------------------------------------
(* The frames of the pages that callers hold. *)

Usable == Pages \ Reserved
Frames(s, A) == UNION {Unit(s, p) : p \in A}
SameUnits(s, t, A) == \A p \in A : Unit(t, p) = Unit(s, p)

\* What is free is what is usable and not held.
LEMMA FreeIsRest ==
  ASSUME NEW s, NEW L, Good(s, L)
  PROVE  Frames(s, s.avail) = Usable \ Frames(s, L)
<1>1. /\ Tiled(s, s.avail \cup L) /\ L \cap s.avail = {} /\ s.avail \subseteq Pages /\ L \subseteq Pages
  BY DEF Good, Linked, FreeList
<1>2. ASSUME NEW x \in Frames(s, s.avail) PROVE x \in Usable \ Frames(s, L)
  <2>1. PICK p \in s.avail : x \in Unit(s, p)
    BY DEF Frames
  <2>2. x \in Usable
    BY <1>1, <2>1 DEF Tiled, Usable
  <2>3. ASSUME NEW q \in L PROVE x \notin Unit(s, q)
    <3>1. p # q
      BY <1>1
    <3> QED BY <1>1, <2>1, <3>1 DEF Tiled
  <2> QED BY <2>2, <2>3 DEF Frames
<1>3. ASSUME NEW x \in Usable \ Frames(s, L) PROVE x \in Frames(s, s.avail)
  <2>1. PICK p \in s.avail \cup L : x \in Unit(s, p)
    BY <1>1 DEF Tiled, Usable
  <2> QED BY <2>1 DEF Frames
<1> QED BY <1>2, <1>3

\* A good list is sound, and with counts only for lent pages it partitions memory.
LEMMA GoodSound ==
  ASSUME NEW s, NEW L, Good(s, L)
  PROVE  /\ ListSound(s)
         /\ \A ref : (\A p \in Pages : ref[p] > 0 => p \in L) => Partitioned(s, ref, L)
<1>1. LinksOK(s) /\ Whole(s) /\ s.avail \subseteq Pages
  BY DEF Good, Linked, FreeList
<1>2. ASSUME s.head # NULL PROVE Scan(s, {}) = s.avail
  <2>1. s.avail \in Closed(s, {})
    BY <1>1, <1>2 DEF Closed, LinksOK
  <2> QED BY <1>1, <2>1 DEF Scan, Whole
<1>3. ASSUME NEW ref, \A p \in Pages : ref[p] > 0 => p \in L
      PROVE  Partitioned(s, ref, L)
  <2> DEFINE A == s.avail \cup L
  <2>1. Tiled(s, A) /\ L \cap s.avail = {}
    BY DEF Good
  <2>2. UNION {Unit(s, p) : p \in A} = Pages \ Reserved
    BY <2>1 DEF Tiled
  <2> QED BY <1>3, <2>1, <2>2 DEF Partitioned, Tiled
<1> QED BY <1>1, <1>2, <1>3 DEF ListSound

\* Splitting a huge page on the list does not touch the units that callers hold.
LEMMA AllocSame ==
  ASSUME NEW s, NEW L, Good(s, L), NEW k \in BOOLEAN, page_alloc(s, k).page # NULL
  PROVE  SameUnits(s, page_alloc(s, k).fl, L)
<1> DEFINE r == page_alloc(s, k)
           found == FirstOfKind(s, k)
           p == CHOOSE q \in found : TRUE
<1>1. /\ Linked(s) /\ L \subseteq Pages /\ L \cap s.avail = {} /\ Tiled(s, s.avail \cup L)
      /\ s.avail \subseteq Pages /\ s.huge \subseteq HugeStarts
  BY DEF Good, Linked, FreeList, Tiled
<1>2. CASE found # {}
  <2>1. p \in s.avail
    BY <1>1, <1>2, Search
  <2>2. r.fl = Unlink(s, p)
    BY <1>2 DEF page_alloc
  <2> HIDE DEF p, r, found
  <2>3. r.fl.huge = s.huge
    BY <1>1, <2>1, <2>2, UnlinkLinked
  <2> QED BY <2>3 DEF SameUnits, Unit, r
<1>3. CASE found = {}
  <2> DEFINE h == s.head
  <2>1. ~k /\ h # NULL /\ r.fl = Split(s, h)
    BY <1>3 DEF page_alloc
  <2>2. h \in s.huge /\ h \in s.avail
    BY <1>1, <1>3, <2>1, Search DEF Linked, LinksOK
  <2> HIDE DEF r, found, h
  <2>3. Split(s, h).huge = s.huge \ Block(h)
    BY <1>1 DEF Linked, FreeList, Split
  <2>4. ASSUME NEW q \in L PROVE q \notin Block(h)
    <3>1. q # h /\ q \in Unit(s, q) /\ Unit(s, h) = Block(h)
      BY <1>1, <2>2, UnitHasPage DEF Unit
    <3>2. Unit(s, q) \cap Unit(s, h) = {}
      BY <1>1, <2>2, <3>1 DEF Tiled
    <3> QED BY <3>1, <3>2
  <2> QED BY <2>1, <2>3, <2>4 DEF SameUnits, Unit, r
<1> QED BY <1>2, <1>3

\* Merging the block around a page that is freed does not either.
LEMMA FreeSame ==
  ASSUME NEW s, NEW L, Good(s, L), NEW p \in L
  PROVE  SameUnits(s, page_free(s, 0, p), L \ {p})
<1> DEFINE t == Push(s, p)
           h == p - (p % HugeSize)
           u == page_free(s, 0, p)
<1>1. Linked(s) /\ L \cap s.avail = {} /\ p \in Pages /\ p \notin s.avail
  BY DEF Good
<1>2. s.link[p] = NULL
  BY <1>1 DEF Linked, LinksOK
<1>3. u = IF p \in s.huge THEN t ELSE merge_after_free(t, p)
  BY <1>1, <1>2 DEF page_free
<1>4. Linked(t) /\ t.avail = s.avail \cup {p} /\ t.huge = s.huge
  BY <1>1, PushLinked
<1> HIDE DEF t, h, u
<1>5. merge_after_free(t, p) = IF CanMerge(t, h) THEN Merge(t, h) ELSE t
  BY DEF merge_after_free, h
<1>6. CASE u = t
  BY <1>4, <1>6 DEF SameUnits, Unit, u
<1>7. CASE u = Merge(t, h) /\ CanMerge(t, h)
  <2>1. u.huge = s.huge \cup {h}
    BY <1>4, <1>7, MergeLinked
  <2>2. h \in t.avail
    BY <1>7, Blocks DEF CanMerge
  <2>3. h \notin L \ {p}
    BY <1>1, <1>4, <2>2
  <2> QED BY <2>1, <2>3 DEF SameUnits, Unit, u
<1> QED BY <1>3, <1>5, <1>6, <1>7

\* The units of pages tell which of them are huge.
LEMMA SameKinds ==
  ASSUME NEW s, NEW t, NEW A \in SUBSET Pages, SameUnits(s, t, A), NEW p \in A
  PROVE  p \in t.huge <=> p \in s.huge
<1>1. p + 1 \in Block(p) /\ p + 1 # p
  BY PageListAssumption DEF Block, Pages
<1>2. Block(p) # {p}
  BY <1>1
<1> QED BY <1>2 DEF SameUnits, Unit

\* page_alloc returns a page of the wanted kind.
LEMMA AllocKind ==
  ASSUME NEW s, NEW L, Good(s, L), NEW k \in BOOLEAN, page_alloc(s, k).page # NULL
  PROVE  page_alloc(s, k).page \in page_alloc(s, k).fl.huge <=> k
<1> DEFINE r == page_alloc(s, k)
           found == FirstOfKind(s, k)
           p == CHOOSE q \in found : TRUE
<1>1. Linked(s) /\ s.avail \subseteq Pages /\ s.huge \subseteq HugeStarts
  BY DEF Good, Linked, FreeList, Tiled
<1>2. CASE found # {}
  <2>1. p \in found /\ found \subseteq s.avail
    BY <1>1, <1>2, Search
  <2>2. r.page = p /\ r.fl = Unlink(s, p)
    BY <1>2 DEF page_alloc
  <2>3. p \in s.huge <=> k
    BY <2>1 DEF FirstOfKind
  <2> HIDE DEF p, r, found
  <2>4. r.fl.huge = s.huge
    BY <1>1, <2>1, <2>2, UnlinkLinked
  <2> QED BY <2>2, <2>3, <2>4 DEF r
<1>3. CASE found = {}
  <2> DEFINE h == s.head
  <2>1. ~k /\ h # NULL /\ r.page = h /\ r.fl = Split(s, h)
    BY <1>3 DEF page_alloc
  <2>2. h \in s.huge
    BY <1>1, <1>3, <2>1, Search
  <2> HIDE DEF r, found, h
  <2>3. Split(s, h).huge = s.huge \ Block(h) /\ h \in Block(h)
    BY <1>1, <2>2, Blocks DEF Linked, FreeList, Split
  <2> QED BY <2>1, <2>3 DEF r
<1> QED BY <1>2, <1>3
=============================================================================
