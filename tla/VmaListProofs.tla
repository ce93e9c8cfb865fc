--------------------------- MODULE VmaListProofs ---------------------------
(***************************************************************************)
(* Theorems about VmaList for every page size, address space and number of *)
(* records, and for calls whose sizes do not make the sums of the code     *)
(* wrap (NoWrap): the areas a search sees stay sorted and disjoint, and a  *)
(* range that was destroyed is covered no more.  To its environment the    *)
(* list is a set of areas that do not overlap, one of which is added or    *)
(* cut at a time: it implements AreaSet.  Without NoWrap two areas can     *)
(* overlap (syscall.c:138).                                                *)
(***************************************************************************)
EXTENDS VmaList, SequenceTheorems, WellFoundedInduction, TLAPS

-----------------------------------------------------------------------------
(* Page addresses. *)

Whole == {n \in Nat : n % PageSize = 0}

\* A multiple of the page size is whole, and a whole number is a multiple.
LEMMA Multiple ==
  ASSUME NEW n \in Nat
  PROVE  n \in Whole <=> \E k \in Nat : n = k * PageSize
<1> USE VmaListAssumption
<1>1. n % PageSize = 0 => \E k \in Nat : n = k * PageSize
  <2>1. n \div PageSize \in Nat /\ n = PageSize * (n \div PageSize) + (n % PageSize)
    BY SMT
  <2> QED BY <2>1, SMT
<1>2. ASSUME NEW k \in Nat, n = k * PageSize PROVE n % PageSize = 0
  BY <1>2, SMT
<1> QED BY <1>1, <1>2 DEF Whole

\* Sums and differences of whole numbers are whole.
LEMMA WholeSums ==
  ASSUME NEW a \in Whole, NEW b \in Whole
  PROVE  a + b \in Whole /\ (b <= a => a - b \in Whole)
<1> USE VmaListAssumption
<1>0. a \in Nat /\ b \in Nat
  BY DEF Whole
<1>1. PICK i \in Nat : a = i * PageSize
  BY <1>0, Multiple
<1>2. PICK j \in Nat : b = j * PageSize
  BY <1>0, Multiple
<1>3. a + b = (i + j) * PageSize
  BY <1>1, <1>2, SMT
<1>4. a + b \in Whole
  <2>1. i + j \in Nat /\ a + b \in Nat
    BY <1>0
  <2> QED BY <1>3, <2>1, Multiple
<1>5. ASSUME b <= a PROVE a - b \in Whole
  <2>1. j <= i
    BY <1>1, <1>2, <1>5, SMT
  <2>2. i - j \in Nat /\ a - b \in Nat /\ a - b = (i - j) * PageSize
    BY <1>0, <1>1, <1>2, <1>5, <2>1, SMT
  <2> QED BY <2>2, Multiple
<1> QED BY <1>4, <1>5

\* A number that fits a word is what the word holds.
LEMMA Fits ==
  ASSUME NEW n \in Nat, n < WordSize
  PROVE  Wrap(n) = n
BY VmaListAssumption, SMT DEF Wrap

\* Numbers of the user's address space fit.
LEMMA UserFits ==
  ASSUME NEW n \in 0..UserTop
  PROVE  Wrap(n) = n
<1>1. n \in Nat /\ n < WordSize
  BY VmaListAssumption
<1> QED BY <1>1, Fits

\* Rounding gives the nearest whole numbers.
LEMMA Rounding ==
  ASSUME NEW a \in Nat
  PROVE  /\ ROUNDDOWN(a) \in Whole /\ ROUNDDOWN(a) <= a
         /\ \A x \in Whole : x <= a => x <= ROUNDDOWN(a)
         /\ a <= UserTop => /\ ROUNDUP(a) \in Whole /\ a <= ROUNDUP(a)
                           /\ ROUNDUP(a) <= UserTop
                           /\ \A x \in Whole : a <= x => ROUNDUP(a) <= x
<1> USE VmaListAssumption
<1>1. ASSUME NEW n \in Nat
      PROVE  /\ ROUNDDOWN(n) \in Whole /\ ROUNDDOWN(n) <= n
             /\ n < ROUNDDOWN(n) + PageSize
  <2>1. /\ n \div PageSize \in Nat /\ n % PageSize \in 0..(PageSize - 1)
        /\ n = PageSize * (n \div PageSize) + (n % PageSize)
    BY SMT
  <2>2. ROUNDDOWN(n) = (n \div PageSize) * PageSize
    BY <2>1, SMT DEF ROUNDDOWN
  <2>3. ROUNDDOWN(n) \in Nat /\ ROUNDDOWN(n) <= n /\ n < ROUNDDOWN(n) + PageSize
    BY <2>1, SMT DEF ROUNDDOWN
  <2> QED BY <2>1, <2>2, <2>3, Multiple
<1>2. ASSUME NEW x \in Whole, NEW y \in Whole, x < y PROVE x + PageSize <= y
  <2>0. x \in Nat /\ y \in Nat /\ x <= y /\ y - x > 0
    BY <1>2 DEF Whole
  <2>1. y - x \in Whole /\ y - x > 0
    BY <2>0, WholeSums
  <2>2. PICK k \in Nat : y - x = k * PageSize
    BY <2>1, Multiple DEF Whole
  <2>3. k >= 1
    BY <2>1, <2>2, SMT
  <2>4. k * PageSize >= PageSize
    BY <2>3, SMT
  <2> QED BY <2>2, <2>4 DEF Whole
<1>3. ASSUME NEW x \in Whole, x <= a PROVE x <= ROUNDDOWN(a)
  <2>1. ~ (ROUNDDOWN(a) < x)
    BY <1>1, <1>2, <1>3 DEF Whole
  <2> QED BY <2>1, <1>1 DEF Whole
<1>4. ASSUME a <= UserTop
      PROVE  a + PageSize - 1 \in Nat /\ ROUNDUP(a) = ROUNDDOWN(a + PageSize - 1)
  <2>1. a + PageSize - 1 \in Nat /\ a + PageSize - 1 < WordSize
    BY <1>4
  <2>2. Wrap(a + PageSize - 1) = a + PageSize - 1
    BY <2>1, Fits
  <2> QED BY <2>1, <2>2 DEF ROUNDUP
<1>5. ASSUME a <= UserTop
      PROVE  ROUNDUP(a) \in Whole /\ a <= ROUNDUP(a) /\ ROUNDUP(a) < a + PageSize
  <2> DEFINE r == ROUNDDOWN(a + PageSize - 1)
  <2>1. r \in Whole /\ r <= a + PageSize - 1 /\ a + PageSize - 1 < r + PageSize
    BY <1>1, <1>4, <1>5
  <2> HIDE DEF r
  <2>2. a <= r /\ r < a + PageSize
    BY <2>1 DEF Whole
  <2> QED BY <1>4, <1>5, <2>1, <2>2 DEF r
<1>6. ASSUME a <= UserTop, NEW x \in Whole, a <= x PROVE ROUNDUP(a) <= x
  <2>1. ~ (x < ROUNDUP(a))
    BY <1>2, <1>5, <1>6 DEF Whole
  <2> QED BY <2>1, <1>5, <1>6 DEF Whole
<1>7. UserTop \in Whole
  BY DEF Whole
<1> QED BY <1>1, <1>3, <1>5, <1>6, <1>7

-----------------------------------------------------------------------------
(* Lists of records, and what a search sees of them. *)

Types == {"anon", "binary", UNUSED}
AllPerms == Perms \cup {"r", "rw", "none"}
Shapes == [type : Types, va : Whole, len : Whole, perm : AllPerms, file : BOOLEAN]
\* Areas lie in the user's address space.
Records == {m \in Shapes : m.va + m.len <= UserTop}

Used(s, i) == s[i].type # UNUSED
Seen(s) == {i \in 1..Len(s) : \A j \in 1..i : Used(s, j)}

\* r still shows record k of s.
Stays(s, k, r) == \E j \in Seen(r) : r[j] = s[k]

\* n is a part of m, and of its contents or of nothing.
Piece(n, m) == /\ m.va <= n.va /\ End(n) <= End(m)
               /\ n.type = m.type /\ n.perm = m.perm
               /\ n.file => m.file

\* t shows what s shows, but instead of record i at most pieces of it.
CutsOnly(s, i, t) ==
    /\ \A k \in Seen(s) : k # i => Stays(s, k, t)
    /\ \A j \in Seen(t) : Piece(t[j], s[i]) \/ \E k \in Seen(s) : k # i /\ t[j] = s[k]

\* t shows what s shows, and at most m besides.
AddsOnly(s, m, t) ==
    /\ \A k \in Seen(s) : Stays(s, k, t)
    /\ \A j \in Seen(t) : t[j] = m \/ \E k \in Seen(s) : t[j] = s[k]

\* A nonempty set of natural numbers has a least element.
LEMMA LeastExists ==
  ASSUME NEW T \in SUBSET Nat, T # {}
  PROVE  FirstIn(T) \in T /\ \A y \in T : FirstIn(T) <= y
<1>1. \E x \in T : \A y \in T : ~ (<<y, x>> \in OpToRel(<, Nat))
  BY NatLessThanWellFounded, WFMin
<1>2. \A x \in T : \A y \in T : <<y, x>> \in OpToRel(<, Nat) <=> y < x
  BY DEF OpToRel
<1>3. PICK x \in T : \A y \in T : ~ (y < x)
  BY <1>1, <1>2
<1>4. \A y \in T : x <= y
  BY <1>3
<1> QED BY <1>4 DEF FirstIn

\* The fields of a record.
LEMMA RecordEnd ==
  ASSUME NEW m \in Records
  PROVE  /\ m.va \in Nat /\ m.len \in Nat /\ End(m) \in Nat
         /\ m.va \in Whole /\ m.len \in Whole /\ End(m) \in Whole
         /\ m.va <= End(m) /\ End(m) = m.va + m.len /\ End(m) <= UserTop
<1>1. m.va \in Whole /\ m.len \in Whole /\ m.va + m.len <= UserTop /\ UserTop \in Nat
  BY VmaListAssumption DEF Records, Shapes
<1>2. m.va + m.len \in Whole
  BY <1>1, WholeSums
<1>3. m.va \in Nat /\ m.len \in Nat /\ m.va + m.len \in 0..UserTop
  BY <1>1 DEF Whole
<1>4. End(m) = m.va + m.len
  BY <1>3, UserFits DEF End
<1> QED BY <1>1, <1>2, <1>3, <1>4

LEMMA Fields ==
  ASSUME NEW s \in Seq(Records), NEW i \in 1..Len(s)
  PROVE  /\ s[i] \in Records
         /\ s[i].va \in Nat /\ s[i].len \in Nat /\ End(s[i]) \in Nat
         /\ s[i].va \in Whole /\ s[i].len \in Whole /\ End(s[i]) \in Whole
         /\ s[i].va <= End(s[i]) /\ End(s[i]) = s[i].va + s[i].len
         /\ End(s[i]) <= UserTop
<1>1. s[i] \in Records
  BY ElementOfSeq
<1> QED BY <1>1, RecordEnd

\* A search sees the records in front of which nothing is unused.
LEMMA VisibleIsSeen ==
  ASSUME NEW s \in Seq(Records)
  PROVE  Visible(s) = Seen(s)
<1> DEFINE unused == {i \in DOMAIN s : s[i].type = UNUSED}
<1>1. Len(s) \in Nat /\ DOMAIN s = 1..Len(s)
  BY LenProperties
<1>2. CASE unused = {}
  <2>1. Visible(s) = 1..Len(s)
    BY <1>1, <1>2 DEF Visible
  <2>2. \A i \in 1..Len(s) : Used(s, i)
    BY <1>1, <1>2 DEF Used
  <2>3. \A i \in 1..Len(s) : \A j \in 1..i : j \in 1..Len(s)
    BY <1>1
  <2> QED BY <2>1, <2>2, <2>3 DEF Seen
<1>3. CASE unused # {}
  <2> DEFINE f == FirstIn(unused)
  <2>0. unused \in SUBSET Nat
    BY <1>1
  <2>1. f \in unused /\ \A y \in unused : f <= y
    <3> HIDE DEF unused
    <3> QED BY <1>3, <2>0, LeastExists
  <2>2. Visible(s) = 1..(f - 1)
    BY <1>3 DEF Visible
  <2>3. f \in 1..Len(s) /\ ~ Used(s, f)
    BY <1>1, <2>1 DEF Used
  <2>4. ASSUME NEW i \in 1..Len(s), i < f PROVE Used(s, i)
    <3>1. i \in unused => f <= i
      BY <2>1
    <3>2. f \in Nat /\ i \in Nat
      BY <1>1, <2>3
    <3>3. i \notin unused
      <4> HIDE DEF f, unused
      <4> QED BY <2>4, <3>1, <3>2
    <3> QED BY <1>1, <3>3 DEF Used
  <2> HIDE DEF f, unused
  <2>5. ASSUME NEW i \in 1..(f - 1) PROVE i \in Seen(s)
    BY <1>1, <2>3, <2>4 DEF Seen
  <2>6. ASSUME NEW i \in Seen(s) PROVE i \in 1..(f - 1)
    <3>1. i \in 1..Len(s) /\ \A j \in 1..i : Used(s, j)
      BY DEF Seen
    <3>2. f \notin 1..i
      BY <2>3, <3>1
    <3> QED BY <1>1, <2>3, <3>1, <3>2
  <2> QED BY <2>2, <2>5, <2>6
<1> QED BY <1>2, <1>3

Sorted(s) == \A i, j \in Seen(s) : i < j => End(s[i]) <= s[j].va
Good(s) == s \in Seq(Records) /\ Len(s) \in 1..Slots /\ Sorted(s)

\* Removing a record that is seen leaves a list that is sorted, and what is seen of
\* it was seen before.
LEMMA RemoveSorted ==
  ASSUME NEW s \in Seq(Records), Sorted(s), NEW i \in Seen(s)
  PROVE  /\ RemoveNth(s, i) \in Seq(Records)
         /\ Len(RemoveNth(s, i)) = Len(s) - 1
         /\ Sorted(RemoveNth(s, i))
         /\ \A j \in Seen(RemoveNth(s, i)) :
              \E k \in Seen(s) : k # i /\ RemoveNth(s, i)[j] = s[k]
         /\ \A k \in Seen(s) : k # i => Stays(s, k, RemoveNth(s, i))
<1> DEFINE a == SubSeq(s, 1, i - 1)
           b == SubSeq(s, i + 1, Len(s))
           t == RemoveNth(s, i)
           Old(j) == IF j < i THEN j ELSE j + 1
<1>1. Len(s) \in Nat /\ i \in 1..Len(s) /\ \A j \in 1..i : Used(s, j)
  BY LenProperties DEF Seen
<1>2. \A j \in 1..Len(s) : s[j] \in Records
  BY ElementOfSeq
<1>3. /\ a \in Seq(Records) /\ Len(a) = i - 1
      /\ \A j \in 1..(i - 1) : a[j] = s[j]
  <2>1. \A j \in 1..(i - 1) : s[j] \in Records
    BY <1>1, <1>2
  <2> QED BY <1>1, <2>1, SubSeqProperties, Z3
<1>4. /\ b \in Seq(Records) /\ Len(b) = Len(s) - i
      /\ \A j \in 1..(Len(s) - i) : b[j] = s[i + j]
  <2>1. \A j \in (i + 1)..Len(s) : s[j] \in Records
    BY <1>1, <1>2
  <2> QED BY <1>1, <2>1, SubSeqProperties, Z3
<1>5. /\ t \in Seq(Records) /\ Len(t) = Len(s) - 1
      /\ \A j \in 1..(Len(s) - 1) : t[j] = s[Old(j)]
  <2>1. t = a \o b
    BY DEF RemoveNth
  <2> HIDE DEF a, b, t
  <2>2. /\ t \in Seq(Records) /\ Len(t) = Len(a) + Len(b)
        /\ \A j \in 1..(Len(a) + Len(b)) : t[j] = IF j <= Len(a) THEN a[j] ELSE b[j - Len(a)]
    BY <1>3, <1>4, <2>1, ConcatProperties
  <2>3. Len(t) = Len(s) - 1
    BY <1>1, <1>3, <1>4, <2>2
  <2>4. ASSUME NEW j \in 1..(Len(s) - 1) PROVE t[j] = s[Old(j)]
    <3>0. j \in 1..(Len(a) + Len(b))
      BY <1>1, <1>3, <1>4
    <3>1. CASE j < i
      <4>1. j \in 1..(i - 1) /\ j <= Len(a) /\ Old(j) = j
        BY <1>1, <1>3, <3>1
      <4>2. t[j] = a[j]
        BY <2>2, <3>0, <4>1
      <4>3. a[j] = s[j]
        BY <1>3, <4>1
      <4> QED BY <4>1, <4>2, <4>3
    <3>2. CASE i <= j
      <4>1. j - Len(a) \in 1..(Len(s) - i) /\ i + (j - Len(a)) = j + 1 /\ ~ (j <= Len(a))
        BY <1>1, <1>3, <3>2
      <4>2. t[j] = b[j - Len(a)]
        BY <2>2, <3>0, <4>1
      <4>3. b[j - Len(a)] = s[j + 1]
        BY <1>4, <4>1
      <4>4. Old(j) = j + 1
        BY <1>1, <3>2
      <4> QED BY <4>2, <4>3, <4>4
    <3> QED BY <3>1, <3>2, <1>1
  <2> QED BY <2>2, <2>3, <2>4
<1> HIDE DEF t
<1>6. ASSUME NEW j \in Seen(t) PROVE Old(j) \in Seen(s) /\ t[j] = s[Old(j)] /\ Old(j) # i
  <2>1. j \in 1..(Len(s) - 1) /\ \A k \in 1..j : Used(t, k)
    BY <1>5 DEF Seen
  <2>2. ASSUME NEW k \in 1..j PROVE Used(s, Old(k))
    <3>1. k \in 1..(Len(s) - 1) /\ Used(t, k)
      BY <1>1, <2>1
    <3> QED BY <1>5, <3>1 DEF Used
  <2>3. ASSUME NEW k \in 1..Old(j) PROVE Used(s, k)
    <3>1. CASE k <= i
      BY <1>1, <3>1, <2>1
    <3>2. CASE k > i
      <4>1. k - 1 \in 1..j /\ Old(k - 1) = k
        BY <1>1, <2>1, <3>2
      <4> QED BY <2>2, <4>1
    <3> QED BY <3>1, <3>2, <1>1, <2>1
  <2> QED BY <1>1, <1>5, <2>1, <2>3 DEF Seen
<1>7. Sorted(t)
  <2> SUFFICES ASSUME NEW j \in Seen(t), NEW k \in Seen(t), j < k
               PROVE  End(t[j]) <= t[k].va
    BY DEF Sorted
  <2>1. Old(j) < Old(k)
    BY <1>1, <1>5 DEF Seen
  <2> QED BY <1>6, <2>1 DEF Sorted
<1>8. ASSUME NEW k \in Seen(s), k # i PROVE Stays(s, k, t)
  <2> DEFINE j == IF k < i THEN k ELSE k - 1
  <2>1. k \in 1..Len(s) /\ \A x \in 1..k : Used(s, x)
    BY DEF Seen
  <2>2. j \in 1..(Len(s) - 1) /\ Old(j) = k
    BY <1>1, <1>8, <2>1
  <2>3. ASSUME NEW x \in 1..j PROVE Used(t, x)
    <3>1. x \in 1..(Len(s) - 1) /\ Old(x) \in 1..k
      BY <1>1, <2>1, <2>2
    <3> QED BY <1>5, <2>1, <3>1 DEF Used
  <2>4. j \in Seen(t)
    BY <1>1, <1>5, <2>2, <2>3 DEF Seen
  <2> QED BY <1>5, <2>2, <2>4 DEF Stays
<1> QED BY <1>5, <1>6, <1>7, <1>8 DEF t

\* An unused record at the end changes nothing for a search.
LEMMA MakeUnusedGood ==
  ASSUME NEW s, Good(s), NEW i \in Seen(s)
  PROVE  /\ Good(vma_make_unused(s, i))
         /\ \A j \in Seen(vma_make_unused(s, i)) :
              \E k \in Seen(s) : k # i /\ vma_make_unused(s, i)[j] = s[k]
         /\ \A k \in Seen(s) : k # i => Stays(s, k, vma_make_unused(s, i))
<1> DEFINE t == RemoveNth(s, i)
           u == Vma(UNUSED, 0, s[i].len, "none", FALSE)
           v == vma_make_unused(s, i)
<1>1. s \in Seq(Records) /\ Len(s) \in 1..Slots /\ Sorted(s) /\ i \in 1..Len(s)
  BY DEF Good, Seen
<1>2. /\ t \in Seq(Records) /\ Len(t) = Len(s) - 1 /\ Sorted(t)
      /\ \A j \in Seen(t) : \E k \in Seen(s) : k # i /\ t[j] = s[k]
      /\ \A k \in Seen(s) : k # i => Stays(s, k, t)
  BY <1>1, RemoveSorted
<1>3. u \in Records /\ u.type = UNUSED
  <2>1. 0 \in Whole
    BY VmaListAssumption, Multiple, SMT DEF Whole
  <2>2. s[i].len \in Whole /\ 0 + s[i].len <= UserTop
    <3>1. /\ s[i].va \in Nat /\ s[i].len \in Nat /\ s[i].len \in Whole
          /\ s[i].va + s[i].len <= UserTop
      BY <1>1, Fields
    <3> QED BY <3>1, VmaListAssumption
  <2> QED BY <2>1, <2>2 DEF Vma, Records, Shapes, Types, AllPerms
<1>4. v = Append(t, u)
  BY DEF vma_make_unused
<1> HIDE DEF t, u, v
<1>5. /\ v \in Seq(Records) /\ Len(v) = Len(t) + 1
      /\ \A j \in 1..Len(t) : v[j] = t[j]
      /\ v[Len(t) + 1] = u
  BY <1>2, <1>3, <1>4, AppendProperties
<1>6. Len(s) \in Nat /\ Len(t) \in Nat
  BY <1>1, <1>2, LenProperties
<1>7. ASSUME NEW j \in Seen(v) PROVE j \in Seen(t) /\ v[j] = t[j]
  <2>1. j \in 1..Len(v) /\ \A k \in 1..j : Used(v, k)
    BY DEF Seen
  <2>2. j # Len(t) + 1
    BY <1>3, <1>5, <1>6, <2>1 DEF Used
  <2>3. j \in 1..Len(t) /\ \A k \in 1..j : k \in 1..Len(t)
    BY <1>5, <1>6, <2>1, <2>2
  <2>4. \A k \in 1..j : Used(t, k)
    BY <1>5, <2>1, <2>3 DEF Used
  <2> QED BY <1>5, <2>3, <2>4 DEF Seen
<1>8. Sorted(v)
  BY <1>2, <1>7 DEF Sorted
<1>9. ASSUME NEW j \in Seen(t) PROVE j \in Seen(v) /\ v[j] = t[j]
  <2>1. /\ j \in 1..Len(t) /\ j \in 1..Len(v)
        /\ \A k \in 1..j : Used(t, k) /\ k \in 1..Len(t)
    BY <1>5, <1>6 DEF Seen
  <2> QED BY <1>5, <2>1 DEF Seen, Used
<1>10. \A k \in Seen(s) : k # i => Stays(s, k, v)
  BY <1>2, <1>9 DEF Stays
<1> QED BY <1>1, <1>2, <1>5, <1>6, <1>7, <1>8, <1>10 DEF Good, v

\* A record that only becomes smaller keeps the list sorted.
LEMMA ShrinkGood ==
  ASSUME NEW s, Good(s), NEW i \in 1..Len(s), NEW x \in Records,
         x.type = s[i].type, s[i].va <= x.va, End(x) <= End(s[i])
  PROVE  /\ Good([s EXCEPT ![i] = x])
         /\ Len([s EXCEPT ![i] = x]) = Len(s)
         /\ Seen([s EXCEPT ![i] = x]) = Seen(s)
         /\ \A j \in 1..Len(s) : [s EXCEPT ![i] = x][j] = IF j = i THEN x ELSE s[j]
<1> DEFINE t == [s EXCEPT ![i] = x]
<1>1. s \in Seq(Records) /\ Len(s) \in 1..Slots /\ Sorted(s) /\ Len(s) \in Nat
  BY LenProperties DEF Good
<1>2. /\ t \in Seq(Records) /\ Len(t) = Len(s)
      /\ \A j \in 1..Len(s) : t[j] = IF j = i THEN x ELSE s[j]
  BY <1>1, ExceptSeq
<1> HIDE DEF t
<1>3. \A j \in 1..Len(s) : Used(t, j) <=> Used(s, j)
  BY <1>2 DEF Used
<1>4. Seen(t) = Seen(s)
  <2>1. \A j \in 1..Len(s) : \A k \in 1..j : k \in 1..Len(s)
    BY <1>1
  <2> QED BY <1>2, <1>3, <2>1 DEF Seen
<1>5. Sorted(t)
  <2> SUFFICES ASSUME NEW j \in Seen(s), NEW k \in Seen(s), j < k
               PROVE  End(t[j]) <= t[k].va
    BY <1>4 DEF Sorted
  <2>1. j \in 1..Len(s) /\ k \in 1..Len(s) /\ j # k
    BY <1>1 DEF Seen
  <2>2. End(s[j]) <= s[k].va
    BY <1>1 DEF Sorted
  <2>3. /\ End(s[j]) \in Nat /\ End(t[j]) \in Nat
        /\ s[k].va \in Nat /\ t[k].va \in Nat
    BY <1>1, <1>2, <2>1, Fields
  <2>4. End(t[j]) <= End(s[j])
    BY <1>2, <2>1, <2>3
  <2>5. s[k].va <= t[k].va
    BY <1>2, <2>1, <2>3
  <2> HIDE DEF End
  <2> QED BY <2>2, <2>3, <2>4, <2>5
<1> QED BY <1>1, <1>2, <1>4, <1>5 DEF Good, t

\* r is s with m between its p-th and its next record.
IsInsert(r, s, p, m) ==
    /\ r \in Seq(Records) /\ Len(r) = Len(s) + 1
    /\ \A i \in 1..p : r[i] = s[i]
    /\ r[p + 1] = m
    /\ \A i \in (p + 1)..Len(s) : r[i + 1] = s[i]

\* A new record between the records it lies between keeps the list sorted.
LEMMA InsertSorted ==
  ASSUME NEW s \in Seq(Records), Sorted(s), NEW m \in Records, NEW p \in 0..Len(s),
         NEW r, IsInsert(r, s, p, m),
         p > 0 => End(s[p]) <= m.va,
         p < Len(s) => s[p + 1].type = UNUSED \/ End(m) <= s[p + 1].va
  PROVE  /\ Sorted(r)
         /\ \A j \in Seen(r) : r[j] = m \/ \E k \in Seen(s) : r[j] = s[k]
         /\ m.type # UNUSED => \A k \in Seen(s) : Stays(s, k, r)
<1>1. /\ Len(s) \in Nat /\ p \in Nat /\ r \in Seq(Records) /\ Len(r) = Len(s) + 1
      /\ \A i \in 1..p : r[i] = s[i]
      /\ r[p + 1] = m
      /\ \A i \in (p + 1)..Len(s) : r[i + 1] = s[i]
  BY LenProperties DEF IsInsert
<1>2. ASSUME NEW j \in Seen(r), j <= p
      PROVE  j \in Seen(s) /\ r[j] = s[j]
  <2>1. j \in 1..Len(r) /\ \A k \in 1..j : Used(r, k)
    BY DEF Seen
  <2>2. j \in 1..Len(s) /\ \A k \in 1..j : k \in 1..p
    BY <1>1, <1>2, <2>1
  <2>3. \A k \in 1..j : Used(s, k)
    BY <1>1, <2>1, <2>2 DEF Used
  <2> QED BY <1>1, <1>2, <2>2, <2>3 DEF Seen
<1>3. ASSUME NEW j \in Seen(r), j > p + 1
      PROVE  j - 1 \in Seen(s) /\ r[j] = s[j - 1] /\ Used(s, p + 1)
  <2>1. j \in 1..Len(r) /\ \A k \in 1..j : Used(r, k)
    BY DEF Seen
  <2>2. ASSUME NEW k \in 1..(j - 1) PROVE Used(s, k)
    <3>1. CASE k <= p
      <4>1. k \in 1..p /\ k \in 1..j
        BY <1>1, <2>1, <3>1
      <4> QED BY <1>1, <2>1, <4>1 DEF Used
    <3>2. CASE k > p
      <4>1. k \in (p + 1)..Len(s) /\ k + 1 \in 1..j
        BY <1>1, <2>1, <3>2
      <4> QED BY <1>1, <2>1, <4>1 DEF Used
    <3> QED BY <3>1, <3>2, <1>1, <2>1
  <2>3. j - 1 \in 1..Len(s) /\ j - 1 \in (p + 1)..Len(s) /\ p + 1 \in 1..(j - 1) /\ (j - 1) + 1 = j
    BY <1>1, <1>3, <2>1
  <2>4. r[(j - 1) + 1] = s[j - 1]
    BY <1>1, <2>3
  <2> QED BY <2>2, <2>3, <2>4 DEF Seen
\* What is seen before m ends before it, what is seen behind it begins behind it.
<1>4. ASSUME NEW j \in Seen(r), j <= p, p + 1 \in Seen(r) PROVE End(r[j]) <= m.va
  <2>1. j \in Nat /\ j >= 1
    BY DEF Seen
  <2>2. p \in Seen(r)
    BY <1>1, <1>4, <2>1 DEF Seen
  <2>3. j \in Seen(s) /\ r[j] = s[j] /\ p \in Seen(s)
    <3>1. p <= p
      BY <1>1
    <3>2. p \in Seen(s)
      BY <1>2, <2>2, <3>1
    <3> QED BY <1>2, <1>4, <3>2
  <2>4. j \in 1..Len(s) /\ p \in 1..Len(s)
    BY <2>3 DEF Seen
  <2>5. End(s[p]) <= m.va
    BY <2>4
  <2>6. CASE j = p
    BY <2>3, <2>5, <2>6
  <2>7. CASE j < p
    <3>1. m.va \in Nat /\ End(s[j]) \in Nat /\ s[p].va \in Nat /\ End(s[p]) \in Nat /\ s[p].va <= End(s[p])
      BY <2>4, Fields, RecordEnd
    <3>2. End(s[j]) <= s[p].va
      BY <2>3, <2>7 DEF Sorted
    <3> HIDE DEF End
    <3> QED BY <2>3, <2>5, <3>1, <3>2
  <2> QED BY <1>1, <1>4, <2>1, <2>6, <2>7
<1>5. ASSUME NEW k \in Seen(r), k > p + 1 PROVE End(m) <= r[k].va
  <2>1. k - 1 \in Seen(s) /\ r[k] = s[k - 1] /\ Used(s, p + 1)
    BY <1>3, <1>5
  <2>2. k - 1 \in 1..Len(s) /\ \A i \in 1..(k - 1) : Used(s, i)
    BY <2>1 DEF Seen
  <2>3. p + 1 \in 1..Len(s) /\ p + 1 <= k - 1 /\ p < Len(s)
    <3>1. k \in Nat
      BY <1>1 DEF Seen
    <3> QED BY <1>1, <1>5, <2>2, <3>1
  <2>4. End(m) <= s[p + 1].va
    BY <2>1, <2>3 DEF Used
  <2>5. CASE k - 1 = p + 1
    BY <2>1, <2>4, <2>5
  <2>6. CASE k - 1 > p + 1
    <3>1. p + 1 \in Seen(s)
      BY <1>1, <2>2, <2>3 DEF Seen
    <3>2. End(s[p + 1]) <= s[k - 1].va
      BY <2>1, <2>6, <3>1 DEF Sorted
    <3>3. /\ End(m) \in Nat /\ s[p + 1].va \in Nat /\ End(s[p + 1]) \in Nat
          /\ s[p + 1].va <= End(s[p + 1]) /\ s[k - 1].va \in Nat
      <4>1. End(m) \in Nat
        BY RecordEnd
      <4> QED BY <4>1, <2>2, <2>3, Fields
    <3> HIDE DEF End
    <3> QED BY <2>1, <2>4, <3>2, <3>3
  <2> QED BY <1>1, <2>2, <2>3, <2>5, <2>6
<1>6. Sorted(r)
  <2> SUFFICES ASSUME NEW j \in Seen(r), NEW k \in Seen(r), j < k
               PROVE  End(r[j]) <= r[k].va
    BY DEF Sorted
  <2>0. j \in Nat /\ k \in Nat
    BY <1>1 DEF Seen
  <2>1. CASE k <= p
    <3>1. j <= p
      BY <1>1, <2>0, <2>1
    <3> QED BY <1>2, <2>1, <3>1 DEF Sorted
  <2>2. CASE k = p + 1
    <3>1. j <= p
      BY <1>1, <2>0, <2>2
    <3> QED BY <1>1, <1>4, <2>2, <3>1
  <2>3. CASE k > p + 1 /\ j = p + 1
    BY <1>1, <1>5, <2>3
  <2>4. CASE k > p + 1 /\ j <= p
    <3>1. j \in Seen(s) /\ r[j] = s[j] /\ k - 1 \in Seen(s) /\ r[k] = s[k - 1]
      BY <1>2, <1>3, <2>4
    <3>2. j < k - 1
      BY <1>1, <2>0, <2>4
    <3> QED BY <3>1, <3>2 DEF Sorted
  <2>5. CASE k > p + 1 /\ j > p + 1
    <3>1. j - 1 \in Seen(s) /\ r[j] = s[j - 1] /\ k - 1 \in Seen(s) /\ r[k] = s[k - 1]
      BY <1>3, <2>5
    <3>2. j - 1 < k - 1
      BY <2>0
    <3> QED BY <3>1, <3>2 DEF Sorted
  <2> QED BY <1>1, <2>0, <2>1, <2>2, <2>3, <2>4, <2>5
<1>7. ASSUME NEW j \in Seen(r) PROVE r[j] = m \/ \E k \in Seen(s) : r[j] = s[k]
  <2>1. j \in Nat
    BY <1>1 DEF Seen
  <2> QED BY <1>1, <1>2, <1>3, <2>1
<1>8. ASSUME m.type # UNUSED, NEW k \in Seen(s) PROVE Stays(s, k, r)
  <2> DEFINE j == IF k <= p THEN k ELSE k + 1
  <2>1. k \in 1..Len(s) /\ \A x \in 1..k : Used(s, x)
    BY DEF Seen
  <2>2. j \in 1..Len(r) /\ r[j] = s[k]
    BY <1>1, <2>1
  <2>3. ASSUME NEW x \in 1..j PROVE Used(r, x)
    <3>1. CASE x <= p
      <4>1. x \in 1..p /\ x \in 1..k
        BY <1>1, <2>1, <3>1
      <4> QED BY <1>1, <2>1, <4>1 DEF Used
    <3>2. CASE x = p + 1
      BY <1>1, <1>8, <3>2 DEF Used
    <3>3. CASE x > p + 1
      <4>1. x - 1 \in 1..k /\ x - 1 \in (p + 1)..Len(s) /\ (x - 1) + 1 = x
        BY <1>1, <2>1, <3>3
      <4> QED BY <1>1, <2>1, <4>1 DEF Used
    <3> QED BY <3>1, <3>2, <3>3, <1>1, <2>1
  <2> QED BY <2>2, <2>3 DEF Seen, Stays
<1> QED BY <1>6, <1>7, <1>8

-----------------------------------------------------------------------------
(* vma_insert. *)

\* The three ways to put m into s.
LEMMA Insertions ==
  ASSUME NEW s \in Seq(Records), NEW m \in Records
  PROVE  /\ \A p \in 1..Len(s) : IsInsert(InsertAfter(s, p, m), s, p, m)
         /\ IsInsert(<<m>> \o s, s, 0, m)
         /\ IsInsert(Append(s, m), s, Len(s), m)
<1>0. Len(s) \in Nat /\ \A j \in 1..Len(s) : s[j] \in Records
  BY LenProperties, ElementOfSeq
<1>1. <<m>> \in Seq(Records) /\ Len(<<m>>) = 1 /\ <<m>>[1] = m
  OBVIOUS
<1>2. ASSUME NEW p \in 1..Len(s) PROVE IsInsert(InsertAfter(s, p, m), s, p, m)
  <2> DEFINE a == SubSeq(s, 1, p)
             b == SubSeq(s, p + 1, Len(s))
             c == a \o <<m>>
             r == c \o b
  <2>1. a \in Seq(Records) /\ Len(a) = p /\ \A j \in 1..p : a[j] = s[j]
    <3>1. \A j \in 1..p : s[j] \in Records
      BY <1>0
    <3> QED BY <1>0, <3>1, SubSeqProperties, Z3
  <2>2. /\ b \in Seq(Records) /\ Len(b) = Len(s) - p
        /\ \A j \in 1..(Len(s) - p) : b[j] = s[p + j]
    <3>1. \A j \in (p + 1)..Len(s) : s[j] \in Records
      BY <1>0
    <3> QED BY <1>0, <3>1, SubSeqProperties, Z3
  <2> HIDE DEF a, b
  <2>3. /\ c \in Seq(Records) /\ Len(c) = p + 1
        /\ \A j \in 1..(p + 1) : c[j] = IF j <= p THEN a[j] ELSE <<m>>[j - p]
    BY <1>1, <2>1, ConcatProperties
  <2>4. c[p + 1] = m /\ \A j \in 1..p : c[j] = s[j]
    BY <1>0, <1>1, <2>1, <2>3
  <2> HIDE DEF c
  <2>5. /\ r \in Seq(Records) /\ Len(r) = Len(s) + 1
        /\ \A j \in 1..(Len(s) + 1) : r[j] = IF j <= p + 1 THEN c[j] ELSE b[j - (p + 1)]
    <3>1. /\ r \in Seq(Records) /\ Len(r) = Len(c) + Len(b)
          /\ \A j \in 1..(Len(c) + Len(b)) : r[j] = IF j <= Len(c) THEN c[j] ELSE b[j - Len(c)]
      BY <2>2, <2>3, ConcatProperties
    <3>2. Len(c) + Len(b) = Len(s) + 1
      BY <1>0, <2>2, <2>3
    <3> QED BY <2>3, <3>1, <3>2
  <2> HIDE DEF r
  <2>6. ASSUME NEW j \in 1..p PROVE r[j] = s[j]
    <3>1. j \in 1..(Len(s) + 1) /\ j <= p + 1
      BY <1>0
    <3> QED BY <2>4, <2>5, <3>1
  <2>7. r[p + 1] = m
    <3>1. p + 1 \in 1..(Len(s) + 1) /\ p + 1 <= p + 1
      BY <1>0
    <3> QED BY <2>4, <2>5, <3>1
  <2>8. ASSUME NEW j \in (p + 1)..Len(s) PROVE r[j + 1] = s[j]
    <3>1. /\ j + 1 \in 1..(Len(s) + 1) /\ ~ (j + 1 <= p + 1)
          /\ (j + 1) - (p + 1) = j - p /\ j - p \in 1..(Len(s) - p) /\ p + (j - p) = j
      BY <1>0
    <3>2. r[j + 1] = b[j - p]
      BY <2>5, <3>1
    <3>3. b[j - p] = s[j]
      BY <2>2, <3>1
    <3> QED BY <3>2, <3>3
  <2>9. r = InsertAfter(s, p, m)
    BY DEF r, c, a, b, InsertAfter
  <2> QED BY <2>5, <2>6, <2>7, <2>8, <2>9 DEF IsInsert
<1>3. IsInsert(<<m>> \o s, s, 0, m)
  <2> DEFINE r == <<m>> \o s
  <2>1. /\ r \in Seq(Records) /\ Len(r) = 1 + Len(s)
        /\ \A j \in 1..(1 + Len(s)) : r[j] = IF j <= 1 THEN <<m>>[j] ELSE s[j - 1]
    BY <1>1, ConcatProperties
  <2> HIDE DEF r
  <2>2. r[1] = m
    BY <1>0, <1>1, <2>1
  <2>3. ASSUME NEW j \in (0 + 1)..Len(s) PROVE r[j + 1] = s[j]
    <3>1. j + 1 \in 1..(1 + Len(s)) /\ ~ (j + 1 <= 1) /\ (j + 1) - 1 = j
      BY <1>0
    <3> QED BY <2>1, <3>1
  <2> QED BY <1>0, <2>1, <2>2, <2>3 DEF IsInsert, r
<1>4. IsInsert(Append(s, m), s, Len(s), m)
  BY <1>0, AppendProperties DEF IsInsert
<1> QED BY <1>2, <1>3, <1>4

\* vma_insert keeps the list sorted, for any record: what is seen then is the new
\* record and what was seen before.
LEMMA VmaInsertGood ==
  ASSUME NEW s, Good(s), ~ (Len(s) = 1 /\ s[1].type = UNUSED), NEW m \in Records
  PROVE  /\ Good(vma_insert(s, m).vmas)
         /\ \A j \in Seen(vma_insert(s, m).vmas) :
              \/ vma_insert(s, m).vmas[j] = m
              \/ \E k \in Seen(s) : vma_insert(s, m).vmas[j] = s[k]
         /\ m.type # UNUSED => \A k \in Seen(s) : Stays(s, k, vma_insert(s, m).vmas)
<1> DEFINE rest == SubSeq(s, 1, Len(s) - 1)
           places == Places(rest, m)
           Fine(r) == /\ Good(r)
                      /\ \A j \in Seen(r) : r[j] = m \/ \E k \in Seen(s) : r[j] = s[k]
                      /\ m.type # UNUSED => \A k \in Seen(s) : Stays(s, k, r)
<1>1. s \in Seq(Records) /\ Len(s) \in 1..Slots /\ Len(s) \in Nat /\ Sorted(s) /\ Slots \in Nat
  BY LenProperties, VmaListAssumption DEF Good
<1>2. CASE s[Len(s)].type # UNUSED
  <2>1. vma_insert(s, m).vmas = s
    BY <1>2 DEF vma_insert
  <2> QED BY <2>1 DEF Stays
<1>3. CASE s[Len(s)].type = UNUSED
  <2>1. Len(s) > 1
    <3> SUFFICES ASSUME ~ (Len(s) > 1) PROVE FALSE
      OBVIOUS
    <3>0. ~ (Len(s) > 1)
      OBVIOUS
    <3>1. Len(s) = 1
      <4>1. Len(s) \in Nat /\ Len(s) # 0
        BY <1>1
      <4> QED BY ONLY <4>1, <3>0
    <3>2. s[Len(s)] = s[1]
      BY <3>1
    <3> QED BY <1>3, <3>1, <3>2
  <2>2. /\ rest \in Seq(Records) /\ Len(rest) = Len(s) - 1
        /\ \A j \in 1..(Len(s) - 1) : rest[j] = s[j]
    <3>1. \A j \in 1..(Len(s) - 1) : s[j] \in Records
      BY <1>1, ElementOfSeq
    <3> QED BY <1>1, <2>1, <3>1, SubSeqProperties, Z3
  <2> HIDE DEF rest
  <2>3. ASSUME NEW j \in Seen(rest) PROVE j \in Seen(s) /\ rest[j] = s[j]
    <3>1. j \in 1..(Len(s) - 1) /\ \A k \in 1..j : Used(rest, k) /\ k \in 1..(Len(s) - 1)
      BY <1>1, <2>2 DEF Seen
    <3>2. \A k \in 1..j : Used(s, k)
      BY <2>2, <3>1 DEF Used
    <3> QED BY <1>1, <2>2, <3>1, <3>2 DEF Seen
  <2>4. Sorted(rest)
    BY <1>1, <2>3 DEF Sorted
  <2>12. \A k \in Seen(s) : k \in Seen(rest) /\ rest[k] = s[k]
    <3> SUFFICES ASSUME NEW k \in Seen(s) PROVE k \in Seen(rest) /\ rest[k] = s[k]
      OBVIOUS
    <3>1. k \in 1..Len(s) /\ \A x \in 1..k : Used(s, x)
      BY DEF Seen
    <3>2. k # Len(s)
      BY <1>1, <1>3, <3>1 DEF Used
    <3>3. k \in 1..(Len(s) - 1) /\ \A x \in 1..k : x \in 1..(Len(s) - 1)
      BY <1>1, <3>1, <3>2
    <3> QED BY <2>2, <3>1, <3>3 DEF Seen, Used
  <2>5. Fine(rest)
    BY <1>1, <2>1, <2>2, <2>3, <2>4, <2>12 DEF Good, Stays
  \* An insertion where m fits.
  <2>6. ASSUME NEW p \in 0..Len(rest), NEW r, IsInsert(r, rest, p, m),
               p > 0 => End(rest[p]) <= m.va,
               p < Len(rest) => rest[p + 1].type = UNUSED \/ End(m) <= rest[p + 1].va
        PROVE  Fine(r)
    <3>1. /\ Sorted(r) /\ \A j \in Seen(r) : r[j] = m \/ \E k \in Seen(rest) : r[j] = rest[k]
          /\ m.type # UNUSED => \A k \in Seen(rest) : Stays(rest, k, r)
      BY <2>2, <2>4, <2>6, InsertSorted
    <3>2. r \in Seq(Records) /\ Len(r) = Len(s)
      BY <1>1, <2>2, <2>6 DEF IsInsert
    <3>3. m.type # UNUSED => \A k \in Seen(s) : Stays(s, k, r)
      BY <2>12, <3>1 DEF Stays
    <3> QED BY <1>1, <2>3, <3>1, <3>2, <3>3 DEF Good
  <2>7. /\ m.va \in Nat /\ End(m) \in Nat
        /\ \A j \in 1..Len(rest) : rest[j].va \in Nat /\ End(rest[j]) \in Nat
    <3>1. m.va \in Nat /\ End(m) \in Nat
      BY RecordEnd
    <3> QED BY <2>2, <3>1, Fields
  <2>8. CASE rest[1].type = UNUSED \/ End(m) < rest[1].va
    <3>1. vma_insert(s, m).vmas = <<m>> \o rest
      BY <1>3, <2>8 DEF vma_insert, rest
    <3>2. IsInsert(<<m>> \o rest, rest, 0, m)
      BY <2>2, Insertions
    <3>3. rest[0 + 1].type = UNUSED \/ End(m) <= rest[0 + 1].va
      <4>1. rest[1].va \in Nat /\ 0 + 1 = 1
        BY <1>1, <2>1, <2>2, <2>7
      <4> HIDE DEF End
      <4> QED BY <2>7, <2>8, <4>1
    <3>4. 0 \in 0..Len(rest) /\ ~ (0 > 0)
      BY <1>1, <2>1, <2>2
    <3>5. Fine(<<m>> \o rest)
      <4> HIDE DEF Fine
      <4> QED BY <2>6, <3>2, <3>3, <3>4
    <3> QED BY <3>1, <3>5
  <2>9. CASE ~ (rest[1].type = UNUSED \/ End(m) < rest[1].va) /\ places # {}
    <3> DEFINE p == FirstIn(places)
    <3>1. p \in places
      <4>1. places \in SUBSET Nat
        BY <1>1, <2>1, <2>2 DEF Places
      <4> HIDE DEF places
      <4> QED BY <2>9, <4>1, LeastExists
    <3>2. vma_insert(s, m).vmas = InsertAfter(rest, p, m)
      BY <1>3, <2>9 DEF vma_insert, rest
    <3> HIDE DEF p
    <3>3. /\ p \in 1..(Len(rest) - 1) /\ End(rest[p]) <= m.va
          /\ rest[p + 1].type = UNUSED \/ End(m) < rest[p + 1].va
      BY <3>1 DEF Places
    <3>4. p \in 0..Len(rest) /\ p \in 1..Len(rest) /\ p + 1 \in 1..Len(rest)
      BY <1>1, <2>2, <3>3
    <3>5. rest[p + 1].type = UNUSED \/ End(m) <= rest[p + 1].va
      <4> HIDE DEF End
      <4> QED BY <2>7, <3>3, <3>4
    <3>6. IsInsert(InsertAfter(rest, p, m), rest, p, m)
      BY <2>2, <3>4, Insertions
    <3>7. Fine(InsertAfter(rest, p, m))
      <4> HIDE DEF Fine
      <4> QED BY <2>6, <3>3, <3>4, <3>5, <3>6
    <3> QED BY <3>2, <3>7
  <2>10. CASE /\ ~ (rest[1].type = UNUSED \/ End(m) < rest[1].va) /\ places = {}
              /\ End(rest[Len(rest)]) <= m.va
    <3>1. vma_insert(s, m).vmas = Append(rest, m)
      BY <1>3, <2>10 DEF vma_insert, rest
    <3>2. IsInsert(Append(rest, m), rest, Len(rest), m)
      BY <2>2, Insertions
    <3>3. Len(rest) \in 0..Len(rest) /\ ~ (Len(rest) < Len(rest))
      BY <1>1, <2>1, <2>2
    <3>4. Fine(Append(rest, m))
      <4> HIDE DEF Fine
      <4> QED BY <2>6, <2>10, <3>2, <3>3
    <3> QED BY <3>1, <3>4
  <2>11. CASE /\ ~ (rest[1].type = UNUSED \/ End(m) < rest[1].va) /\ places = {}
              /\ ~ (End(rest[Len(rest)]) <= m.va)
    <3>1. vma_insert(s, m).vmas = rest
      BY <1>3, <2>11 DEF vma_insert, rest
    <3> QED BY <2>5, <3>1
  <2> QED BY <2>8, <2>9, <2>10, <2>11
<1> QED BY <1>2, <1>3

-----------------------------------------------------------------------------
(* sys_vma_create. *)

\* The record of a rounded range is made of whole pages, around the range.
LEMMA RoundedRecord ==
  ASSUME NEW type \in Types, NEW va \in Nat, NEW size \in Nat, NEW perm \in AllPerms,
         NEW file \in BOOLEAN, va + size <= UserTop
  PROVE  /\ Rounded(type, va, size, perm, file) \in Records
         /\ Rounded(type, va, size, perm, file).type = type
         /\ Rounded(type, va, size, perm, file).va = ROUNDDOWN(va)
         /\ End(Rounded(type, va, size, perm, file)) = ROUNDUP(va + size)
<1> DEFINE a == ROUNDDOWN(va)
           b == ROUNDUP(va + size)
           m == Rounded(type, va, size, perm, file)
<1>0. UserTop \in Nat /\ va + size \in Nat /\ va + size \in 0..UserTop
  BY VmaListAssumption
<1>1. /\ a \in Whole /\ a <= va
      /\ b \in Whole /\ va + size <= b /\ b <= UserTop
  BY <1>0, Rounding
<1>2. m = Vma(type, a, Wrap(b - a), perm, file)
  <2>1. Wrap(va + size) = va + size
    BY <1>0, UserFits
  <2> QED BY <2>1 DEF Rounded
<1> HIDE DEF a, b, m
<1>3. a \in Nat /\ b \in Nat /\ a <= b
  BY <1>0, <1>1 DEF Whole
<1>4. b - a \in Whole
  BY <1>1, <1>3, WholeSums
<1>5. a + (b - a) = b /\ b - a \in 0..UserTop
  BY <1>0, <1>1, <1>3
<1>6. m = Vma(type, a, b - a, perm, file)
  BY <1>2, <1>5, UserFits
<1>7. m \in Records /\ m.type = type /\ m.va = a /\ m.len = b - a
  BY <1>1, <1>4, <1>5, <1>6 DEF Vma, Records, Shapes
<1>8. End(m) = b
  BY <1>5, <1>7, RecordEnd
<1> QED BY <1>7, <1>8 DEF a, b, m

\* vma_get_vmem finds room in the user's address space: no area that is seen lies in
\* it, and no difference of the search wraps.
LEMMA VmemIsFree ==
  ASSUME NEW s, Good(s), NEW size \in 0..UserTop, vma_get_vmem(s, size) # -1
  PROVE  /\ vma_get_vmem(s, size) \in Nat
         /\ vma_get_vmem(s, size) + size <= UserTop
         /\ \A k \in Seen(s) : \/ End(s[k]) <= vma_get_vmem(s, size)
                              \/ vma_get_vmem(s, size) + size <= s[k].va
<1> DEFINE after(i) == ROUNDUP(End(s[i]))
           holes == {i \in 1..(Len(s) - 1) :
                       s[i + 1].type = UNUSED \/ size <= Wrap(s[i + 1].va - after(i))}
           f == FirstIn(holes)
           va == vma_get_vmem(s, size)
<1>1. /\ s \in Seq(Records) /\ Sorted(s) /\ Len(s) \in Nat /\ 1 \in 1..Len(s)
      /\ size \in Nat /\ size <= UserTop /\ UserTop \in Nat
  BY LenProperties, VmaListAssumption DEF Good
<1>2. CASE s[1].type = UNUSED
  <2>1. va = 0
    BY <1>2 DEF vma_get_vmem
  <2>2. ASSUME NEW k \in Seen(s) PROVE FALSE
    <3>1. 1 \in 1..k
      BY DEF Seen
    <3> QED BY <1>2, <3>1 DEF Seen, Used
  <2> QED BY <1>1, <2>1, <2>2
<1>3. CASE s[1].type # UNUSED
  <2>1. 1 \in Seen(s)
    BY <1>1, <1>3 DEF Seen, Used
  <2>2. \A i \in 1..Len(s) : /\ s[i].va \in Nat /\ End(s[i]) \in Nat /\ after(i) = End(s[i])
                             /\ s[i].va <= End(s[i]) /\ End(s[i]) <= UserTop
    <3> SUFFICES ASSUME NEW i \in 1..Len(s)
                 PROVE  /\ s[i].va \in Nat /\ End(s[i]) \in Nat /\ after(i) = End(s[i])
                        /\ s[i].va <= End(s[i]) /\ End(s[i]) <= UserTop
      OBVIOUS
    <3>1. /\ s[i].va \in Nat /\ End(s[i]) \in Nat /\ End(s[i]) \in Whole
          /\ s[i].va <= End(s[i]) /\ End(s[i]) <= UserTop
      BY <1>1, Fields
    <3> HIDE DEF End
    <3>2. /\ End(s[i]) <= ROUNDUP(End(s[i])) /\ ROUNDUP(End(s[i])) <= End(s[i])
          /\ ROUNDUP(End(s[i])) \in Whole
      BY <3>1, Rounding
    <3>3. ROUNDUP(End(s[i])) \in Nat
      BY <3>2 DEF Whole
    <3> QED BY <3>1, <3>2, <3>3
  <2>3. va = IF size <= s[1].va THEN s[1].va - size
             ELSE IF holes = {} \/ (s[f + 1].type = UNUSED /\ size > Wrap(UserTop - after(f)))
             THEN -1
             ELSE after(f)
    BY <1>3 DEF vma_get_vmem
  \* Below the first area.
  <2>4. CASE size <= s[1].va
    <3>1. va = s[1].va - size
      BY <2>3, <2>4
    <3>2. s[1].va \in Nat /\ s[1].va <= UserTop
      BY <1>1, <2>2
    <3>3. ASSUME NEW k \in Seen(s) PROVE s[1].va <= s[k].va
      <4>1. k \in 1..Len(s)
        BY DEF Seen
      <4>2. CASE k = 1
        BY <3>2, <4>2
      <4>3. CASE k # 1
        <5>1. 1 < k
          BY <1>1, <4>1, <4>3
        <5>2. End(s[1]) <= s[k].va
          BY <1>1, <2>1, <5>1 DEF Sorted
        <5> HIDE DEF End
        <5> QED BY <1>1, <2>2, <4>1, <5>2
      <4> QED BY <4>2, <4>3
    <3> HIDE DEF va, End
    <3>4. va \in Nat /\ va + size = s[1].va
      BY <1>1, <2>4, <3>1, <3>2
    <3> QED BY <1>1, <3>2, <3>3, <3>4 DEF va
  \* In the first hole.
  <2>5. CASE ~ (size <= s[1].va)
    <3>1. /\ holes # {} /\ va = after(f)
          /\ s[f + 1].type = UNUSED => ~ (size > Wrap(UserTop - after(f)))
      BY <2>3, <2>5
    <3>2. f \in holes /\ \A x \in holes : f <= x
      <4>1. holes \in SUBSET Nat
        BY <1>1
      <4> HIDE DEF holes
      <4> QED BY <3>1, <4>1, LeastExists
    <3> HIDE DEF f
    <3>3. /\ f \in 1..(Len(s) - 1) /\ f \in 1..Len(s) /\ f + 1 \in 1..Len(s) /\ f \in Nat
          /\ s[f + 1].type = UNUSED \/ size <= Wrap(s[f + 1].va - after(f))
      BY <1>1, <3>2
    <3>4. va = End(s[f]) /\ after(f) = End(s[f]) /\ End(s[f]) \in Nat /\ End(s[f]) <= UserTop
      BY <2>2, <3>1, <3>3
    \* Everything in front of the hole is seen.
    <3>5. ASSUME NEW x \in 1..f PROVE Used(s, x)
      <4>1. CASE x = 1
        BY <1>3, <4>1 DEF Used
      <4>2. CASE x # 1
        <5>1. x - 1 \in 1..(Len(s) - 1) /\ (x - 1) + 1 = x /\ x - 1 < f /\ x - 1 \in Nat
          BY <1>1, <3>3, <4>2
        <5>2. x - 1 \notin holes
          <6>1. ~ (f <= x - 1)
            BY <3>3, <5>1
          <6> QED BY <3>2, <6>1
        <5> QED BY <5>1, <5>2 DEF Used
      <4> QED BY <4>1, <4>2
    <3>6. f \in Seen(s)
      BY <3>3, <3>5 DEF Seen
    \* Its size did not wrap.
    <3>7. Used(s, f + 1) => /\ f + 1 \in Seen(s)
                            /\ End(s[f]) + size <= s[f + 1].va
                            /\ s[f + 1].va <= UserTop
      <4> SUFFICES ASSUME Used(s, f + 1)
                   PROVE  /\ f + 1 \in Seen(s) /\ End(s[f]) + size <= s[f + 1].va
                          /\ s[f + 1].va <= UserTop
        OBVIOUS
      <4>1. f + 1 \in Seen(s)
        <5>1. \A x \in 1..(f + 1) : x \in 1..f \/ x = f + 1
          BY <3>3
        <5> QED BY <3>3, <3>5, <5>1 DEF Seen
      <4>2. End(s[f]) <= s[f + 1].va
        BY <1>1, <3>3, <3>6, <4>1 DEF Sorted
      <4>3. s[f + 1].va \in Nat /\ s[f + 1].va <= UserTop
        <5> HIDE DEF End
        <5>1. s[f + 1].va \in Nat /\ s[f + 1].va <= End(s[f + 1]) /\ End(s[f + 1]) <= UserTop
              /\ End(s[f + 1]) \in Nat
          BY <2>2, <3>3
        <5> QED BY <1>1, <5>1
      <4> HIDE DEF End, after
      <4>4. s[f + 1].va - End(s[f]) \in 0..UserTop
        BY <1>1, <3>4, <4>2, <4>3
      <4>5. Wrap(s[f + 1].va - End(s[f])) = s[f + 1].va - End(s[f])
        BY <4>4, UserFits
      <4>6. size <= s[f + 1].va - End(s[f])
        BY <3>3, <3>4, <4>5 DEF Used
      <4> QED BY <1>1, <3>4, <4>1, <4>3, <4>6
    <3>8. ~ Used(s, f + 1) => End(s[f]) + size <= UserTop
      <4> SUFFICES ASSUME ~ Used(s, f + 1) PROVE End(s[f]) + size <= UserTop
        OBVIOUS
      <4> HIDE DEF End, after
      <4>1. UserTop - End(s[f]) \in 0..UserTop
        BY <1>1, <3>4
      <4>2. Wrap(UserTop - End(s[f])) = UserTop - End(s[f])
        BY <4>1, UserFits
      <4>3. ~ (size > UserTop - End(s[f]))
        BY <3>1, <3>4, <4>2 DEF Used
      <4> QED BY <1>1, <3>4, <4>3
    <3>9. va \in Nat /\ va + size <= UserTop
      <4>1. CASE Used(s, f + 1)
        <5>1. s[f + 1].va \in Nat
          BY <2>2, <3>3
        <5> HIDE DEF End, va
        <5> QED BY <1>1, <3>4, <3>7, <4>1, <5>1
      <4>2. CASE ~ Used(s, f + 1)
        BY <3>4, <3>8, <4>2
      <4> QED BY <4>1, <4>2
    <3>10. ASSUME NEW k \in Seen(s) PROVE End(s[k]) <= va \/ va + size <= s[k].va
      <4>1. k \in 1..Len(s) /\ k \in Nat /\ \A j \in 1..k : Used(s, j)
        BY DEF Seen
      <4>2. End(s[k]) \in Nat /\ s[k].va \in Nat /\ s[f].va \in Nat /\ s[f].va <= End(s[f])
        BY <2>2, <3>3, <4>1
      <4>3. CASE k = f
        <5> HIDE DEF End, va
        <5> QED BY <3>4, <4>3
      <4>4. CASE k < f
        <5>1. End(s[k]) <= s[f].va
          BY <1>1, <3>6, <4>4 DEF Sorted
        <5> HIDE DEF End, va
        <5> QED BY <3>4, <4>2, <5>1
      <4>5. CASE k > f
        <5>1. f + 1 \in 1..k
          BY <3>3, <4>1, <4>5
        <5>2. Used(s, f + 1)
          BY <4>1, <5>1
        <5>3. f + 1 \in Seen(s) /\ End(s[f]) + size <= s[f + 1].va
          BY <3>7, <5>2
        <5>4. s[f + 1].va <= s[k].va
          <6>1. s[f + 1].va \in Nat /\ End(s[f + 1]) \in Nat /\ s[f + 1].va <= End(s[f + 1])
            BY <2>2, <3>3
          <6>2. CASE k = f + 1
            BY <4>2, <6>2
          <6>3. CASE f + 1 < k
            <7>1. End(s[f + 1]) <= s[k].va
              BY <1>1, <5>3, <6>3 DEF Sorted
            <7> HIDE DEF End
            <7> QED BY <4>2, <6>1, <7>1
          <6> QED BY <3>3, <4>1, <4>5, <6>2, <6>3
        <5>5. s[f + 1].va \in Nat
          BY <2>2, <3>3
        <5> HIDE DEF End, va
        <5> QED BY <1>1, <3>4, <4>2, <5>3, <5>4, <5>5
      <4> QED BY <3>3, <4>1, <4>3, <4>4, <4>5
    <3> QED BY <3>9, <3>10
  <2> QED BY <2>4, <2>5
<1> QED BY <1>2, <1>3

LEMMA CreatedGood ==
  ASSUME NEW s, Good(s), ~ (Len(s) = 1 /\ s[1].type = UNUSED), NEW size \in 0..UserTop,
         NEW perm \in Perms
  PROVE  /\ Good(Created(s, size, perm).vmas)
         /\ Created(s, size, perm).vmas = s
            \/ AddsOnly(s, Rounded("anon", vma_get_vmem(s, ROUNDUP(size)), size, perm, FALSE),
                        Created(s, size, perm).vmas)
<1> DEFINE va == vma_get_vmem(s, ROUNDUP(size))
           m == Rounded("anon", va, size, perm, FALSE)
           r == vma_insert(s, m)
<1>0. size \in Nat /\ size <= UserTop /\ UserTop \in Nat
  BY VmaListAssumption
<1>1. Created(s, size, perm).vmas = IF va = -1 \/ 2 * va >= WordSize THEN s ELSE r.vmas
  BY DEF Created
<1>2. CASE va = -1 \/ 2 * va >= WordSize
  BY <1>1, <1>2
<1>3. CASE ~ (va = -1 \/ 2 * va >= WordSize)
  <2>1. ROUNDUP(size) \in 0..UserTop /\ ROUNDUP(size) \in Nat /\ size <= ROUNDUP(size)
    BY <1>0, Rounding DEF Whole
  <2>2. va \in Nat /\ va + ROUNDUP(size) <= UserTop
    <3>1. va # -1
      BY <1>3
    <3> QED BY <2>1, <3>1, VmemIsFree
  <2>3. va + size <= UserTop
    <3> HIDE DEF va
    <3> QED BY <1>0, <2>1, <2>2
  <2>4. m \in Records /\ m.type = "anon"
    <3>1. "anon" \in Types /\ perm \in AllPerms /\ FALSE \in BOOLEAN
      BY DEF Types, AllPerms
    <3> HIDE DEF va
    <3> QED BY <1>0, <2>2, <2>3, <3>1, RoundedRecord
  <2>5. Good(r.vmas) /\ AddsOnly(s, m, r.vmas)
    <3> HIDE DEF m
    <3> QED BY <2>4, VmaInsertGood DEF UNUSED, AddsOnly
  <2> HIDE DEF r, va
  <2>6. Created(s, size, perm).vmas = r.vmas
    BY <1>1, <1>3
  <2> QED BY <2>5, <2>6 DEF va
<1> QED BY <1>2, <1>3

-----------------------------------------------------------------------------
(* sys_vma_destroy. *)

\* Cutting [from, to) out of the record that contains va keeps the list sorted, and
\* nothing that is seen covers any of [from, to) then.
LEMMA CutGood ==
  ASSUME NEW s, Good(s), NEW i \in Seen(s), NEW va \in Nat, Contains(s[i], va),
         NEW to \in Whole, to <= End(s[i]), ROUNDDOWN(va) <= to
  PROVE  LET from == ROUNDUP(va)
             t == Cut(s, i, from, to)
         IN /\ Good(t)
            /\ from < to => \A j \in Seen(t) : End(t[j]) <= from \/ to <= t[j].va
            /\ CutsOnly(s, i, t)
<1> DEFINE from == ROUNDUP(va)
           m == s[i]
           t == Cut(s, i, from, to)
           Clear(x) == End(x) <= from \/ to <= x.va
<1>1. /\ s \in Seq(Records) /\ Len(s) \in 1..Slots /\ Len(s) \in Nat /\ Sorted(s)
      /\ i \in 1..Len(s) /\ Used(s, i) /\ Slots \in Nat
  <2>1. i \in 1..i
    BY DEF Seen
  <2> QED BY <2>1, LenProperties, VmaListAssumption DEF Good, Seen
<1>2. /\ m \in Records /\ m.va \in Nat /\ m.len \in Nat /\ End(m) \in Nat /\ m.va \in Whole
      /\ End(m) \in Whole /\ End(m) = m.va + m.len /\ m.va <= End(m)
      /\ End(m) <= UserTop /\ UserTop \in Nat
  BY <1>1, Fields, VmaListAssumption
<1>3. m.va <= va /\ va < End(m)
  BY DEF Contains
<1>4. from \in Whole /\ va <= from /\ from <= End(m)
  <2>1. va <= UserTop /\ va <= End(m)
    <3> HIDE DEF m, End
    <3> QED BY <1>2, <1>3
  <2> QED BY <1>2, <2>1, Rounding
<1>5. from \in Nat /\ to \in Nat
  BY <1>4 DEF Whole
<1>6. from = m.va => from <= to
  <2> SUFFICES ASSUME from = m.va PROVE from <= to
    OBVIOUS
  <2>1. va = m.va
    <3> HIDE DEF from
    <3> QED BY <1>2, <1>3, <1>4, <1>5
  <2>2. va <= ROUNDDOWN(va) /\ ROUNDDOWN(va) \in Nat
    BY <1>2, <2>1, Rounding DEF Whole
  <2> HIDE DEF from
  <2> QED BY <1>2, <1>5, <2>1, <2>2
\* The other records are clear of the range.
<1>7. ASSUME NEW k \in Seen(s), k # i PROVE Clear(s[k])
  <2>1. k \in 1..Len(s) /\ k \in Nat /\ i \in Nat
    BY <1>1 DEF Seen
  <2>2. End(s[k]) \in Nat /\ s[k].va \in Nat
    BY <1>1, <2>1, Fields
  <2>3. CASE k < i
    <3>1. End(s[k]) <= m.va
      BY <1>1, <2>3 DEF Sorted
    <3> HIDE DEF from, m, End
    <3> QED BY <1>2, <1>3, <1>4, <1>5, <2>2, <3>1
  <2>4. CASE i < k
    <3>1. End(m) <= s[k].va
      BY <1>1, <2>4 DEF Sorted
    <3>2. to <= End(m)
      OBVIOUS
    <3> HIDE DEF from, m, End
    <3> QED BY <1>2, <1>5, <2>2, <3>1, <3>2
  <2> QED BY <1>7, <2>1, <2>3, <2>4
<1>8. to <= End(m)
  OBVIOUS
<1> HIDE DEF from
<1> DEFINE gone == Wrap(to - from)
<1>12. from = m.va => gone = to - from
  <2> SUFFICES ASSUME from = m.va PROVE gone = to - from
    OBVIOUS
  <2>1. to - from \in 0..UserTop
    <3> HIDE DEF m, End
    <3> QED BY <1>2, <1>5, <1>6, <1>8
  <2> QED BY <2>1, UserFits
<1> HIDE DEF gone
<1>13. t = IF from = m.va /\ gone = m.len THEN vma_make_unused(s, i)
           ELSE IF from = m.va THEN [s EXCEPT ![i].va = to, ![i].len = Wrap(@ - gone)]
           ELSE IF to = End(m) THEN KeepFirst(s, i, from)
           ELSE vma_insert(KeepFirst(s, i, from),
                           Vma(m.type, to, Wrap(End(m) - to), m.perm, FALSE)).vmas
  BY DEF Cut, gone
<1> HIDE DEF t
<1>9. CASE from = m.va /\ gone = m.len
  <2>1. t = vma_make_unused(s, i)
    BY <1>9, <1>13
  <2> HIDE DEF Clear
  <2>2. Good(vma_make_unused(s, i)) /\ \A j \in Seen(vma_make_unused(s, i)) : Clear(vma_make_unused(s, i)[j])
    BY <1>7, MakeUnusedGood
  <2>3. CutsOnly(s, i, vma_make_unused(s, i))
    BY MakeUnusedGood DEF CutsOnly
  <2> QED BY <2>1, <2>2, <2>3 DEF from, Clear, t
\* The record loses its first pages.
<1>10. CASE from = m.va /\ gone # m.len
  <2> DEFINE x == [m EXCEPT !.va = to, !.len = Wrap(@ - gone)]
  <2>1. t = [s EXCEPT ![i].va = to, ![i].len = Wrap(@ - gone)]
    BY <1>10, <1>13
  <2>2. t = [s EXCEPT ![i] = x]
    BY <1>1, <2>1
  <2>3. Wrap(m.len - gone) = End(m) - to
    <3>1. m.len - gone = End(m) - to /\ End(m) - to \in 0..UserTop
      <4> HIDE DEF m, End
      <4> QED BY <1>2, <1>5, <1>8, <1>10, <1>12
    <3> QED BY <3>1, UserFits
  <2>4. End(m) - to \in Whole /\ to + (End(m) - to) <= UserTop
    <3>1. End(m) - to \in Whole
      BY <1>2, <1>8, WholeSums
    <3>2. to + (End(m) - to) <= UserTop
      <4> HIDE DEF m, End
      <4> QED BY <1>2, <1>5, <1>8
    <3> QED BY <3>1, <3>2
  <2>5. /\ x \in Records /\ x.type = m.type /\ x.va = to /\ x.len = End(m) - to
        /\ x.perm = m.perm /\ x.file = m.file
    <3> HIDE DEF m
    <3> QED BY <1>2, <2>3, <2>4 DEF Records, Shapes
  <2> HIDE DEF x
  <2>6. End(x) = to + (End(m) - to)
    BY <2>5, RecordEnd
  <2>7. m.va <= x.va /\ End(x) <= End(m)
    <3> HIDE DEF m, End
    <3> QED BY <1>2, <1>5, <1>6, <1>10, <2>5, <2>6
  <2> DEFINE u == [s EXCEPT ![i] = x]
  <2>8. Good(u) /\ Seen(u) = Seen(s) /\ \A j \in 1..Len(s) : u[j] = IF j = i THEN x ELSE s[j]
    BY <1>1, <2>5, <2>7, ShrinkGood
  <2> HIDE DEF u
  <2>9. Clear(x)
    BY <1>5, <2>5
  <2>10. \A j \in Seen(u) : Clear(u[j])
    <3> HIDE DEF Clear
    <3>1. \A j \in Seen(s) : j \in 1..Len(s)
      BY DEF Seen
    <3> QED BY <1>7, <2>8, <2>9, <3>1
  <2>11. t = u
    BY <2>2 DEF u
  <2>12. CutsOnly(s, i, u)
    <3>1. Piece(x, s[i])
      BY <2>5, <2>7 DEF Piece
    <3>2. \A j \in Seen(s) : j \in 1..Len(s)
      BY DEF Seen
    <3> QED BY <2>8, <3>1, <3>2 DEF CutsOnly, Stays
  <2> QED BY <2>8, <2>10, <2>11, <2>12 DEF t, from
\* The record loses its last pages, or is cut in two.
<1>11. CASE from # m.va
  <2> DEFINE x == [m EXCEPT !.len = Wrap(from - m.va)]
             u == [s EXCEPT ![i] = x]
             n == Vma(m.type, to, Wrap(End(m) - to), m.perm, FALSE)
  <2>1. KeepFirst(s, i, from) = u
    BY DEF KeepFirst
  <2>2. from - m.va \in Whole /\ Wrap(from - m.va) = from - m.va /\ m.va + (from - m.va) <= UserTop
    <3>1. m.va <= from
      <4> HIDE DEF m
      <4> QED BY <1>2, <1>3, <1>4, <1>5
    <3>2. from - m.va \in 0..UserTop /\ m.va + (from - m.va) <= UserTop
      <4> HIDE DEF m, End
      <4> QED BY <1>2, <1>4, <1>5, <3>1
    <3> QED BY <1>2, <1>4, <3>1, <3>2, WholeSums, UserFits
  <2>3. /\ x \in Records /\ x.type = m.type /\ x.va = m.va /\ x.len = from - m.va
        /\ x.perm = m.perm /\ x.file = m.file
    <3> HIDE DEF m
    <3> QED BY <1>2, <2>2 DEF Records, Shapes
  <2> HIDE DEF x
  <2>4. End(x) = from /\ m.va <= x.va /\ End(x) <= End(m)
    <3>1. End(x) = m.va + (from - m.va)
      BY <2>3, RecordEnd
    <3> HIDE DEF m, End
    <3> QED BY <1>2, <1>4, <1>5, <2>3, <3>1
  <2>5. /\ Good(u) /\ Seen(u) = Seen(s) /\ Len(u) = Len(s)
        /\ \A j \in 1..Len(s) : u[j] = IF j = i THEN x ELSE s[j]
    BY <1>1, <2>3, <2>4, ShrinkGood
  <2> HIDE DEF u
  <2>6. Clear(x)
    BY <1>4, <1>5, <2>4
  <2>7. \A j \in Seen(u) : Clear(u[j])
    <3> HIDE DEF Clear
    <3>1. \A j \in Seen(s) : j \in 1..Len(s)
      BY DEF Seen
    <3> QED BY <1>7, <2>5, <2>6, <3>1
  <2>10. CutsOnly(s, i, u)
    <3>1. Piece(x, s[i])
      BY <2>3, <2>4 DEF Piece
    <3>2. \A j \in Seen(s) : j \in 1..Len(s)
      BY DEF Seen
    <3> QED BY <2>5, <3>1, <3>2 DEF CutsOnly, Stays
  <2>8. CASE to = End(m)
    <3>1. t = u
      BY <1>11, <1>13, <2>1, <2>8
    <3> QED BY <2>5, <2>7, <2>10, <3>1 DEF t, from
  <2>9. CASE to # End(m)
    <3>1. t = vma_insert(u, n).vmas
      BY <1>11, <1>13, <2>1, <2>9
    <3>2. /\ End(m) - to \in Whole /\ Wrap(End(m) - to) = End(m) - to
          /\ to + (End(m) - to) <= UserTop
      <4>1. End(m) - to \in 0..UserTop /\ to + (End(m) - to) <= UserTop
        <5> HIDE DEF m, End
        <5> QED BY <1>2, <1>5, <1>8
      <4> QED BY <1>2, <1>8, <4>1, WholeSums, UserFits
    <3>3. /\ n \in Records /\ n.va = to /\ n.len = End(m) - to
          /\ n.type = m.type /\ n.perm = m.perm /\ ~ n.file
      <4> HIDE DEF m
      <4> QED BY <1>2, <3>2 DEF Vma, Records, Shapes
    <3>4. ~ (Len(u) = 1 /\ u[1].type = UNUSED)
      <4> SUFFICES ASSUME Len(u) = 1, u[1].type = UNUSED PROVE FALSE
        OBVIOUS
      <4>1. i = 1
        <5>1. Len(s) = 1 /\ i \in 1..Len(s)
          BY <1>1, <2>5
        <5> QED BY <5>1
      <4>2. u[1] = x
        BY <1>1, <2>5, <4>1
      <4> QED BY <1>1, <2>3, <4>2 DEF Used
    <3> DEFINE r == vma_insert(u, n).vmas
    <3>5. Good(r) /\ AddsOnly(u, n, r)
      <4> HIDE DEF n
      <4>1. n.type # UNUSED
        BY <1>1, <3>3 DEF Used
      <4> QED BY <2>5, <3>3, <3>4, <4>1, VmaInsertGood DEF AddsOnly
    <3> HIDE DEF n, r
    <3>6. Clear(n)
      BY <1>5, <3>3
    <3>7. \A j \in Seen(r) : Clear(r[j])
      <4> HIDE DEF Clear
      <4> QED BY <2>7, <3>5, <3>6 DEF AddsOnly
    <3>8. t = r
      BY <3>1 DEF r
    <3>9. CutsOnly(s, i, r)
      <4>1. Piece(n, s[i])
        <5>1. m.va <= to
          <6>1. m.va <= ROUNDDOWN(va) /\ ROUNDDOWN(va) \in Nat
            BY <1>2, <1>3, Rounding DEF Whole
          <6> HIDE DEF m
          <6> QED BY <1>2, <1>5, <6>1
        <5>2. End(n) = to + (End(m) - to)
          BY <3>3, RecordEnd
        <5>3. End(n) = End(m)
          <6> HIDE DEF m, End
          <6> QED BY <1>2, <1>5, <5>2
        <5> QED BY <3>3, <5>1, <5>3, <1>2 DEF Piece
      <4>2. ASSUME NEW k \in Seen(s), k # i PROVE Stays(s, k, r)
        BY <2>5, <3>5, <4>2 DEF AddsOnly, Stays, Seen
      <4>3. ASSUME NEW j \in Seen(r)
            PROVE  Piece(r[j], s[i]) \/ \E k \in Seen(s) : k # i /\ r[j] = s[k]
        <5>1. CASE r[j] = n
          BY <4>1, <5>1
        <5>2. ASSUME NEW k \in Seen(u), r[j] = u[k]
              PROVE  Piece(r[j], s[i]) \/ \E y \in Seen(s) : y # i /\ r[j] = s[y]
          BY <2>10, <5>2 DEF CutsOnly
        <5> QED BY <3>5, <5>1, <5>2 DEF AddsOnly
      <4> QED BY <4>2, <4>3 DEF CutsOnly
    <3> QED BY <3>5, <3>7, <3>8, <3>9 DEF t, from
  <2> QED BY <2>8, <2>9
<1> QED BY <1>9, <1>10, <1>11 DEF from

-----------------------------------------------------------------------------
(* The inductive invariant and the theorems. *)

IInv == Good(vmas) /\ status \in {"running", "panic", "null pointer"}

\* What Destroyed does to a sorted list: it stays sorted, and when the call succeeds
\* nothing that can be seen covers the range.
LEMMA DestroyedGood ==
  ASSUME NEW s, Good(s), NEW va \in Nat, NEW size \in Nat, UserTop + size <= WordSize
  PROVE  LET r == Destroyed(s, va, size)
         IN /\ Good(r.vmas) /\ r.status \in {"running", "panic", "null pointer"}
            /\ (ROUNDUP(va) < RangeEnd(va, size) /\ r.status = "running") =>
                 \A j \in Seen(r.vmas) :
                    End(r.vmas[j]) <= ROUNDUP(va) \/ RangeEnd(va, size) <= r.vmas[j].va
            /\ r.vmas = s \/ \E i \in Seen(s) : CutsOnly(s, i, r.vmas)
<1> DEFINE from == ROUNDUP(va)
           to == RangeEnd(va, size)
           found == vma_lookup(s, va)
           i == FirstIn(found)
           t == Cut(s, i, from, to)
           r == Destroyed(s, va, size)
<1>1. s \in Seq(Records) /\ Len(s) \in Nat
  BY LenProperties DEF Good
<1>2. CASE found = {} \/ to > End(s[i])
  <2>1. r = [status |-> "panic", vmas |-> s]
    BY <1>2 DEF Destroyed
  <2>2. r.status = "panic" /\ r.vmas = s
    BY <2>1
  <2> HIDE DEF r
  <2> QED BY <2>2 DEF r
<1>3. CASE ~ (found = {} \/ to > End(s[i]))
  <2>1. i \in Seen(s) /\ Contains(s[i], va)
    <3>1. found \in SUBSET Nat /\ \A k \in found : k \in Seen(s) /\ Contains(s[k], va)
      BY <1>1, VisibleIsSeen DEF vma_lookup, Seen
    <3> HIDE DEF found
    <3> QED BY <1>3, <3>1, LeastExists
  \* The sum does not wrap, as va lies in an area.
  <2>2. to \in Whole /\ ROUNDDOWN(va) <= to
    <3>1. i \in 1..Len(s)
      BY <2>1 DEF Seen
    <3>2. End(s[i]) \in Nat /\ End(s[i]) <= UserTop /\ va < End(s[i]) /\ UserTop \in Nat
      BY <1>1, <2>1, <3>1, Fields, VmaListAssumption DEF Contains
    <3>3. va + size \in Nat /\ va + size < WordSize /\ va <= va + size
      <4> HIDE DEF i, End
      <4> QED BY <3>2, VmaListAssumption
    <3>4. to = ROUNDDOWN(va + size)
      BY <3>3, Fits DEF RangeEnd
    <3>5. ROUNDDOWN(va) \in Whole /\ ROUNDDOWN(va) <= va /\ ROUNDDOWN(va) \in Nat
      BY Rounding DEF Whole
    <3>6. ROUNDDOWN(va) <= va + size
      <4> HIDE DEF from, to, i
      <4> QED BY <3>3, <3>5, Z3 DEF Whole
    <3> HIDE DEF to
    <3> QED BY <3>3, <3>4, <3>5, <3>6, Rounding
  <2>3. to <= End(s[i])
    <3>1. i \in 1..Len(s)
      BY <2>1 DEF Seen
    <3>2. End(s[i]) \in Nat /\ to \in Nat
      BY <1>1, <2>2, <3>1, Fields DEF Whole
    <3>3. ~ (to > End(s[i]))
      BY <1>3
    <3> HIDE DEF to, i, End
    <3> QED BY <3>2, <3>3
  <2>4. /\ Good(t)
        /\ from < to => \A j \in Seen(t) : End(t[j]) <= from \/ to <= t[j].va
        /\ CutsOnly(s, i, t)
    <3> HIDE DEF to, i, found
    <3> QED BY <2>1, <2>2, <2>3, CutGood
  <2>5. \/ r = [status |-> "null pointer", vmas |-> s]
        \/ r = [status |-> "running", vmas |-> t]
    BY <1>3 DEF Destroyed
  <2>6. CASE r = [status |-> "null pointer", vmas |-> s]
    <3> HIDE DEF r
    <3>1. r.status = "null pointer" /\ r.vmas = s
      BY <2>6
    <3> QED BY <3>1 DEF r
  <2>7. CASE r = [status |-> "running", vmas |-> t]
    <3>1. r.status = "running" /\ r.vmas = t
      BY <2>7
    <3> HIDE DEF r, t, i
    <3> QED BY <2>1, <2>4, <3>1 DEF r
  <2> QED BY <2>5, <2>6, <2>7
<1> QED BY <1>2, <1>3

\* The areas of a new environment.
LEMMA InitIInv == Init => IInv
<1> SUFFICES ASSUME Init PROVE IInv
  OBVIOUS
<1> DEFINE a == Vma("anon", UTEMP, PageSize, "r", FALSE)
           b == Vma("anon", UTEMP + PageSize, PageSize, "rw", FALSE)
           c == Rounded("binary", BinaryVa, BinarySize, "rw", TRUE)
           d == Vma("anon", StackVa, PageSize, "rw", FALSE)
           e == Vma(UNUSED, 0, 0, "none", FALSE)
           first == <<a, b, c, d>>
           rest == [k \in 1..(Slots - 4) |-> e]
           s == first \o rest
<1>1. /\ PageSize \in Nat \ {0} /\ UserTop \in Nat /\ BinaryVa \in Nat /\ BinarySize \in Nat
      /\ Slots \in Nat /\ Slots > 4
      /\ 3 * PageSize < BinaryVa /\ BinaryVa + BinarySize <= UserTop - 3 * PageSize
  BY VmaListAssumption
<1>2. /\ 0 \in Whole /\ PageSize \in Whole /\ PageSize + PageSize \in Whole
      /\ (PageSize + PageSize) + PageSize \in Whole /\ UserTop \in Whole
  <2>1. 0 = 0 * PageSize /\ PageSize = 1 * PageSize
    BY <1>1
  <2>2. 0 \in Whole /\ PageSize \in Whole
    BY <1>1, <2>1, Multiple
  <2> QED BY <2>2, WholeSums, VmaListAssumption DEF Whole
<1>3. (PageSize + PageSize) + PageSize = 3 * PageSize
  BY <1>1
<1>4. StackVa \in Whole
  <2>1. 3 * PageSize <= UserTop
    BY <1>1
  <2> QED BY <1>2, <1>3, <2>1, WholeSums DEF StackVa
<1>5. /\ c \in Records /\ c.va = ROUNDDOWN(BinaryVa) /\ End(c) = ROUNDUP(BinaryVa + BinarySize)
      /\ c.type = "binary"
  <2>1. "binary" \in Types /\ "rw" \in AllPerms /\ TRUE \in BOOLEAN
    BY DEF Types, AllPerms
  <2>0. BinaryVa + BinarySize <= UserTop
    BY <1>1
  <2>2. BinaryVa \in Nat /\ BinarySize \in Nat
    BY <1>1
  <2>3. c \in Records /\ c.type = "binary" /\ c.va = ROUNDDOWN(BinaryVa)
        /\ End(c) = ROUNDUP(BinaryVa + BinarySize)
    BY <2>0, <2>1, <2>2, RoundedRecord, Zenon
  <2> QED BY <2>3
<1>6. /\ a \in Records /\ b \in Records /\ d \in Records /\ e \in Records
      /\ a.va = PageSize /\ End(a) = PageSize + PageSize
      /\ b.va = PageSize + PageSize /\ End(b) = (PageSize + PageSize) + PageSize
      /\ d.va = StackVa /\ e.type = UNUSED
  <2>1. /\ PageSize + PageSize <= UserTop /\ (PageSize + PageSize) + PageSize <= UserTop
        /\ StackVa + PageSize <= UserTop /\ 0 + 0 <= UserTop
    BY <1>1 DEF StackVa
  <2>2. a \in Records /\ b \in Records /\ d \in Records /\ e \in Records
    BY <1>2, <1>4, <2>1 DEF Vma, Records, Shapes, Types, AllPerms, UTEMP
  <2>3. End(a) = a.va + a.len /\ End(b) = b.va + b.len
    BY <2>2, RecordEnd
  <2> QED BY <2>2, <2>3 DEF Vma, UTEMP
<1>7. 3 * PageSize <= c.va /\ End(c) <= StackVa
  <2>1. 3 * PageSize \in Whole /\ 3 * PageSize <= BinaryVa
    BY <1>1, <1>2, <1>3
  <2>2. 3 * PageSize <= ROUNDDOWN(BinaryVa)
    BY <1>1, <2>1, Rounding
  <2>3. BinaryVa + BinarySize \in Nat /\ BinaryVa + BinarySize <= StackVa
    BY <1>1 DEF StackVa
  <2>4. ROUNDUP(BinaryVa + BinarySize) <= StackVa
    <3>1. BinaryVa + BinarySize <= UserTop
      BY <1>1
    <3> QED BY <1>4, <2>3, <3>1, Rounding
  <2> QED BY <1>5, <2>2, <2>4
<1> HIDE DEF a, b, c, d, e
<1>8. /\ first \in Seq(Records) /\ Len(first) = 4
      /\ first[1] = a /\ first[2] = b /\ first[3] = c /\ first[4] = d
  BY <1>5, <1>6
<1>9. rest \in Seq(Records) /\ Len(rest) = Slots - 4 /\ \A k \in 1..(Slots - 4) : rest[k] = e
  BY <1>1, <1>6
<1> HIDE DEF first, rest
<1>10. /\ s \in Seq(Records) /\ Len(s) = Slots
       /\ \A k \in 1..Slots : s[k] = IF k <= 4 THEN first[k] ELSE rest[k - 4]
  <2>1. /\ s \in Seq(Records) /\ Len(s) = Len(first) + Len(rest)
        /\ \A k \in 1..(Len(first) + Len(rest)) :
             s[k] = IF k <= Len(first) THEN first[k] ELSE rest[k - Len(first)]
    BY <1>8, <1>9, ConcatProperties
  <2>2. Len(first) + Len(rest) = Slots
    BY <1>1, <1>8, <1>9
  <2> QED BY <1>8, <2>1, <2>2
<1>11. vmas = s /\ status = "running"
  BY DEF Init, InitialVmas, s, first, rest, a, b, c, d, e
<1> HIDE DEF s
<1>12. s[1] = a /\ s[2] = b /\ s[3] = c /\ s[4] = d /\ s[5] = e
  <2>1. 1 \in 1..Slots /\ 2 \in 1..Slots /\ 3 \in 1..Slots /\ 4 \in 1..Slots /\ 5 \in 1..Slots
    BY <1>1
  <2>2. 1 \in 1..(Slots - 4) /\ 5 - 4 = 1
    BY <1>1
  <2> QED BY <1>8, <1>9, <1>10, <2>1, <2>2
<1>13. ASSUME NEW k \in Seen(s) PROVE k \in 1..4
  <2>1. k \in 1..Slots /\ \A j \in 1..k : Used(s, j)
    BY <1>10 DEF Seen
  <2>2. ~ Used(s, 5)
    BY <1>6, <1>12 DEF Used
  <2>3. 5 \notin 1..k
    BY <2>1, <2>2
  <2> QED BY <1>1, <2>1, <2>3
<1>14. \A j, k \in 1..4 : j < k => End(s[j]) <= s[k].va
  <2>1. /\ c.va \in Nat /\ End(c) \in Nat /\ c.va <= End(c) /\ StackVa \in Nat
    BY <1>4, <1>5, RecordEnd DEF Whole
  <2> HIDE DEF End
  <2>2. End(a) <= b.va /\ End(a) <= c.va /\ End(a) <= d.va
    BY <1>1, <1>6, <1>7, <2>1
  <2>3. End(b) <= c.va /\ End(b) <= d.va /\ End(c) <= d.va
    BY <1>1, <1>6, <1>7, <2>1
  <2>4. \A j, k \in 1..4 : j < k => \/ (j = 1 /\ k \in {2, 3, 4})
                                   \/ (j = 2 /\ k \in {3, 4})
                                   \/ (j = 3 /\ k = 4)
    OBVIOUS
  <2> QED BY <1>12, <2>2, <2>3, <2>4
<1> QED BY <1>1, <1>10, <1>11, <1>13, <1>14 DEF IInv, Good, Sorted

LEMMA NextIInv ==
  ASSUME NoWrap, IInv, [Next]_vars
  PROVE  IInv'
<1>1. ASSUME NEW size \in CreateSizes, NEW perm \in Perms, sys_vma_create(size, perm)
      PROVE  IInv'
  <2>1. size \in 0..UserTop
    BY VmaListAssumption DEF NoWrap
  <2>2. CASE NoNeighbour
    BY <1>1, <2>2 DEF sys_vma_create, IInv
  <2>3. CASE ~ NoNeighbour
    <3>1. vmas' = Created(vmas, size, perm).vmas /\ status' = status
      BY <1>1, <2>3 DEF sys_vma_create
    <3>2. Good(Created(vmas, size, perm).vmas)
      BY <2>1, <2>3, CreatedGood DEF IInv, NoNeighbour
    <3> QED BY <3>1, <3>2 DEF IInv
  <2> QED BY <2>2, <2>3
<1>2. ASSUME NEW va \in 0..(WordSize - 1), NEW size \in DestroySizes, sys_vma_destroy(va, size)
      PROVE  IInv'
  <2>1. va \in Nat /\ size \in Nat /\ UserTop + size <= WordSize
    BY VmaListAssumption DEF NoWrap
  <2> DEFINE r == Destroyed(vmas, va, size)
  <2>2. Good(r.vmas) /\ r.status \in {"running", "panic", "null pointer"}
    BY <2>1, DestroyedGood DEF IInv
  <2>3. vmas' = r.vmas /\ status' = r.status
    BY <1>2 DEF sys_vma_destroy
  <2> HIDE DEF r
  <2> QED BY <2>2, <2>3 DEF IInv
<1>3. CASE UNCHANGED vars
  BY <1>3 DEF IInv, vars
<1> QED BY <1>1, <1>2, <1>3 DEF Next, Create, Destroy

\* As long as no sum of the calls wraps, the list is well formed and what can be seen
\* of it is sorted, at every step.
THEOREM Invariance == ASSUME NoWrap PROVE Spec => []IInv
<1>1. IInv /\ [Next]_vars => IInv'
  BY NextIInv
<1> QED BY <1>1, InitIInv, PTL DEF Spec

\* The records hold whole pages and valid values, and there are never more of them
\* than an environment has, as long as no sum of the calls wraps.
THEOREM TypeCorrect == ASSUME NoWrap PROVE Spec => []TypeOK
<1>1. IInv => TypeOK
  <2> SUFFICES ASSUME IInv PROVE TypeOK
    OBVIOUS
  <2>1. /\ vmas \in Seq(Records) /\ Len(vmas) \in 1..Slots
        /\ DOMAIN vmas = 1..Len(vmas)
    BY LenProperties DEF IInv, Good
  <2>2. ASSUME NEW i \in DOMAIN vmas
        PROVE  /\ vmas[i] \in Shapes
               /\ vmas[i].va \in 0..(WordSize - 1) /\ vmas[i].len \in 0..(WordSize - 1)
    <3>1. vmas[i] \in Records
      BY <2>1, ElementOfSeq
    <3>2. vmas[i].va \in Nat /\ vmas[i].len \in Nat /\ vmas[i].va + vmas[i].len <= UserTop
      BY <3>1, RecordEnd
    <3> QED BY <3>1, <3>2, VmaListAssumption DEF Records
  <2> QED BY <2>1, <2>2 DEF TypeOK, IInv, Shapes, Types, AllPerms, Whole
<1> QED BY <1>1, Invariance, PTL

\* However areas are created, cut and destroyed, the areas a search sees are in
\* address order and disjoint (vma.c:121), unless the end of a range wraps.
THEOREM VisibleSortedCorrect == ASSUME NoWrap PROVE Spec => []VisibleSorted
<1>1. IInv => VisibleSorted
  BY VisibleIsSeen DEF IInv, Good, Sorted, VisibleSorted
<1> QED BY <1>1, Invariance, PTL

\* As long as no sum of the calls wraps, in every reachable state a call of
\* sys_vma_destroy that returns leaves no area that can be seen over the pages it was
\* given (syscall.c:131).
THEOREM DestroyUncoversCorrect == ASSUME NoWrap PROVE Spec => []DestroyUncovers
<1>1. IInv => DestroyUncovers
  <2> SUFFICES ASSUME IInv, NEW va \in 0..(WordSize - 1), NEW size \in DestroySizes,
                      ROUNDUP(va) < RangeEnd(va, size),
                      Destroyed(vmas, va, size).status = "running",
                      NEW i \in Visible(Destroyed(vmas, va, size).vmas)
               PROVE  \/ End(Destroyed(vmas, va, size).vmas[i]) <= ROUNDUP(va)
                      \/ RangeEnd(va, size) <= Destroyed(vmas, va, size).vmas[i].va
    BY DEF DestroyUncovers
  <2> DEFINE r == Destroyed(vmas, va, size)
  <2>1. va \in Nat /\ size \in Nat /\ UserTop + size <= WordSize
    BY VmaListAssumption DEF NoWrap
  <2>2. /\ Good(r.vmas)
        /\ (ROUNDUP(va) < RangeEnd(va, size) /\ r.status = "running") =>
             \A j \in Seen(r.vmas) :
                End(r.vmas[j]) <= ROUNDUP(va) \/ RangeEnd(va, size) <= r.vmas[j].va
    BY <2>1, DestroyedGood DEF IInv
  <2>3. Visible(r.vmas) = Seen(r.vmas)
    BY <2>2, VisibleIsSeen DEF Good
  <2> HIDE DEF r
  <2> QED BY <2>2, <2>3 DEF r
<1> QED BY <1>1, Invariance, PTL
-----------------------------------------------------------------------------
(* The refinement of AreaSet. *)

SeenAreas(s) == {s[i] : i \in Seen(s)}

\* Areas in address order do not overlap.
LEMMA SortedApart ==
  ASSUME NEW s \in Seq(Records), Sorted(s)
  PROVE  Areas!Disjoint(SeenAreas(s))
<1> SUFFICES ASSUME NEW i \in Seen(s), NEW j \in Seen(s), s[i] # s[j]
             PROVE  Areas!Apart(s[i], s[j])
  BY DEF Areas!Disjoint, SeenAreas
<1>1. i \in Nat /\ j \in Nat /\ i # j
  BY DEF Seen
<1>4. End(s[i]) = s[i].va + s[i].len /\ End(s[j]) = s[j].va + s[j].len
  BY Fields DEF Seen
<1>2. CASE i < j
  BY <1>2, <1>4 DEF Sorted, Areas!Apart
<1>3. CASE j < i
  BY <1>3, <1>4 DEF Sorted, Areas!Apart
<1> QED BY <1>1, <1>2, <1>3

\* sys_vma_create adds one area, or none that is new.
LEMMA AddsIsCreate ==
  ASSUME NEW s, NEW t, NEW m, AddsOnly(s, m, t)
  PROVE  SeenAreas(t) = SeenAreas(s) \/ (m \in SeenAreas(t) \ SeenAreas(s)
                                         /\ SeenAreas(t) = SeenAreas(s) \cup {m})
<1>1. SeenAreas(s) \subseteq SeenAreas(t)
  BY DEF AddsOnly, Stays, SeenAreas
<1>2. SeenAreas(t) \subseteq SeenAreas(s) \cup {m}
  BY DEF AddsOnly, SeenAreas
<1> QED BY <1>1, <1>2

\* sys_vma_destroy leaves all areas but one as they are, and pieces of that one.
LEMMA CutsIsDestroy ==
  ASSUME NEW s \in Seq(Records), NEW i \in Seen(s), NEW t \in Seq(Records), CutsOnly(s, i, t)
  PROVE  /\ SeenAreas(s) \ {s[i]} \subseteq SeenAreas(t)
         /\ \A n \in SeenAreas(t) \ (SeenAreas(s) \ {s[i]}) : Areas!Within(n, s[i])
<1>1. SeenAreas(s) \ {s[i]} \subseteq SeenAreas(t)
  BY DEF CutsOnly, Stays, SeenAreas
<1>2. ASSUME NEW j \in Seen(t), t[j] \notin SeenAreas(s) \ {s[i]}
      PROVE  Piece(t[j], s[i]) \/ t[j] = s[i]
  BY <1>2 DEF CutsOnly, SeenAreas
<1>3. Areas!Within(s[i], s[i])
  <2>1. i \in 1..Len(s)
    BY DEF Seen
  <2>2. s[i].va \in Nat /\ s[i].len \in Nat
    BY <2>1, Fields
  <2> QED BY <2>2 DEF Areas!Within
<1>4. ASSUME NEW n \in Records, Piece(n, s[i]) PROVE Areas!Within(n, s[i])
  <2>1. End(n) = n.va + n.len
    BY RecordEnd
  <2>2. End(s[i]) = s[i].va + s[i].len
    BY Fields DEF Seen
  <2> QED BY <1>4, <2>1, <2>2 DEF Areas!Within, Piece
<1>5. \A j \in Seen(t) : t[j] \in Records
  BY Fields DEF Seen
<1> QED BY <1>1, <1>2, <1>3, <1>4, <1>5 DEF SeenAreas

-----------------------------------------------------------------------------
\* What is seen of a good list is what its environment can use of it.
LEMMA SeenIsVisible ==
  ASSUME NEW s, Good(s)
  PROVE  VisibleAreas(s) = SeenAreas(s)
BY VisibleIsSeen DEF Good, VisibleAreas, SeenAreas

\* A step from one good list to another, as the environment sees it.
LEMMA NextAreas ==
  ASSUME NoWrap, IInv, IInv', [Next]_vars
  PROVE  [Areas!Next]_(VisibleAreas(vmas))
<1> SUFFICES Areas!Next \/ VisibleAreas(vmas)' = VisibleAreas(vmas)
  BY Zenon
<1>1. /\ VisibleAreas(vmas) = SeenAreas(vmas) /\ VisibleAreas(vmas)' = SeenAreas(vmas)'
      /\ vmas \in Seq(Records) /\ vmas' \in Seq(Records)
  <2>1. Good(vmas) /\ Good(vmas')
    BY DEF IInv
  <2>2. VisibleAreas(vmas') = SeenAreas(vmas')
    BY <2>1, SeenIsVisible
  <2> QED BY <2>1, <2>2, SeenIsVisible DEF VisibleAreas, SeenAreas, Good
<1>2. Areas!Disjoint(VisibleAreas(vmas)')
  <2>1. vmas' \in Seq(Records) /\ Sorted(vmas')
    BY DEF IInv, Good
  <2>2. Areas!Disjoint(SeenAreas(vmas'))
    BY <2>1, SortedApart
  <2> QED BY <1>1, <2>2
<1>3. ASSUME NEW m, AddsOnly(vmas, m, vmas')
      PROVE  Areas!Next \/ VisibleAreas(vmas)' = VisibleAreas(vmas)
  BY <1>1, <1>2, <1>3, AddsIsCreate DEF Areas!Next, Areas!Create
<1>4. ASSUME NEW i \in Seen(vmas), CutsOnly(vmas, i, vmas')
      PROVE  Areas!Next
  <2>1. vmas[i] \in VisibleAreas(vmas)
    BY <1>1 DEF SeenAreas
  <2> QED BY <1>1, <1>2, <1>4, <2>1, CutsIsDestroy DEF Areas!Next, Areas!Destroy
<1>5. CASE UNCHANGED vmas
  BY <1>5 DEF VisibleAreas, Visible
<1>6. ASSUME NEW size \in CreateSizes, NEW perm \in Perms, sys_vma_create(size, perm)
      PROVE  UNCHANGED vmas \/ \E m : AddsOnly(vmas, m, vmas')
  <2>1. size \in 0..UserTop
    BY VmaListAssumption DEF NoWrap
  <2> QED BY <1>6, <2>1, CreatedGood DEF sys_vma_create, NoNeighbour, IInv
<1>7. ASSUME NEW va \in 0..(WordSize - 1), NEW size \in DestroySizes, sys_vma_destroy(va, size)
      PROVE  UNCHANGED vmas \/ \E i \in Seen(vmas) : CutsOnly(vmas, i, vmas')
  <2>1. va \in Nat /\ size \in Nat /\ UserTop + size <= WordSize
    BY VmaListAssumption DEF NoWrap
  <2>2. \/ Destroyed(vmas, va, size).vmas = vmas
        \/ \E i \in Seen(vmas) : CutsOnly(vmas, i, Destroyed(vmas, va, size).vmas)
    BY <2>1, DestroyedGood DEF IInv
  <2>3. vmas' = Destroyed(vmas, va, size).vmas
    BY <1>7 DEF sys_vma_destroy
  <2> QED BY <2>2, <2>3
<1> QED BY <1>3, <1>4, <1>5, <1>6, <1>7 DEF Next, Create, Destroy, vars

\* As long as no sum of the calls wraps, however its records are linked, cut and reused,
\* the list of vma.c is to its environment a set of disjoint areas: sys_vma_create adds
\* one and changes no other, sys_vma_destroy takes pieces of one and touches no other.
THEOREM Refinement == ASSUME NoWrap PROVE Spec => ImplementsAreaSet
<1>1. Init => Areas!Init
  BY DEF Init, Areas!Init
<1>2. IInv /\ IInv' /\ [Next]_vars => [Areas!Next]_(VisibleAreas(vmas))
  BY NextAreas
<1> QED BY <1>1, <1>2, Invariance, PTL DEF Spec, ImplementsAreaSet, Areas!Spec
=============================================================================
