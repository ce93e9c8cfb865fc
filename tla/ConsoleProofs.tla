--------------------------- MODULE ConsoleProofs ---------------------------
(***************************************************************************)
(* Theorems about ConsoleInput for every size of the ring buffer, every    *)
(* set of keys and any number of bytes the keyboard keeps: whenever the    *)
(* driver has read everything its flags are those of the keys, and the     *)
(* console implements the queue of InputQueue.                             *)
(***************************************************************************)
EXTENDS ConsoleInput, SequenceTheorems, TLAPS

-----------------------------------------------------------------------------
(* The bytes on their way.  After(f, b) and Char(f, b) are what the driver   *)
(* makes of byte b when its flags are f.  They explain what the user typed:  *)
(* flags[i] are the flags before byte i is read, and count[i] characters     *)
(* have been given by then.                                                  *)

After(f, b) == kbd_proc_data(f, b).shift
Char(f, b) == kbd_proc_data(f, b).c
Given(t, f, b) == IF Char(f, b) = NO THEN t ELSE Append(t, Char(f, b))

Trace(first, w, last, t, flags, count) ==
    /\ DOMAIN flags = 1..(Len(w) + 1) /\ count \in [1..(Len(w) + 1) -> Nat]
    /\ flags[1] = first /\ flags[Len(w) + 1] = last
    /\ count[1] = 0 /\ count[Len(w) + 1] = Len(t)
    /\ \A i, j \in 1..(Len(w) + 1) : i <= j => count[i] <= count[j]
    /\ \A i \in 1..Len(w) :
         /\ flags[i + 1] = After(flags[i], w[i])
         /\ Char(flags[i], w[i]) = NO => count[i + 1] = count[i]
         /\ Char(flags[i], w[i]) # NO => /\ count[i + 1] = count[i] + 1
                                         /\ t[count[i + 1]] = Char(flags[i], w[i])

\* Reading the bytes w turns the flags from first to last and gives t.
Explains(first, w, last, t) == \E flags, count : Trace(first, w, last, t, flags, count)

\* Nothing to read, nothing changes.
LEMMA ExplainsNone ==
  /\ \A f : Explains(f, <<>>, f, <<>>)
  /\ \A f, g, t : t \in Seq(Nat) /\ Explains(f, <<>>, g, t) => f = g /\ t = <<>>
<1>1. ASSUME NEW f PROVE Explains(f, <<>>, f, <<>>)
  <2> DEFINE flags == [i \in 1..1 |-> f]
             count == [i \in 1..1 |-> 0]
  <2>1. Trace(f, <<>>, f, <<>>, flags, count)
    BY DEF Trace
  <2> QED BY <2>1 DEF Explains
<1>2. ASSUME NEW f, NEW g, NEW t \in Seq(Nat), Explains(f, <<>>, g, t) PROVE f = g /\ t = <<>>
  <2>1. PICK flags, count : Trace(f, <<>>, g, t, flags, count)
    BY <1>2 DEF Explains
  <2>2. Len(<<>>) = 0
    OBVIOUS
  <2>3. f = g /\ Len(t) = 0
    BY <2>1, <2>2 DEF Trace
  <2> QED BY <2>3, EmptySeq
<1> QED BY <1>1, <1>2

\* One more byte is sent.
LEMMA ExplainsAppend ==
  ASSUME NEW w \in Seq(Nat), NEW t \in Seq(Nat), NEW first, NEW last, NEW b \in Nat,
         Explains(first, w, last, t), Char(last, b) \in Nat
  PROVE  Explains(first, Append(w, b), After(last, b), Given(t, last, b))
<1> DEFINE n == Len(w) + 1
           c == Char(last, b)
           v == Append(w, b)
           u == Given(t, last, b)
           more == IF c = NO THEN 0 ELSE 1
<1>1. PICK flags, count : Trace(first, w, last, t, flags, count)
  BY DEF Explains
<1>2. /\ Len(w) \in Nat /\ Len(v) = n /\ v[n] = b /\ \A i \in 1..Len(w) : v[i] = w[i]
      /\ Len(t) \in Nat
  BY AppendProperties, LenProperties
<1>3. /\ Len(u) = Len(t) + more
      /\ c # NO => u[Len(t) + 1] = c
      /\ \A i \in 1..Len(t) : u[i] = t[i]
  BY AppendProperties DEF Given
<1> DEFINE flags2 == [i \in 1..(n + 1) |-> IF i <= n THEN flags[i] ELSE After(last, b)]
           count2 == [i \in 1..(n + 1) |-> IF i <= n THEN count[i] ELSE Len(u)]
<1>4. /\ count \in [1..n -> Nat] /\ DOMAIN flags = 1..n
      /\ flags[1] = first /\ flags[n] = last /\ count[1] = 0 /\ count[n] = Len(t)
      /\ \A i, j \in 1..n : i <= j => count[i] <= count[j]
  BY <1>1 DEF Trace
<1>5. /\ n \in Nat /\ n > 0
      /\ \A i \in 1..n : flags2[i] = flags[i] /\ count2[i] = count[i]
      /\ flags2[n + 1] = After(last, b) /\ count2[n + 1] = Len(u)
  BY <1>2
<1>6. Len(u) \in Nat /\ \A i \in 1..n : count[i] <= Len(t) /\ count[i] <= Len(u)
  <2>1. Len(u) \in Nat /\ Len(t) <= Len(u)
    <3>1. more \in {0, 1}
      OBVIOUS
    <3> HIDE DEF u, more
    <3> QED BY <1>2, <1>3, <3>1
  <2>2. ASSUME NEW i \in 1..n PROVE count[i] <= Len(t) /\ count[i] \in Nat
    <3>1. i <= n /\ n \in 1..n
      BY <1>5
    <3> HIDE DEF n
    <3> QED BY <1>4, <3>1
  <2> HIDE DEF u, n
  <2> QED BY <1>2, <2>1, <2>2
<1>7. count2 \in [1..(n + 1) -> Nat] /\ DOMAIN flags2 = 1..(n + 1)
  BY <1>4, <1>6
<1> HIDE DEF flags2, count2, u, v, n
<1>8. ASSUME NEW i \in 1..(n + 1), NEW j \in 1..(n + 1), i <= j PROVE count2[i] <= count2[j]
  <2>1. CASE j \in 1..n
    <3>1. i \in 1..n
      BY <1>5, <1>8, <2>1
    <3> QED BY <1>4, <1>5, <1>8, <2>1, <3>1
  <2>2. CASE j = n + 1
    <3>1. CASE i \in 1..n
      BY <1>5, <1>6, <2>2, <3>1
    <3>2. CASE i = n + 1
      BY <1>5, <1>6, <2>2, <3>2
    <3> QED BY <1>5, <3>1, <3>2
  <2> QED BY <1>5, <2>1, <2>2
<1>9. ASSUME NEW i \in 1..n
      PROVE  /\ flags2[i + 1] = After(flags2[i], v[i])
             /\ Char(flags2[i], v[i]) = NO => count2[i + 1] = count2[i]
             /\ Char(flags2[i], v[i]) # NO => /\ count2[i + 1] = count2[i] + 1
                                              /\ u[count2[i + 1]] = Char(flags2[i], v[i])
  <2>1. CASE i = n
    <3>1. flags2[i] = last /\ v[i] = b /\ count2[i] = Len(t)
      BY <1>2, <1>4, <1>5, <2>1
    <3>2. Char(flags2[i], v[i]) = c /\ flags2[i + 1] = After(flags2[i], v[i]) /\ count2[i + 1] = Len(u)
      BY <1>5, <2>1, <3>1
    <3>3. CASE c = NO
      BY <1>2, <1>3, <3>1, <3>2, <3>3
    <3>4. CASE c # NO
      BY <1>2, <1>3, <3>1, <3>2, <3>4
    <3> QED BY <3>2, <3>3, <3>4
  <2>2. CASE i # n
    <3>1. i \in 1..Len(w) /\ i + 1 \in 1..n
      BY <1>2, <1>5, <2>2 DEF n
    <3>2. /\ flags2[i] = flags[i] /\ v[i] = w[i] /\ count2[i] = count[i]
          /\ flags2[i + 1] = flags[i + 1] /\ count2[i + 1] = count[i + 1]
      BY <1>2, <1>5, <3>1
    <3>3. /\ flags[i + 1] = After(flags[i], w[i])
          /\ Char(flags[i], w[i]) = NO => count[i + 1] = count[i]
          /\ Char(flags[i], w[i]) # NO => /\ count[i + 1] = count[i] + 1
                                          /\ t[count[i + 1]] = Char(flags[i], w[i])
      BY <1>1, <3>1 DEF Trace
    <3>4. Char(flags[i], w[i]) # NO => count[i + 1] \in 1..Len(t)
      <4>1. count[i] \in Nat /\ count[i + 1] <= Len(t)
        BY <1>4, <1>5, <1>6, <3>1
      <4> QED BY <1>2, <3>3, <4>1
    <3> QED BY <1>3, <3>2, <3>3, <3>4
  <2> QED BY <2>1, <2>2
<1>10. Trace(first, v, After(last, b), u, flags2, count2)
  <2>1. Len(v) = n /\ 1 \in 1..n
    BY <1>2, <1>5 DEF n
  <2> QED BY <1>4, <1>5, <1>7, <1>8, <1>9, <2>1 DEF Trace
<1> QED BY <1>10 DEF Explains, u, v

\* A byte is read.
LEMMA ExplainsRead ==
  ASSUME NEW w \in Seq(Nat), NEW t \in Seq(Nat), NEW first, NEW last,
         Explains(first, w, last, t), w # <<>>
  PROVE  LET c == Char(first, Head(w))
         IN /\ c = NO => Explains(After(first, Head(w)), Tail(w), last, t)
            /\ c # NO => /\ t # <<>> /\ Head(t) = c
                         /\ Explains(After(first, Head(w)), Tail(w), last, Tail(t))
<1> DEFINE c == Char(first, Head(w))
           v == Tail(w)
           n == Len(w)
           u == IF c = NO THEN t ELSE Tail(t)
           less == IF c = NO THEN 0 ELSE 1
<1>1. PICK flags, count : Trace(first, w, last, t, flags, count)
  BY DEF Explains
<1>2. /\ n \in Nat /\ n > 0 /\ w[1] = Head(w)
      /\ v \in Seq(Nat) /\ Len(v) = n - 1
      /\ \A i \in 1..(n - 1) : v[i] = w[i + 1]
  BY HeadTailProperties, LenProperties, EmptySeq
<1>3. /\ count \in [1..(n + 1) -> Nat] /\ DOMAIN flags = 1..(n + 1)
      /\ flags[1] = first /\ flags[n + 1] = last /\ count[1] = 0 /\ count[n + 1] = Len(t)
      /\ \A i, j \in 1..(n + 1) : i <= j => count[i] <= count[j]
      /\ \A i \in 1..n :
           /\ flags[i + 1] = After(flags[i], w[i])
           /\ Char(flags[i], w[i]) = NO => count[i + 1] = count[i]
           /\ Char(flags[i], w[i]) # NO => /\ count[i + 1] = count[i] + 1
                                           /\ t[count[i + 1]] = Char(flags[i], w[i])
  BY <1>1 DEF Trace
<1>4. /\ flags[2] = After(first, Head(w)) /\ count[2] = less
      /\ c # NO => t[1] = c
  <2>1. 1 \in 1..n /\ 1 + 1 = 2 /\ 0 + 1 = 1
    BY <1>2
  <2> QED BY <1>2, <1>3, <2>1
<1>5. less \in {0, 1} /\ less <= Len(t)
  <2>1. 2 \in 1..(n + 1) /\ n + 1 \in 1..(n + 1) /\ 2 <= n + 1
    BY <1>2
  <2> HIDE DEF n, less
  <2>2. less <= Len(t)
    BY <1>3, <1>4, <2>1
  <2> QED BY <2>2 DEF less
<1>6. /\ Len(u) = Len(t) - less
      /\ \A i \in 1..Len(u) : u[i] = t[i + less]
      /\ c # NO => t # <<>> /\ Head(t) = c
  <2>1. CASE c = NO
    BY <2>1, LenProperties
  <2>2. CASE c # NO
    <3>1. t # <<>>
      BY <1>5, <2>2
    <3>2. Head(t) = t[1] /\ Len(Tail(t)) = Len(t) - 1 /\ \A i \in 1..Len(Tail(t)) : Tail(t)[i] = t[i + 1]
      BY <3>1, HeadTailProperties
    <3> QED BY <1>4, <2>2, <3>1, <3>2
  <2> QED BY <2>1, <2>2
<1> DEFINE flags2 == [i \in 1..n |-> flags[i + 1]]
           count2 == [i \in 1..n |-> count[i + 1] - less]
<1>7. \A i \in 1..n : count[i + 1] \in Nat /\ less <= count[i + 1] /\ count[i + 1] <= Len(t)
  <2> SUFFICES ASSUME NEW i \in 1..n
               PROVE  count[i + 1] \in Nat /\ less <= count[i + 1] /\ count[i + 1] <= Len(t)
    OBVIOUS
  <2>1. /\ i + 1 \in 1..(n + 1) /\ 2 \in 1..(n + 1) /\ n + 1 \in 1..(n + 1)
        /\ 2 <= i + 1 /\ i + 1 <= n + 1
    BY <1>2
  <2> HIDE DEF n, less
  <2> QED BY <1>3, <1>4, <2>1
<1>8. /\ \A i \in 1..n : flags2[i] = flags[i + 1] /\ count2[i] = count[i + 1] - less
      /\ count2 \in [1..n -> Nat] /\ DOMAIN flags2 = 1..n
  <2> HIDE DEF n, less
  <2> QED BY <1>5, <1>7
<1> HIDE DEF flags2, count2, less, u, v
<1>9. \A i, j \in 1..n : i <= j => count2[i] <= count2[j]
  <2> SUFFICES ASSUME NEW i \in 1..n, NEW j \in 1..n, i <= j PROVE count2[i] <= count2[j]
    OBVIOUS
  <2>1. i + 1 \in 1..(n + 1) /\ j + 1 \in 1..(n + 1) /\ i + 1 <= j + 1
    BY <1>2
  <2> HIDE DEF n
  <2>2. count[i + 1] <= count[j + 1]
    BY <1>3, <2>1
  <2> QED BY <1>5, <1>7, <1>8, <2>2
<1>10. ASSUME NEW i \in 1..(n - 1)
       PROVE  /\ flags2[i + 1] = After(flags2[i], v[i])
              /\ Char(flags2[i], v[i]) = NO => count2[i + 1] = count2[i]
              /\ Char(flags2[i], v[i]) # NO => /\ count2[i + 1] = count2[i] + 1
                                               /\ u[count2[i + 1]] = Char(flags2[i], v[i])
  <2> DEFINE k == i + 1
  <2>1. k \in 1..n /\ i \in 1..n /\ v[i] = w[k]
    BY <1>2
  <2> HIDE DEF n
  <2>2. /\ flags2[i] = flags[k] /\ count2[i] = count[k] - less
        /\ flags2[k] = flags[k + 1] /\ count2[k] = count[k + 1] - less
    BY <1>8, <2>1
  <2>3. /\ flags[k + 1] = After(flags[k], w[k])
        /\ Char(flags[k], w[k]) = NO => count[k + 1] = count[k]
        /\ Char(flags[k], w[k]) # NO => /\ count[k + 1] = count[k] + 1
                                        /\ t[count[k + 1]] = Char(flags[k], w[k])
    BY <1>3, <2>1
  <2>4. count[k] \in Nat /\ less <= count[k] /\ count[k + 1] <= Len(t)
    BY <1>7, <2>1
  <2> HIDE DEF k
  <2>5. ASSUME Char(flags[k], w[k]) # NO
        PROVE  count2[k] = count2[i] + 1 /\ u[count2[k]] = Char(flags[k], w[k])
    <3>0. /\ count2[i] = count[k] - less /\ count2[k] = count[k + 1] - less
          /\ count[k + 1] = count[k] + 1 /\ count[k] \in Nat /\ less \in {0, 1}
      BY <1>5, <2>2, <2>3, <2>4, <2>5
    <3>1. count2[k] = count2[i] + 1
      BY <3>0
    <3>2. count2[k] \in 1..Len(u) /\ count2[k] + less = count[k + 1]
      <4>1. Len(u) = Len(t) - less /\ count[k + 1] <= Len(t) /\ less <= count[k] /\ Len(t) \in Nat
        BY <1>6, <2>4, LenProperties
      <4>2. count2[k] = count[k] + 1 - less /\ count[k] + 1 <= Len(t)
        BY <3>0, <4>1
      <4>3. count2[k] \in Nat /\ 1 <= count2[k] /\ count2[k] <= Len(u)
        <5>1. ASSUME NEW a \in Nat, NEW b \in Nat, NEW d \in {0, 1}, d <= a, a + 1 <= b
              PROVE  a + 1 - d \in Nat /\ 1 <= a + 1 - d /\ a + 1 - d <= b - d
          BY <5>1
        <5> QED BY <3>0, <4>1, <4>2, <5>1
      <4> QED BY <3>0, <4>1, <4>3
    <3> QED BY <1>6, <2>3, <2>5, <3>1, <3>2
  <2> QED BY <2>1, <2>2, <2>3, <2>5 DEF k
<1>11. Trace(After(first, Head(w)), v, last, u, flags2, count2)
  <2>1. Len(v) + 1 = n /\ Len(v) = n - 1 /\ 1 \in 1..n /\ n \in 1..n /\ 1 + 1 = 2
    BY <1>2
  <2> HIDE DEF n
  <2>2. count2[1] = 0 /\ count2[n] = Len(u)
    <3>1. count2[1] = count[2] - less /\ count2[n] = count[n + 1] - less
      BY <1>8, <2>1
    <3>2. count[2] = less /\ count[n + 1] = Len(t) /\ less \in {0, 1}
      BY <1>3, <1>4, <1>5
    <3> QED BY <1>6, <3>1, <3>2
  <2>3. flags2[1] = After(first, Head(w)) /\ flags2[n] = last
    BY <1>3, <1>4, <1>8, <2>1
  <2> QED BY <1>8, <1>9, <1>10, <2>1, <2>2, <2>3 DEF Trace
<1>12. Explains(After(first, Head(w)), v, last, u)
  BY <1>11 DEF Explains
<1> QED BY <1>6, <1>12 DEF u, v

-----------------------------------------------------------------------------
(* The keys. *)

Plain == Modifiers \cup Locks
Escaped(f) == f \cup {"E0ESC"}

\* The flags and the character when the key with this code is pressed.
Turned(f, code) == Toggled(f \cup shiftcode(code), togglecode(code))
CharOf(g, code) == IF "CAPSLOCK" \in g THEN SwapCase(charcode(g, code)) ELSE charcode(g, code)

\* The last byte of a key that is pressed, and that byte when it is released.
KeyBytes(d, r) == d \in 0..127 /\ d # \h60 /\ r = d + \h80

\* What the driver makes of the bytes of a key, with and without an escape before them.
ReadRight(f, d, r) ==
    /\ After(f, \hE0) = Escaped(f) /\ Char(f, \hE0) = NO
    /\ After(f, d) = Turned(f, d) /\ Char(f, d) = CharOf(Turned(f, d), d)
    /\ After(Escaped(f), d) = Turned(f, r)
    /\ Char(Escaped(f), d) = CharOf(Turned(f, r), r)
    /\ After(f, r) = f \ shiftcode(d) /\ Char(f, r) = NO
    /\ After(Escaped(f), r) = f \ shiftcode(r)
    /\ Char(Escaped(f), r) = NO

LEMMA BytesRead ==
  ASSUME NEW f \in SUBSET Plain, NEW d, NEW r, KeyBytes(d, r)
  PROVE  ReadRight(f, d, r)
<1> DEFINE e == Escaped(f)
<1>0. d \in 0..127 /\ d # \h60 /\ r = d + \h80
  BY DEF KeyBytes
<1>1. "E0ESC" \notin f /\ "E0ESC" \in e /\ e \ {"E0ESC"} = f /\ f \ {"E0ESC"} = f
  BY DEF Plain, Modifiers, Locks, Escaped
<1>2. /\ d # \hE0 /\ d < 128 /\ ~ (d >= 128) /\ r # \hE0 /\ r >= 128
      /\ (r) % 128 = d /\ ~ (r < 128) /\ r = d + 128
  BY <1>0, SMT
<1>3. After(f, \hE0) = e /\ Char(f, \hE0) = NO
  BY DEF After, Char, kbd_proc_data, Escaped
<1> HIDE DEF e
<1>4. /\ Pressed(f, d) = [flags |-> Turned(f, d), data |-> d]
      /\ Pressed(e, d) = [flags |-> Turned(f, r), data |-> r]
  BY <1>1, <1>2, Zenon DEF Pressed, Turned
<1>5. ASSUME NEW s, NEW g, NEW code, Pressed(s, d) = [flags |-> g, data |-> code]
      PROVE  After(s, d) = g /\ Char(s, d) = CharOf(g, code)
  <2>1. Pressed(s, d).flags = g /\ Pressed(s, d).data = code
    BY <1>5
  <2> QED BY <1>2, <2>1, Zenon DEF After, Char, CharOf, kbd_proc_data
<1>6. ASSUME NEW s, NEW g, Released(s, r) = g
      PROVE  After(s, r) = g /\ Char(s, r) = NO
  BY <1>2, <1>6, Zenon DEF After, Char, kbd_proc_data
<1>7. Released(f, r) = f \ shiftcode(d)
  BY <1>1, <1>2 DEF Released
<1>8. Released(e, r) = f \ shiftcode(r)
  <2>1. Released(e, r) = e \ (shiftcode(r) \cup {"E0ESC"})
    BY <1>1 DEF Released
  <2> QED BY <1>1, <2>1
<1>9. /\ After(f, d) = Turned(f, d) /\ Char(f, d) = CharOf(Turned(f, d), d)
      /\ After(e, d) = Turned(f, r) /\ Char(e, d) = CharOf(Turned(f, r), r)
  <2>1. After(f, d) = Turned(f, d) /\ Char(f, d) = CharOf(Turned(f, d), d)
    BY <1>4, <1>5
  <2>2. After(e, d) = Turned(f, r) /\ Char(e, d) = CharOf(Turned(f, r), r)
    BY <1>4, <1>5
  <2> QED BY <2>1, <2>2
<1>10. /\ After(f, r) = f \ shiftcode(d) /\ Char(f, r) = NO
       /\ After(e, r) = f \ shiftcode(r) /\ Char(e, r) = NO
  BY <1>6, <1>7, <1>8, Zenon
<1> QED BY <1>3, <1>9, <1>10, Zenon DEF e, ReadRight

\* The driver's tables say of this code what the user expects of key k.
CodeRight(k, code) ==
    /\ shiftcode(code) = ModifierOf[k] /\ togglecode(code) = LockOf[k]
    /\ \A g \in SUBSET Plain : CharOf(g, code) = KeyChar(k, g)

\* Every key sends the byte d of its code, or an escape and a byte.
KeyIs(k, d) ==
    \/ Make(k) = <<d>> /\ Break(k) = <<d + \h80>> /\ CodeRight(k, d)
    \/ Make(k) = <<\hE0, d>> /\ Break(k) = <<\hE0, d + \h80>> /\ CodeRight(k, d + \h80)

LEMMA CtlSlash == (47 - 64) % 256 = 239
<1>1. ASSUME NEW a \in 0..255, NEW b \in 0..255, a < b PROVE (a - b) % 256 = a - b + 256
  BY <1>1, SMT
<1>2. (47 - 64) % 256 = 47 - 64 + 256
  BY <1>1, 47 \in 0..255, 64 \in 0..255, 47 < 64
<1> QED BY <1>2

LEMMA KeyCodes ==
  ASSUME NEW k \in Keys
  PROVE  \E d \in 0..127 : d # \h60 /\ KeyIs(k, d)
<1>1. k \in DOMAIN Code
  BY KeysAssumption
<1>3. \E d \in {\h1D, \h1E, \h2A, \h35, \h38, \h3A, \h53} : KeyIs(k, d)
  <2> USE DEF Make, Break, Code, CodeRight, shiftcode, togglecode, ModifierOf, LockOf,
          Modifiers, KeysOf, CharOf, charcode, ctlmap, shiftmap, normalmap, SwapCase,
          KeyChar, NO, KEY_DEL
  <2>1. CASE k = "lshift"
    <3>1. KeyIs(k, \h2A)
      BY <2>1 DEF KeyIs
    <3> QED BY <3>1
  <2>2. CASE k = "rctl"
    <3>1. KeyIs(k, \h1D)
      BY <2>2 DEF KeyIs
    <3> QED BY <3>1
  <2>3. CASE k = "lctl"
    <3>1. KeyIs(k, \h1D)
      BY <2>3 DEF KeyIs
    <3> QED BY <3>1
  <2>4. CASE k = "ralt"
    <3>1. KeyIs(k, \h38)
      BY <2>4 DEF KeyIs
    <3> QED BY <3>1
  <2>5. CASE k = "caps"
    <3>1. KeyIs(k, \h3A)
      BY <2>5 DEF KeyIs
    <3> QED BY <3>1
  <2>6. CASE k = "a"
    <3>1. KeyIs(k, \h1E)
      BY <2>6 DEF KeyIs
    <3> QED BY <3>1
  <2>7. CASE k = "slash"
    <3>1. KeyIs(k, \h35)
      BY <2>7, CtlSlash DEF KeyIs
    <3> QED BY <3>1
  <2>8. CASE k = "del"
    <3>1. KeyIs(k, \h53)
      BY <2>8 DEF KeyIs
    <3> QED BY <3>1
  <2>9. CASE k = "prtsc"
    <3>1. KeyIs(k, \h2A)
      BY <2>9 DEF KeyIs
    <3> QED BY <3>1
  <2> HIDE DEF CodeRight, ModifierOf, LockOf, shiftcode, togglecode, KeyChar, charcode,
          Make, Break, CharOf
  <2> QED BY <1>1, <2>1, <2>2, <2>3, <2>4, <2>5, <2>6, <2>7, <2>8, <2>9 DEF Code
<1> QED BY <1>3, SMT

\* Sequences of bytes.
LEMMA Bytes ==
  /\ \A w : w \in Seq(0..255) => w \in Seq(Nat) /\ Len(w) \in Nat
  /\ \A w : w \in Seq(Nat) => \A a, b \in Nat : /\ w \o <<a>> = Append(w, a)
                                               /\ w \o <<a, b>> = Append(Append(w, a), b)
<1>1. ASSUME NEW w \in Seq(0..255) PROVE w \in Seq(Nat) /\ Len(w) \in Nat
  <2>1. 0..255 \subseteq Nat
    OBVIOUS
  <2> QED BY <2>1, SeqMonotonic, LenProperties
<1>2. ASSUME NEW w \in Seq(Nat), NEW a \in Nat, NEW b \in Nat
      PROVE  w \o <<a>> = Append(w, a) /\ w \o <<a, b>> = Append(Append(w, a), b)
  OBVIOUS
<1> QED BY <1>1, <1>2

\* The keyboard sends what explains the user's modifiers and characters.
LEMMA KeySent ==
  ASSUME NEW k \in Keys, NEW f \in SUBSET Plain, NEW first, NEW w \in Seq(Nat),
         NEW t \in Seq(Nat), Explains(first, w, f, t)
  PROVE  LET g == Toggled(f \cup ModifierOf[k], LockOf[k])
         IN /\ Explains(first, w \o Make(k), g,
                        IF KeyChar(k, g) = NO THEN t ELSE Append(t, KeyChar(k, g)))
            /\ Explains(first, w \o Break(k), f \ ModifierOf[k], t)
            /\ Make(k) \in Seq(0..255) /\ Break(k) \in Seq(0..255)
            /\ g \in SUBSET Plain /\ KeyChar(k, g) \in 0..255
<1> DEFINE g == Toggled(f \cup ModifierOf[k], LockOf[k])
           c == KeyChar(k, g)
           u == IF c = NO THEN t ELSE Append(t, c)
<1>1. c \in 0..255 /\ g \in SUBSET Plain /\ NO \in Nat
  <2>1. g \in SUBSET Plain
    BY DEF Toggled, ModifierOf, LockOf, Plain, Locks
  <2>2. c \in 0..255
    <3> HIDE DEF g
    <3> QED BY DEF KeyChar, KEY_DEL, NO
  <2> QED BY <2>1, <2>2 DEF NO
<1>2. PICK d \in 0..127 : d # \h60 /\ KeyIs(k, d)
  BY KeyCodes
<1> DEFINE r == d + \h80
<1>0. KeyBytes(d, r)
  BY <1>2 DEF KeyBytes
<1>8. ReadRight(f, d, r)
  BY <1>0, BytesRead
<1>3. /\ d \in Nat /\ d \in 0..255 /\ r \in Nat /\ r \in 0..255 /\ \hE0 \in Nat
      /\ \hE0 \in 0..255 /\ r = d + \h80
  OBVIOUS
<1>7. \/ Make(k) = <<d>> /\ Break(k) = <<r>> /\ CodeRight(k, d)
      \/ Make(k) = <<\hE0, d>> /\ Break(k) = <<\hE0, r>> /\ CodeRight(k, r)
  BY <1>2 DEF KeyIs
<1> HIDE DEF g, c, u, r
<1>4. c \in Nat
  BY <1>1
<1>5. CASE Make(k) = <<d>> /\ Break(k) = <<r>> /\ CodeRight(k, d)
  <2>1. Turned(f, d) = g /\ CharOf(g, d) = c /\ f \ shiftcode(d) = f \ ModifierOf[k]
    BY <1>1, <1>5 DEF CodeRight, Turned, g, c
  <2>2. /\ After(f, d) = Turned(f, d) /\ Char(f, d) = CharOf(Turned(f, d), d)
        /\ After(f, r) = f \ shiftcode(d) /\ Char(f, r) = NO
    BY <1>8 DEF ReadRight
  <2>3. Explains(first, Append(w, d), g, u)
    <3>1. After(f, d) = g /\ Char(f, d) = c
      BY <2>1, <2>2
    <3>2. Given(t, f, d) = u
      BY <3>1 DEF Given, u
    <3>3. Explains(first, Append(w, d), After(f, d), Given(t, f, d))
      BY <1>3, <1>4, <3>1, ExplainsAppend
    <3> QED BY <3>1, <3>2, <3>3
  <2>4. Explains(first, Append(w, r), f \ ModifierOf[k], t)
    <3>1. Given(t, f, r) = t
      BY <2>2 DEF Given
    <3>2. Explains(first, Append(w, r), After(f, r), Given(t, f, r))
      BY <1>1, <1>3, <2>2, ExplainsAppend
    <3> QED BY <2>1, <2>2, <3>1, <3>2
  <2>5. w \o Make(k) = Append(w, d) /\ w \o Break(k) = Append(w, r)
    BY <1>3, <1>5, Bytes
  <2>6. Make(k) \in Seq(0..255) /\ Break(k) \in Seq(0..255)
    BY <1>3, <1>5
  <2> QED BY <1>1, <2>3, <2>4, <2>5, <2>6 DEF g, c, u
<1>6. CASE Make(k) = <<\hE0, d>> /\ Break(k) = <<\hE0, r>> /\ CodeRight(k, r)
  <2> DEFINE v == Append(w, \hE0)
             e == Escaped(f)
  <2>1. /\ Turned(f, r) = g /\ CharOf(g, r) = c
        /\ f \ shiftcode(r) = f \ ModifierOf[k]
    BY <1>1, <1>6 DEF CodeRight, Turned, g, c
  <2>2. /\ After(f, \hE0) = e /\ Char(f, \hE0) = NO
        /\ After(e, d) = Turned(f, r) /\ Char(e, d) = CharOf(Turned(f, r), r)
        /\ After(e, r) = f \ shiftcode(r) /\ Char(e, r) = NO
    BY <1>8 DEF ReadRight
  <2> HIDE DEF e
  <2>3. v \in Seq(Nat) /\ Explains(first, v, e, t)
    <3>1. Given(t, f, \hE0) = t
      BY <2>2 DEF Given
    <3>2. Explains(first, v, After(f, \hE0), Given(t, f, \hE0))
      BY <1>1, <1>3, <2>2, ExplainsAppend
    <3> QED BY <1>3, <2>2, <3>1, <3>2, AppendProperties
  <2> HIDE DEF v
  <2>4. Explains(first, Append(v, d), g, u)
    <3>1. After(e, d) = g /\ Char(e, d) = c
      BY <2>1, <2>2
    <3>2. Given(t, e, d) = u
      BY <3>1 DEF Given, u
    <3>3. Explains(first, Append(v, d), After(e, d), Given(t, e, d))
      BY <1>3, <1>4, <2>3, <3>1, ExplainsAppend
    <3> QED BY <3>1, <3>2, <3>3
  <2>5. Explains(first, Append(v, r), f \ ModifierOf[k], t)
    <3>1. Given(t, e, r) = t
      BY <2>2 DEF Given
    <3>2. Explains(first, Append(v, r), After(e, r), Given(t, e, r))
      <4>1. Char(e, r) \in Nat
        BY <1>1, <2>2
      <4> QED BY <1>3, <2>3, <4>1, ExplainsAppend
    <3> QED BY <2>1, <2>2, <3>1, <3>2
  <2>6. w \o Make(k) = Append(v, d) /\ w \o Break(k) = Append(v, r)
    <3>1. w \o Make(k) = w \o <<\hE0, d>> /\ w \o Break(k) = w \o <<\hE0, r>>
      BY <1>6
    <3>2. w \o <<\hE0, d>> = Append(v, d)
      BY <1>3, Bytes DEF v
    <3>3. w \o <<\hE0, r>> = Append(v, r)
      BY <1>3, Bytes DEF v
    <3> QED BY <3>1, <3>2, <3>3
  <2>7. Make(k) \in Seq(0..255) /\ Break(k) \in Seq(0..255)
    BY <1>3, <1>6
  <2> QED BY <1>1, <2>4, <2>5, <2>6, <2>7 DEF g, c, u
<1> QED BY <1>5, <1>6, <1>7

-----------------------------------------------------------------------------
(* The driver and its buffer. *)

Flags == Plain \cup {"E0ESC"}

\* The driver turns any flags into flags, and any byte into a character.
LEMMA DriverTypes ==
  ASSUME NEW f \in SUBSET Flags, NEW b \in 0..255
  PROVE  After(f, b) \in SUBSET Flags /\ Char(f, b) \in 0..255
<1>1. \A x : shiftcode(x) \subseteq Modifiers /\ togglecode(x) \subseteq Locks
  BY DEF shiftcode, togglecode, Modifiers, Locks
<1>2. After(f, b) \in SUBSET Flags
  <2>1. /\ f \cup {"E0ESC"} \in SUBSET Flags /\ Released(f, b) \in SUBSET Flags
    BY DEF Released, Flags
  <2>2. Pressed(f, b).flags \in SUBSET Flags
    BY <1>1 DEF Pressed, Toggled, Flags, Plain
  <2> QED BY <2>1, <2>2 DEF After, kbd_proc_data
<1>3. ASSUME NEW g, NEW x PROVE charcode(g, x) \in 0..255
  <2>1. (47 - 64) % 256 \in 0..255
    BY CtlSlash
  <2> HIDE DEF shiftcode
  <2>2. ctlmap(x) \in 0..255 /\ shiftmap(x) \in 0..255 /\ normalmap(x) \in 0..255
    BY <2>1 DEF ctlmap, shiftmap, normalmap, NO, KEY_DEL
  <2> QED BY <2>2 DEF charcode
<1>4. \A x \in 0..255 : SwapCase(x) \in 0..255
  BY DEF SwapCase
<1>5. Char(f, b) \in 0..255
  <2> DEFINE p == Pressed(f, b)
             c == charcode(p.flags, p.data)
  <2>1. c \in 0..255 /\ SwapCase(c) \in 0..255
    BY <1>3, <1>4
  <2>2. Char(f, b) \in {NO, c, SwapCase(c)}
    <3> HIDE DEF c
    <3>1. CASE b = \hE0
      BY <3>1 DEF Char, kbd_proc_data
    <3>2. CASE b # \hE0 /\ b >= 128
      BY <3>2 DEF Char, kbd_proc_data
    <3>3. CASE b # \hE0 /\ ~ (b >= 128)
      BY <3>3 DEF Char, kbd_proc_data, c
    <3> QED BY <3>1, <3>2, <3>3
  <2> HIDE DEF c
  <2> QED BY <2>1, <2>2 DEF NO
<1> QED BY <1>2, <1>5

Positions == 0..(CONSBUFSIZE - 1)

\* Going round the buffer.
LEMMA Around ==
  ASSUME NEW a \in Positions, NEW b \in Positions
  PROVE  /\ (a - b) % CONSBUFSIZE = IF b <= a THEN a - b ELSE a - b + CONSBUFSIZE
         /\ (a + b) % CONSBUFSIZE = IF a + b < CONSBUFSIZE THEN a + b ELSE a + b - CONSBUFSIZE
         /\ Next1(a) \in Positions
  BY ConsoleAssumption, SMTT(30) DEF Positions, Next1

-----------------------------------------------------------------------------
(* The invariant. *)

Types ==
    /\ held \subseteq Keys /\ rx \in {NoData} \cup SerialChars
    /\ wire \in Seq(0..255) /\ Len(wire) <= MaxWire
    /\ shift \in SUBSET Flags /\ mods \in SUBSET Plain
    /\ typed \in Seq(Nat)
    /\ pc \in {"idle", "serial", "kbd", "take", "reboot"}

BufferOK == cons \in [buf : [Positions -> 0..255], rpos : Positions, wpos : Positions]

\* A modifier the user sees is held down by one of its keys.
NoModifierStuck == \A m \in Modifiers : m \in mods => held \cap KeysOf(m) # {}

\* From its flags, what is on the wire will turn the driver to what the user sees.
WireExplains == Explains(shift, wire, mods, typed)

ConsoleIInv == Types /\ BufferOK /\ NoModifierStuck /\ WireExplains

LEMMA InitHolds == ConsoleInit => ConsoleIInv
<1> SUFFICES ASSUME ConsoleInit PROVE ConsoleIInv
  OBVIOUS
<1>1. Types
  BY ConsoleAssumption, EmptySeq DEF ConsoleInit, Types
<1>2. BufferOK
  <2>1. 0 \in Positions /\ 0 \in 0..255
    BY ConsoleAssumption DEF Positions
  <2> QED BY <2>1 DEF ConsoleInit, BufferOK, Positions
<1>3. NoModifierStuck
  BY DEF ConsoleInit, NoModifierStuck
<1>4. WireExplains
  BY ExplainsNone DEF ConsoleInit, WireExplains
<1> QED BY <1>1, <1>2, <1>3, <1>4 DEF ConsoleIInv

\* Storing a character keeps the buffer in shape.
LEMMA StoredOK ==
  ASSUME BufferOK, NEW c \in 0..255
  PROVE  Stored(c) \in [buf : [Positions -> 0..255], rpos : Positions, wpos : Positions]
<1>1. Next1(cons.wpos) \in Positions
  BY Around DEF BufferOK
<1> QED BY <1>1 DEF BufferOK, Stored

\* The user presses a key.
LEMMA PressStep ==
  ASSUME ConsoleIInv, NEW k \in Keys, PressKey(k)
  PROVE  ConsoleIInv'
<1> DEFINE g == Toggled(mods \cup ModifierOf[k], LockOf[k])
<1>1. wire \in Seq(Nat) /\ mods \in SUBSET Plain /\ typed \in Seq(Nat) /\ WireExplains
  BY Bytes DEF ConsoleIInv, Types
<1>2. /\ Explains(shift, wire \o Make(k), g,
                  IF KeyChar(k, g) = NO THEN typed ELSE Append(typed, KeyChar(k, g)))
      /\ Make(k) \in Seq(0..255)
      /\ g \in SUBSET Plain /\ KeyChar(k, g) \in 0..255
  BY <1>1, KeySent DEF WireExplains
<1>3. mods' = g
  BY DEF PressKey
<1> HIDE DEF g
<1>4. /\ held' = held \cup {k} /\ wire' = wire \o Make(k)
      /\ typed' = IF KeyChar(k, g) = NO THEN typed ELSE Append(typed, KeyChar(k, g))
      /\ rx' = rx /\ shift' = shift /\ cons' = cons /\ pc' = pc
      /\ Len(wire) + Len(Make(k)) <= MaxWire
  BY <1>3 DEF PressKey
<1>5. Types'
  <2>1. wire \o Make(k) \in Seq(0..255) /\ Len(wire \o Make(k)) <= MaxWire
    <3>1. wire \in Seq(0..255)
      BY DEF ConsoleIInv, Types
    <3> QED BY <1>2, <1>4, <3>1, ConcatProperties
  <2>2. typed' \in Seq(Nat)
    <3>1. KeyChar(k, g) \in Nat
      <4>1. 0..255 \subseteq Nat
        OBVIOUS
      <4> QED BY <1>2, <4>1
    <3> QED BY <1>1, <1>4, <3>1, AppendProperties
  <2> QED BY <1>2, <1>3, <1>4, <2>1, <2>2 DEF ConsoleIInv, Types
<1>6. BufferOK' /\ WireExplains'
  BY <1>2, <1>3, <1>4 DEF ConsoleIInv, BufferOK, WireExplains
<1>7. NoModifierStuck'
  <2> SUFFICES ASSUME NEW m \in Modifiers, m \in mods' PROVE held' \cap KeysOf(m) # {}
    BY DEF NoModifierStuck
  <2>1. m \in mods \/ m \in ModifierOf[k]
    <3>1. m \notin LockOf[k]
      BY DEF Modifiers, LockOf
    <3> QED BY <1>3, <3>1 DEF Toggled, g
  <2>2. CASE m \in mods
    BY <1>4, <2>2 DEF ConsoleIInv, NoModifierStuck
  <2>3. CASE m \in ModifierOf[k]
    BY <1>4, <2>3 DEF ModifierOf
  <2> QED BY <2>1, <2>2, <2>3
<1> QED BY <1>5, <1>6, <1>7 DEF ConsoleIInv

\* The user releases a key.
LEMMA ReleaseStep ==
  ASSUME ConsoleIInv, NEW k \in Keys, ReleaseKey(k)
  PROVE  ConsoleIInv'
<1>1. wire \in Seq(Nat) /\ mods \in SUBSET Plain /\ typed \in Seq(Nat) /\ WireExplains
  BY Bytes DEF ConsoleIInv, Types
<1>2. /\ Explains(shift, wire \o Break(k), mods \ ModifierOf[k], typed)
      /\ Break(k) \in Seq(0..255)
  BY <1>1, KeySent DEF WireExplains
<1>3. /\ held' = held \ {k} /\ wire' = wire \o Break(k) /\ mods' = mods \ ModifierOf[k]
      /\ rx' = rx /\ shift' = shift /\ cons' = cons /\ pc' = pc /\ typed' = typed
      /\ Len(wire) + Len(Break(k)) <= MaxWire
  BY DEF ReleaseKey
<1>4. Types'
  <2>1. wire \o Break(k) \in Seq(0..255) /\ Len(wire \o Break(k)) <= MaxWire
    <3>1. wire \in Seq(0..255)
      BY DEF ConsoleIInv, Types
    <3> QED BY <1>2, <1>3, <3>1, ConcatProperties
  <2> QED BY <1>3, <2>1 DEF ConsoleIInv, Types
<1>5. BufferOK' /\ WireExplains'
  BY <1>2, <1>3 DEF ConsoleIInv, BufferOK, WireExplains
<1>6. NoModifierStuck'
  <2> SUFFICES ASSUME NEW m \in Modifiers, m \in mods' PROVE held' \cap KeysOf(m) # {}
    BY DEF NoModifierStuck
  <2>1. m \in mods /\ k \notin KeysOf(m)
    BY <1>3 DEF ModifierOf
  <2>2. held \cap KeysOf(m) # {}
    BY <2>1 DEF ConsoleIInv, NoModifierStuck
  <2> QED BY <1>3, <2>1, <2>2
<1> QED BY <1>4, <1>5, <1>6 DEF ConsoleIInv

\* What reading a byte does, once the driver has what it makes of it.
LEMMA KbdReads ==
  ASSUME ConsoleIInv, kbd_intr, wire' # wire
  PROVE  LET c == Char(shift, Head(wire))
         IN /\ wire # <<>> /\ Head(wire) \in 0..255 /\ wire' = Tail(wire)
            /\ shift' = After(shift, Head(wire)) /\ cons' = Stored(c) /\ c \in 0..255
            /\ c = NO => typed' = typed
            /\ c # NO => typed # <<>> /\ Head(typed) = c /\ typed' = Tail(typed)
            /\ Explains(shift', wire', mods, typed')
            /\ held' = held /\ rx' = rx /\ mods' = mods /\ pc' = pc
<1> DEFINE c == Char(shift, Head(wire))
<1>1. /\ wire # <<>> /\ wire' = Tail(wire)
      /\ shift' = After(shift, Head(wire)) /\ cons' = Stored(c)
      /\ typed' = IF c = NO THEN typed ELSE SubSeq(typed, 2, Len(typed))
      /\ held' = held /\ rx' = rx /\ mods' = mods /\ pc' = pc
  BY DEF kbd_intr, After, Char
<1>2. /\ wire \in Seq(0..255) /\ wire \in Seq(Nat) /\ typed \in Seq(Nat)
      /\ shift \in SUBSET Flags /\ Explains(shift, wire, mods, typed)
  BY Bytes DEF ConsoleIInv, Types, WireExplains
<1>3. Head(wire) \in 0..255
  BY <1>1, <1>2, HeadTailProperties
<1>4. c \in 0..255
  BY <1>2, <1>3, DriverTypes
<1>5. /\ c = NO => Explains(After(shift, Head(wire)), Tail(wire), mods, typed)
      /\ c # NO => /\ typed # <<>> /\ Head(typed) = c
                   /\ Explains(After(shift, Head(wire)), Tail(wire), mods, Tail(typed))
  BY <1>1, <1>2, ExplainsRead
<1>6. SubSeq(typed, 2, Len(typed)) = Tail(typed)
  BY <1>2 DEF Tail
<1> QED BY <1>1, <1>3, <1>4, <1>5, <1>6

\* The driver reads a byte, or finds none.
LEMMA KbdStep ==
  ASSUME ConsoleIInv, kbd_intr
  PROVE  ConsoleIInv'
<1>1. CASE wire' # wire
  <2> DEFINE c == Char(shift, Head(wire))
  <2>1. /\ wire # <<>> /\ Head(wire) \in 0..255 /\ wire' = Tail(wire)
        /\ shift' = After(shift, Head(wire)) /\ cons' = Stored(c) /\ c \in 0..255
        /\ c = NO => typed' = typed
        /\ c # NO => typed # <<>> /\ typed' = Tail(typed)
        /\ Explains(shift', wire', mods, typed')
        /\ held' = held /\ rx' = rx /\ mods' = mods /\ pc' = pc
    BY <1>1, KbdReads
  <2> HIDE DEF c
  <2>2. Types'
    <3>1. wire' \in Seq(0..255) /\ Len(wire') <= MaxWire
      <4>1. wire \in Seq(0..255) /\ Len(wire) <= MaxWire /\ MaxWire \in Nat
        BY ConsoleAssumption DEF ConsoleIInv, Types
      <4>2. Tail(wire) \in Seq(0..255) /\ Len(Tail(wire)) = Len(wire) - 1 /\ Len(wire) \in Nat
        BY <2>1, <4>1, HeadTailProperties, LenProperties
      <4> QED BY <2>1, <4>1, <4>2
    <3>2. typed' \in Seq(Nat)
      BY <2>1, HeadTailProperties DEF ConsoleIInv, Types
    <3>3. shift' \in SUBSET Flags
      BY <2>1, DriverTypes DEF ConsoleIInv, Types
    <3> QED BY <2>1, <3>1, <3>2, <3>3 DEF ConsoleIInv, Types
  <2>3. BufferOK'
    BY <2>1, StoredOK DEF ConsoleIInv, BufferOK
  <2>4. NoModifierStuck' /\ WireExplains'
    BY <2>1 DEF ConsoleIInv, NoModifierStuck, WireExplains
  <2> QED BY <2>2, <2>3, <2>4 DEF ConsoleIInv
<1>2. CASE wire' = wire
  <2>1. /\ pc' \in {"take", "reboot"}
        /\ UNCHANGED <<wire, shift, cons, typed, held, rx, mods>>
    <3>1. wire # <<>> => Tail(wire) # wire
      <4>1. wire # <<>> => Len(Tail(wire)) = Len(wire) - 1 /\ Len(wire) \in Nat
        BY HeadTailProperties, LenProperties DEF ConsoleIInv, Types
      <4> QED BY <4>1
    <3> QED BY <1>2, <3>1 DEF kbd_intr
  <2> QED BY <2>1 DEF ConsoleIInv, Types, BufferOK, NoModifierStuck, WireExplains
<1> QED BY <1>1, <1>2

\* The steps that leave the keyboard alone.
LEMMA OtherStep ==
  ASSUME ConsoleIInv,
         \/ cons_getc \/ serial_intr \/ take
         \/ \E c \in SerialChars : SendSerial(c)
  PROVE  ConsoleIInv'
<1>1. UNCHANGED <<wire, held, shift, mods, typed>>
  BY DEF cons_getc, serial_intr, take, SendSerial, history
<1>2. BufferOK' /\ pc' \in {"idle", "serial", "kbd", "take", "reboot"} /\ rx' \in {NoData} \cup SerialChars
  <2>1. CASE cons_getc
    BY <2>1 DEF cons_getc, ConsoleIInv, Types, BufferOK
  <2>2. CASE serial_intr /\ rx # NoData
    <3>1. rx \in 0..255
      BY <2>2, ConsoleAssumption DEF ConsoleIInv, Types
    <3>2. cons' = Stored(rx) /\ rx' = NoData /\ pc' = pc
      BY <2>2 DEF serial_intr
    <3> QED BY <3>1, <3>2, StoredOK DEF ConsoleIInv, Types, BufferOK
  <2>3. CASE serial_intr /\ rx = NoData
    BY <2>3 DEF serial_intr, ConsoleIInv, Types, BufferOK
  <2>4. CASE take
    <3>1. cons.rpos \in Positions /\ Next1(cons.rpos) \in Positions
      BY Around DEF ConsoleIInv, BufferOK
    <3> QED BY <2>4, <3>1 DEF take, ConsoleIInv, Types, BufferOK
  <2>5. CASE \E c \in SerialChars : SendSerial(c)
    BY <2>5 DEF SendSerial, ConsoleIInv, Types, BufferOK
  <2> QED BY <2>1, <2>2, <2>3, <2>4, <2>5
<1> QED BY <1>1, <1>2 DEF ConsoleIInv, Types, NoModifierStuck, WireExplains

\* The invariant holds for every buffer, every set of keys and every wire.
THEOREM ConsoleInvariance == ConsoleSpec => []ConsoleIInv
<1>1. ConsoleIInv /\ [ConsoleNext]_consoleVars => ConsoleIInv'
  <2> SUFFICES ASSUME ConsoleIInv, [ConsoleNext]_consoleVars PROVE ConsoleIInv'
    OBVIOUS
  <2>1. CASE \E k \in Keys : PressKey(k) \/ ReleaseKey(k)
    BY <2>1, PressStep, ReleaseStep
  <2>2. CASE kbd_intr
    BY <2>2, KbdStep
  <2>3. CASE \/ cons_getc \/ serial_intr \/ take
             \/ \E c \in SerialChars : SendSerial(c)
    BY <2>3, OtherStep
  <2>4. CASE UNCHANGED consoleVars
    BY <2>4 DEF consoleVars, ConsoleIInv, Types, BufferOK, NoModifierStuck, WireExplains
  <2> QED BY <2>1, <2>2, <2>3, <2>4 DEF ConsoleNext
<1> QED BY InitHolds, <1>1, PTL DEF ConsoleSpec

\* The variables keep their types, and the positions stay inside the buffer.
THEOREM ConsoleTypeCorrect == ConsoleSpec => []ConsoleTypeOK
<1>1. ConsoleIInv => ConsoleTypeOK
  <2> SUFFICES ASSUME ConsoleIInv PROVE ConsoleTypeOK
    OBVIOUS
  <2>1. \A i \in DOMAIN wire : wire[i] \in 0..255
    BY ElementOfSeq, LenProperties DEF ConsoleIInv, Types
  <2> QED BY <2>1 DEF ConsoleIInv, Types, BufferOK, ConsoleTypeOK, Positions, Flags, Plain
<1> QED BY ConsoleInvariance, <1>1, PTL

\* When the driver has read everything (kbd_proc_data has seen every byte), every
\* key has given its character and the driver's flags are those of the keys that
\* are down: no escape is pending, and no modifier is stuck.
THEOREM DriverCaughtUpCorrect == ConsoleSpec => []DriverCaughtUp
<1>1. ConsoleIInv => DriverCaughtUp
  <2> SUFFICES ASSUME ConsoleIInv, wire = <<>>
               PROVE  /\ typed = <<>> /\ shift = mods
                      /\ \A m \in Modifiers : m \in shift => held \cap KeysOf(m) # {}
    BY DEF DriverCaughtUp
  <2>1. typed = <<>> /\ shift = mods
    BY ExplainsNone DEF ConsoleIInv, WireExplains, Types
  <2> QED BY <2>1 DEF ConsoleIInv, NoModifierStuck
<1> QED BY ConsoleInvariance, <1>1, PTL

-----------------------------------------------------------------------------
(* The console implements the queue of InputQueue. *)

Buffers == [buf : [Positions -> 0..255], rpos : Positions, wpos : Positions]

\* What waits in a buffer; Unread is what waits in cons.
Count(d) == (d.wpos - d.rpos) % CONSBUFSIZE
Waiting(d) == [i \in 1..Count(d) |-> d.buf[(d.rpos + i - 1) % CONSBUFSIZE]]

LEMMA SameBytes ==
  ASSUME NEW u \in Seq(0..255), NEW v \in Seq(0..255), Len(u) = Len(v),
         \A i \in 1..Len(u) : u[i] = v[i]
  PROVE  u = v
  BY SeqEqual

\* Where the i-th waiting character is.
LEMMA Place ==
  ASSUME NEW a \in Positions, NEW i \in 1..CONSBUFSIZE
  PROVE  /\ (a + i - 1) % CONSBUFSIZE
            = IF a + i - 1 < CONSBUFSIZE THEN a + i - 1 ELSE a + i - 1 - CONSBUFSIZE
         /\ (a + i - 1) % CONSBUFSIZE \in Positions
<1>1. i - 1 \in Positions /\ a + (i - 1) = a + i - 1
  BY ConsoleAssumption DEF Positions
<1>2. (a + i - 1) % CONSBUFSIZE
      = IF a + i - 1 < CONSBUFSIZE THEN a + i - 1 ELSE a + i - 1 - CONSBUFSIZE
  BY <1>1, Around
<1> HIDE DEF Positions
<1> QED BY <1>1, <1>2, ConsoleAssumption DEF Positions

LEMMA WaitingShape ==
  ASSUME NEW d \in Buffers
  PROVE  /\ Count(d) \in Positions
         /\ Count(d) = IF d.rpos <= d.wpos THEN d.wpos - d.rpos ELSE d.wpos - d.rpos + CONSBUFSIZE
         /\ Waiting(d) \in Seq(0..255) /\ Len(Waiting(d)) = Count(d)
         /\ \A i \in 1..Count(d) : Waiting(d)[i] = d.buf[(d.rpos + i - 1) % CONSBUFSIZE]
<1>1. d.rpos \in Positions /\ d.wpos \in Positions /\ d.buf \in [Positions -> 0..255]
  BY DEF Buffers
<1>2. Count(d) = IF d.rpos <= d.wpos THEN d.wpos - d.rpos ELSE d.wpos - d.rpos + CONSBUFSIZE
  BY <1>1, Around DEF Count
<1>3. Count(d) \in Positions /\ Count(d) \in Nat /\ Count(d) < CONSBUFSIZE
  BY <1>1, <1>2, ConsoleAssumption DEF Positions
<1>4. \A i \in 1..Count(d) : d.buf[(d.rpos + i - 1) % CONSBUFSIZE] \in 0..255
  <2> SUFFICES ASSUME NEW i \in 1..Count(d)
               PROVE  d.buf[(d.rpos + i - 1) % CONSBUFSIZE] \in 0..255
    OBVIOUS
  <2>1. i \in 1..CONSBUFSIZE
    BY <1>3, ConsoleAssumption
  <2>2. (d.rpos + i - 1) % CONSBUFSIZE \in Positions
    BY <1>1, <2>1, Place
  <2> QED BY <1>1, <2>2
<1> DEFINE n == Count(d)
           e == [i \in 1..n |-> d.buf[(d.rpos + i - 1) % CONSBUFSIZE]]
<1>5. /\ e \in [1..n -> 0..255] /\ n \in Nat /\ Waiting(d) = e
      /\ \A i \in 1..n : e[i] = d.buf[(d.rpos + i - 1) % CONSBUFSIZE]
  <2> HIDE DEF Count
  <2> QED BY <1>3, <1>4 DEF Waiting
<1> HIDE DEF n, e
<1>6. e \in Seq(0..255) /\ Len(e) = n
  BY <1>5
<1> QED BY <1>2, <1>3, <1>5, <1>6 DEF n

\* A character that is stored waits after the others; when it fills the buffer
\* nothing waits any more.
LEMMA WaitingStored ==
  ASSUME NEW c \in 0..255, cons \in Buffers
  PROVE  Waiting(Stored(c)) = Input!Enqueued(Waiting(cons), c)
<1> DEFINE a == cons.rpos
           b == cons.wpos
           n == Count(cons)
           q == Waiting(cons)
           s == Stored(c)
<1>1. a \in Positions /\ b \in Positions /\ cons.buf \in [Positions -> 0..255]
  BY DEF Buffers
<1>2. /\ n \in Nat /\ n < CONSBUFSIZE /\ n = IF a <= b THEN b - a ELSE b - a + CONSBUFSIZE
      /\ q \in Seq(0..255) /\ Len(q) = n
      /\ \A i \in 1..n : q[i] = cons.buf[(a + i - 1) % CONSBUFSIZE]
  BY WaitingShape, ConsoleAssumption DEF Positions
<1>3. CASE c = 0
  BY <1>3 DEF Stored, Input!Enqueued, Input!NoChar
<1>4. CASE c # 0
  <2>1. /\ s \in Buffers /\ s.rpos = a /\ s.wpos = Next1(b) /\ s.buf[b] = c
        /\ \A p \in Positions : p # b => s.buf[p] = cons.buf[p]
    <3>1. Next1(b) \in Positions
      BY <1>1, Around
    <3> QED BY <1>1, <1>4, <3>1 DEF Stored, Buffers
  <2>2. /\ Count(s) = IF a <= Next1(b) THEN Next1(b) - a ELSE Next1(b) - a + CONSBUFSIZE
        /\ Waiting(s) \in Seq(0..255) /\ Len(Waiting(s)) = Count(s)
        /\ \A i \in 1..Count(s) : Waiting(s)[i] = s.buf[(a + i - 1) % CONSBUFSIZE]
    BY <2>1, WaitingShape
  <2> HIDE DEF a, b, n, q, s
  <2>3. Count(s) = IF n + 1 = CONSBUFSIZE THEN 0 ELSE n + 1
    BY <1>1, <1>2, <2>2, ConsoleAssumption DEF Next1, Positions
  <2>4. CASE n + 1 = CONSBUFSIZE
    <3>1. Waiting(s) = <<>>
      BY <2>2, <2>3, <2>4, EmptySeq
    <3> QED BY <1>2, <1>4, <2>4, <3>1 DEF Input!Enqueued, Input!NoChar, q, s
  <2>5. CASE n + 1 # CONSBUFSIZE
    <3>1. /\ Append(q, c) \in Seq(0..255) /\ Len(Append(q, c)) = n + 1
          /\ Append(q, c)[n + 1] = c /\ \A i \in 1..n : Append(q, c)[i] = q[i]
      BY <1>2, AppendProperties
    <3>2. ASSUME NEW i \in 1..(n + 1) PROVE Waiting(s)[i] = Append(q, c)[i]
      <4>1. i \in 1..CONSBUFSIZE /\ i \in 1..Count(s)
        BY <1>2, <2>3, <2>5, ConsoleAssumption
      <4> DEFINE p == (a + i - 1) % CONSBUFSIZE
      <4>2. /\ p \in Positions
            /\ p = IF a + i - 1 < CONSBUFSIZE THEN a + i - 1 ELSE a + i - 1 - CONSBUFSIZE
        BY <1>1, <4>1, Place
      <4>3. Waiting(s)[i] = s.buf[p]
        BY <2>2, <4>1
      <4> HIDE DEF p
      <4>4. CASE i = n + 1
        <5>1. p = b
          BY <1>1, <1>2, <4>2, <4>4, ConsoleAssumption DEF Positions
        <5> QED BY <2>1, <3>1, <4>3, <4>4, <5>1
      <4>5. CASE i # n + 1
        <5>1. i \in 1..n
          BY <1>2, <4>5
        <5>2. p # b
          BY <1>1, <1>2, <4>2, <5>1, ConsoleAssumption DEF Positions
        <5>3. q[i] = cons.buf[p]
          BY <1>2, <5>1 DEF p
        <5> QED BY <2>1, <3>1, <4>2, <4>3, <5>1, <5>2, <5>3
      <4> QED BY <4>4, <4>5
    <3>3. Waiting(s) = Append(q, c)
      <4>1. Len(Waiting(s)) = n + 1
        BY <1>2, <2>2, <2>3, <2>5
      <4>2. \A i \in 1..Len(Waiting(s)) : Waiting(s)[i] = Append(q, c)[i]
        BY <3>2, <4>1
      <4> QED BY <2>2, <3>1, <4>1, <4>2, SameBytes
    <3> QED BY <1>2, <1>4, <2>5, <3>3 DEF Input!Enqueued, Input!NoChar, q, s
  <2> QED BY <2>4, <2>5
<1> QED BY <1>3, <1>4

\* cons_getc takes the character that waits first.
LEMMA WaitingTaken ==
  ASSUME cons \in Buffers, NEW s, s = [cons EXCEPT !.rpos = Next1(@)], cons.rpos # cons.wpos
  PROVE  Waiting(cons) # <<>> /\ Waiting(s) = Tail(Waiting(cons))
<1> DEFINE a == cons.rpos
           b == cons.wpos
           n == Count(cons)
           q == Waiting(cons)
<1>1. a \in Positions /\ b \in Positions /\ a # b
  BY DEF Buffers
<1>2. /\ n \in Nat /\ n < CONSBUFSIZE /\ n = IF a <= b THEN b - a ELSE b - a + CONSBUFSIZE
      /\ q \in Seq(0..255) /\ Len(q) = n
      /\ \A i \in 1..n : q[i] = cons.buf[(a + i - 1) % CONSBUFSIZE]
  BY WaitingShape, ConsoleAssumption DEF Positions
<1>3. /\ s \in Buffers /\ s.rpos = Next1(a) /\ s.wpos = b /\ s.buf = cons.buf
  <2>1. Next1(a) \in Positions
    BY <1>1, Around
  <2> QED BY <2>1 DEF Buffers
<1>4. /\ Count(s) = IF Next1(a) <= b THEN b - Next1(a) ELSE b - Next1(a) + CONSBUFSIZE
      /\ Waiting(s) \in Seq(0..255) /\ Len(Waiting(s)) = Count(s)
      /\ \A i \in 1..Count(s) : Waiting(s)[i] = cons.buf[(Next1(a) + i - 1) % CONSBUFSIZE]
  BY <1>3, WaitingShape
<1> HIDE DEF a, b, n, q
<1>5. n > 0 /\ Count(s) = n - 1
  <2>1. a \in Nat /\ b \in Nat /\ a < CONSBUFSIZE /\ b < CONSBUFSIZE /\ a # b /\ CONSBUFSIZE \in Nat
    BY <1>1, ConsoleAssumption DEF Positions
  <2>2. Next1(a) = IF a + 1 = CONSBUFSIZE THEN 0 ELSE a + 1
    BY DEF Next1
  <2>3. n = IF a <= b THEN b - a ELSE b - a + CONSBUFSIZE
    BY <1>2
  <2>4. Count(s) = IF Next1(a) <= b THEN b - Next1(a) ELSE b - Next1(a) + CONSBUFSIZE
    BY <1>4
  <2>5. CASE a + 1 = CONSBUFSIZE
    <3>1. Next1(a) = 0 /\ ~ (a <= b)
      BY <2>1, <2>2, <2>5
    <3> QED BY <2>1, <2>3, <2>4, <2>5, <3>1
  <2>6. CASE a + 1 # CONSBUFSIZE
    <3>1. Next1(a) = a + 1 /\ (Next1(a) <= b <=> a <= b)
      BY <2>1, <2>2, <2>6
    <3> QED BY <2>1, <2>3, <2>4, <2>6, <3>1
  <2> QED BY <2>5, <2>6
<1>6. /\ q # <<>> /\ Tail(q) \in Seq(0..255) /\ Len(Tail(q)) = n - 1
      /\ \A i \in 1..(n - 1) : Tail(q)[i] = q[i + 1]
  <2>1. q # <<>>
    BY <1>2, <1>5
  <2>2. Tail(q) \in Seq(0..255) /\ Len(Tail(q)) = Len(q) - 1 /\ \A i \in 1..Len(Tail(q)) : Tail(q)[i] = q[i + 1]
    BY <1>2, <2>1, HeadTailProperties
  <2> QED BY <1>2, <2>1, <2>2
<1>7. ASSUME NEW i \in 1..(n - 1) PROVE Waiting(s)[i] = Tail(q)[i]
  <2>1. i \in 1..CONSBUFSIZE /\ i + 1 \in 1..CONSBUFSIZE /\ i + 1 \in 1..n
    BY <1>2, <1>5, ConsoleAssumption
  <2>2. (Next1(a) + i - 1) % CONSBUFSIZE = (a + (i + 1) - 1) % CONSBUFSIZE
    <3>1. Next1(a) \in Positions
      BY <1>1, Around
    <3>2. /\ (Next1(a) + i - 1) % CONSBUFSIZE
             = IF Next1(a) + i - 1 < CONSBUFSIZE THEN Next1(a) + i - 1 ELSE Next1(a) + i - 1 - CONSBUFSIZE
          /\ (a + (i + 1) - 1) % CONSBUFSIZE
             = IF a + (i + 1) - 1 < CONSBUFSIZE THEN a + (i + 1) - 1 ELSE a + (i + 1) - 1 - CONSBUFSIZE
      BY <1>1, <2>1, <3>1, Place
    <3>3. /\ Next1(a) = IF a + 1 = CONSBUFSIZE THEN 0 ELSE a + 1
          /\ a \in Nat /\ a < CONSBUFSIZE /\ i \in Nat /\ i > 0 /\ i < CONSBUFSIZE /\ CONSBUFSIZE \in Nat
      BY <1>1, <1>2, <1>5, <2>1, ConsoleAssumption DEF Next1, Positions
    <3>4. ASSUME NEW x, NEW y,
                 x = IF Next1(a) + i - 1 < CONSBUFSIZE THEN Next1(a) + i - 1 ELSE Next1(a) + i - 1 - CONSBUFSIZE,
                 y = IF a + (i + 1) - 1 < CONSBUFSIZE THEN a + (i + 1) - 1 ELSE a + (i + 1) - 1 - CONSBUFSIZE
          PROVE  x = y
      BY <3>3, <3>4
    <3> QED BY <3>2, <3>4
  <2>3. Tail(q)[i] = q[i + 1] /\ q[i + 1] = cons.buf[(a + (i + 1) - 1) % CONSBUFSIZE]
    BY <1>2, <1>6, <2>1
  <2> QED BY <1>4, <1>5, <2>2, <2>3
<1>8. Waiting(s) = Tail(q)
  <2>1. \A i \in 1..Len(Waiting(s)) : Waiting(s)[i] = Tail(q)[i]
    BY <1>4, <1>5, <1>7
  <2> QED BY <1>4, <1>5, <1>6, <2>1, SameBytes
<1> QED BY <1>6, <1>8 DEF q

\* The console, as its users see it, is InputQueue: a key pressed gives the
\* character the user expects, in order, whatever the devices send while the
\* driver polls them (cons_intr, kbd_proc_data, serial_proc_data, cons_getc).
THEOREM Refinement == ConsoleSpec => ImplementsInputQueue
<1> DEFINE vars == <<mods, typed, Unread>>
<1>1. Unread = Waiting(cons) /\ Unread' = Waiting(cons)'
  BY DEF Unread, Waiting, Count
<1>2. ConsoleInit => Input!InputInit
  <2> SUFFICES ASSUME ConsoleInit PROVE Unread = <<>>
    BY DEF ConsoleInit, Input!InputInit
  <2>1. cons \in Buffers /\ cons.rpos = 0 /\ cons.wpos = 0
    BY InitHolds DEF ConsoleIInv, BufferOK, Buffers, ConsoleInit
  <2>2. Waiting(cons) \in Seq(0..255) /\ Len(Waiting(cons)) = 0
    BY <2>1, WaitingShape
  <2> QED BY <1>1, <2>2, EmptySeq
<1>3. ConsoleIInv /\ [ConsoleNext]_consoleVars => [Input!InputNext]_vars
  <2> SUFFICES ASSUME ConsoleIInv, [ConsoleNext]_consoleVars
               PROVE  [Input!InputNext]_vars
    OBVIOUS
  <2>0. cons \in Buffers
    BY DEF ConsoleIInv, BufferOK, Buffers
  <2>1. ASSUME UNCHANGED <<mods, typed, cons>> PROVE UNCHANGED vars
    BY <2>1, <1>1 DEF Waiting, Count
  <2>2. ASSUME NEW k \in Keys, PressKey(k) PROVE Input!Press(k) /\ k \in DOMAIN ModifierOf
    <3>1. cons' = cons /\ Unread' = Unread
      BY <2>2, <1>1 DEF PressKey, Waiting, Count
    <3> QED BY <2>2, <3>1 DEF PressKey, Input!Press, Input!WithChar, Input!NoChar, NO, Toggled, ModifierOf
  <2>3. ASSUME NEW k \in Keys, ReleaseKey(k) PROVE Input!Release(k) /\ k \in DOMAIN ModifierOf
    <3>1. cons' = cons /\ Unread' = Unread
      BY <2>3, <1>1 DEF ReleaseKey, Waiting, Count
    <3> QED BY <2>3, <3>1 DEF ReleaseKey, Input!Release, ModifierOf
  <2>4. ASSUME kbd_intr PROVE Input!Arrive \/ UNCHANGED vars
    <3>1. CASE wire' = wire
      <4>1. wire # <<>> => Tail(wire) # wire
        <5>1. wire # <<>> => Len(Tail(wire)) = Len(wire) - 1 /\ Len(wire) \in Nat
          BY HeadTailProperties, LenProperties DEF ConsoleIInv, Types
        <5> QED BY <5>1
      <4> QED BY <2>1, <2>4, <3>1, <4>1 DEF kbd_intr
    <3>2. CASE wire' # wire
      <4> DEFINE c == Char(shift, Head(wire))
      <4>1. /\ cons' = Stored(c) /\ c \in 0..255 /\ mods' = mods
            /\ c = NO => typed' = typed
            /\ c # NO => typed # <<>> /\ Head(typed) = c /\ typed' = Tail(typed)
        BY <2>4, <3>2, KbdReads
      <4> HIDE DEF c
      <4>2. Unread' = Input!Enqueued(Unread, c)
        <5>1. Waiting(cons)' = Waiting(Stored(c))
          BY <4>1 DEF Waiting, Count
        <5> QED BY <1>1, <2>0, <4>1, <5>1, WaitingStored
      <4>3. CASE c = NO
        BY <4>1, <4>2, <4>3 DEF Input!Enqueued, Input!NoChar, NO
      <4>4. CASE c # NO
        BY <4>1, <4>2, <4>4 DEF Input!Arrive
      <4> QED BY <4>3, <4>4
    <3> QED BY <3>1, <3>2
  <2>5. ASSUME serial_intr PROVE Input!ArriveSerial \/ UNCHANGED vars
    <3>1. CASE rx = NoData
      BY <2>1, <2>5, <3>1 DEF serial_intr, history
    <3>2. CASE rx # NoData
      <4>1. rx \in SerialChars /\ rx \in 0..255 /\ cons' = Stored(rx) /\ UNCHANGED <<mods, typed>>
        BY <2>5, <3>2, ConsoleAssumption DEF serial_intr, history, ConsoleIInv, Types
      <4>2. Unread' = Input!Enqueued(Unread, rx)
        <5>1. Waiting(cons)' = Waiting(Stored(rx))
          BY <4>1 DEF Waiting, Count
        <5> QED BY <1>1, <2>0, <4>1, <5>1, WaitingStored
      <4> QED BY <4>1, <4>2 DEF Input!ArriveSerial
    <3> QED BY <3>1, <3>2
  <2>6. ASSUME take PROVE Input!Take \/ UNCHANGED vars
    <3>1. CASE cons.rpos = cons.wpos
      BY <2>1, <2>6, <3>1 DEF take, history
    <3>2. CASE cons.rpos # cons.wpos
      <4>1. cons' = [cons EXCEPT !.rpos = Next1(@)] /\ UNCHANGED <<mods, typed>>
        BY <2>6, <3>2 DEF take, history
      <4>2. Waiting(cons) # <<>> /\ Waiting(cons') = Tail(Waiting(cons))
        BY <2>0, <3>2, <4>1, WaitingTaken
      <4>3. Waiting(cons)' = Waiting(cons')
        BY DEF Waiting, Count
      <4> QED BY <1>1, <4>1, <4>2, <4>3 DEF Input!Take
    <3> QED BY <3>1, <3>2
  <2>7. ASSUME cons_getc \/ (\E c \in SerialChars : SendSerial(c)) \/ UNCHANGED consoleVars
        PROVE  UNCHANGED vars
    BY <2>1, <2>7 DEF cons_getc, SendSerial, consoleVars, history
  <2> HIDE DEF vars
  <2> QED BY <2>2, <2>3, <2>4, <2>5, <2>6, <2>7 DEF ConsoleNext, Input!InputNext
<1>4. ConsoleSpec => Input!InputSpec
  BY ConsoleInvariance, <1>2, <1>3, PTL DEF ConsoleSpec, Input!InputSpec
<1> QED BY <1>4 DEF ImplementsInputQueue
=============================================================================
