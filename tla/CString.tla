------------------------------ MODULE CString ------------------------------
(***************************************************************************)
(* The string functions of src/lib/string.c.  Memory is a sequence of      *)
(* characters and a pointer is a position in it; a character is a string   *)
(* of TLA+, the one that ends a C string is NUL.  The functions that write *)
(* return the memory they leave.  memset and memmove are the versions in   *)
(* assembly, which move words when everything is aligned.                  *)
(***************************************************************************)
EXTENDS Integers, Sequences

LOCAL INSTANCE SequencesExt

CONSTANTS Code,     \* the number of every character, 0 for NUL
          Word      \* bytes of a word, 4 in the code

NUL == "NUL"

ASSUME CStringAssumption ==
    /\ Word \in Nat \ {0}
    /\ Code[NUL] = 0 /\ \A c \in DOMAIN Code \ {NUL} : Code[c] \in 1..255
    /\ \A c, d \in DOMAIN Code : c # d => Code[c] # Code[d]

-----------------------------------------------------------------------------
(* Reading. *)

strnlen(m, s, size) ==
    LET from[n \in 0..size] ==
          IF n = size THEN n ELSE IF m[s + n] = NUL THEN n ELSE from[n + 1]
    IN from[0]
strlen(m, s) == strnlen(m, s, Len(m) - s)

\* The text a pointer stands for.
CText(m, s) == SubSeq(m, s, s + strlen(m, s) - 1)

\* A literal, as a sequence of its own.
Literal(text) == Append(text, NUL)

strncmp(m, p, o, q, n) ==
    LET same[i \in 0..n] ==
          IF i < n /\ m[p + i] # NUL /\ m[p + i] = o[q + i] THEN same[i + 1] ELSE i
        i == same[0]
    IN IF i = n THEN 0 ELSE Code[m[p + i]] - Code[o[q + i]]
strcmp(m, p, o, q) == strncmp(m, p, o, q, Len(m))

\* The first position of c from s on: strfind ends at the NUL, strchr returns 0.
strfind(m, s, c) ==
    LET at[p \in 1..Len(m)] == IF m[p] \in {NUL, c} THEN p ELSE at[p + 1]
    IN at[s]
strchr(m, s, c) == IF m[strfind(m, s, c)] = NUL THEN 0 ELSE strfind(m, s, c)

-----------------------------------------------------------------------------
(* Writing. *)

\* Whether the word version is used, and the bytes one iteration moves.
Aligned(p) == (p - 1) % Word = 0
Step(d, s, n) == IF Aligned(s) /\ Aligned(d) /\ n % Word = 0 THEN Word ELSE 1

\* A word is read before it is written.
Move(m, d, s, u) == [p \in DOMAIN m |-> IF p \in d..(d + u - 1) THEN m[s + p - d] ELSE m[p]]

memmove_AlwaysForward(m, d, s, n) ==
    LET u == Step(d, s, n)
    IN FoldLeft(LAMBDA t, o : Move(t, d + o, s + o, u), m, [i \in 1..(n \div u) |-> (i - 1) * u])
\* From the end if the destination begins inside the source.
memmove(m, d, s, n) ==
    LET u == Step(d, s, n)
        offsets == [i \in 1..(n \div u) |-> (i - 1) * u]
    IN FoldLeft(LAMBDA t, o : Move(t, d + o, s + o, u), m,
                IF s < d /\ s + n > d THEN Reverse(offsets) ELSE offsets)

memset(m, v, c, n) == [p \in DOMAIN m |-> IF p \in v..(v + n - 1) THEN c ELSE m[p]]

\* The source o is another object.
strncpy(m, dst, o, src, size) ==
    LET len == strlen(o, src)
    IN [p \in DOMAIN m |->
          IF p \notin dst..(dst + size - 1) THEN m[p]
          ELSE IF p - dst < len THEN o[src + p - dst] ELSE NUL]
strlcpy(m, dst, o, src, size) ==
    LET n == IF size = 0 THEN 0 ELSE strnlen(o, src, size - 1)
    IN [m |-> [p \in DOMAIN m |-> IF p \in dst..(dst + n - 1) THEN o[src + p - dst]
                                  ELSE IF size > 0 /\ p = dst + n THEN NUL ELSE m[p]],
        ret |-> n]
=============================================================================
