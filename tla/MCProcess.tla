----------------------------- MODULE MCProcess -----------------------------
(***************************************************************************)
(* Eight pages of two bytes: page 0, two pages at UTEMP, a program of two  *)
(* pages that starts in the middle of one and whose file part ends in the  *)
(* middle of the other, the stack, and two pages up to USER_TOP.  A print  *)
(* length of 63 is -1 in words of 64 values.                               *)
(***************************************************************************)
EXTENDS Process

MCPerms == {"rw"}
=============================================================================
