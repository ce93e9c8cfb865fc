---------------------------- MODULE MCPageAlloc ----------------------------
(***************************************************************************)
(* A small memory for TLC: nine frames in huge pages of three, so that a   *)
(* block has a first, a middle and a last page.  Frames 0 and 1 are        *)
(* reserved, which spoils the first block; the other two can be split,     *)
(* merged and handed out whole.                                            *)
(***************************************************************************)
EXTENDS PageAllocLoops

MCReserved == {0, 1}
=============================================================================
