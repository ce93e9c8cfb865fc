---------------------------- MODULE MCBootMemory ----------------------------
(***************************************************************************)
(* 56 pages in blocks of eight.  Low memory ends with a page that is only  *)
(* half free, as on a PC, or with a whole page; the kernel's image and the *)
(* tables behind it end at page 26, two pages above what boot.S maps; the  *)
(* last three blocks are free except for what the maps take out of them.   *)
(***************************************************************************)
EXTENDS BootMemory

B(pages) == pages * PageSize
Area(from, to, free) == [addr |-> from, len |-> to - from, free |-> free]

Low == <<Area(B(0), B(15), TRUE), Area(B(15), B(16), FALSE)>>
HalfPage == <<Area(B(0), B(14) + PageSize \div 2, TRUE),
              Area(B(14) + PageSize \div 2, B(16), FALSE)>>

Whole == Low \o <<Area(B(16), B(56), TRUE)>>
Ebda == HalfPage \o <<Area(B(16), B(56), TRUE)>>
\* Two entries that meet inside a block, a hole inside a block, a reserved end.
Split == HalfPage \o <<Area(B(16), B(35), TRUE), Area(B(35), B(56), TRUE)>>
Hole == Low \o <<Area(B(16), B(50), TRUE), Area(B(50), B(51), FALSE), Area(B(51), B(56), TRUE)>>
End == HalfPage \o <<Area(B(16), B(52), TRUE), Area(B(52), B(56), FALSE)>>

MCMaps == {Whole, Ebda, Split, Hole, End}
=============================================================================
