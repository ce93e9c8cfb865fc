----------------------------- MODULE MCVmaList -----------------------------
(***************************************************************************)
(* An address space of ten pages of two bytes: page 0, two pages at UTEMP, *)
(* a hole of one page, a program of three pages whose size is no multiple  *)
(* of the page size, the stack, and two pages up to USER_TOP.  Five        *)
(* records leave one for the system calls, and every area that is          *)
(* destroyed frees another.  Areas of one and of two pages fit a hole      *)
(* exactly, with room to spare and not at all.  Destroying one page, or    *)
(* none, at aligned and at odd addresses cuts at the edges of an area, in  *)
(* its middle and across its end; size 0 at an odd address is a range that *)
(* ends before it starts.                                                  *)
(***************************************************************************)
EXTENDS VmaList

MCPerms == {"rw"}
=============================================================================
