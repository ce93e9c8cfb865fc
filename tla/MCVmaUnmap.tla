----------------------------- MODULE MCVmaUnmap -----------------------------
(***************************************************************************)
(* Seven frames.  Four levels of tables, three entries.  Three addresses   *)
(* share a page table, one has a page table, one a directory of its own.   *)
(***************************************************************************)
EXTENDS VmaUnmap

MCReserved == {0, 1}
MCVas == {<<0, 0, 0, 0>>, <<0, 0, 0, 1>>, <<0, 0, 0, 2>>, <<0, 0, 1, 0>>, <<0, 1, 0, 1>>}
OnePage == {<<a>> : a \in MCVas}
=============================================================================
