---------------------------- MODULE MCPageTables ----------------------------
(***************************************************************************)
(* Nine frames in three blocks, the first of which is reserved: a root and *)
(* two tables leave three frames for data, or one more pair of tables and  *)
(* one.  Three levels of tables with three entries.  Two addresses share a *)
(* page table, two share a directory, one has tables of its own; so no     *)
(* page is mapped more than four times, and MaxRef = 5 cuts nothing off.   *)
(***************************************************************************)
EXTENDS PageTables

MCReserved == {0, 1, 2}
MCVas == {<<0, 0, 0>>, <<0, 0, 1>>, <<0, 1, 0>>, <<1, 0, 0>>}
=============================================================================
