--------------------------- MODULE MCEnvironments ---------------------------
(***************************************************************************)
(* Thirteen frames, two of them taken at boot.  The shared region needs    *)
(* three tables, the unused stack page one frame; seven are left for the   *)
(* environment's root, tables and pages.  Root index 0 is the              *)
(* environment's, 1 is shared, 2 is the kernel's.                          *)
(***************************************************************************)
EXTENDS Environments

MCReserved == {0, 1}
MCSharedVa == <<1, 0, 0, 0>>
MCVas == {<<0, 0, 0, 0>>, <<0, 0, 0, 1>>, <<0, 0, 0, 2>>, <<0, 0, 1, 0>>, <<0, 1, 0, 1>>}
OnePage == {<<a>> : a \in MCVas}
\* The current environment (twice), its slot with an older and a newer
\* generation, another slot, a negative id.
MCEnvIds == {0, 4, 2, 8, 5, -4}
=============================================================================
