----------------------------- MODULE MCSumAMD -----------------------------
(* The reduction with work-groups of 4 items, instead of 256, for TLC. *)
EXTENDS SumAMD

MCSizes == {1, 2, 5, 8, 13, 16, 20}
MCGroupSizes == {2, 3, 8}
=============================================================================
