---------------------------- MODULE MCSumNVidia ----------------------------
(* The reduction with warps of 2 instead of 32 items for TLC. *)
EXTENDS SumNVidia

MCSizes == {1, 3, 8, 9, 16, 17, 33, 64, 70}
=============================================================================
