----------------------------- MODULE MCDataList -----------------------------
(* Two threads and up to two data sets for TLC. *)
EXTENDS DataList
=============================================================================
