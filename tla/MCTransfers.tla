---------------------------- MODULE MCTransfers ----------------------------
(* A data set with squared visibilities and triple products, one with       *)
(* visibilities, and an image of two tiles for TLC. *)
EXTENDS Transfers

MCV2T3 == [nVis |-> 0, nV2 |-> 1, nT3 |-> 1, nUV |-> 3]
MCVis  == [nVis |-> 1, nV2 |-> 0, nT3 |-> 0, nUV |-> 1]
MCTransferSets == {MCV2T3, MCVis}
MCSymmetry == Permutations(Tiles)
=============================================================================
