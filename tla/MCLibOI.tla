------------------------------ MODULE MCLibOI ------------------------------
(* Small instances of LibOI and LibOIClient for TLC. *)
EXTENDS LibOIClient

MCSmall == [nVis |-> 0, nV2 |-> 2, nT3 |-> 1, nUV |-> 3]     \*  4 floats, 16 UV points
MCLarge == [nVis |-> 1, nV2 |-> 1, nT3 |-> 2, nUV |-> 17]    \*  7 floats, 32 UV points
MCEmpty == [nVis |-> 0, nV2 |-> 0, nT3 |-> 0, nUV |-> 0]

MCThreeDataSets == {MCSmall, MCLarge, MCEmpty}
MCTwoDataSets == {MCSmall, MCLarge}

MCSquare == [w |-> 2, h |-> 2, d |-> 1, scale |-> 1]
MCFine   == [w |-> 2, h |-> 2, d |-> 1, scale |-> 3]
MCTall   == [w |-> 2, h |-> 3, d |-> 1, scale |-> 2]
MCWide   == [w |-> 3, h |-> 1, d |-> 2, scale |-> 1]

MCUnitImage == {[w |-> 1, h |-> 1, d |-> 1, scale |-> 1]}
MCImages == {MCSquare, MCTall}
MCOneImage == {MCSquare}
MCAllImages == {MCSquare, MCFine, MCTall, MCWide}

MCUserBuffers == {[kind |-> "user", gen |-> 0, size |-> 6]}
=============================================================================
