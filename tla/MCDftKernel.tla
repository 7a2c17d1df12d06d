---------------------------- MODULE MCDftKernel ----------------------------
(* Small instances of DftKernel for TLC: groups of at most 4 items. *)
EXTENDS DftKernel

\* A group within one lockstep bundle, and images of one, two and three tiles.
MCOneBundle == [local : {2, 4}, width : {4}, pixels : {3, 5, 8}, nuv : {3, 4, 6}]
\* A group of several bundles: images of a single tile, of several tiles.
MCOneTile  == [local : {4}, width : {1, 2}, pixels : {1, 3, 4}, nuv : {3, 4, 6}]
MCManyTiles == [local : {4}, width : {1, 2}, pixels : {5, 8}, nuv : {3, 4, 6}]

MCSafeLaunches == MCOneBundle \cup MCOneTile
=============================================================================
