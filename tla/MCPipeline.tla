----------------------------- MODULE MCPipeline -----------------------------
(* Small instances of Pipeline for TLC: two data sets that share buffers. *)
EXTENDS Pipeline

MCOps == {"ImageToData", "ImageToChi", "ImageToChi2", "ImageToLogLike"}
MCLogLikeOnly == {"ImageToLogLike"}
MCChi2Only == {"ImageToChi2"}

\* Data sets of different sizes: 3 and 4 floats.
MCSizes == [small |-> [nVis |-> 0, nV2 |-> 1, nT3 |-> 1, nUV |-> 16],
            large |-> [nVis |-> 0, nV2 |-> 2, nT3 |-> 1, nUV |-> 16]]

\* A data set with complex visibilities.
MCWithVis == [small |-> [nVis |-> 0, nV2 |-> 1, nT3 |-> 0, nUV |-> 16],
              large |-> [nVis |-> 1, nV2 |-> 1, nT3 |-> 0, nUV |-> 16]]
=============================================================================
