SPECIFICATION Spec
CONSTANTS
  DataSets <- MCTransferSets
  Lengths = {2}
  MaxPending = 1
  MaxRefused = 1
  Sources = {"HOST_MEMORY", "OPENGL_TEXTUREBUFFER"}
  Tiles = {t1, t2}
INVARIANTS TypeOK NothingPending WholeFrame ObjectReturned
PROPERTIES ContentsKept
SYMMETRY MCSymmetry
CHECK_DEADLOCK FALSE
