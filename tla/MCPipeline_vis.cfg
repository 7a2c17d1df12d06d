SPECIFICATION Spec
CONSTANTS
  Sets = {"small", "large"}
  Ops <- MCChi2Only
  Shape <- MCWithVis
  BufferSize = 3
  MaxChanges = 1
INVARIANT Chi2OfCurrentImage
CHECK_DEADLOCK FALSE
