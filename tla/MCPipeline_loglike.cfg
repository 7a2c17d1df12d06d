SPECIFICATION Spec
CONSTANTS
  Sets = {"small", "large"}
  Ops <- MCLogLikeOnly
  Shape <- MCSizes
  BufferSize = 4
  MaxChanges = 1
INVARIANT UninvolvedElementsZero
CHECK_DEADLOCK FALSE
