SPECIFICATION Spec
CONSTANTS
  WordBits = 4
  Launches <- MCManyTiles
INVARIANT DftOfImage
CHECK_DEADLOCK FALSE
