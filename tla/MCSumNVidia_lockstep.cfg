SPECIFICATION Spec
CONSTANTS
  WordBits = 8
  InputSizes <- MCSizes
  MaxThreads = 8
  MaxBlocks = 4
  MinBuffer = 8
  LastWarp = 2
  Width = 2
INVARIANTS SumComplete InBounds
CHECK_DEADLOCK FALSE
