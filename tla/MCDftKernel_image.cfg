SPECIFICATION Spec
CONSTANTS
  WordBits = 4
  Launches <- MCSafeLaunches
INVARIANTS DftOfImage EveryUVPointOnce
CHECK_DEADLOCK FALSE
