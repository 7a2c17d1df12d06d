SPECIFICATION Spec
CONSTANTS
  WordBits = 6
  InputSizes <- MCSizes
  GROUP_SIZE = 4
  KernelGroupSizes <- MCGroupSizes
INVARIANTS SumComplete RaceFree
CHECK_DEADLOCK FALSE
