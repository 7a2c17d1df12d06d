SPECIFICATION Spec
CONSTANTS
  Threads = {t1, t2}
  MaxUInt = 7
  MaxLoads = 2
INVARIANTS TypeOK MemoryMatchesUse
PROPERTIES SequentialUnlessDisturbed MutexReleased
CHECK_DEADLOCK FALSE
