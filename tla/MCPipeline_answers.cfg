SPECIFICATION Spec
CONSTANTS
  Sets = {"small", "large"}
  Ops <- MCOps
  Shape <- MCSizes
  BufferSize = 4
  MaxChanges = 1
INVARIANTS TypeOK SimulatedIsCurrent
PROPERTY AnswersKeepThePromise
CHECK_DEADLOCK FALSE
