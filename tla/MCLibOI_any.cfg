SPECIFICATION Spec
CONSTANTS
  WordBits = 6
  MaxUInt = 63
  DataSets <- MCThreeDataSets
  ImageInfos <- MCUnitImage
  Sources = {"OPENGL_TEXTUREBUFFER"}
  UserBuffers = {}
  Interop = TRUE
  GroupSize = 2
  MaxSets = 2
  MaxEpoch = 2
INVARIANTS TypeOK DataBuffersFit ChiBuffersFit DataRoutinesFlagged
CHECK_DEADLOCK FALSE
