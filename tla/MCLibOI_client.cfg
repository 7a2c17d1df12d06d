SPECIFICATION ClientSpec
CONSTANTS
  WordBits = 6
  MaxUInt = 63
  DataSets <- MCTwoDataSets
  ImageInfos <- MCAllImages
  Sources = {"HOST_MEMORY", "OPENCL_BUFFER", "OPENGL_TEXTUREBUFFER"}
  UserBuffers <- MCUserBuffers
  Interop = TRUE
  GroupSize = 2
  MaxSets = 2
  MaxEpoch = 3
INVARIANTS ClientServed ScaleIsCurrent TotalFluxCoversImage NothingLeaks
CHECK_DEADLOCK FALSE
