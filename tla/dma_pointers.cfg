CONSTANTS
  IDC = {"IDC1", "IDC2"}
  ODC = {"ODC1", "ODC2"}
  Count = 1
  BlockSize = 64
  IDCBuffer = 64
  ODCBuffer = 64
  CPLSBuffer = 16
  Depth = 1
SPECIFICATION Spec
CHECK_DEADLOCK FALSE
INVARIANT
  PointersOfFourBytes
