\* A finite ordered channel as in dma/arch.h: default lock counts.
SPECIFICATION Spec
CONSTANTS
  Facet = {"f1", "f2", "f3", "f4"}
  Reader = {"r1", "r2"}
  Writer = {"w1", "w2"}
  None = "none"
  Capacity = 4
  ReaderCount = 1
  WriterCount = 1
  Ordered = TRUE
  Size <- MCSize
  Mode <- MCMode
  Matches <- MCMatches
  THOf <- MCTHOf
  UInt <- MCUInt
CHECK_DEADLOCK FALSE
INVARIANTS
  OccupiedExact
  LeavesWhole
  PacketsNotInterleaved
PROPERTIES
  ImplementsQueue
