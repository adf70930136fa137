\* An unordered channel that two readers may read at once.
SPECIFICATION Spec
CONSTANTS
  Facet = {"f1", "f2", "f3"}
  Reader = {"r1", "r2", "r3"}
  Writer = {"w1", "w2"}
  None = "none"
  Capacity = 5
  ReaderCount = 2
  WriterCount = 1
  Ordered = FALSE
  Size <- MCSize
  Mode <- MCModeAhead
  Matches <- MCMatches
  THOf <- MCTHOf
  UInt <- MCUInt
INVARIANTS
  ReadLockDiscipline
  PacketsNotInterleaved
  LeavesWhole
PROPERTIES
  ArrivesOnce
CHECK_DEADLOCK FALSE
