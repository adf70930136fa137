\* The back door puts more bytes into a finite channel than it holds.
SPECIFICATION Spec
CONSTANTS
  Facet = {"f1", "f2", "f3"}
  Reader = {"r1", "r2"}
  Writer = {"w1", "w2"}
  None = "none"
  Capacity = 2
  ReaderCount = 1
  WriterCount = 1
  Ordered = TRUE
  Size <- MCSize
  Mode <- MCMode
  Matches <- MCMatches
  THOf <- MCTHOf
  UInt <- MCUInt
PROPERTIES
  HaltsWithoutRoom
CHECK_DEADLOCK FALSE
