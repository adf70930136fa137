\* Text, macros, variables and conditionals over two files; every construct around
\* every other; files that include themselves.
SPECIFICATION PPFairSpec
CONSTANTS
  Programs = {}
  NestLimit = 2
  InitialValues <- MCValues
  InitialDefines <- MCDefines
  Jobs <- MCJobs
  MAX_INCLUDE_DEPTH = 2
  Shape = "balanced"
INVARIANTS
  InSourceOrder
  IncludesFit
  CapturesOpenRegions
PROPERTIES
  Ends
