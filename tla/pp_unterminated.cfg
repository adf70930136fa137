SPECIFICATION PPSpec
CONSTANTS
  Programs = {}
  NestLimit = 2
  InitialValues <- MCValues
  InitialDefines <- MCDefines
  Jobs <- MCJobs
  MAX_INCLUDE_DEPTH = 2
  Shape = "unterminated"
INVARIANT
  UnterminatedReported
