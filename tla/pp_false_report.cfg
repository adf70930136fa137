\* A construct is reported that a later file closes.  With Shape = "undefined" and
\* UndefTakesEffect: a macro that is undefined in a region stays defined.
SPECIFICATION PPSpec
CONSTANTS
  Programs = {}
  NestLimit = 2
  InitialValues <- MCValues
  InitialDefines <- MCDefines
  Jobs <- MCJobs
  MAX_INCLUDE_DEPTH = 2
  Shape = "included"
INVARIANT
  ReportsAreTrue
