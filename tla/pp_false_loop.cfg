SPECIFICATION Spec
CONSTANTS
  OnlyLeading = TRUE
  Uses = 4
  MaxLevel = 3
  OutBound = 20
  Cases <- MCCases
INVARIANT ReportsLoops
