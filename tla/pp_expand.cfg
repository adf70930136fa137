SPECIFICATION FairSpec
CONSTANTS
  OnlyLeading = TRUE
  Uses = 4
  MaxLevel = 2
  OutBound = 20
  Cases <- MCCases
INVARIANTS FullyExpanded ReportsLevels
PROPERTY Ends
