SPECIFICATION FairSpec
CONSTANTS
  OnlyLeading = FALSE
  Uses = 3
  MaxLevel = 6
  OutBound = 4
  Cases <- MCCases
PROPERTY AllEnd
