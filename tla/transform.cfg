\* The groups of transforms on all small packets.
SPECIFICATION Spec
CONSTANTS
  Largest = 7
  Groups <- MCGroups
  Given <- MCGiven
CHECK_DEADLOCK FALSE
INVARIANTS
  CountsMatch
PROPERTIES
  NothingLost
