\* Pieces of three packets come in through two writers; there is room for all
\* pieces that may have to wait for others.
SPECIFICATION FairSpec
CHECK_DEADLOCK FALSE
CONSTANTS
  Capacity = 6
  Writer = {"w1", "w2"}
  Given <- MCGiven
  Cuts <- MCCuts
  Cargo <- MCCargo
  BiteSize <- MCBiteSize
INVARIANTS
  OccupiedExact
  RestoredWhole
PROPERTIES
  ImplementsQueue
  EverythingTaken
