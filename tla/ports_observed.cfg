\* What the text may do that the code does not notice: the run stops at the
\* first of these properties it finds violated; each of them is, by itself.
SPECIFICATION Spec
CONSTANTS
  Name = {"a", "b", "i", "c", "q", "clk", "f_cs", "f_ns", "S", "T", "_S_", "_T_"}
  Signal = {"a", "i"}
  Bit = {1, 2}
  Selector = {"i"}
  Clock = {"clk"}
  Constant = {"i"}
  Port = {"a", "q"}
  PortDirection <- MCPortDirection
  PortMsb <- MCPortMsb
  Override = {3}
  StateReg = "f_cs"
  NextReg = "f_ns"
  State = {"S", "T"}
  StateIndex <- MCStateIndex
  Renamed <- MCRenamed
  relaxedfsm = FALSE
  Reconnect = TRUE
  None = None
  MaxSelectorMsb = 1
  MaxStates = 2
  MaxText = 4
CHECK_DEADLOCK FALSE
INVARIANTS
  UsedNetsStay
  NothingNarrowed
  InputsAreNotDriven
  ConstantsAreNoPorts
  OnlyRealMultiDrivers
PROPERTIES
  DeclaredRangeKept
  ConstantRangeKept
