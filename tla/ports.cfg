\* One module with two code blocks, or an instance and a block.
SPECIFICATION Spec
CONSTANTS
  Name = {"a", "b", "i", "c", "q", "clk", "f_cs", "f_ns", "S", "T", "_S_", "_T_"}
  Signal = {"a", "i"}
  Bit = {0, 1}
  Selector = {"i"}
  Clock = {"clk"}
  Constant = {"i"}
  Port = {"a", "q"}
  PortDirection <- MCPortDirection
  PortMsb <- MCPortMsb
  Override = {3}
  StateReg = "f_cs"
  NextReg = "f_ns"
  State = {"S", "T"}
  StateIndex <- MCStateIndex
  Renamed <- MCRenamed
  relaxedfsm = FALSE
  Reconnect = FALSE
  None = None
  MaxSelectorMsb = 1
  MaxStates = 2
  MaxText = 4
CHECK_DEADLOCK FALSE
INVARIANTS
  DirectionOfUses
  Interface
  WidthsCover
  ReportsComplete
  Frozen
  FitsItsWidth
