\* A descriptor is sent before the packet that it describes has come in.
SPECIFICATION Spec
CONSTANTS
  Chan = {"in", "mem", "out", "ctl", "end"}
  Src = {"s_in", "s_mem"}
  Dst = {"d_mem", "d_ctl"}
  TH = {"t_in", "t_mem"}
  Group = {}
  SeedSize = {2, 3}
  Room = 3
  CtlDelay = {0}
  None = None
  NoBite = NoBite
  UInt = 1024
  Capacity <- MCCapacity
  ReaderCount <- MCOne
  WriterCount <- MCOne
  Ordered <- MCOrdered
  SrcCh <- MCSrcCh
  Mode <- MCMode
  Accepts <- MCAccepts
  DstCh <- MCDstCh
  SrcOf <- MCSrcOf
  Yield <- MCYield
  Cones <- MCCones
  Kind <- NoGroup
  Children <- NoGroup
  Weight <- NoGroup
  BiteSize <- MCBiteSize
  Stages <- MCStages
  Cycle <- MCCycle
  PacketDelay <- MCPacketDelay
  BiteDelay <- MCBiteDelay
  HandlerOrders <- MCHandlerOrders
  DstOrders <- MCDstOrders
  Facet <- MCFacet
INVARIANTS
  FlushCompletes
