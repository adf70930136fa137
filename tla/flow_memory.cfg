\* Two packets through a cut-through stage with two cones of different sizes.
SPECIFICATION FairSpec
CONSTANTS
  Chan = {"in", "mem", "out", "ctl", "end"}
  Src = {"s_in", "s_mem", "s_out"}
  Dst = {"d_mem", "d_out", "d_ctl", "d_end"}
  TH = {"t_in", "t_mem", "t_out"}
  Group = {}
  SeedSize = {2, 3}
  Room = 3
  CtlDelay = {2, 3}
  None = None
  NoBite = NoBite
  UInt = 1024
  Capacity <- MCCapacity
  ReaderCount <- MCOne
  WriterCount <- MCOne
  Ordered <- MCOrdered
  SrcCh <- MCSrcCh
  Mode <- MCMode
  Accepts <- MCAccepts
  DstCh <- MCDstCh
  SrcOf <- MCSrcOf
  Yield <- MCYield
  Cones <- MCCones
  Kind <- NoGroup
  Children <- NoGroup
  Weight <- NoGroup
  BiteSize <- MCBiteSize
  Stages <- MCStages
  Cycle <- MCCycle
  PacketDelay <- MCPacketDelay
  BiteDelay <- MCBiteDelay
  HandlerOrders <- MCHandlerOrders
  DstOrders <- MCDstOrders
  Facet <- MCFacet
INVARIANTS
  BytesConserved
  NotAheadOfSource
  FreedAfterAllCones
  OrderKept
PROPERTIES
  EverythingArrives
  ImplementsChannel
