\* Three pairs of handlers in a row: they take turns, share by weights, and are
\* dispatched.
SPECIFICATION FairSpec
CONSTANTS
  Chan = {"in", "mid", "out", "end"}
  Src = {"s_a", "s_b", "s_c", "s_d", "s_e", "s_f"}
  Dst = {"d_a", "d_b", "d_c", "d_d", "d_e", "d_f"}
  TH = {"t_a", "t_b", "t_c", "t_d", "t_e", "t_f"}
  Group = {"turns", "shares", "any"}
  SizeA = {2, 3}
  SizeB = {2}
  Room = 3
  None = None
  NoBite = NoBite
  UInt = 1024
  Capacity <- MCCapacity
  ReaderCount <- MCOne
  WriterCount <- MCOne
  Ordered <- MCOrdered
  SrcCh <- MCSrcCh
  Mode <- MCMode
  Accepts <- MCAccepts
  DstCh <- MCDstCh
  SrcOf <- MCSrcOf
  Yield <- MCYield
  Cones <- MCCones
  Kind <- MCKind
  Children <- MCChildren
  Weight <- MCWeight
  BiteSize <- MCBiteSize
  Stages <- MCStages
  Cycle <- MCCycle
  PacketDelay <- MCPacketDelay
  BiteDelay <- MCBiteDelay
  HandlerOrders <- MCHandlerOrders
  DstOrders <- MCDstOrders
  Facet <- MCFacet
INVARIANTS
  SharesKept
  NoSharedPacket
PROPERTIES
  EverythingArrives
