------------------------------ MODULE MCMemory ------------------------------
(***************************************************************************)
(* A small instance of Flow after EUx in src/dma/flow.h: a handler reads   *)
(* packets from channel mem as they come in and sends each on to channel   *)
(* out, and a descriptor of one byte to channel ctl.  mem is filled by a   *)
(* handler that takes whole packets out of channel in, and out is emptied  *)
(* by one that pops a packet when it has sent it.  Src, Dst and TH may be   *)
(* subsets, to leave a part of the design out.                             *)
(***************************************************************************)
EXTENDS Flow

CONSTANTS
  SeedSize,   \* the sizes of the packets that the back door may put in
  Room,       \* the capacity of mem and out
  CtlDelay    \* the packet delays of d_ctl

MCSrcCh == Restrict([s_in |-> "in", s_mem |-> "mem", s_out |-> "out"], Src)
MCMode == Restrict([s_in |-> "SERIAL_AHEAD", s_mem |-> "PIPELINE", s_out |-> "SERIAL_POST"], Src)
MCAccepts == Restrict([s_in |-> {"s_in"}, s_mem |-> {"d_mem"}, s_out |-> {"d_out"}], Src)
MCDstCh == Restrict([d_mem |-> "mem", d_out |-> "out", d_ctl |-> "ctl", d_end |-> "end"], Dst)
MCSrcOf == Restrict([d_mem |-> "s_in", d_out |-> "s_mem", d_ctl |-> "s_mem", d_end |-> "s_out"], Dst)
Present(seq, S) == SelectSeq(seq, LAMBDA x : x \in S)

MCCones ==
  [t \in TH |-> Present([t_in |-> <<"d_mem">>, t_mem |-> <<"d_out", "d_ctl">>,
                         t_out |-> <<"d_end">>][t], Dst)]

MCCapacity == [c \in Chan |-> IF c \in {"mem", "out"} THEN Room ELSE 0]
MCOne == [c \in Chan |-> 1]
MCOrdered == [c \in Chan |-> TRUE]

MCBiteSize == Restrict([d_mem |-> 2, d_out |-> 1, d_ctl |-> 1, d_end |-> 2], Dst)
MCStages == Restrict([d_mem |-> 2, d_out |-> 2, d_ctl |-> 1, d_end |-> 1], Dst)
MCCycle == Restrict([d_mem |-> 3, d_out |-> 1, d_ctl |-> 1, d_end |-> 1], Dst)
MCPacketDelay == Restrict([d_mem |-> {0}, d_out |-> {0}, d_ctl |-> CtlDelay, d_end |-> {0}], Dst)
MCBiteDelay == Restrict([d_mem |-> {0}, d_out |-> {0}, d_ctl |-> {0}, d_end |-> {0}], Dst)
\* The cone of d_ctl makes a descriptor, that of d_end may split a packet in two.
MCYield ==
  [d \in Dst |-> [n \in 1 .. 9 |->
     CASE d = "d_ctl" -> {<<1>>}
       [] d = "d_end" /\ n > 1 -> {<<n>>, <<1, n - 1>>}
       [] OTHER -> {<<n>>}]]

NoGroup == [g \in Group |-> <<>>]

\* Up and down the stream.
MCHandlerOrders ==
  {Present(o, TH) : o \in {<<"t_in", "t_mem", "t_out">>, <<"t_out", "t_mem", "t_in">>}}
MCDstOrders ==
  {Present(o, Dst) : o \in {<<"d_mem", "d_out", "d_ctl", "d_end">>,
                            <<"d_end", "d_ctl", "d_out", "d_mem">>}}

\* The seeds, and what the cones make of them.
MCFacet ==
  LET seeds == {[of |-> None, by |-> "s_in", idx |-> n, size |-> n] : n \in SeedSize}
      products(F) ==
        UNION {UNION {ToSet(Product(f, d, sizes)) : sizes \in Yield[d][f.size]} :
                 <<d, f>> \in {x \in Dst \X F : x[2].by \in Accepts[SrcOf[x[1]]]}}
      upTo[n \in 0 .. 3] == IF n = 0 THEN seeds ELSE upTo[n - 1] \cup products(upTo[n - 1])
  IN upTo[3]
=============================================================================
