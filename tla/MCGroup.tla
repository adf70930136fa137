------------------------------- MODULE MCGroup -------------------------------
(***************************************************************************)
(* A small instance of Flow after the request handlers of src/dma/flow.h   *)
(* (DMA.CPP read request RR): three pairs of handlers in a row, each pair  *)
(* under a group handler.  The first pair takes turns and moves packets    *)
(* from channel in to channel mid, an arbiter has the second move them on  *)
(* to channel out, and a dispatcher has the third take them out of there.  *)
(* Each channel serves one reader and one writer at a time.                *)
(***************************************************************************)
EXTENDS Flow

CONSTANTS
  SizeA, SizeB,  \* the sizes of the packets for t_a and for t_b
  Room           \* the capacity of mid and out

MCSrcCh == [s_a |-> "in", s_b |-> "in", s_c |-> "mid", s_d |-> "mid",
            s_e |-> "out", s_f |-> "out"]
MCMode == [s_a |-> "SERIAL_AHEAD", s_b |-> "SERIAL_POST", s_c |-> "SERIAL_POST",
           s_d |-> "SERIAL_AHEAD", s_e |-> "SERIAL_AHEAD", s_f |-> "SERIAL_POST"]
\* The last two take any packet, the others have their own.
MCAccepts == [s_a |-> {"s_a"}, s_b |-> {"s_b"}, s_c |-> {"d_a"}, s_d |-> {"d_b"},
              s_e |-> {"d_c", "d_d"}, s_f |-> {"d_c", "d_d"}]
MCDstCh == [d_a |-> "mid", d_b |-> "mid", d_c |-> "out", d_d |-> "out",
            d_e |-> "end", d_f |-> "end"]
MCSrcOf == [d_a |-> "s_a", d_b |-> "s_b", d_c |-> "s_c", d_d |-> "s_d",
            d_e |-> "s_e", d_f |-> "s_f"]
MCCones == [t_a |-> <<"d_a">>, t_b |-> <<"d_b">>, t_c |-> <<"d_c">>, t_d |-> <<"d_d">>,
            t_e |-> <<"d_e">>, t_f |-> <<"d_f">>]

MCCapacity == [c \in Chan |-> IF c \in {"mid", "out"} THEN Room ELSE 0]
MCOne == [c \in Chan |-> 1]
MCOrdered == [c \in Chan |-> c = "out"]

MCBiteSize == [d \in Dst |-> IF d = "d_e" THEN 2 ELSE 1]
MCStages == [d \in Dst |-> IF d = "d_a" THEN 2 ELSE 1]
MCCycle == [d \in Dst |-> 1]
MCPacketDelay == [d \in Dst |-> IF d = "d_a" THEN {2} ELSE {0}]
MCBiteDelay == [d \in Dst |-> IF d = "d_b" THEN {0, 1} ELSE {0}]
MCYield == [d \in Dst |-> [n \in 1 .. 9 |-> {<<n>>}]]

MCKind == [turns |-> "RoundRobin", shares |-> "Arbiter", any |-> "Dispatch"]
\* Of the last two, the one that keeps the read port is asked last, and finds the
\* port free otherwise.
MCChildren == [turns |-> <<"t_b", "t_a">>, shares |-> <<"t_c", "t_d">>,
               any |-> <<"t_e", "t_f">>]
MCWeight == [g \in Group |-> <<1, 2>>]

\* Up and down the stream.
MCHandlerOrders == {<<"turns", "shares", "any">>, <<"any", "shares", "turns">>}
MCDstOrders == {<<"d_a", "d_b", "d_c", "d_d", "d_e", "d_f">>,
                <<"d_f", "d_e", "d_d", "d_c", "d_b", "d_a">>}

\* The seeds, and what the cones make of them.
MCFacet ==
  LET seeds == {[of |-> None, by |-> "s_a", idx |-> n, size |-> n] : n \in SizeA}
               \cup {[of |-> None, by |-> "s_b", idx |-> n, size |-> n] : n \in SizeB}
      products(F) ==
        UNION {UNION {ToSet(Product(f, d, sizes)) : sizes \in Yield[d][f.size]} :
                 <<d, f>> \in {x \in Dst \X F : x[2].by \in Accepts[SrcOf[x[1]]]}}
      upTo[n \in 0 .. 3] == IF n = 0 THEN seeds ELSE upTo[n - 1] \cup products(upTo[n - 1])
  IN upTo[3]
=============================================================================
