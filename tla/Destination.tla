----------------------------- MODULE Destination -----------------------------
(***************************************************************************)
(* A CDestination (src/CDestination.cc, .hh): it cuts the packets that a   *)
(* logic cone produced into bites, one bite per _Cycle at most and after   *)
(* the packet and bite delays, and sends the bites down a pipeline whose   *)
(* last stage writes to a channel.                                         *)
(*                                                                         *)
(* The object is a record; Transfer and Shift give the record that a call  *)
(* leaves.  Flow.tla makes the calls.  A facet is a record with a field    *)
(* size, its CPacket::Size.                                                *)
(*                                                                         *)
(* Time is counted in periods of G_CLOCK and kept relative to the present: *)
(* a point in time that has passed is not positive.  The code compares     *)
(* doubles; here _Cycle is a whole number of periods and comparing is      *)
(* exact.                                                                  *)
(***************************************************************************)
EXTENDS Integers, Sequences

CONSTANTS
  Dst,          \* the destinations
  BiteSize,     \* BiteSize[d]: _BiteSize
  Stages,       \* Stages[d]: the length of _PipelineUnit
  Cycle,        \* Cycle[d]: _Cycle
  PacketDelay,  \* PacketDelay[d]: the delays that GetPacketDelay may return
  BiteDelay,    \* BiteDelay[d]: the delays that GetBiteDelay may return
  NoBite        \* NULL

ASSUME DestinationAssumption ==
  /\ BiteSize \in [Dst -> Nat \ {0}]
  /\ Stages \in [Dst -> Nat \ {0}]
  /\ Cycle \in [Dst -> Nat \ {0}]
  /\ PacketDelay \in [Dst -> (SUBSET Nat) \ {{}}]
  /\ BiteDelay \in [Dst -> (SUBSET Nat) \ {{}}]

StreamState == {"PREPARE_PACKET_DELAY", "WAIT_PACKET_DELAY",
                "PREPARE_BITE_DELAY", "WAIT_BITE_DELAY", "STREAMING"}

PipelineState == {"UNPREPARED", "PREPARED", "RESUME", "TRANSFER"}

\* CBite
Bite(facet, size, last) == [facet |-> facet, size |-> size, last |-> last]

\* The constructor, with SetPerformance and SetPipeline.
NewDestination(d) ==
  [pending  |-> <<>>,                                \* _PendingQueue
   sent     |-> 0,              \* DstTransferredSize of the packet in front
   bite     |-> NoBite,                              \* _CurrentBite
   unit     |-> [i \in 1 .. Stages[d] |-> NoBite],   \* _PipelineUnit
   offset   |-> 0,                                   \* _CurrentOffset
   stream   |-> "PREPARE_PACKET_DELAY",              \* _StreamState
   pipeline |-> "UNPREPARED",                        \* _PipelineState
   active   |-> Cycle[d],                            \* _NextActivePoint
   update   |-> Cycle[d],                            \* _NextPipelineUpdatePoint
   point    |-> 0]                                   \* _TimePoint

\* The first point of the grid of multiples of cycle that is yet to come.
NextPoint(point, cycle) == point + cycle * ((-point) \div cycle + 1)

\* One period passes.  Of a point long past only its place in the grid counts.
Elapse(d, r) ==
  LET past(point) == IF point = 1 - Cycle[d] THEN 0 ELSE point - 1
  IN [r EXCEPT !.active = past(@),
               !.update = past(@),
               !.point = IF @ > 0 THEN @ - 1 ELSE 0]

-----------------------------------------------------------------------------
\* The reading side.

ResetOffset(r) == [r EXCEPT !.offset = 0]

Fill(r, facets) == [r EXCEPT !.pending = @ \o facets]

\* (Names like IsPreparedIfNotUnprepared are mistakes a maintainer could make in the
\* definition that follows; no specification uses them.)
IsPreparedIfNotUnprepared(r) == r.pipeline # "UNPREPARED"

IsPrepared(r) == r.pipeline \in {"PREPARED", "RESUME"}

SetToPrepare(r) ==
  [r EXCEPT !.pipeline = IF @ = "TRANSFER" THEN "UNPREPARED" ELSE @]

SetToResume(r) == [r EXCEPT !.pipeline = "RESUME"]

SetToTransfer(r) == [r EXCEPT !.pipeline = "TRANSFER"]

\* The streaming states that need no data: each falls through to the next one
\* as soon as its delay is over.
PassDelays(r, packetDelay, biteDelay) ==
  LET prepared == IF r.stream = "PREPARE_PACKET_DELAY"
                  THEN [r EXCEPT !.stream = "WAIT_PACKET_DELAY", !.point = packetDelay]
                  ELSE r
      begun == \/ prepared.stream = "WAIT_PACKET_DELAY" /\ prepared.point = 0
               \/ prepared.stream = "PREPARE_BITE_DELAY"
      waiting == IF begun
                 THEN [prepared EXCEPT !.stream = "WAIT_BITE_DELAY", !.point = biteDelay]
                 ELSE prepared
  IN IF waiting.stream = "WAIT_BITE_DELAY" /\ waiting.point = 0
     THEN [waiting EXCEPT !.stream = "STREAMING"]
     ELSE waiting

DueBiteUnclipped(d, r) ==
  LET facet == Head(r.pending)
  IN Bite(facet, BiteSize[d], r.sent + BiteSize[d] >= facet.size)

\* The bite that is due: the last one of a packet may be short.
DueBite(d, r) ==
  LET facet == Head(r.pending)
      last == r.sent + BiteSize[d] >= facet.size
  IN Bite(facet, IF last THEN facet.size - r.sent ELSE BiteSize[d], last)

NeedsOffsetOnly(d, r) == r.offset

\* How many bytes of the source packet the due bite takes for granted.
Needs(d, r) == r.offset + DueBite(d, r).size

\* The due bite becomes the current one.
TakeBite(d, r) ==
  LET bite == DueBite(d, r)
  IN [r EXCEPT !.offset = @ + bite.size,
               !.bite = bite,
               !.sent = IF bite.last THEN 0 ELSE @ + bite.size,
               !.pending = IF bite.last THEN Tail(@) ELSE @,
               !.stream = IF bite.last THEN "PREPARE_PACKET_DELAY"
                                       ELSE "PREPARE_BITE_DELAY"]

\* Transfer; available: the sources have the bytes of the due bite.  The call
\* puts the pipeline into PPL_TRANSFER whatever it was set to before.
Transfer(d, r, available, packetDelay, biteDelay) ==
  LET called == [r EXCEPT !.pipeline = "TRANSFER"]
      ready == PassDelays([called EXCEPT !.active = NextPoint(@, Cycle[d])],
                          packetDelay, biteDelay)
  IN CASE r.active > 0 -> called
       [] r.active <= 0 /\ ready.stream # "STREAMING" -> ready
       [] r.active <= 0 /\ ready.stream = "STREAMING" ->
            IF ready.bite = NoBite /\ available THEN TakeBite(d, ready) ELSE ready

-----------------------------------------------------------------------------
\* The writing side.

TopBite(d, r) == r.unit[Stages[d]]

\* UpdatePipeline leaves at once in PPL_PREPARED and before the update point.
Halted(r) == r.pipeline = "PREPARED"

Due(r) == ~Halted(r) /\ r.update <= 0

Polled(d, r) == [r EXCEPT !.update = NextPoint(@, Cycle[d])]

AfterLastUnprepared(state) == "UNPREPARED"

\* The pipeline state once a last bite has been written.
AfterLast(state) == IF state = "TRANSFER" THEN "TRANSFER" ELSE "UNPREPARED"

ShiftKeepsBite(d, r) ==
  [r EXCEPT !.unit = [i \in 1 .. Stages[d] |-> IF i = 1 THEN r.bite ELSE r.unit[i - 1]]]

\* The end of UpdatePipeline: the bites move on, the current bite enters, and
\* an unprepared pipeline is prepared when a bite has come to the top.
Shift(d, r) ==
  LET top == TopBite(d, r)
      state == IF top # NoBite /\ top.last THEN AfterLast(r.pipeline) ELSE r.pipeline
      moved == [r EXCEPT !.unit = [i \in 1 .. Stages[d] |->
                                     IF i = 1 THEN r.bite ELSE r.unit[i - 1]],
                         !.bite = NoBite]
  IN [moved EXCEPT !.pipeline = IF TopBite(d, moved) # NoBite /\ state = "UNPREPARED"
                                THEN "PREPARED" ELSE state]
=============================================================================
