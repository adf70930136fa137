------------------------------ MODULE MCChannel ------------------------------
(***************************************************************************)
(* Small instances of Channel: two or three readers, two writers.    *)
(***************************************************************************)
EXTENDS Channel

\* Two packets of two bytes and one of three.
MCSize == [f \in Facet |-> IF f = "f3" THEN 3 ELSE 2]

\* Reader r1 pipelines, r2 takes whole packets.
MCMode == [t \in Reader |-> IF t = "r1" THEN "PIPELINE" ELSE "SERIAL_POST"]
MCModeAhead ==
  [t \in Reader |-> IF t = "r1" THEN "PIPELINE" ELSE "SERIAL_AHEAD"]

\* Reader r2 accepts every packet, r1 all but f1.
MCMatches == [t \in Reader |-> IF t = "r1" THEN Facet \ {"f1"} ELSE Facet]

\* A destination is named after its handler.
MCTHOf == [d \in Writer |-> d]

MCUInt == 1024
=============================================================================
