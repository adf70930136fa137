------------------------------ MODULE MCAssemble ------------------------------
(***************************************************************************)
(* A small instance of Assemble: packet a is cut by size twice, packet b   *)
(* by length, packet c is not cut; two writers share their pieces.         *)
(***************************************************************************)
EXTENDS Assemble

Packet(name, id, size, length) ==
  [name |-> name, size |-> size, length |-> length, id |-> <<id>>, split |-> <<>>]

SplitBy(m, n) == [kind |-> "Split", method |-> m, chunk |-> n]

A == Packet("a", 1, 4, 4)
B == Packet("b", 2, 1, 4)
C == Packet("c", 3, 3, 3)

MCGiven == {A, B, C}
MCCuts == (A :> <<SplitBy("onSIZE", 3), SplitBy("onSIZE", 2)>>)
          @@ (B :> <<SplitBy("onLENGTH", 3)>>) @@ (C :> <<>>)

\* A makes three pieces, two of them from its first part; the first has two bytes and
\* comes in two bites.  B makes two.
a == CutUp(A)
b == CutUp(B)

MCCargo == [w1 |-> <<a[2], b[1], a[1]>>, w2 |-> <<b[2], C, a[3]>>]
MCBiteSize == [w1 |-> 1, w2 |-> 2]
=============================================================================
