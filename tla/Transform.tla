------------------------------ MODULE Transform ------------------------------
(***************************************************************************)
(* What the transforms of a logic cone make of a packet                    *)
(* (src/CTransform.cc), and the random choices they draw on (src/func.cc). *)
(*                                                                         *)
(* A packet is the record [name, size, length, id, split].  id stands for  *)
(* its address: a packet that is cut has the addresses of its pieces below *)
(* it.  split is CPacket::SplitStack with the top at the end; an entry is  *)
(* a SplitStatus [source, total].                                          *)
(*                                                                         *)
(* Process(x, packets) is the set of the lists that transform x may make   *)
(* of a list, one for each outcome of its random choices.                  *)
(***************************************************************************)
EXTENDS Integers, SequencesExt

CopyOf(p, id) == [p EXCEPT !.id = id]

\* CSplitTransform.
Rounds(n, chunk) == n \div chunk + IF n % chunk # 0 THEN 1 ELSE 0

LastPieceFull(n, chunk) == chunk

LastPiece(n, chunk) == IF n % chunk # 0 THEN n % chunk ELSE chunk

Piece(x, p, j, rounds) ==
  LET part(n) == IF j = rounds THEN LastPiece(n, x.chunk) ELSE x.chunk
      piece == [CopyOf(p, Append(p.id, j)) EXCEPT
                  !.split = Append(@, [source |-> p.id, total |-> rounds])]
  IN IF x.method = "onLENGTH" THEN [piece EXCEPT !.length = part(p.length)]
     ELSE [piece EXCEPT !.size = part(p.size), !.length = part(p.size)]

Pieces(x, p) ==
  LET rounds == Rounds(IF x.method = "onLENGTH" THEN p.length ELSE p.size, x.chunk)
  IN [j \in 1 .. rounds |-> Piece(x, p, j, rounds)]

PiecesOfFirst(x, packets) == Pieces(x, Head(packets))

Split(x, packets) ==
  FoldLeft(LAMBDA result, p : result \o Pieces(x, p), <<>>, packets)

\* Random(min, max, step) of func.cc for every value of random(); it asserts
\* step < max - min and divides by step.
RandomOffGrid(min, max, step) == min .. max

Random(min, max, step) == {(num + min) - (num % step) : num \in 0 .. max - min}

\* CNumTransform::OperandValue without a field of the source packet.
OperandValue(x) == IF x.random THEN Random(x.min, x.max, x.step) ELSE {x.value}

\* Each packet of the list has its own draw.
Resize(x, packets) ==
  {[i \in DOMAIN packets |->
      IF x.kind = "Size" THEN [packets[i] EXCEPT !.size = value[i], !.length = value[i]]
                         ELSE [packets[i] EXCEPT !.length = value[i]]] :
     value \in [DOMAIN packets -> OperandValue(x)]}

Rename(x, packets) == [i \in DOMAIN packets |-> [packets[i] EXCEPT !.name = x.name]]

\* AddTH and AddTransform add the weights up.
Added(weight) ==
  LET sum[i \in 1 .. Len(weight)] == weight[i] + (IF i = 1 THEN 0 ELSE sum[i - 1])
  IN sum

ChosenUpTo(weight, selector) ==
  CHOOSE i \in DOMAIN weight : /\ selector <= Added(weight)[i]
                               /\ \A j \in 1 .. i - 1 : selector > Added(weight)[j]

\* WeightedRandom: the first whose added-up weight is above the selector.
Chosen(weight, selector) ==
  CHOOSE i \in DOMAIN weight : /\ selector < Added(weight)[i]
                               /\ \A j \in 1 .. i - 1 : selector >= Added(weight)[j]

Selectors(weight) == 0 .. Added(weight)[Len(weight)] - 1

\* CNameTransform, CSplitTransform, CSizeTransform and CLengthTransform.
Basic(x, packets) ==
  CASE x.kind = "Name"  -> {Rename(x, packets)}
    [] x.kind = "Split" -> {Split(x, packets)}
    [] OTHER            -> Resize(x, packets)

\* CRandomTransform: Name() has drawn one transform, which does the whole list.
Process(x, packets) ==
  IF x.kind = "Random"
  THEN UNION {Basic(x.list[Chosen(x.weight, s)], packets) : s \in Selectors(x.weight)}
  ELSE Basic(x, packets)
=============================================================================
