---------------------------- MODULE GroupTransform ----------------------------
(***************************************************************************)
(* CGroupTransform (src/CTransform.cc): ApplyTransform copies the source   *)
(* packet and hands the copy through the list of transforms, each taking   *)
(* the packets that the one before has made.  A group in a group does the  *)
(* same as its members in its place, so lists are flat here.               *)
(***************************************************************************)
EXTENDS Transform, FiniteSetsExt

CONSTANTS
  Groups,   \* the lists of transforms
  Given     \* the source packets

\* No packet is empty: a split makes no pieces of an empty one.
ASSUME GroupAssumption ==
  /\ <<>> \notin Groups
  /\ \A p \in Given : p.id = <<>> /\ p.split = <<>> /\ p.size > 0 /\ p.length > 0

VARIABLES
  transforms,   \* _TransformList
  done,         \* the number of transforms that have been applied
  packets       \* result

vars == <<transforms, done, packets>>

Init ==
  /\ transforms \in Groups
  /\ done = 0
  /\ \E p \in Given : packets = <<CopyOf(p, <<>>)>>

Apply ==
  /\ done < Len(transforms)
  /\ packets' \in Process(transforms[done + 1], packets)
  /\ done' = done + 1
  /\ UNCHANGED transforms

Spec == Init /\ [][Apply]_vars

-----------------------------------------------------------------------------
\* What must hold.

Ancestor(p, level) == SubSeq(p.id, 1, level)

\* Every SplitStatus counts exactly the pieces that are there: the assembling
\* channel waits for TotalCount of them, also when pieces were cut again.
CountsMatch ==
  \A p \in ToSet(packets) : \A level \in DOMAIN p.split :
    LET status == p.split[level]
        kin == {q \in ToSet(packets) : level \in DOMAIN q.split
                                       /\ q.split[level].source = status.source}
    IN Cardinality({Ancestor(q, level) : q \in kin}) = status.total

\* The split transforms that x may stand for.
SplitsOf(x) ==
  IF x.kind = "Random" THEN {y \in ToSet(x.list) : y.kind = "Split"}
  ELSE IF x.kind = "Split" THEN {x} ELSE {}

PiecesOf(p, result) == {q \in ToSet(result) : q.id # <<>> /\ Front(q.id) = p.id}

AddsUp(y, p, pieces) ==
  /\ \A q \in pieces : q.length \in 1 .. y.chunk
  /\ IF y.method = "onLENGTH"
     THEN /\ MapThenSumSet(LAMBDA q : q.length, pieces) = p.length
          /\ \A q \in pieces : q.size = p.size
     ELSE /\ MapThenSumSet(LAMBDA q : q.size, pieces) = p.size
          /\ \A q \in pieces : q.size = q.length

\* A split loses nothing: the pieces of each packet of the list are not empty, no
\* larger than the chunk, and add up to the packet.
NothingLost ==
  [][LET splits == SplitsOf(transforms[done'])
     IN splits # {} =>
          \E y \in splits : \A p \in ToSet(packets) : AddsUp(y, p, PiecesOf(p, packets'))]_vars

\* A random length or size lies on the grid of its step that begins at its
\* minimum, and does not exceed its maximum.
OnGrid ==
  [][LET x == transforms[done']
     IN x.kind \in {"Size", "Length"} /\ x.random =>
          \A i \in DOMAIN packets' : \E k \in 0 .. x.max :
            packets'[i].length = x.min + k * x.step /\ packets'[i].length <= x.max]_vars

\* Of the selectors that WeightedRandom may draw, as many choose a transform as
\* its weight says; one of weight 0 is never chosen.
WeightsKept ==
  \A x \in ToSet(transforms) : x.kind = "Random" =>
    \A i \in DOMAIN x.weight :
      Cardinality({s \in Selectors(x.weight) : Chosen(x.weight, s) = i}) = x.weight[i]
=============================================================================
