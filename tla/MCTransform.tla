----------------------------- MODULE MCTransform -----------------------------
(***************************************************************************)
(* Instances of GroupTransform after the groups of src/dma/flow.h: rename  *)
(* and split by a chunk drawn at random (xf_common_Data_fetch_req_2_...),  *)
(* set a size and split (CPR.cpl), and pieces that are resized and cut     *)
(* again.                                                                  *)
(***************************************************************************)
EXTENDS GroupTransform

CONSTANT Largest   \* the largest size and length of a source packet

SplitBy(m, n) == [kind |-> "Split", method |-> m, chunk |-> n]
RandomSize(k, a, b, s) == [kind |-> k, random |-> TRUE, min |-> a, max |-> b, step |-> s]
SetSize(k, n) == [kind |-> k, random |-> FALSE, value |-> n]
RenameTo(n) == [kind |-> "Name", name |-> n]
OneOf(list, weight) == [kind |-> "Random", list |-> list, weight |-> weight]

MCGroups == {
  <<RenameTo("fetch"),
    OneOf(<<SplitBy("onLENGTH", 2), SplitBy("onLENGTH", 3), SplitBy("onLENGTH", 4)>>, <<1, 0, 2>>)>>,
  <<SetSize("Size", 5), SplitBy("onSIZE", 2)>>,
  <<RandomSize("Length", 1, 6, 2), SplitBy("onLENGTH", 2), SplitBy("onSIZE", 3)>>,
  <<SplitBy("onSIZE", 4), RandomSize("Size", 2, 5, 2), SplitBy("onSIZE", 3)>>}

MCGiven ==
  {[name |-> "req", size |-> m, length |-> n, id |-> <<>>, split |-> <<>>] :
     m, n \in 1 .. Largest}
=============================================================================
