----------------------------- MODULE PacketQueue -----------------------------
(***************************************************************************)
(* What a channel promises to the flows that meet in it, whatever the      *)
(* sizes, bites and locks: every packet is put in once, is served to one   *)
(* handler and leaves once; an ordered channel serves one packet at a time *)
(* and in the order of arrival.                                            *)
(***************************************************************************)
EXTENDS Naturals

CONSTANTS Facet, Ordered

VARIABLES
  stage,   \* stage[f]: where packet f is
  number   \* number[f]: its place in the order of arrival, 0 before

vars == <<stage, number>>

Stage == {"absent", "queued", "serving", "served"}

Before(g, f) == number[g] # 0 /\ number[g] < number[f]

Init ==
  /\ stage = [f \in Facet |-> "absent"]
  /\ number = [f \in Facet |-> 0]

\* The new packet comes after all that are there.
Put(f) ==
  /\ stage[f] = "absent"
  /\ stage' = [stage EXCEPT ![f] = "queued"]
  /\ \A g \in Facet : number[g] < number'[f]
  /\ number' = [number EXCEPT ![f] = number'[f]]

\* A short packet may be picked up and finished in one step.
Serve(f) ==
  /\ stage[f] = "queued"
  /\ Ordered => \A g \in Facet : Before(g, f) => stage[g] = "served"
  /\ \E s \in {"serving", "served"} : stage' = [stage EXCEPT ![f] = s]
  /\ UNCHANGED number

Finish(f) ==
  /\ stage[f] = "serving"
  /\ stage' = [stage EXCEPT ![f] = "served"]
  /\ UNCHANGED number

Next == \E f \in Facet : Put(f) \/ Serve(f) \/ Finish(f)

Spec == Init /\ [][Next]_vars
=============================================================================
