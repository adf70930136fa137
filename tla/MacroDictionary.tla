--------------------------- MODULE MacroDictionary ---------------------------
(***************************************************************************)
(* What the preprocessor's table of macros promises: a name has the text   *)
(* of its last `define, or none after an `undef.                           *)
(***************************************************************************)
CONSTANTS Names, Texts, Undefined

VARIABLE defs

DictInit == defs = [n \in Names |-> Undefined]

Define(n, t) == defs' = [defs EXCEPT ![n] = t]
Undef(n)     == defs' = [defs EXCEPT ![n] = Undefined]

DictNext == \E n \in Names : Undef(n) \/ \E t \in Texts : Define(n, t)

DictSpec == DictInit /\ [][DictNext]_defs
=============================================================================
