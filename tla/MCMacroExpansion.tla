--------------------------- MODULE MCMacroExpansion ---------------------------
(***************************************************************************)
(* Three names, with texts of up to two items; sources of up to Uses items.*)
(***************************************************************************)
EXTENDS MacroExpansion

CONSTANTS
  OnlyLeading,   \* definition loops are closed by the first items of texts only
  Uses           \* items of the longest source

Names == {"A", "B", "C"}
t == Text("t")

Texts ==
  {<<>>, <<t>>, <<t, Macro("B")>>, <<Macro("B")>>, <<Macro("C")>>,
   <<Macro("A")>>, <<Macro("C"), t>>, <<Macro("B"), Macro("C")>>,
   <<t, Macro("A")>>}
Plains == [kind : {"plain"}, text : Texts]
Others == [kind : {"parms"}, text : {<<t>>, <<t, Macro("A")>>}]
            \cup [kind : {"number"}, text : {<<Text("0")>>}]

Tables  == [Names -> Plains \cup Others]
Sources == [1..2 -> {Macro(n) : n \in Names}] \cup [1..Uses -> {t, Macro("A")}]

MCCases ==
  [names : {m \in Tables : OnlyLeading => LoopsLead(m)}, source : Sources]
=============================================================================
