---------------------------- MODULE MCMacroTable ----------------------------
(***************************************************************************)
(* Four names, three of which collide, and two texts.                      *)
(***************************************************************************)
EXTENDS MacroTable, TLC

CONSTANTS a, b, c, d

MCHash == (a :> 0) @@ (b :> 0) @@ (c :> 0) @@ (d :> 1)
=============================================================================
