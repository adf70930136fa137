----------------------------- MODULE SourceOrder -----------------------------
(***************************************************************************)
(* What a source means to its reader: included files stand in place of     *)
(* their directives, and one line after the other takes effect or, in an   *)
(* inactive region, does not.  Preprocessor captures regions, carries out  *)
(* a part of their lines while it captures and the rest afterwards; this   *)
(* module states that nobody can tell.                                     *)
(*                                                                         *)
(* For text, macros, variables and conditionals; loops and switches are    *)
(* the subject of Structured.                                              *)
(***************************************************************************)
EXTENDS Preprocessor

RECURSIVE Expanded(_, _)
Expanded(sources, items) ==
  IF items = <<>> THEN <<>>
  ELSE LET first == Head(items)
       IN (IF first.type = "INCLUDE" THEN Expanded(sources, sources[first.file])
           ELSE <<first>>) \o Expanded(sources, Tail(items))

RECURSIVE Input(_, _)
Input(sources, files) ==
  IF files = <<>> THEN <<>>
  ELSE Expanded(sources, sources[Head(files)]) \o Input(sources, Tail(files))

\* The conditionals that are open: is the region around, and is this branch,
\* active.
IsActive(s) == s.open = <<>> \/ Head(s.open).branch

Shows(s, name) ==
  IF name \in s.defines THEN <<<<name, 0>>>> ELSE <<<<name, s.values[name]>>>>

Tests(s, item) ==
  CASE item.type = "IF"     -> evaluate_expression(item.ep, s.values) # 0
    [] item.type = "IFDEF"  -> item.name \in s.defines
    [] item.type = "IFNDEF" -> item.name \notin s.defines

Takes(s, item) ==
  CASE item.type \in Conditionals ->
         [s EXCEPT !.open = <<[around |-> IsActive(s),
                               branch |-> IsActive(s) /\ Tests(s, item)]>> \o @]
    [] item.type = "ELSE" ->
         [s EXCEPT !.open[1].branch = s.open[1].around /\ ~@]
    [] item.type = "ENDIF" -> [s EXCEPT !.open = Tail(@)]
    [] item.type = "LET" /\ IsActive(s) ->
         [s EXCEPT !.values[item.var] = evaluate_expression(item.ep, s.values)]
    [] item.type = "TEXT" /\ IsActive(s) ->
         [s EXCEPT !.out = Append(@, <<item.name, 0>>)]
    [] item.type = "USE" /\ IsActive(s) ->
         [s EXCEPT !.out = @ \o Shows(s, item.name)]
    [] item.type = "DEFINE" /\ IsActive(s) ->
         [s EXCEPT !.defines = @ \cup {item.name}]
    [] item.type = "UNDEF" /\ IsActive(s) ->
         [s EXCEPT !.defines = @ \ {item.name}, !.out = Append(@, <<"undef", 0>>)]
    [] OTHER -> s

RECURSIVE Meaning(_, _)
Meaning(s, items) ==
  IF items = <<>> THEN s ELSE Meaning(Takes(s, Head(items)), Tail(items))

MeaningOf(j) ==
  Meaning([out |-> <<>>, defines |-> InitialDefines, values |-> InitialValues,
           open |-> <<>>], Input(j.sources, j.files))

\* Neither a loop nor a switch, which give lines another meaning than their
\* own, no variable that a region creates when it is captured, and no `undef
\* in a region (see UndefTakesEffect).
InOrder(items) ==
  LET opened(k) == Cardinality({n \in 1..k : items[n].type \in Conditionals})
                     - Cardinality({n \in 1..k : items[n].type = "ENDIF"})
  IN \A k \in DOMAIN items :
       /\ items[k].type \notin {"FOR", "ENDFOR", "WHILE", "SWITCH"}
       /\ items[k].type = "LET" => items[k].var \in DOMAIN InitialValues
       /\ items[k].type = "USE" => items[k].name \in DOMAIN InitialValues \cup InitialDefines
       /\ items[k].type = "ELSE" => opened(k) > 0
       /\ items[k].type = "UNDEF" => opened(k) = 0

\* Capturing a region and evaluating it later, with macros expanded and files
\* included while it is captured, gives what the lines give one by one.
InSourceOrder ==
  Finished /\ InOrder(Input(job.sources, job.files)) =>
    LET m == MeaningOf(job)
    IN out = m.out /\ defines = m.defines /\ values = m.values

\* undef_macro "exists to undefine a macro": a macro whose last active line
\* undefines it is not defined in the end.
UndefTakesEffect == Finished => defines \subseteq MeaningOf(job).defines
=============================================================================
