----------------------------- MODULE Structured -----------------------------
(***************************************************************************)
(* What the directives of the preprocessor mean, block by block, and how a *)
(* nested text reads as the flat node list eval_stack walks.  Run is the   *)
(* reference: it knows nothing of stacks, of an active flag or of jumps.   *)
(* Programs are records [nodes, tree] with nodes = Flatten(tree).          *)
(***************************************************************************)
EXTENDS EvalStack

\* Statements.
Text(items)          == [stmt |-> "text", items |-> items]
Let(v, ep)           == [stmt |-> "let", var |-> v, ep |-> ep]
If(node, then, else) == [stmt |-> "if", node |-> node, then |-> then,
                         else |-> else]
While(ep, body)      == [stmt |-> "while", ep |-> ep, body |-> body]
For(v, init, ep, step, body) ==
  [stmt |-> "for", var |-> v, init |-> init, ep |-> ep, step |-> step,
   body |-> body]
\* cases: a sequence of [ep, body, breaksw]; dflt: the body of `default.
Switch(ep, cases, dflt) ==
  [stmt |-> "switch", ep |-> ep, cases |-> cases, dflt |-> dflt]

LetNode(v, ep) == [type |-> "LET", var |-> v, ep |-> ep]
Mark(type)     == [type |-> type]

RECURSIVE Flatten(_)
Flatten(block) ==
  IF block = <<>> THEN <<>>
  ELSE
    LET s == Head(block)
        CaseNodes[k \in 0..(IF s.stmt = "switch" THEN Len(s.cases) ELSE 0)] ==
          IF k = 0 THEN <<>>
          ELSE CaseNodes[k - 1]
                 \o <<[type |-> "CASE", ep |-> s.cases[k].ep]>>
                 \o Flatten(s.cases[k].body)
                 \o (IF s.cases[k].breaksw THEN <<Mark("BREAKSW")>> ELSE <<>>)
    IN (CASE s.stmt = "text" -> <<[type |-> "CODE", items |-> s.items]>>
          [] s.stmt = "let"  -> <<LetNode(s.var, s.ep)>>
          [] s.stmt = "if" ->
               <<s.node>> \o Flatten(s.then)
                 \o (IF s.else = <<>> THEN <<>>
                     ELSE <<Mark("ELSE")>> \o Flatten(s.else))
                 \o <<Mark("ENDIF")>>
          [] s.stmt = "while" ->
               <<[type |-> "WHILE", ep |-> s.ep, init |-> s.ep, step |-> s.ep]>>
                 \o Flatten(s.body) \o <<Mark("ENDWHILE")>>
          [] s.stmt = "for" ->
               <<[type |-> "FOR", var |-> s.var, init |-> s.init, ep |-> s.ep,
                  step |-> s.step]>>
                 \o Flatten(s.body) \o <<Mark("ENDFOR")>>
          [] s.stmt = "switch" ->
               <<[type |-> "SWITCH", ep |-> s.ep]>>
                 \o CaseNodes[Len(s.cases)]
                 \o (IF s.dflt = <<>> THEN <<>>
                     ELSE <<Mark("DEFAULT")>> \o Flatten(s.dflt))
                 \o <<Mark("ENDSWITCH")>>)
       \o Flatten(Tail(block))

-----------------------------------------------------------------------------
(* The meaning of a block: st is a record [values, defines, out].          *)

Chosen(node, st) ==
  CASE node.type = "IF"     -> Holds(node.ep, st.values)
    [] node.type = "IFDEF"  -> node.name \in st.defines
    [] node.type = "IFNDEF" -> node.name \notin st.defines

Shown(item, st) ==
  IF item.kind = "text" THEN <<item.name, 0>>
  ELSE <<item.name, st.values[item.name]>>

Store(st, v, ep) ==
  [st EXCEPT !.values[v] = evaluate_expression(ep, st.values)]

\* The statements a switch runs: from the first matching case on, through the
\* first `breaksw; those of `default when no case matches.
Selected(s, st) ==
  LET v == evaluate_expression(s.ep, st.values)
      hits == {k \in DOMAIN s.cases :
                 evaluate_expression(s.cases[k].ep, st.values) = v}
      first == CHOOSE k \in hits : \A j \in hits : k <= j
      body[k \in 1..(Len(s.cases) + 1)] ==
        IF k > Len(s.cases) THEN <<>>
        ELSE s.cases[k].body \o (IF s.cases[k].breaksw THEN <<>> ELSE body[k + 1])
  IN IF hits = {} THEN s.dflt ELSE body[first]

RECURSIVE Run(_, _)
Run(block, st) ==
  IF block = <<>> THEN st
  ELSE
    LET s == Head(block)
        rest == Tail(block)
        ShowItem(o, item) ==
          IF item.kind = "define" THEN [o EXCEPT !.defines = @ \cup {item.name}]
          ELSE [o EXCEPT !.out = Append(@, Shown(item, o))]
        show[k \in 0..(IF s.stmt = "text" THEN Len(s.items) ELSE 0)] ==
          IF k = 0 THEN st ELSE ShowItem(show[k - 1], s.items[k])
    IN CASE s.stmt = "text" -> Run(rest, show[Len(s.items)])
         [] s.stmt = "let"  -> Run(rest, Store(st, s.var, s.ep))
         [] s.stmt = "if"   ->
              Run((IF Chosen(s.node, st) THEN s.then ELSE s.else) \o rest, st)
         [] s.stmt = "while" ->
              IF Holds(s.ep, st.values) THEN Run(s.body \o block, st)
              ELSE Run(rest, st)
         [] s.stmt = "for" ->
              Run(<<While(s.ep, Append(s.body, Let(s.var, s.step)))>> \o rest,
                  Store(st, s.var, s.init))
         [] s.stmt = "switch" -> Run(Selected(s, st) \o rest, st)

Meaning(tree) ==
  Run(tree, [values |-> InitialValues, defines |-> InitialDefines, out |-> <<>>])

RECURSIVE LoopDepth(_)
LoopDepth(block) ==
  IF block = <<>> THEN 0
  ELSE
    LET s == Head(block)
        Higher(a, b) == IF a > b THEN a ELSE b
        CaseDepth[k \in 0..(IF s.stmt = "switch" THEN Len(s.cases) ELSE 0)] ==
          IF k = 0 THEN 0
          ELSE Higher(CaseDepth[k - 1], LoopDepth(s.cases[k].body))
        here == CASE s.stmt = "if" -> Higher(LoopDepth(s.then), LoopDepth(s.else))
                  [] s.stmt \in {"while", "for"} -> 1 + LoopDepth(s.body)
                  [] s.stmt = "switch" ->
                       Higher(CaseDepth[Len(s.cases)], LoopDepth(s.dflt))
                  [] OTHER -> 0
    IN Higher(here, LoopDepth(Tail(block)))

-----------------------------------------------------------------------------
\* Programs without a tree are regions whose directives do not match.
IsBlock == program.tree # <<>>

\* When eval_stack returns without an error message, what it printed, the
\* variables and the macros it leaves are those of the block structure, and
\* no stack is left over for the next region; loops nested no deeper than
\* for_stack never cause a message.
AsStructured ==
  IsBlock /\ Done =>
    /\ errors = {} =>
         /\ [values |-> values, defines |-> defines, out |-> out]
              = Meaning(program.tree)
         /\ <<Head_Loop_Stack, for_stack, switch_stack>> = <<<<>>, <<>>, <<>>>>
         /\ active
    /\ LoopDepth(program.tree) <= NestLimit => errors = {}

\* The interpreter returns: every loop of a block whose own source loops end
\* ends here too, whether or not for_stack has room for it.
Returns == IsBlock => <>Done
=============================================================================
