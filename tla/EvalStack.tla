------------------------------ MODULE EvalStack ------------------------------
(***************************************************************************)
(* eval_stack() of the PML preprocessor (pml/create.cc): the interpreter   *)
(* of a captured region.  The region is a list of nodes, in source order,  *)
(* one per directive and one per run of text between directives; the       *)
(* interpreter walks it with one flag, active, and three stacks that the   *)
(* directives push and pop independently of each other.                    *)
(*                                                                         *)
(* Values are integers (the code keeps doubles and their printed form);    *)
(* an expression is one operator over two operands.  The flag              *)
(* output_ifdef_directive is 0, as GetOpt sets it.                         *)
(***************************************************************************)
EXTENDS Integers, Sequences, FiniteSets

CONSTANTS
  Programs,        \* the captured regions: records with a field nodes
  NestLimit,       \* entries of for_stack and of switch_stack: 20 in the code
  InitialValues,   \* variables and their values when the region is captured
  InitialDefines   \* macro names defined when the region is captured

ASSUME NestLimitAssumption == NestLimit \in Nat \ {0}
ASSUME ProgramsAssumption == \A p \in Programs : Len(p.nodes) \in Nat

VARIABLES
  program,          \* the region under evaluation
  ll,               \* the current node, one past the last at the end
  active,           \* is the current region active
  Head_Loop_Stack,  \* open conditionals, innermost first
  for_stack,        \* open for and while loops, innermost last
  switch_stack,     \* open switches, innermost last
  switch_struct,    \* per switch node: its state, written when it is entered
  eval_first,       \* per loop node: TRUE when the loop is not running
  values,           \* the variable list
  defines,          \* the names in Defines_Table
  out,              \* what was printed
  errors            \* the error messages issued

vars == <<program, ll, active, Head_Loop_Stack, for_stack, switch_stack,
          switch_struct, eval_first, values, defines, out, errors>>

conditionals == <<Head_Loop_Stack>>
loops        == <<for_stack, eval_first>>
switches     == <<switch_stack, switch_struct>>
world        == <<values, defines, out>>

Conditionals == {"IF", "IFDEF", "IFNDEF"}
Loops        == {"FOR", "WHILE"}
LoopEnds     == {"ENDFOR", "ENDWHILE"}

-----------------------------------------------------------------------------
(* Expressions: an operand is a variable or a number.                      *)

Number(n)   == [name |-> "", n |-> n]
Variable(v) == [name |-> v, n |-> 0]
Expression(op, l, r) == [op |-> op, l |-> l, r |-> r]

Operand(o, env) == IF o.name = "" THEN o.n ELSE env[o.name]

Truth(b) == IF b THEN 1 ELSE 0

evaluate_expression(ep, env) ==
  LET tmp1 == Operand(ep.l, env)
      tmp2 == Operand(ep.r, env)
  IN CASE ep.op = "ADD" -> tmp1 + tmp2
       [] ep.op = "SUB" -> tmp1 - tmp2
       [] ep.op = "LT"  -> Truth(tmp1 < tmp2)
       [] ep.op = "EQ"  -> Truth(tmp1 = tmp2)

Holds(ep, env) == evaluate_expression(ep, env) # 0

-----------------------------------------------------------------------------
(* The node list.                                                          *)

Nodes   == program.nodes
Node    == Nodes[ll]
End     == Len(Nodes) + 1
Done    == ll = End
At(types) == ~Done /\ Node.type \in types

Count(type, from, to) == Cardinality({i \in from..to : Nodes[i].type = type})

CloserOf(type) == IF type = "FOR" THEN "ENDFOR" ELSE "ENDWHILE"

\* The node at which the scan that skips a loop stops: loops of the same
\* keyword are counted, nothing else is looked at.
MatchingEnd(i) ==
  LET open == Nodes[i].type
      stops == {j \in (i + 1)..Len(Nodes) :
                  Count(CloserOf(open), i + 1, j) > Count(open, i + 1, j)}
  IN IF stops = {} THEN End
     ELSE CHOOSE j \in stops : \A k \in stops : j <= k

\* `if (ll != NULL) ll = ll->next`
NextOf(i) == IF i = End THEN End ELSE i + 1
Advance == ll' = NextOf(ll)

Top(stack) == stack[Len(stack)]
Pop(stack) == SubSeq(stack, 1, Len(stack) - 1)
SetTop(stack, e) == [stack EXCEPT ![Len(stack)] = e]

-----------------------------------------------------------------------------
(* Conditionals: check_for_if, check_for_else, handle_endif.               *)

Condition(node) ==
  CASE node.type = "IF"     -> Holds(node.ep, values)
    [] node.type = "IFDEF"  -> node.name \in defines
    [] node.type = "IFNDEF" -> node.name \notin defines

Taken(region_active, node) == region_active /\ Condition(node)

check_for_if ==
  /\ At(Conditionals)
  /\ LET region_active == IF Head_Loop_Stack = <<>> THEN active
                          ELSE Head(Head_Loop_Stack).active
         taken == Taken(region_active, Node)
     IN /\ Head_Loop_Stack' =
             <<[region_active |-> region_active, active |-> taken]>>
               \o Head_Loop_Stack
        /\ active' = taken
  /\ Advance
  /\ UNCHANGED <<program, loops, switches, world, errors>>

FlippedAnyway(h) == ~h.active
Flipped(h) == h.region_active /\ ~h.active

check_for_else ==
  /\ At({"ELSE"})
  /\ \/ /\ Head_Loop_Stack = <<>>
        /\ active' = TRUE
        /\ errors' = errors \cup {"else not within a conditional"}
        /\ UNCHANGED Head_Loop_Stack
     \/ /\ Head_Loop_Stack # <<>>
        /\ LET h == Head(Head_Loop_Stack)
               flipped == Flipped(h)
           IN /\ Head_Loop_Stack' =
                   IF h.region_active
                     THEN [Head_Loop_Stack EXCEPT ![1].active = flipped]
                     ELSE Head_Loop_Stack
              /\ active' = flipped
        /\ UNCHANGED errors
  /\ Advance
  /\ UNCHANGED <<program, loops, switches, world>>

handle_endif ==
  /\ At({"ENDIF"})
  /\ \/ /\ Head_Loop_Stack = <<>>
        /\ active' = TRUE
        /\ errors' = errors \cup {"unbalanced endif"}
        /\ UNCHANGED Head_Loop_Stack
     \/ /\ Head_Loop_Stack # <<>>
        /\ Head_Loop_Stack' = Tail(Head_Loop_Stack)
        /\ active' = IF Len(Head_Loop_Stack) = 1
                       THEN Head(Head_Loop_Stack).region_active
                       ELSE Head_Loop_Stack[2].active
        /\ UNCHANGED errors
  /\ Advance
  /\ UNCHANGED <<program, loops, switches, world>>

-----------------------------------------------------------------------------
(* Text and assignments.                                                   *)

\* An item is a line of text, the use of a name, or a captured `define.
DefinedBefore(items, k) ==
  defines \cup {items[j].name : j \in {i \in 1..(k - 1) : items[i].kind = "define"}}
Defined(items) == DefinedBefore(items, Len(items) + 1)

\* print_variable: a macro, a variable, or neither.
print_variable(name, defs) ==
  IF name \in defs THEN <<<<name, 0>>>>
  ELSE IF name \in DOMAIN values THEN <<<<name, values[name]>>>>
  ELSE <<>>

Printed(items) ==
  LET upto[k \in 0..Len(items)] ==
        IF k = 0 THEN <<>>
        ELSE upto[k - 1] \o
               CASE items[k].kind = "text"     -> <<<<items[k].name, 0>>>>
                 [] items[k].kind = "variable" ->
                      print_variable(items[k].name, DefinedBefore(items, k))
                 [] items[k].kind = "define"   -> <<>>
  IN upto[Len(items)]

Unknown(items) ==
  \E k \in 1..Len(items) :
    items[k].kind = "variable"
      /\ print_variable(items[k].name, DefinedBefore(items, k)) = <<>>

print_out_code ==
  /\ At({"CODE"}) /\ active
  /\ out' = out \o Printed(Node.items)
  /\ defines' = Defined(Node.items)
  /\ errors' = IF Unknown(Node.items) THEN errors \cup {"not defined"} ELSE errors
  /\ Advance
  /\ UNCHANGED <<program, active, conditionals, loops, switches, values>>

let ==
  /\ At({"LET"}) /\ active
  /\ values' = [values EXCEPT ![Node.var] = evaluate_expression(Node.ep, values)]
  /\ Advance
  /\ UNCHANGED <<program, active, conditionals, loops, switches,
                 defines, out, errors>>

-----------------------------------------------------------------------------
(* Loops.  for and while share for_stack.  The top entry of a running loop *)
(* is its opening node while the body runs, and its closing node between   *)
(* the jump back and the test: the two swap places on every iteration.     *)

Assigned(ep) ==
  IF Node.type = "FOR"
    THEN [values EXCEPT ![Node.var] = evaluate_expression(ep, values)]
    ELSE values

\* A loop is rearmed for its next entry when it does not go on.
RearmedAlways(runs) == TRUE
Rearmed(runs)       == ~runs

\* What is left in for_stack when node i has jumped back, and at an exit.
Swapped(i)     == SetTop(for_stack, i)
Left           == Pop(for_stack)

FullOneLate  == Len(for_stack) = NestLimit + 1
Full         == Len(for_stack) = NestLimit

LoopEntered ==
  /\ At(Loops) /\ active /\ eval_first[ll]
  /\ LET started == Assigned(Node.init)
         enters  == Full \/ Holds(Node.ep, started)
     IN /\ values' = started
        /\ eval_first' = [eval_first EXCEPT ![ll] = Rearmed(enters)]
        /\ for_stack' = IF enters /\ ~Full THEN Append(for_stack, ll)
                        ELSE for_stack
        /\ errors' = IF Full THEN errors \cup {"loop nesting limit"} ELSE errors
        /\ ll' = IF enters THEN NextOf(ll) ELSE NextOf(MatchingEnd(ll))
  /\ UNCHANGED <<program, active, conditionals, switches, defines, out>>

LoopedBack ==
  /\ At(Loops) /\ active /\ ~eval_first[ll]
  /\ for_stack # <<>>      \* for_stack[-1] is undefined: the model ends there
  /\ LET stepped == Assigned(Node.step)
         again   == Holds(Node.ep, stepped)
     IN /\ values' = stepped
        /\ eval_first' = [eval_first EXCEPT ![ll] = Rearmed(again)]
        /\ for_stack' = IF again THEN Swapped(ll) ELSE Left
        /\ ll' = IF again THEN NextOf(ll) ELSE NextOf(Top(for_stack))
  /\ UNCHANGED <<program, active, conditionals, switches, defines, out,
                 errors>>

LoopEnd ==
  /\ At(LoopEnds) /\ active
  /\ \/ /\ for_stack # <<>>
        /\ ll' = Top(for_stack)
        /\ for_stack' = Swapped(ll)
        /\ UNCHANGED errors
     \/ /\ for_stack = <<>>
        /\ errors' = errors \cup {"unbalanced loop end"}
        /\ Advance
        /\ UNCHANGED for_stack
  /\ UNCHANGED <<program, active, conditionals, switches, eval_first,
                 world>>

-----------------------------------------------------------------------------
(* Switches.  Only an active switch is pushed, but `case, `breaksw,        *)
(* `default and `endswitch act on the top entry whether or not the region  *)
(* they stand in is active.                                                *)

switch ==
  /\ At({"SWITCH"}) /\ active
  /\ active' = FALSE
  /\ switch_struct' =
       [switch_struct EXCEPT ![ll] =
          [done_a_case |-> FALSE, status_on_entry |-> active,
           ignore_more_matches |-> FALSE,
           value |-> evaluate_expression(Node.ep, values)]]
  /\ IF Len(switch_stack) = NestLimit
       THEN /\ errors' = errors \cup {"switch nesting limit"}
            /\ UNCHANGED switch_stack
       ELSE /\ switch_stack' = Append(switch_stack, ll)
            /\ UNCHANGED errors
  /\ Advance
  /\ UNCHANGED <<program, conditionals, loops, world>>

switchp == switch_struct[Top(switch_stack)]
InSwitch == switch_stack # <<>> /\ switchp.status_on_entry

SwitchStep ==
  /\ Advance
  /\ UNCHANGED <<program, conditionals, loops, world, errors>>

case ==
  /\ At({"CASE"})
  /\ IF InSwitch /\ ~switchp.done_a_case /\ ~switchp.ignore_more_matches
       THEN LET matches == evaluate_expression(Node.ep, values) = switchp.value
            IN /\ active' = matches
               /\ switch_struct' =
                    [switch_struct EXCEPT ![Top(switch_stack)].done_a_case = matches]
       ELSE UNCHANGED <<active, switch_struct>>
  /\ UNCHANGED switch_stack
  /\ SwitchStep

breaksw ==
  /\ At({"BREAKSW"})
  /\ IF InSwitch /\ active
       THEN /\ active' = FALSE
            /\ switch_struct' =
                 [switch_struct EXCEPT ![Top(switch_stack)].ignore_more_matches = TRUE]
       ELSE UNCHANGED <<active, switch_struct>>
  /\ UNCHANGED switch_stack
  /\ SwitchStep

default ==
  /\ At({"DEFAULT"})
  /\ active' = IF InSwitch THEN ~switchp.done_a_case ELSE active
  /\ UNCHANGED switches
  /\ SwitchStep

Closed     == Pop(switch_stack)

endswitch ==
  /\ At({"ENDSWITCH"})
  /\ IF switch_stack # <<>>
       THEN /\ active' = switchp.status_on_entry
            /\ switch_stack' = Closed
       ELSE UNCHANGED <<active, switch_stack>>
  /\ UNCHANGED switch_struct
  /\ SwitchStep

-----------------------------------------------------------------------------
\* A node that acts only in an active region, met in an inactive one.
Passed ==
  /\ At({"CODE", "LET", "SWITCH"} \cup Loops \cup LoopEnds) /\ ~active
  /\ Advance
  /\ UNCHANGED <<program, active, conditionals, loops, switches, world,
                 errors>>

Returned == Done /\ UNCHANGED vars

\* The parser evaluates the initial assignment of every `for when it captures
\* it (create_variable_ref with do_eval set), in source order, before
\* eval_stack runs.
CapturedValues(nodes) ==
  LET after[k \in 0..Len(nodes)] ==
        IF k = 0 THEN InitialValues
        ELSE IF nodes[k].type = "FOR"
          THEN [after[k - 1] EXCEPT ![nodes[k].var] =
                  evaluate_expression(nodes[k].init, after[k - 1])]
          ELSE after[k - 1]
  IN after[Len(nodes)]

create_switch_structure(nodes) ==
  [i \in {j \in 1..Len(nodes) : nodes[j].type = "SWITCH"} |->
     [done_a_case |-> FALSE, status_on_entry |-> TRUE,
      ignore_more_matches |-> FALSE, value |-> 0]]

create_loop_structure(nodes) == [i \in 1..Len(nodes) |-> TRUE]

Init ==
  /\ program \in Programs
  /\ ll = 1
  /\ active = TRUE
  /\ Head_Loop_Stack = <<>>
  /\ for_stack = <<>>
  /\ switch_stack = <<>>
  /\ switch_struct = create_switch_structure(program.nodes)
  /\ eval_first = create_loop_structure(program.nodes)
  /\ values = CapturedValues(program.nodes)
  /\ defines = InitialDefines
  /\ out = <<>>
  /\ errors = {}

Next ==
  \/ check_for_if \/ check_for_else \/ handle_endif
  \/ print_out_code \/ let
  \/ LoopEntered \/ LoopedBack \/ LoopEnd
  \/ switch \/ case \/ breaksw \/ default \/ endswitch
  \/ Passed \/ Returned

Spec == Init /\ [][Next]_vars

\* eval_stack is one sequential call: it runs until it returns.
FairSpec == Spec /\ WF_vars(Next)

-----------------------------------------------------------------------------
Positions == 1..End

\* Type invariant of the interpreter's state.
TypeOK ==
  /\ ll \in Positions
  /\ active \in BOOLEAN
  /\ Head_Loop_Stack \in Seq([region_active : BOOLEAN, active : BOOLEAN])
  /\ for_stack \in Seq({i \in 1..Len(Nodes) : Nodes[i].type \in Loops \cup LoopEnds})
  /\ switch_stack \in Seq(DOMAIN switch_struct)
  /\ \A i \in DOMAIN switch_struct : switch_struct[i].status_on_entry
  /\ eval_first \in [1..Len(Nodes) -> BOOLEAN]

\* The two arrays are never written beyond their end, whatever region the
\* grammar lets through.
StacksFit == Len(for_stack) <= NestLimit /\ Len(switch_stack) <= NestLimit
=============================================================================
