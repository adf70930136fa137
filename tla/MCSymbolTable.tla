---------------------------- MODULE MCSymbolTable ----------------------------
(***************************************************************************)
(* A small instance of SymbolTable: nets a and b, a selector i, a clock,   *)
(* a constant c, a machine f with two states, and a module with an input a *)
(* of parameterised width and an output q.                                 *)
(***************************************************************************)
EXTENDS SymbolTable

E == INSTANCE Expression WITH Word <- 8, Number <- 4

\* input [P-1:0] a; output [N-2:0] q, where N = 2*P.
Parameters(v) ==
  [P |-> [value |-> E!Plain(1), override |-> IF v = None THEN None ELSE E!Plain(v)],
   N |-> [value |-> E!Op("*", <<E!Plain(2), E!Param("P")>>), override |-> None]]

PortBound ==
  [a |-> E!Op("-", <<E!Param("P"), E!Plain(1)>>),
   q |-> E!Op("-", <<E!Param("N"), E!Plain(2)>>)]

\* The bound that GetIO hands on, evaluated after the overrides were reset.
MCPortMsb ==
  [p \in Port |-> [v \in Override \cup {None} |->
     E!Value(E!Reset(Parameters(v)), E!ValueExp(Parameters(v), PortBound[p]))]]

MCPortDirection == [p \in Port |-> IF p = "a" THEN "INPUT" ELSE "OUTPUT"]
MCStateIndex == [s \in State |-> IF s = "S" THEN "_S_" ELSE "_T_"]
MCRenamed == [n \in Name |-> IF n = "a" THEN "b" ELSE n]

(***************************************************************************)
(* Expressions of up to two operators over numbers, parameters and a net.  *)
(***************************************************************************)
Leaf ==
  {E!Num(0, 1), E!Num(2, 2), E!Num(5, 3), E!Plain(3),
   E!Param("P"), E!Param("N"), E!Net(1)}

Unary(A) ==
  {E!Op(o, <<a>>) : o \in E!Reductions \cup {"~", "()"}, a \in A}
Binary(A, B) ==
  {E!Op(o, <<a, b>>) : o \in E!Arithmetic \cup E!Conditions \cup {"{}"},
                       a \in A, b \in B}
Other(A) ==
  {E!Op("?:", <<a, b, c>>) : a, b, c \in A}
    \cup {E!Op("{{}}", <<E!Num(n, 2), E!Op("{}", <<a>>)>>) : n \in 1..3, a \in A}

OneOperator == Leaf \cup Unary(Leaf) \cup Binary(Leaf, Leaf) \cup Other(Leaf)
Expressions ==
  OneOperator \cup Unary(OneOperator) \cup Binary(OneOperator, {E!Param("P"), E!Num(2, 2)})

FrozenUnder ==
  [v \in Override \cup {None} |->
     \A e \in Expressions : E!FrozenAt(Parameters(v), e)]

FittingUnder ==
  [v \in Override \cup {None} |->
     \A e \in Expressions : E!FitsAt(Parameters(v), e)]

\* What an instance copies of an expression, under the values its parameters
\* have now, is not changed by taking these values back for the next one.
Frozen == FrozenUnder[override]

\* Under the values in force a folded expression fits the width the code
\* gives it, so a part of a concatenation loses no digit.
FitsItsWidth == FittingUnder[override]
=============================================================================
