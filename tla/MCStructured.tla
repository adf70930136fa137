---------------------------- MODULE MCStructured ----------------------------
(***************************************************************************)
(* Captured regions for TLC: every nesting, up to three deep, of the       *)
(* statements below.  x starts at 0 and only grows; i, j and k are loop    *)
(* variables; D is defined and E is not.                                   *)
(***************************************************************************)
EXTENDS Structured

CONSTANT Shape      \* which set of regions a run walks

MCValues  == [v \in {"x", "i", "j", "k"} |-> 0]
MCDefines == {"D"}

Is(v)      == Expression("ADD", Variable(v), Number(0))
Const(n)   == Expression("ADD", Number(n), Number(0))
Below(v, n) == Expression("LT", Variable(v), Number(n))
Plus1(v)   == Expression("ADD", Variable(v), Number(1))

Line(t)  == Text(<<[kind |-> "text", name |-> t]>>)
Show(v)  == Text(<<[kind |-> "text", name |-> "line"],
                   [kind |-> "variable", name |-> v]>>)
DefineE  == Text(<<[kind |-> "define", name |-> "E"]>>)
Bump     == Let("x", Plus1("x"))

IfNode(ep)   == [type |-> "IF", ep |-> ep]
IfDef(n)     == [type |-> "IFDEF", name |-> n]
IfNDef(n)    == [type |-> "IFNDEF", name |-> n]
Case(n, body, brk) == [ep |-> Const(n), body |-> body, breaksw |-> brk]

Tests == {IfNode(Below("x", 1)), IfDef("E"), IfNDef("E")}

Ifs(bodies) ==
  {<<If(t, b, e)>> : t \in Tests, b \in bodies, e \in {<<>>, <<Line("else")>>}}
Fors(v, bodies) ==
  {<<For(v, Const(0), Below(v, n), Plus1(v), b)>> : n \in {0, 2}, b \in bodies}
Whiles(bodies) ==
  {<<While(Below("x", 2), b \o <<Bump>>)>> : b \in bodies}
Switches(bodies) ==
  {<<Switch(Is("x"), <<Case(1, b, brk), Case(n, <<Show("x")>>, TRUE)>>, d)>> :
     b \in bodies, brk \in BOOLEAN, n \in {0, 2}, d \in {<<>>, <<Line("default")>>}}

Followed(blocks) == {b \o <<Bump, Show("x")>> : b \in blocks}

Flat == {<<Show("x"), Bump>>, <<DefineE>>}
One  == Ifs(Flat) \cup Fors("i", {<<Show("i"), Bump>>}) \cup Whiles({<<Show("x")>>})
          \cup Switches({<<Show("x")>>})
Two  == Ifs(One) \cup Fors("j", Followed(One)) \cup Whiles(One) \cup Switches(One)
Three == {<<If(IfNode(Below("x", 1)), b, <<Line("else")>>)>> : b \in Two}
           \cup {<<For("k", Const(0), Below("k", 2), Plus1("k"), b \o <<Show("x")>>)>> : b \in Two}
           \cup Whiles(Two)

\* An `if within a case and around its switch, a switch within a case: there
\* the directives of one construct act on the other (pp_if_in_case.cfg).
RECURSIVE Disciplined(_, _, _)
Disciplined(block, ifAround, caseAround) ==
  \A n \in DOMAIN block :
    LET s == block[n] IN
    CASE s.stmt = "if" -> /\ ~(ifAround /\ caseAround)
                          /\ Disciplined(s.then, ifAround \/ ~caseAround, caseAround)
                          /\ Disciplined(s.else, ifAround \/ ~caseAround, caseAround)
      [] s.stmt \in {"while", "for"} -> Disciplined(s.body, ifAround, caseAround)
      [] s.stmt = "switch" ->
           /\ ~caseAround
           /\ \A m \in DOMAIN s.cases : Disciplined(s.cases[m].body, ifAround, TRUE)
           /\ Disciplined(s.dflt, ifAround, TRUE)
      [] OTHER -> TRUE

Sequels == {a \o <<Bump>> \o b : a \in Switches({<<Show("x")>>}),
                                b \in Ifs(Switches({<<Show("x")>>}))}
AllTrees == Followed(One) \cup Followed(Two) \cup Three \cup Sequels
Deep(b, v, w, u) ==
  <<For(v, Const(0), Below(v, 2), Plus1(v),
      <<For(w, Const(0), Below(w, 2), Plus1(w),
          <<For(u, Const(0), Below(u, 2), Plus1(u), b), Show("x")>>)>>)>>

Deeper ==
  {Deep(b, "i", "j", "k") : b \in Flat}
    \cup {<<While(Below("x", 2), t \o <<Bump>>)>> : t \in Fors("j", One)}
    \cup Fors("k", Fors("j", Whiles({<<Show("x")>>})))

Trees ==
  CASE Shape = "disciplined" ->
         {t \in AllTrees \cup Deeper : Disciplined(t, FALSE, FALSE)}
    [] Shape = "if_in_case" ->
         {t \in Ifs(Switches(Ifs({<<Show("x")>>}))) : ~Disciplined(t, FALSE, FALSE)}
    [] Shape = "switch_in_case" -> Switches(Switches({<<Show("x")>>}))

\* Regions whose closing directives do not match their opening ones: the
\* grammar only counts them, and evaluates the region when the count is 0.
Openers == {IfNode(Below("x", 1)), IfDef("E"),
            [type |-> "FOR", var |-> "i", init |-> Const(0), ep |-> Below("i", 2),
             step |-> Plus1("i")],
            [type |-> "WHILE", ep |-> Below("i", 1), init |-> Is("i"), step |-> Is("i")],
            [type |-> "SWITCH", ep |-> Is("i")]}
Closers == {Mark("ENDIF"), Mark("ENDFOR"), Mark("ENDWHILE"), Mark("ENDSWITCH")}
Others  == {Mark("ELSE"), Mark("BREAKSW"), Mark("DEFAULT"),
            [type |-> "CASE", ep |-> Const(0)]}
Opened(nodes, k) ==
  Cardinality({j \in 1..k : nodes[j] \in Openers})
    - Cardinality({j \in 1..k : nodes[j] \in Closers})
Mismatched ==
  {nodes \in {<<a>> \o m \o <<z>> :
                a \in Openers, m \in [1..3 -> Openers \cup Closers \cup Others],
                z \in Closers} :
     Opened(nodes, 5) = 0 /\ \A k \in 1..4 : Opened(nodes, k) > 0}

\* An `if that a loop leaves open is pushed again on every iteration: the
\* regions above are followed while at most HeadBound conditionals are open.
HeadBound == 3
HeadConstraint == Len(Head_Loop_Stack) <= HeadBound

MCPrograms ==
  {[nodes |-> Flatten(t), tree |-> t] : t \in Trees}
    \cup (IF Shape = "disciplined"
            THEN {[nodes |-> nodes, tree |-> <<>>] : nodes \in Mismatched} ELSE {})
=============================================================================
