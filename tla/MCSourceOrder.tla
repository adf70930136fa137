--------------------------- MODULE MCSourceOrder ---------------------------
(***************************************************************************)
(* Translator runs for TLC.  x starts at 0; D is defined, H and E are not. *)
(***************************************************************************)
EXTENDS SourceOrder

CONSTANT Shape      \* which set of runs

MCValues  == [v \in {"x"} |-> 0]
MCDefines == {"D"}

Line(name)   == [type |-> "TEXT", name |-> name]
Def(name)    == [type |-> "DEFINE", name |-> name]
Undef(name)  == [type |-> "UNDEF", name |-> name]
Use(name)    == [type |-> "USE", name |-> name]
Incl(file)   == [type |-> "INCLUDE", file |-> file]
Bump == [type |-> "LET", var |-> "x", ep |-> Expression("ADD", Variable("x"), Number(1))]
IfNode   == [type |-> "IF", ep |-> Expression("LT", Variable("x"), Number(1))]
IfDef(n)  == [type |-> "IFDEF", name |-> n]
IfNDef(n) == [type |-> "IFNDEF", name |-> n]
Else  == [type |-> "ELSE"]
Endif == [type |-> "ENDIF"]

\* Files to be included: plain text, a guarded header, files that include
\* themselves.
Headers ==
  [plain   |-> <<Line("plain")>>,
   header  |-> <<IfNDef("H"), Def("H"), Line("header"), Endif>>,
   self    |-> <<Line("self"), Incl("self")>>,
   guarded |-> <<IfNDef("H"), Def("H"), Incl("guarded"), Endif>>]

Job(main, second) ==
  [sources |-> [f \in DOMAIN Headers \cup {"main", "second"} |->
                  CASE f = "main" -> main [] f = "second" -> second
                    [] OTHER -> Headers[f]],
   files |-> <<"main", "second">>]

Lines == {<<Line("a")>>, <<Def("H")>>, <<Use("x")>>, <<Use("D")>>, <<Bump>>,
          <<Incl("header")>>, <<Incl("plain")>>}
Conditions == {IfNode, IfDef("H"), IfNDef("H")}
Ifs(bodies) ==
  {<<t>> \o b \o e \o <<Endif>> : t \in Conditions, b \in bodies,
                                  e \in {<<>>, <<Else, Line("else")>>}}
One == Ifs(Lines)
Two == Ifs({<<Def("H")>> \o b : b \in One} \cup {b \o <<Use("x")>> : b \in One})

Second == <<IfDef("H"), Incl("header"), Else, Line("end"), Endif, Use("x")>>

Balanced ==
  {Job(a \o b, Second) : a \in Lines \cup {<<Undef("D")>>, <<Incl("self")>>},
                         b \in One \cup Two}
    \cup {Job(<<Incl("guarded")>>, Second)}

\* Every construct around every other, and around files and new variables;
\* directives that close or label nothing.
Loop(v) == [type |-> "FOR", var |-> v, init |-> Expression("ADD", Number(0), Number(0)),
            ep |-> Expression("LT", Variable(v), Number(2)),
            step |-> Expression("ADD", Variable(v), Number(1))]
While == [type |-> "WHILE", ep |-> Expression("LT", Variable("x"), Number(1)),
          init |-> Expression("ADD", Number(0), Number(0)),
          step |-> Expression("ADD", Number(0), Number(0))]
Mark(type) == [type |-> type]
Case(n) == [type |-> "CASE", ep |-> Expression("ADD", Number(n), Number(0))]
Select == [type |-> "SWITCH", ep |-> Expression("ADD", Variable("x"), Number(0))]
New == [type |-> "LET", var |-> "new", ep |-> Expression("ADD", Variable("x"), Number(1))]

Around(v, b) ==
  {<<Loop(v)>> \o b \o <<Use(v), Mark("ENDFOR")>>,
   <<While>> \o b \o <<Bump, Mark("ENDWHILE")>>,
   <<Select, Case(0)>> \o b \o <<Mark("BREAKSW"), Case(1)>> \o b
      \o <<Mark("DEFAULT"), Line("default"), Mark("ENDSWITCH")>>,
   <<IfDef("E")>> \o b \o <<Else>> \o b \o <<Endif>>,
   <<IfDef("E")>> \o b \o <<Endif>>}
Inner == {<<Incl("header")>>, <<New, Use("new")>>, <<Use("none")>>, <<Incl("self")>>,
          <<Undef("D")>>}
Constructs ==
  LET single == UNION {Around("i", b) : b \in Inner}
  IN UNION {Around("j", b) : b \in single} \cup single
       \cup {<<Mark("ENDFOR")>>, <<Else>>}

MCJobs ==
  CASE Shape = "balanced"     ->
         Balanced \cup {Job(b, <<Line("a")>> \o c) :
                          b \in Constructs, c \in Around("k", <<Line("b")>>)}
    [] Shape = "undefined"    ->
         {Job(<<IfDef("D"), Def("H"), Undef("H"), Endif>>, <<Line("a")>>)}
    [] Shape = "unterminated" ->
         {Job(<<IfDef("D"), IfDef("D")>> \o b \o <<Endif>>, <<Line("a")>>) : b \in Lines}
    [] Shape = "included"     ->
         {Job(<<t>> \o b \o <<Endif>>, <<Line("a")>>) : t \in Conditions, b \in Lines}
=============================================================================
