---------------------------- MODULE MacroExpansion ----------------------------
(***************************************************************************)
(* Uses of macros outside of regions (pml/vpp.l, the rules for `{NAME} in  *)
(* mode INITIAL and get_macro_value).  The text of a plain macro is put    *)
(* back in front of the input and scanned again; the text of a macro with  *)
(* parameters is printed as it stands (its arguments are left out here),   *)
(* and so is the value of a variable.                                      *)
(* A counter is meant to notice macros that are defined by themselves:     *)
(* RecursiveMacroLevel counts expansions that begin with a macro again.    *)
(***************************************************************************)
EXTENDS Naturals, Sequences, FiniteSets

CONSTANTS
  Cases,      \* records: names (what they stand for), source
  MaxLevel,   \* expansions in a row that may begin with a macro: 20 in the code
  OutBound    \* the model records no more of the output than this

ASSUME LevelAssumption == MaxLevel \in Nat \ {0} /\ OutBound \in Nat

VARIABLES
  table,                \* macros and variables: a kind and a text
  source,               \* what there was to read
  input,                \* what is left of it, with what was put back
  RecursiveMacroLevel,
  out,                  \* what was printed
  exited

vars == <<table, source, input, RecursiveMacroLevel, out, exited>>

Text(name)  == [kind |-> "text", name |-> name]
Macro(name) == [kind |-> "macro", name |-> name]

Item    == Head(input)
Running == exited = "" /\ input # <<>>
Use(kinds) == Running /\ Item.kind = "macro" /\ table[Item.name].kind \in kinds
BeginsWithMacro(text) == text # <<>> /\ Head(text).kind = "macro"

Recorded(items) ==
  IF Len(out) + Len(items) > OutBound THEN out ELSE out \o items

print ==
  /\ Running /\ Item.kind = "text"
  /\ out' = Recorded(<<Item>>)
  /\ input' = Tail(input)
  /\ UNCHANGED <<table, source, RecursiveMacroLevel, exited>>

\* The rule of the start state DEFINE: print_variable, without a second scan.
print_variable ==
  /\ Use({"parms"})
  /\ out' = Recorded(table[Item.name].text)
  /\ input' = Tail(input)
  /\ UNCHANGED <<table, source, RecursiveMacroLevel, exited>>

PutBackLast(text, rest) == rest \o text
PutBack(text, rest)     == text \o rest
AtLimit == RecursiveMacroLevel >= MaxLevel
NextLevelReset(text) == 0
NextLevelKept(text)  == RecursiveMacroLevel + 1
NextLevel(text) == IF BeginsWithMacro(text) THEN RecursiveMacroLevel + 1 ELSE 0

\* The text of a macro is returned, the number of a variable printed.
get_macro_value(name) ==
  IF table[name].kind = "plain" THEN table[name].text ELSE <<>>

expand ==
  /\ Use({"plain", "number"})
  /\ out' = IF table[Item.name].kind = "number"
              THEN Recorded(table[Item.name].text) ELSE out
  /\ LET text == get_macro_value(Item.name)
     IN /\ input' = PutBack(text, Tail(input))
        /\ IF BeginsWithMacro(text) /\ AtLimit
             THEN /\ exited' = "macro definition loop"
                  /\ UNCHANGED RecursiveMacroLevel
             ELSE /\ RecursiveMacroLevel' = NextLevel(text)
                  /\ UNCHANGED exited
  /\ UNCHANGED <<table, source>>

Stopped == ~Running /\ UNCHANGED vars

Init ==
  /\ \E c \in Cases : table = c.names /\ source = c.source /\ input = c.source
  /\ RecursiveMacroLevel = 0
  /\ out = <<>>
  /\ exited = ""

Next == print \/ print_variable \/ expand \/ Stopped

Spec == Init /\ [][Next]_vars

\* The translator is one sequential program.
FairSpec == Spec /\ WF_vars(Next)

-----------------------------------------------------------------------------
(* What the uses mean.                                                     *)

Mentioned(name) ==
  {table[name].text[k].name :
     k \in {j \in 1..Len(table[name].text) : table[name].text[j].kind = "macro"}}
Plain == {n \in DOMAIN table : table[n].kind = "plain"}

\* The macros that are mentioned, directly or not, in the text of a plain one.
Reached(name) ==
  LET upto[k \in Nat] ==
        IF k = 0 THEN Mentioned(name)
        ELSE upto[k - 1] \cup UNION {Mentioned(n) : n \in upto[k - 1] \cap Plain}
  IN upto[Cardinality(DOMAIN table)]

Looping(name) == name \in Plain /\ name \in Reached(name)
Used  == {source[k].name : k \in {j \in 1..Len(source) : source[j].kind = "macro"}}
Expanded == Used \cup UNION {Reached(m) : m \in Used \cap Plain}
HasLoop == \E n \in Expanded : Looping(n)

\* The plain macros whose text begins with a macro ...
Leading == {n \in Plain : BeginsWithMacro(table[n].text)}
First(name) == Head(table[name].text).name

\* ... and so on, for k levels.
Levels(k) ==
  LET leading[i \in Nat] ==
        IF i = 0 THEN DOMAIN table ELSE {n \in Leading : First(n) \in leading[i - 1]}
  IN leading[k]

\* A text that begins with a macro with parameters counts as a level, and what is
\* printed for that macro does not take the level back.
LevelLeft == \E n \in Expanded \cap Leading : table[First(n)].kind = "parms"

\* A macro that is not the first item of a text stands for text without macros, or is
\* printed as it stands, so that a definition loop is closed by first items only.
LoopsLead(names) ==
  \A n \in DOMAIN names : names[n].kind = "plain" =>
    \A k \in 2..Len(names[n].text) :
      LET item == names[n].text[k]
      IN item.kind = "macro" /\ names[item.name].kind = "plain" =>
           \A i \in DOMAIN names[item.name].text :
             names[item.name].text[i].kind # "macro"

\* A text with all macros in it replaced, as far as macros are not printed
\* as they stand.
RECURSIVE Meaning(_)
Meaning(items) ==
  IF items = <<>> THEN <<>>
  ELSE LET first == Head(items)
       IN (IF first.kind = "text" THEN <<first>>
           ELSE IF first.name \notin Plain THEN table[first.name].text
           ELSE Meaning(table[first.name].text)) \o Meaning(Tail(items))

\* A source that is read to its end has been expanded completely and in order
\* (the `{NAME} rule of vpp.l): in front of the rest of the input there is
\* always what is left of the texts that are being expanded.
FullyExpanded ==
  input = <<>> /\ exited = "" => out = Meaning(source)

\* "20 levels of reference detected": a macro that is used stands for one that stands
\* for another, through more than MaxLevel texts.  The level is a single number that
\* goes over all uses of the source, so it must be taken back between them; it is not
\* after a macro with parameters, whose uses may then add up.
ReportsLevels ==
  exited # "" => Expanded \cap Levels(MaxLevel + 1) # {} \/ LevelLeft

\* "..., most probably caused by macro definition loop": there is such a loop.
ReportsLoops == exited # "" => HasLoop

\* If all loops are closed by first items, the expansion ends or is ended.
Ends == LoopsLead(table) => <>(~Running)

\* Whatever the macros, the expansion ends or is ended.
AllEnd == <>(~Running)
=============================================================================
