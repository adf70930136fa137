------------------------------ MODULE SymbolTable -----------------------------
(***************************************************************************)
(* The symbol table of one module of the language while its text is parsed *)
(* (pml/mparser.y with Expression.hh, Table.hh and CodeBlock.hh), and the  *)
(* interface that GenSV makes of it.  Ports need not be declared: a net    *)
(* that is only read becomes an input, one that is only driven an output,  *)
(* one that is both stays inside, and every use widens the net.            *)
(*                                                                         *)
(* One action is one reduction of the grammar that touches the table: a    *)
(* declaration, the two ends of a code block, a net on either side of an   *)
(* assignment, the rules of an instance.  An expression marks the nets it  *)
(* reads when the statement around it is reduced; Read does so at once,    *)
(* since nothing looks at a direction before the block is closed.          *)
(*                                                                         *)
(* The last six variables record what the text says; no action looks at    *)
(* them.                                                                   *)
(*                                                                         *)
(* The grammar of this commit is under conversion: its start rule does not *)
(* lead to these productions, whose actions are kept.                      *)
(***************************************************************************)
EXTENDS Naturals, FiniteSets, Sequences

CONSTANTS
  Name,           \* all names of the module
  Signal,         \* names that statements read and drive
  Bit,            \* constant indices
  Selector,       \* nets used as an index
  Clock,          \* clocks and resets
  Constant,       \* names declared const
  Port,           \* ports of the module that is instantiated
  PortDirection,  \* their directions
  PortMsb,        \* their upper bounds under each override
  Override,       \* values given to the parameter of that module
  StateReg, NextReg,  \* XX_cs and XX_ns of the finite state machine
  State,          \* its states
  StateIndex,     \* the constant _S_ of a state
  Renamed,        \* what a prefix, suffix or pattern rule makes of a name
  relaxedfsm,     \* control variable of that name
  Reconnect,      \* may the text connect a port of an instance twice?
  None,
  MaxSelectorMsb, \* bound on the width of a net used as an index
  MaxStates, \* bound on the items of a state machine
  MaxText    \* bound on the declarations, blocks and nets of the text

ASSUME NameAssumption ==
  /\ Signal \cup Selector \cup Clock \cup Constant \cup Port \cup State
       \cup {StateReg, NextReg} \subseteq Name
  /\ StateIndex \in [State -> Name] /\ Renamed \in [Name -> Name]
  /\ PortDirection \in [Port -> {"INPUT", "OUTPUT", "INOUT"}]
  /\ PortMsb \in [Port -> [Override \cup {None} -> Nat]]
  /\ Bit \subseteq Nat
  /\ None \notin Override /\ None \notin Name
  /\ None \notin [kind : {"assign", "always_comb", "always_ff", "fsm", "inst"},
                 lsymbols : SUBSET Name, driven : SUBSET Name,
                 given : Override \cup {None}]
  /\ None \notin {"INPUT", "OUTPUT", "INOUT", "NONPORT"}

\* Arithmetic has these powers; the proofs need them as facts, since the
\* provers do not know exponentiation.
ASSUME PowerAssumption ==
  /\ MaxSelectorMsb \in Nat /\ MaxStates \in Nat
  /\ \A k \in 0..(MaxSelectorMsb + 1) : 2^k \in Nat \ {0}
  /\ \A k \in 0..MaxStates : 2^k \in Nat \ {0}

VARIABLES
  symbols,    \* _symbols, with exists for the keys of the map
  io_table,   \* names declared as ports, then the whole interface
  block,      \* the open code block or instance, or None
  graph,      \* mwrapper.state_graph of the open state machine
  states,     \* its state items so far
  override,   \* _override of the instantiated module's parameter
  connect_map, todo,  \* _connect_map, and its entries not yet merged
  symbol_to_remove,
  code_blocks, size,  \* blocks, and lines of the text, so far
  phase,      \* "parsing", "generated", or why the program ended
  report,     \* what GenSV warned about, and what it was told to look at
  uses, hard, soft, drives, declared, narrowed

vars == <<symbols, io_table, block, graph, states, override, connect_map, todo,
          symbol_to_remove, code_blocks, size, phase, report,
          uses, hard, soft, drives, declared, narrowed>>
table == <<symbols, io_table>>
fsm == <<graph, states>>
instance == <<override, connect_map, todo, symbol_to_remove>>
text == <<uses, hard, soft, drives, declared, narrowed>>

\* The control variables of GenSV.  It alone looks at them, so that they count
\* as the text has set them last.
Control == [portchk : BOOLEAN, multidriverchk : BOOLEAN, exitonlintwarning : BOOLEAN]

\* As the constructor of CMHDLwrapper sets them.
DefaultControl ==
  [portchk |-> FALSE, multidriverchk |-> TRUE, exitonlintwarning |-> FALSE]

Directions == {"INPUT", "OUTPUT", "INOUT", "NONPORT"}
NetDirection == {"INPUT", "OUTPUT", "INOUT"}

Symbol ==
  [exists : BOOLEAN, direction : Directions, io_fixed : BOOLEAN, msb : Nat,
   width_fixed : BOOLEAN, is_2D : BOOLEAN, is_const : BOOLEAN, value : Nat,
   driver : SUBSET Nat, loccur : BOOLEAN, roccur : BOOLEAN]

NewSymbol ==
  [exists |-> FALSE, direction |-> "NONPORT", io_fixed |-> FALSE, msb |-> 0,
   width_fixed |-> FALSE, is_2D |-> FALSE, is_const |-> FALSE, value |-> 0,
   driver |-> {}, loccur |-> FALSE, roccur |-> FALSE]

\* An index of a net: none, a number, or another net.
Index == [kind : {"whole"}] \cup [kind : {"bit"}, at : Bit]
           \cup [kind : {"by"}, net : Selector]
Whole == [kind |-> "whole"]

(***************************************************************************)
(* CSymbol and CSymbolTab.                                                 *)
(***************************************************************************)

Insert(s) == [s EXCEPT !.exists = TRUE]

\* Mutant: a net that is read and driven may become a port again.
UpdateDirectionUnfixed(s, d) ==
  IF s.io_fixed \/ s.is_const \/ s.direction = "INOUT" THEN s
  ELSE IF s.direction \in {"NONPORT", d} THEN [s EXCEPT !.direction = d]
  ELSE [s EXCEPT !.direction = "NONPORT"]

\* CSymbol::Update(direction): a second direction makes a net internal for
\* good.
UpdateDirection(s, d) ==
  IF s.io_fixed \/ s.is_const \/ s.direction = "INOUT" THEN s
  ELSE IF s.direction \in {"NONPORT", d} THEN [s EXCEPT !.direction = d]
  ELSE [s EXCEPT !.direction = "NONPORT", !.io_fixed = TRUE]

Fixed(s) == s.width_fixed \/ s.is_const \/ s.is_2D

\* CSymbol::Update(msb) returns false ...
Refuses(s, m) == Fixed(s) /\ m > s.msb

\* ... or makes the symbol as wide as it is used.
UpdateMsb(s, m) == IF ~Fixed(s) /\ m > s.msb THEN [s EXCEPT !.msb = m] ELSE s

\* AddRoccure and AddLoccure.
Occurs(s, d) ==
  [s EXCEPT !.roccur = @ \/ d \in {"INPUT", "INOUT"},
            !.loccur = @ \/ d \in {"OUTPUT", "INOUT"}]

Used(s, d) == Occurs(UpdateDirection(Insert(s), d), d)

(***************************************************************************)
(* Nets.                                                                   *)
(***************************************************************************)

\* IsConst of an index.
ConstIndex(t, x) == x.kind = "by" => t[x.net].is_const

\* The largest index that the net must have: the value of a constant index,
\* else all that the index net can count.
IndexMsb(t, x) ==
  CASE x.kind = "whole" -> 0
    [] x.kind = "bit" -> x.at
    [] x.kind = "by" -> IF t[x.net].is_const THEN t[x.net].value
                        ELSE 2^(t[x.net].msb + 1) - 1

\* The names of an index that is read.
Selects(t, x) == IF ConstIndex(t, x) THEN {} ELSE {x.net}

\* CVariable::GetSymbol: the net and its index go into the same set.
SymbolsOf(n, x) == {n} \cup IF x.kind = "by" THEN {x.net} ELSE {}

\* The production net: the index is read, the net is inserted and widened.
Net(t, n, x) ==
  [m \in Name |->
     LET s == IF m \in Selects(t, x) THEN Used(t[m], "INPUT")
              ELSE IF m \in SymbolsOf(n, x) THEN Insert(t[m]) ELSE t[m]
     IN IF m = n THEN UpdateMsb(s, IndexMsb(t, x)) ELSE s]

\* Only an index known to be too large is an error.
IndexError(t, n, x) == ConstIndex(t, x) /\ Refuses(t[n], IndexMsb(t, x))

With(f, S, e) == [n \in Name |-> IF n \in S THEN f[n] \cup {e} ELSE f[n]]
Raised(f, n, m) == [f EXCEPT ![n] = IF m > @ THEN m ELSE @]

\* What a net written with an index asks of its width.
AsksWidth(n, x) ==
  IF ConstIndex(symbols, x)
  THEN hard' = Raised(hard, n, IndexMsb(symbols, x)) /\ UNCHANGED soft
  ELSE soft' = Raised(soft, n, IndexMsb(symbols, x)) /\ UNCHANGED hard

Error(why) ==
  /\ phase' = why
  /\ UNCHANGED <<table, block, fsm, instance, code_blocks, size,
                 report, text>>

Parsing == phase = "parsing"
Between == Parsing /\ block = None
In(kinds) == Parsing /\ block # None /\ block.kind \in kinds

\* Bounds on the text.
More == size < MaxText /\ size' = size + 1
MoreBlocks == More /\ code_blocks' = code_blocks + 1
Narrow(x) == x.kind = "by" => symbols[x.net].msb <= MaxSelectorMsb

(***************************************************************************)
(* Declarations.                                                           *)
(***************************************************************************)

\* port_declaration without a range.
PlainPort(d, n) ==
  /\ symbols' = [symbols EXCEPT ![n] =
       [Insert(@) EXCEPT !.io_fixed = TRUE, !.direction = d]]
  /\ UNCHANGED hard

\* port_declaration with a range: the symbol keeps what is wider.
RangedPort(d, n, m) ==
  /\ symbols' = [symbols EXCEPT ![n] =
       [UpdateMsb(Insert(@), m)
          EXCEPT !.io_fixed = TRUE, !.direction = d, !.width_fixed = TRUE]]
  /\ hard' = Raised(hard, n, m)

DeclarePort(d, n, x) ==
  /\ Between /\ More
  /\ n \notin io_table
  /\ x.kind = "bit" => ~Refuses(symbols[n], x.at)
  /\ IF x.kind = "bit" THEN RangedPort(d, n, x.at) ELSE PlainPort(d, n)
  /\ io_table' = IF d = "NONPORT" THEN io_table ELSE io_table \cup {n}
  /\ declared' = [declared EXCEPT ![n] = d]
  /\ UNCHANGED <<block, fsm, instance, code_blocks, phase, report,
                 uses, soft, drives, narrowed>>

DeclarePortError(n, x) ==
  /\ Between
  /\ n \in io_table \/ (x.kind = "bit" /\ Refuses(symbols[n], x.at))
  /\ Error("error")

\* variable_declaration: its range is the range, whatever was written before.
DeclareVariable(n, m) ==
  /\ Between /\ More
  /\ symbols' = [symbols EXCEPT ![n] =
       [Insert(@) EXCEPT !.width_fixed = TRUE, !.msb = m]]
  /\ narrowed' = narrowed \cup IF hard[n] > m THEN {n} ELSE {}
  /\ UNCHANGED <<io_table, block, fsm, instance, code_blocks, phase,
                 report, uses, hard, soft, drives, declared>>

\* variable_declaration of an array: its words are as wide as the range says.
DeclareArray(n, m) ==
  /\ Between /\ More
  /\ symbols' = [symbols EXCEPT ![n] =
       [Insert(@) EXCEPT !.direction = "NONPORT", !.io_fixed = TRUE,
                         !.is_2D = TRUE, !.width_fixed = TRUE, !.msb = m]]
  /\ narrowed' = narrowed \cup IF hard[n] > m THEN {n} ELSE {}
  /\ UNCHANGED <<io_table, block, fsm, instance, code_blocks, phase,
                 report, uses, hard, soft, drives, declared>>

\* constant_declaration: Update(msb) comes after is_const was set and leaves
\* the width alone.
DeclareConstant(n, v, m) ==
  /\ Between /\ More
  /\ symbols' = [symbols EXCEPT ![n] =
       UpdateMsb([Insert(@) EXCEPT !.is_const = TRUE, !.value = v], m)]
  /\ UNCHANGED <<io_table, block, fsm, instance, code_blocks, phase,
                 report, text>>

(***************************************************************************)
(* Code blocks: assign, always_comb, always_ff and ff, fsm.                *)
(***************************************************************************)

Clocked == {"always_ff", "fsm"}
CodeBlock == {"assign", "always_comb"} \cup Clocked

\* An open block; driven and given are what the text says.
NewBlock(k, v) == [kind |-> k, lsymbols |-> {}, driven |-> {}, given |-> v]

OpenBlock(k) ==
  /\ Between /\ MoreBlocks /\ k # "fsm"
  /\ block' = NewBlock(k, None)
  /\ UNCHANGED <<table, fsm, instance, phase, report, text>>

\* fsm_block up to its first statement.
OpenFSM ==
  /\ Between /\ MoreBlocks
  /\ block' = NewBlock("fsm", None)
  /\ symbols' = [n \in Name |-> IF n \in {StateReg, NextReg}
                                THEN Insert(symbols[n]) ELSE symbols[n]]
  /\ graph' = [nodes |-> {}, edges |-> {}] /\ states' = <<>>
  /\ UNCHANGED <<io_table, instance, phase, report, text>>

\* Statement::GetSymbol: a for statement tells none of its symbols.
Lsymbols(n, x, infor) == IF infor THEN {} ELSE SymbolsOf(n, x)

\* net_lval.
Drive(n, x, infor) ==
  /\ In(CodeBlock) /\ More /\ Narrow(x)
  /\ infor => block.kind # "assign"
  /\ ~IndexError(symbols, n, x)
  /\ symbols' = [Net(symbols, n, x) EXCEPT ![n] = Used(@, "OUTPUT")]
  /\ block' = [block EXCEPT !.lsymbols = @ \cup Lsymbols(n, x, infor),
                            !.driven = @ \cup IF infor THEN {} ELSE {n}]
  /\ uses' = With(With(uses, Selects(symbols, x), "INPUT"), {n}, "OUTPUT")
  /\ AsksWidth(n, x)
  /\ UNCHANGED <<io_table, fsm, instance, code_blocks, phase,
                 report, drives, declared, narrowed>>

\* A net of an expression, and CExpression::Update(INPUT) with AddRoccure.
Read(n, x) ==
  /\ In(CodeBlock) /\ More /\ Narrow(x)
  /\ ~IndexError(symbols, n, x)
  /\ symbols' = [Net(symbols, n, x) EXCEPT ![n] = Used(@, "INPUT")]
  /\ uses' = With(uses, {n} \cup Selects(symbols, x), "INPUT")
  /\ AsksWidth(n, x)
  /\ UNCHANGED <<io_table, block, fsm, instance, code_blocks,
                 phase, report, drives, declared, narrowed>>

IndexOutOfRange(n, x) ==
  /\ In(CodeBlock) /\ IndexError(symbols, n, x)
  /\ Error("error")

\* Mutant: the last block is taken for the only driver.
DrivenByLast(t, S, b) ==
  [n \in Name |-> IF n \in S THEN [t[n] EXCEPT !.driver = {b}] ELSE t[n]]

\* SetDriver.
Driven(t, S, b) ==
  [n \in Name |-> IF n \in S THEN [t[n] EXCEPT !.driver = @ \cup {b}] ELSE t[n]]

\* The clock and the reset of a block are read.
Clocks(t, C) == [n \in Name |-> IF n \in C THEN Used(t[n], "INPUT") ELSE t[n]]

CloseBlock(C) ==
  /\ In(CodeBlock \ {"fsm"}) /\ (C = {} <=> block.kind \notin Clocked)
  /\ symbols' = Driven(Clocks(symbols, C), block.lsymbols, code_blocks)
  /\ uses' = With(uses, C, "INPUT")
  /\ drives' = With(drives, block.driven, code_blocks)
  /\ block' = None
  /\ UNCHANGED <<io_table, fsm, instance, code_blocks, size,
                 phase, report, hard, soft, declared, narrowed>>

(***************************************************************************)
(* Finite state machines.                                                  *)
(***************************************************************************)

\* fsm_item.
StateItem(s) ==
  /\ In({"fsm"}) /\ Len(states) < MaxStates
  /\ symbols' = [n \in Name |-> IF n \in {s, StateIndex[s]}
                                THEN Insert(symbols[n]) ELSE symbols[n]]
  /\ graph' = [graph EXCEPT !.nodes = @ \cup {s}]
  /\ states' = Append(states, s)
  /\ UNCHANGED <<io_table, block, instance, code_blocks, size, phase,
                 report, text>>

\* goto, in a state.
Goto(s) ==
  /\ In({"fsm"}) /\ More /\ states # <<>>
  /\ symbols' = [symbols EXCEPT ![s] = Insert(@)]
  /\ graph' = [nodes |-> graph.nodes \cup {s},
               edges |-> graph.edges \cup {<<states[Len(states)], s>>}]
  /\ UNCHANGED <<io_table, block, states, instance, code_blocks,
                 phase, report, text>>

\* CheckFSM looks at the states next to a state.
FSMError ==
  \E s \in graph.nodes :
    \/ \A t \in graph.nodes : <<t, s>> \notin graph.edges
    \/ \A t \in graph.nodes : <<s, t>> \notin graph.edges

StateMsb == Len(states) - 1
IsLast(i) == \A j \in (i + 1)..Len(states) : states[j] # states[i]

\* BuildFSM: widths of the registers, constants for states and their indices.
BuildFSM(t) ==
  [n \in Name |->
     IF n \in {StateReg, NextReg} THEN UpdateMsb(t[n], StateMsb)
     ELSE IF \E i \in DOMAIN states : n = states[i]
     THEN [t[n] EXCEPT !.is_const = TRUE, !.msb = StateMsb,
            !.value = 2^((CHOOSE i \in DOMAIN states :
                            states[i] = n /\ IsLast(i)) - 1)]
     ELSE IF \E i \in DOMAIN states : n = StateIndex[states[i]]
     THEN [t[n] EXCEPT !.is_const = TRUE,
            !.value = (CHOOSE i \in DOMAIN states :
                         StateIndex[states[i]] = n /\ IsLast(i)) - 1]
     ELSE t[n]]

\* The registers of a machine are a block of their own.
Registers(b) == MaxText + b

CloseFSM(C) ==
  /\ In({"fsm"}) /\ C # {} /\ states # <<>>
  /\ relaxedfsm \/ ~FSMError
  /\ symbols' =
       Driven(Driven(BuildFSM(Clocks(symbols, C)),
                     block.lsymbols \cup {NextReg}, code_blocks),
              {StateReg}, Registers(code_blocks))
  /\ uses' = With(uses, C, "INPUT")
  /\ soft' = [n \in Name |-> IF n \in {StateReg, NextReg} /\ StateMsb > soft[n]
                             THEN StateMsb ELSE soft[n]]
  /\ drives' = With(With(drives, block.driven \cup {NextReg}, code_blocks),
                    {StateReg}, Registers(code_blocks))
  /\ block' = None /\ graph' = None /\ states' = <<>>
  /\ UNCHANGED <<io_table, instance, code_blocks, size, phase,
                 report, hard, declared, narrowed>>

RefuseFSM ==
  /\ In({"fsm"}) /\ states # <<>> /\ FSMError /\ ~relaxedfsm
  /\ Error("error")

(***************************************************************************)
(* Instances of other modules.                                             *)
(***************************************************************************)

\* CIOTab::Reset: a port is connected to a new net of its own name.
DefaultConnections ==
  [p \in Port |-> [kind |-> "net", own |-> TRUE, name |-> p, index |-> Whole]]

\* inst_block up to the parameter values (CParamTab::SetParam).
OpenInstance(v) ==
  /\ Between /\ MoreBlocks
  /\ block' = NewBlock("inst", v)
  /\ override' = IF v = None THEN override ELSE v
  /\ todo' = Port
  /\ UNCHANGED <<table, fsm, connect_map, symbol_to_remove,
                 phase, report, text>>

\* CIOTab::Connect with a prefix, a suffix or a pattern.  It also renames
\* nets that were connected by name; here the rule comes first, and once.
Rename ==
  /\ In({"inst"}) /\ todo = Port
  /\ \A p \in Port : connect_map[p].kind = "net" =>
       connect_map[p].own /\ connect_map[p].name = p
  /\ connect_map' = [p \in Port |->
       IF connect_map[p].kind = "net"
       THEN [connect_map[p] EXCEPT !.name = Renamed[@]] ELSE connect_map[p]]
  /\ UNCHANGED <<table, block, fsm, override, todo, symbol_to_remove,
                 code_blocks, size, phase, report, text>>

\* connection_rule .p(expression), of one net: by itself, in a concatenation
\* or under an operator.
Connect(p, k, n, x) ==
  /\ In({"inst"}) /\ todo = Port /\ More /\ Narrow(x)
  /\ Reconnect \/ connect_map[p].own
  /\ ~IndexError(symbols, n, x)
  /\ k = "operator" => PortDirection[p] = "INPUT"
  /\ symbols' = [Net(symbols, n, x) EXCEPT ![n] = Occurs(@, PortDirection[p])]
  /\ connect_map' = [connect_map EXCEPT ![p] =
       [kind |-> k, own |-> FALSE, name |-> n, index |-> x]]
  /\ symbol_to_remove' = symbol_to_remove \cup IF k = "net" THEN {n} ELSE {}
  /\ uses' = With(uses, Selects(symbols, x), "INPUT")
  /\ AsksWidth(n, x)
  /\ UNCHANGED <<io_table, block, fsm, override, todo, code_blocks,
                 phase, report, drives, declared, narrowed>>

\* connection_rule .p()
LeaveOpen(p) ==
  /\ In({"inst"}) /\ todo = Port
  /\ Reconnect \/ connect_map[p].own
  /\ connect_map' = [connect_map EXCEPT ![p].kind = "open", ![p].own = FALSE]
  /\ UNCHANGED <<table, block, fsm, override, todo, symbol_to_remove,
                 code_blocks, size, phase, report, text>>

\* Mutant: the bound is taken without the values of this instance.
ConnectedMsbAfterReset(p) ==
  LET x == connect_map[p].index
  IN IF x.kind = "whole" THEN PortMsb[p][None] ELSE IndexMsb(symbols, x)

\* CIOTab::GetIO: the port's bound under the values of this instance, or the
\* index that was written.
ConnectedMsb(p) ==
  LET x == connect_map[p].index
  IN IF x.kind = "whole" THEN PortMsb[p][override] ELSE IndexMsb(symbols, x)

\* What the text asks for: the port under the values that were written.
AskedMsb(p) ==
  LET x == connect_map[p].index
  IN IF x.kind = "whole" THEN PortMsb[p][block.given] ELSE IndexMsb(symbols, x)

\* GetIO asks an index for its value, which only a constant one has.
HasValues ==
  \A p \in Port : connect_map[p].kind = "net" =>
    ConstIndex(symbols, connect_map[p].index)

NoValue ==
  /\ In({"inst"}) /\ ~HasValues
  /\ Error("internal error")

\* The net of a port, merged into the table.  A net that a rule has named was
\* marked as read or driven by that rule.
Merged(p) ==
  LET n == connect_map[p].name
      d == PortDirection[p]
      s == UpdateDirection(UpdateMsb(Insert(symbols[n]), ConnectedMsb(p)), d)
  IN IF n \in symbol_to_remove THEN s ELSE Occurs(s, d)

\* CBlkInst::GetSymbol: outputs drive their nets.
DrivenBy(p) ==
  LET c == connect_map[p]
  IN IF PortDirection[p] = "INPUT" THEN block
     ELSE [block EXCEPT !.lsymbols = @ \cup SymbolsOf(c.name, c.index),
                        !.driven = @ \cup {c.name}]

\* The connections are visited in the order of their addresses: any order.
Merges(p) ==
  /\ In({"inst"}) /\ p \in todo /\ HasValues
  /\ todo' = todo \ {p}
  /\ UNCHANGED <<io_table, fsm, override, connect_map, code_blocks,
                 size, phase, report, hard, drives, declared, narrowed>>

MergeNet(p) ==
  /\ Merges(p) /\ connect_map[p].kind = "net"
  /\ LET n == connect_map[p].name
     IN /\ symbols' = [symbols EXCEPT ![n] = Merged(p)]
        /\ symbol_to_remove' = symbol_to_remove \ {n}
        /\ soft' = Raised(soft, n, AskedMsb(p))
        /\ uses' = With(uses, {n}, PortDirection[p])
  /\ block' = DrivenBy(p)

\* CExpression::Update(direction) of the expression a rule has given.
MergeExpression(p) ==
  /\ Merges(p) /\ connect_map[p].kind \in {"concat", "operator"}
  /\ LET n == connect_map[p].name
     IN /\ symbols' = [symbols EXCEPT ![n] =
                         UpdateDirection(@, PortDirection[p])]
        /\ uses' = With(uses, {n}, PortDirection[p])
  /\ block' = DrivenBy(p)
  /\ UNCHANGED <<symbol_to_remove, soft>>

MergeOpen(p) ==
  /\ Merges(p) /\ connect_map[p].kind = "open"
  /\ UNCHANGED <<symbols, symbol_to_remove, block, uses, soft>>

\* The end of inst_block.  A net that a rule has named and no port kept is
\* taken out of the table.
CloseInstance ==
  /\ In({"inst"}) /\ todo = {}
  /\ symbols' = Driven([n \in Name |-> IF n \in symbol_to_remove
                                       THEN NewSymbol ELSE symbols[n]],
                       block.lsymbols \ symbol_to_remove, code_blocks)
  /\ drives' = With(drives, block.driven, code_blocks)
  /\ override' = None /\ connect_map' = DefaultConnections
  /\ symbol_to_remove' = {}
  /\ block' = None
  /\ UNCHANGED <<io_table, fsm, todo, code_blocks, size, phase,
                 report, uses, hard, soft, declared, narrowed>>

(***************************************************************************)
(* The end of the module.                                                  *)
(***************************************************************************)

\* Mutant: the outputs are not extracted.
ExtractedInputs ==
  io_table \cup {n \in Name : symbols[n].exists /\ symbols[n].direction = "INPUT"}

\* CSymbolTab::ExtractIO.
Extracted ==
  io_table \cup
    {n \in Name : symbols[n].exists /\ symbols[n].direction \in {"INPUT", "OUTPUT"}}

\* CIOTab::ChkMissingPort.
Missing(io) ==
  {n \in io : \/ symbols[n].direction \in {"INPUT", "INOUT"} /\ ~symbols[n].roccur
              \/ symbols[n].direction \in {"OUTPUT", "INOUT"} /\ ~symbols[n].loccur}

\* CSymbolTab::ChkMultiDriver.
MultiDriver == {n \in Name : Cardinality(symbols[n].driver) > 1}

\* The first message also names the ports that were not declared.
PortWarning(mctrl) ==
  mctrl.portchk /\ (Extracted # io_table \/ Missing(Extracted) # {})

DriverWarning(mctrl) == mctrl.multidriverchk /\ MultiDriver # {}

\* GenSV.  A LintWarning ends the program if exitonlintwarning is set: then no
\* module is generated, and after the first one drivers are not looked at.
GenSV(mctrl) ==
  /\ Between
  /\ io_table' = Extracted
  /\ report' =
       [mctrl |-> mctrl,
        missing |-> IF mctrl.portchk THEN Missing(Extracted) ELSE {},
        multi |-> IF mctrl.multidriverchk
                     /\ ~(mctrl.exitonlintwarning /\ PortWarning(mctrl))
                  THEN MultiDriver ELSE {}]
  /\ phase' = IF mctrl.exitonlintwarning
                  /\ (PortWarning(mctrl) \/ DriverWarning(mctrl))
               THEN "exit" ELSE "generated"
  /\ UNCHANGED <<symbols, block, fsm, instance, code_blocks,
                 size, text>>

\* GenSV for a module that the table of all modules, which is not modelled,
\* has already.
DropResult ==
  /\ Between
  /\ phase' = "dropped"
  /\ UNCHANGED <<table, block, fsm, instance, code_blocks, size, report, text>>

(***************************************************************************)
(* Specification.                                                          *)
(***************************************************************************)

Init ==
  /\ symbols = [n \in Name |-> NewSymbol] /\ io_table = {}
  /\ block = None /\ graph = None /\ states = <<>>
  /\ override = None /\ connect_map = DefaultConnections /\ todo = {}
  /\ symbol_to_remove = {}
  /\ code_blocks = 0 /\ size = 0
  /\ phase = "parsing"
  /\ report = [mctrl |-> DefaultControl, missing |-> {}, multi |-> {}]
  /\ uses = [n \in Name |-> {}] /\ drives = [n \in Name |-> {}]
  /\ hard = [n \in Name |-> 0] /\ soft = [n \in Name |-> 0]
  /\ declared = [n \in Name |-> None] /\ narrowed = {}

Declare ==
  \/ \E n \in Signal, x \in Index \ [kind : {"by"}, net : Selector] :
       \/ \E d \in Directions : DeclarePort(d, n, x)
       \/ DeclarePortError(n, x)
  \/ \E n \in Signal, m \in Bit : DeclareVariable(n, m) \/ DeclareArray(n, m)
  \/ \E n \in Constant, v, m \in Bit : DeclareConstant(n, v, m)

Code ==
  \/ \E k \in CodeBlock : OpenBlock(k)
  \/ \E n \in Signal, x \in Index :
       Read(n, x) \/ (\E f \in BOOLEAN : Drive(n, x, f)) \/ IndexOutOfRange(n, x)
  \/ \E C \in SUBSET Clock : CloseBlock(C)

Machine ==
  \/ OpenFSM \/ RefuseFSM
  \/ \E s \in State : StateItem(s) \/ Goto(s)
  \/ \E C \in SUBSET Clock : CloseFSM(C)

Inst ==
  \/ \E v \in Override \cup {None} : OpenInstance(v)
  \/ \E p \in Port :
       \/ \E k \in {"net", "concat", "operator"}, n \in Signal, x \in Index :
            Connect(p, k, n, x)
       \/ LeaveOpen(p) \/ MergeNet(p) \/ MergeExpression(p) \/ MergeOpen(p)
  \/ Rename \/ NoValue \/ CloseInstance

Generate == (\E mctrl \in Control : GenSV(mctrl)) \/ DropResult

Next == Declare \/ Code \/ Machine \/ Inst \/ Generate

Spec == Init /\ [][Next]_vars

(***************************************************************************)
(* Properties.                                                             *)
(***************************************************************************)

Connection ==
  [kind : {"net", "concat", "operator", "open"}, own : BOOLEAN, name : Name,
   index : Index]

TypeOK ==
  /\ symbols \in [Name -> Symbol] /\ io_table \subseteq Name
  /\ block \in {None} \cup
       [kind : CodeBlock \cup {"inst"}, lsymbols : SUBSET Name,
        driven : SUBSET Name, given : Override \cup {None}]
  /\ graph \in {None} \cup [nodes : SUBSET State, edges : SUBSET (State \X State)]
  /\ states \in Seq(State)
  /\ override \in Override \cup {None}
  /\ connect_map \in [Port -> Connection] /\ todo \subseteq Port
  /\ symbol_to_remove \subseteq Name
  /\ code_blocks \in 0..MaxText /\ size \in 0..MaxText
  /\ phase \in {"parsing", "generated", "exit", "dropped", "error", "internal error"}
  /\ report \in [mctrl : Control, missing : SUBSET Name, multi : SUBSET Name]
  /\ uses \in [Name -> SUBSET NetDirection]
  /\ drives \in [Name -> SUBSET (1..(2 * MaxText))]
  /\ hard \in [Name -> Nat] /\ soft \in [Name -> Nat]
  /\ declared \in [Name -> Directions \cup {None}] /\ narrowed \subseteq Name

DirectionOf(U) ==
  IF U \in {{"INPUT"}, {"OUTPUT"}} THEN CHOOSE d \in U : TRUE ELSE "NONPORT"

\* Nets whose direction is left to the code: neither declared as a port or an
\* array nor constant, and not joined to an inout port.
Inferred(n) ==
  /\ declared[n] = None /\ "INOUT" \notin uses[n]
  /\ ~symbols[n].is_const /\ ~symbols[n].is_2D

\* Whatever the order of blocks, machines and instances, a net that is only
\* read is an input, one that is only driven an output, and one that is both
\* is neither, for good: CSymbol::Update sees one use at a time and keeps
\* only a direction and a flag.
DirectionOfUses ==
  \A n \in Name :
    Inferred(n) => symbols[n].direction = DirectionOf(uses[n])

\* The ports of the generated module are those that were declared, with the
\* declared directions, and the nets whose uses all go one way.
Interface ==
  phase = "generated" =>
    \A n \in Name :
      /\ declared[n] \in NetDirection => n \in io_table
      /\ declared[n] = "NONPORT" => n \notin io_table
      /\ declared[n] # None /\ ~symbols[n].is_2D =>
           symbols[n].direction = declared[n]
      /\ Inferred(n) => (n \in io_table <=> Cardinality(uses[n]) = 1)

\* A net without declared width is exactly as wide as its widest use: the
\* indices written in the code, and the ports of instances under the values
\* of the parameters of that instance and no other.  A net of declared width
\* holds the constant indices that were accepted, but for variables that were
\* used before they were declared.
WidthsCover ==
  \A n \in Name :
    /\ ~Fixed(symbols[n]) =>
         symbols[n].msb = IF hard[n] > soft[n] THEN hard[n] ELSE soft[n]
    /\ symbols[n].width_fixed /\ ~symbols[n].is_const /\ n \notin narrowed =>
         hard[n] <= symbols[n].msb

\* No fault that GenSV is told to look for gets into a generated module unnoticed,
\* and none at all if it is told to exit: with multidriverchk, a net that two blocks
\* drive outside of for statements, a machine and its registers, the clocked and the
\* combinational blocks and the instances counted alike; with portchk, which is off
\* by default, a declared port that nothing uses.
ReportsComplete ==
  phase = "generated" =>
    \A n \in Name :
      /\ report.mctrl.multidriverchk /\ Cardinality(drives[n]) > 1 =>
           n \in report.multi /\ ~report.mctrl.exitonlintwarning
      /\ /\ report.mctrl.portchk
         /\ declared[n] \in NetDirection /\ uses[n] = {} /\ ~symbols[n].is_2D
         => n \in report.missing /\ ~report.mctrl.exitonlintwarning

\* Only nets that two blocks drive are called multiply driven.  The code
\* counts the index of a driven net as driven.
OnlyRealMultiDrivers ==
  phase = "generated" =>
    \A n \in report.multi : Cardinality(drives[n]) > 1

\* A port that is declared with a range and accepted has that range.
DeclaredRangeKept ==
  [][\A d \in Directions, n \in Name, m \in Bit :
       DeclarePort(d, n, [kind |-> "bit", at |-> m]) => symbols'[n].msb = m]_vars

\* A constant that is declared with a range has that range.
ConstantRangeKept ==
  [][\A n \in Name, v, m \in Bit :
       DeclareConstant(n, v, m) => symbols'[n].msb = m]_vars

\* A variable is never declared narrower than it was used.
NothingNarrowed == narrowed = {}

\* A net that the text uses stays in the table.
UsedNetsStay == \A n \in Name : uses[n] # {} => symbols[n].exists

\* No input of the generated module is driven inside, unless it was declared
\* an input.
InputsAreNotDriven ==
  phase = "generated" =>
    \A n \in io_table :
      symbols[n].direction = "INPUT" /\ declared[n] = None =>
        symbols[n].driver = {}

\* No constant becomes a port.
ConstantsAreNoPorts ==
  phase = "generated" => \A n \in io_table : ~symbols[n].is_const
=============================================================================
