--------------------------- MODULE EvalStackProofs ---------------------------
(***************************************************************************)
(* For every captured region, whether its directives match or not: the     *)
(* stacks of the interpreter hold nodes of the region and stay inside      *)
(* their arrays.                                                           *)
(***************************************************************************)
EXTENDS EvalStack, TLAPS, WellFoundedInduction, SequenceTheorems

\* The inductive invariant.
SwitchFields == {"done_a_case", "status_on_entry", "ignore_more_matches", "value"}
IInv ==
  /\ program \in Programs
  /\ TypeOK
  /\ StacksFit
  /\ \A i \in DOMAIN switch_struct :
       /\ i \in 1..Len(Nodes)
       /\ DOMAIN switch_struct[i] = SwitchFields
  /\ \A i \in 1..Len(Nodes) :
       Nodes[i].type = "SWITCH" => i \in DOMAIN switch_struct

LEMMA LengthType == program \in Programs => Len(Nodes) \in Nat /\ End \in Nat
BY ProgramsAssumption DEF Nodes, End

\* A nonempty set of numbers has a least one.
LEMMA LeastNumber ==
  ASSUME NEW S \in SUBSET Nat, S # {}
  PROVE  \E m \in S : \A k \in S : m <= k
<1>1. \E m \in S : \A k \in S : <<k, m>> \notin OpToRel(<, Nat)
  BY NatLessThanWellFounded, WFMin
<1>2. PICK m \in S : \A k \in S : <<k, m>> \notin OpToRel(<, Nat)
  BY <1>1
<1>3. \A k \in S : ~(k < m)
  BY <1>2 DEF OpToRel
<1> QED BY <1>3

\* The scan that skips a loop stops inside the region or at its end.
LEMMA SkipType ==
  ASSUME program \in Programs, NEW i \in 1..Len(Nodes)
  PROVE  MatchingEnd(i) \in Positions
<1> DEFINE stops == {j \in (i + 1)..Len(Nodes) :
                       Count(CloserOf(Nodes[i].type), i + 1, j)
                         > Count(Nodes[i].type, i + 1, j)}
           m == CHOOSE j \in stops : \A k \in stops : j <= k
<1>1. Len(Nodes) \in Nat /\ End = Len(Nodes) + 1
  BY LengthType DEF End
<1>2. MatchingEnd(i) = IF stops = {} THEN End ELSE m
  BY DEF MatchingEnd
<1>3. stops \subseteq (i + 1)..Len(Nodes)
  OBVIOUS
<1> HIDE DEF stops
<1>4. CASE stops = {}
  BY <1>1, <1>2, <1>4 DEF Positions
<1>5. CASE stops # {}
  <2>1. stops \in SUBSET Nat
    BY <1>1, <1>3
  <2>2. \E j \in stops : \A k \in stops : j <= k
    BY <2>1, <1>5, LeastNumber
  <2>3. m \in stops
    BY <2>2
  <2> HIDE DEF m
  <2>4. m \in (i + 1)..Len(Nodes)
    BY <2>3, <1>3
  <2>5. m \in 1..End
    BY <2>4, <1>1
  <2> QED BY <2>5, <1>2, <1>5 DEF Positions
<1> QED BY <1>4, <1>5

LEMMA NextType ==
  ASSUME program \in Programs, NEW i \in Positions
  PROVE  NextOf(i) \in Positions
BY LengthType DEF Positions, NextOf, End

\* A node that carries a directive is inside the region.
LEMMA AtIsInside ==
  ASSUME program \in Programs, ll \in Positions, NEW types, At(types)
  PROVE  ll \in 1..Len(Nodes) /\ Nodes[ll].type \in types
BY LengthType DEF At, Done, Positions, End, Node

\* The stack operations, on any sequence.
LEMMA StackOps ==
  ASSUME NEW S, NEW stack \in Seq(S), NEW e \in S
  PROVE  /\ Append(stack, e) \in Seq(S) /\ Len(Append(stack, e)) = Len(stack) + 1
         /\ stack # <<>> => /\ Top(stack) \in S
                            /\ Pop(stack) \in Seq(S)
                            /\ Len(Pop(stack)) = Len(stack) - 1
                            /\ SetTop(stack, e) \in Seq(S)
                            /\ Len(SetTop(stack, e)) = Len(stack)
<1>1. Append(stack, e) \in Seq(S) /\ Len(Append(stack, e)) = Len(stack) + 1
  OBVIOUS
<1>2. ASSUME stack # <<>>
      PROVE  /\ Top(stack) \in S
             /\ Pop(stack) \in Seq(S) /\ Len(Pop(stack)) = Len(stack) - 1
  <2>1. Len(stack) \in Nat \ {0}
    BY <1>2, EmptySeq
  <2>2. Top(stack) \in S
    BY <2>1, ElementOfSeq DEF Top
  <2> DEFINE n == Len(stack) - 1
  <2>3. 1 \in Int /\ n \in Int /\ \A i \in 1..n : stack[i] \in S
    BY <2>1, ElementOfSeq
  <2> HIDE DEF n
  <2>4. /\ SubSeq(stack, 1, n) \in Seq(S)
        /\ Len(SubSeq(stack, 1, n)) = IF 1 <= n THEN n - 1 + 1 ELSE 0
    BY <2>3, SubSeqProperties
  <2>5. Pop(stack) = SubSeq(stack, 1, n)
    BY DEF Pop, n
  <2>6. n \in Nat /\ n = Len(stack) - 1
    BY <2>1 DEF n
  <2> HIDE DEF Pop
  <2>7. Len(Pop(stack)) = n
    <3>1. Len(Pop(stack)) = IF 1 <= n THEN n - 1 + 1 ELSE 0
      BY <2>4, <2>5, Zenon
    <3> QED BY <3>1, <2>6
  <2>8. Pop(stack) \in Seq(S)
    BY <2>4, <2>5, Zenon
  <2> QED BY <2>2, <2>6, <2>7, <2>8, Zenon
<1>3. ASSUME stack # <<>>
      PROVE  SetTop(stack, e) \in Seq(S) /\ Len(SetTop(stack, e)) = Len(stack)
  BY <1>3 DEF SetTop
<1> QED BY <1>1, <1>2, <1>3

\* The first entries of a nonempty sequence.
LEMMA HeadOps ==
  ASSUME NEW S, NEW stack \in Seq(S), stack # <<>>
  PROVE  /\ 1 \in 1..Len(stack) /\ Head(stack) = stack[1] /\ Head(stack) \in S
         /\ Len(stack) # 1 => stack[2] \in S
         /\ Tail(stack) \in Seq(S)
<1>1. Len(stack) \in Nat \ {0}
  BY EmptySeq
<1>2. 1 \in 1..Len(stack) /\ stack[1] \in S
  BY <1>1, ElementOfSeq
<1>3. ASSUME Len(stack) # 1
      PROVE  stack[2] \in S
  <2>1. \A n \in Nat \ {0} : n # 1 => 2 \in 1..n
    OBVIOUS
  <2>2. 2 \in 1..Len(stack)
    BY <1>1, <1>3, <2>1, Zenon
  <2> QED BY <2>2, ElementOfSeq
<1>4. Head(stack) = stack[1]
  OBVIOUS
<1> QED BY <1>2, <1>3, <1>4, HeadTailProperties

-----------------------------------------------------------------------------
LEMMA InitInv == Init => IInv
<1> SUFFICES ASSUME Init
             PROVE  IInv
  OBVIOUS
<1>1. Len(Nodes) \in Nat /\ End \in Nat /\ End = Len(Nodes) + 1
  BY LengthType DEF Init, End
<1>2. /\ ll \in Positions /\ active \in BOOLEAN
      /\ Head_Loop_Stack = <<>> /\ for_stack = <<>> /\ switch_stack = <<>>
      /\ eval_first \in [1..Len(Nodes) -> BOOLEAN]
  BY <1>1 DEF Init, Positions, Nodes, create_loop_structure
<1>3. StacksFit
  BY <1>2, NestLimitAssumption DEF StacksFit
<1>4. /\ DOMAIN switch_struct = {j \in 1..Len(Nodes) : Nodes[j].type = "SWITCH"}
      /\ \A i \in DOMAIN switch_struct :
           /\ switch_struct[i].status_on_entry
           /\ DOMAIN switch_struct[i] = SwitchFields
  BY DEF Init, Nodes, SwitchFields, create_switch_structure
<1>5. TypeOK
  BY <1>2, <1>4 DEF TypeOK
<1> QED BY <1>3, <1>4, <1>5 DEF IInv, Init

\* Everything the invariant is about that a step which leaves the loops and
\* the switches alone can change.
LEMMA OtherStep ==
  ASSUME IInv, UNCHANGED <<program, loops, switches>>,
         ll' \in Positions, active' \in BOOLEAN,
         Head_Loop_Stack' \in Seq([region_active : BOOLEAN, active : BOOLEAN])
  PROVE  IInv'
BY DEF IInv, TypeOK, StacksFit, Positions, End, Nodes, loops, switches

Entries == {i \in 1..Len(Nodes) : Nodes[i].type \in Loops \cup LoopEnds}

\* The same for a step that works on for_stack only.
LEMMA LoopStep ==
  ASSUME IInv, UNCHANGED <<program, active, conditionals, switches>>,
         ll' \in Positions,
         for_stack' \in Seq(Entries), Len(for_stack') <= NestLimit,
         eval_first' \in [1..Len(Nodes) -> BOOLEAN]
  PROVE  IInv'
BY DEF IInv, TypeOK, StacksFit, Positions, End, Nodes, conditionals, switches,
       Entries

LEMMA ConditionalSteps ==
  ASSUME IInv, check_for_if \/ check_for_else \/ handle_endif
  PROVE  IInv'
<1> DEFINE Open == [region_active : BOOLEAN, active : BOOLEAN]
<1>1. ll' \in Positions
  BY NextType DEF IInv, TypeOK, check_for_if, check_for_else, handle_endif, Advance
<1>2. UNCHANGED <<program, loops, switches>>
  BY DEF check_for_if, check_for_else, handle_endif
<1>3. Head_Loop_Stack \in Seq(Open) /\ active \in BOOLEAN
  BY DEF IInv, TypeOK
<1>4. ASSUME check_for_if
      PROVE  Head_Loop_Stack' \in Seq(Open) /\ active' \in BOOLEAN
  <2> DEFINE region == IF Head_Loop_Stack = <<>> THEN active
                       ELSE Head(Head_Loop_Stack).active
             taken == Taken(region, Node)
  <2>1. region \in BOOLEAN
    <3>1. CASE Head_Loop_Stack = <<>>
      BY <1>3, <3>1
    <3>2. CASE Head_Loop_Stack # <<>>
      <4>1. Head(Head_Loop_Stack) \in Open
        BY <1>3, <3>2, HeadOps
      <4> QED BY <4>1, <3>2
    <3> QED BY <3>1, <3>2
  <2>2. taken \in BOOLEAN
    BY <1>4, <2>1 DEF Taken, Condition, check_for_if, At, Conditionals, Holds
  <2>3. [region_active |-> region, active |-> taken] \in Open
    BY <2>1, <2>2
  <2>4. /\ Head_Loop_Stack' = <<[region_active |-> region, active |-> taken]>>
                                \o Head_Loop_Stack
        /\ active' = taken
    BY <1>4 DEF check_for_if
  <2> QED BY <2>2, <2>3, <2>4, <1>3
<1>5. ASSUME check_for_else
      PROVE  Head_Loop_Stack' \in Seq(Open) /\ active' \in BOOLEAN
  <2>1. CASE Head_Loop_Stack = <<>>
    BY <1>3, <1>5, <2>1 DEF check_for_else
  <2>2. CASE Head_Loop_Stack # <<>>
    <3> DEFINE h == Head(Head_Loop_Stack)
    <3>1. h \in Open /\ h = Head_Loop_Stack[1] /\ 1 \in 1..Len(Head_Loop_Stack)
      BY <1>3, <2>2, HeadOps
    <3>2. Flipped(h) \in BOOLEAN
      BY <3>1 DEF Flipped
    <3>3. active' = Flipped(h)
      BY <1>5, <2>2 DEF check_for_else
    <3>4. Head_Loop_Stack' = IF h.region_active
                               THEN [Head_Loop_Stack EXCEPT ![1].active = Flipped(h)]
                               ELSE Head_Loop_Stack
      BY <1>5, <2>2 DEF check_for_else
    <3>5. [h EXCEPT !.active = Flipped(h)] \in Open
      BY <3>1, <3>2
    <3>6. [Head_Loop_Stack EXCEPT ![1].active = Flipped(h)] \in Seq(Open)
      BY <3>1, <3>5, <1>3
    <3> QED BY <3>2, <3>3, <3>4, <3>6, <1>3
  <2> QED BY <2>1, <2>2
<1>6. ASSUME handle_endif
      PROVE  Head_Loop_Stack' \in Seq(Open) /\ active' \in BOOLEAN
  <2>1. CASE Head_Loop_Stack = <<>>
    BY <1>3, <1>6, <2>1 DEF handle_endif
  <2>2. CASE Head_Loop_Stack # <<>>
    <3>1. Head_Loop_Stack' = Tail(Head_Loop_Stack)
      BY <1>6, <2>2 DEF handle_endif
    <3>2. active' = IF Len(Head_Loop_Stack) = 1
                      THEN Head(Head_Loop_Stack).region_active
                      ELSE Head_Loop_Stack[2].active
      BY <1>6, <2>2 DEF handle_endif
    <3>3. Head(Head_Loop_Stack) \in Open
      BY <1>3, <2>2, HeadOps
    <3>4. Len(Head_Loop_Stack) # 1 => Head_Loop_Stack[2] \in Open
      BY <1>3, <2>2, HeadOps
    <3>5. Tail(Head_Loop_Stack) \in Seq(Open)
      BY <1>3, <2>2, HeadOps
    <3> QED BY <3>1, <3>2, <3>3, <3>4, <3>5
  <2> QED BY <2>1, <2>2
<1> QED BY <1>1, <1>2, <1>4, <1>5, <1>6, OtherStep

LEMMA PlainSteps ==
  ASSUME IInv, print_out_code \/ let \/ Passed
  PROVE  IInv'
<1>1. ll' \in Positions
  BY NextType DEF IInv, TypeOK, print_out_code, let, Passed, Advance
<1>2. UNCHANGED <<program, active, conditionals, loops, switches>>
  BY DEF print_out_code, let, Passed
<1> QED BY <1>1, <1>2, OtherStep DEF IInv, TypeOK, conditionals

-----------------------------------------------------------------------------
LEMMA LoopSteps ==
  ASSUME IInv, LoopEntered \/ LoopedBack \/ LoopEnd
  PROVE  IInv'
<1>1. /\ program \in Programs /\ ll \in Positions
      /\ for_stack \in Seq(Entries) /\ Len(for_stack) <= NestLimit
      /\ eval_first \in [1..Len(Nodes) -> BOOLEAN]
  BY DEF IInv, TypeOK, StacksFit, Entries
<1>2. Len(Nodes) \in Nat /\ NestLimit \in Nat /\ Len(for_stack) \in Nat
  BY <1>1, LengthType, NestLimitAssumption, LenProperties
<1>3. Entries \subseteq Positions
  BY <1>2 DEF Entries, Positions, End
<1>4. ll \in Entries
  <2>1. At(Loops) \/ At(LoopEnds)
    BY DEF LoopEntered, LoopedBack, LoopEnd
  <2> QED BY <1>1, <2>1, AtIsInside DEF Entries
<1>5. ll \in 1..Len(Nodes)
  BY <1>4 DEF Entries
<1>6. NextOf(ll) \in Positions /\ NextOf(MatchingEnd(ll)) \in Positions
  BY <1>1, <1>5, NextType, SkipType
<1>7. CASE LoopEntered
  <2>1. UNCHANGED <<program, active, conditionals, switches>>
    BY <1>7 DEF LoopEntered
  <2> DEFINE enters == Full \/ Holds(Node.ep, Assigned(Node.init))
  <2>2. /\ eval_first' = [eval_first EXCEPT ![ll] = Rearmed(enters)]
        /\ for_stack' = IF enters /\ ~Full THEN Append(for_stack, ll) ELSE for_stack
        /\ ll' = IF enters THEN NextOf(ll) ELSE NextOf(MatchingEnd(ll))
    BY <1>7 DEF LoopEntered
  <2>3. ll' \in Positions
    BY <2>2, <1>6
  <2>4. eval_first' \in [1..Len(Nodes) -> BOOLEAN]
    <3>1. Rearmed(enters) \in BOOLEAN
      BY DEF Rearmed
    <3> QED BY <3>1, <2>2, <1>1
  <2>5. for_stack' \in Seq(Entries) /\ Len(for_stack') <= NestLimit
    <3>1. /\ Append(for_stack, ll) \in Seq(Entries)
          /\ Len(Append(for_stack, ll)) = Len(for_stack) + 1
      BY <1>1, <1>4, StackOps
    <3>2. CASE enters /\ ~Full
      BY <3>1, <3>2, <2>2, <1>1, <1>2 DEF Full
    <3>3. CASE ~(enters /\ ~Full)
      BY <3>3, <2>2, <1>1
    <3> QED BY <3>2, <3>3
  <2> QED BY <2>1, <2>3, <2>4, <2>5, LoopStep
<1>8. ASSUME for_stack # <<>>
      PROVE  /\ Top(for_stack) \in Positions /\ NextOf(Top(for_stack)) \in Positions
             /\ Swapped(ll) \in Seq(Entries) /\ Len(Swapped(ll)) <= NestLimit
             /\ Left \in Seq(Entries) /\ Len(Left) <= NestLimit
  <2>1. /\ Top(for_stack) \in Entries
        /\ Pop(for_stack) \in Seq(Entries)
        /\ Len(Pop(for_stack)) = Len(for_stack) - 1
        /\ SetTop(for_stack, ll) \in Seq(Entries)
        /\ Len(SetTop(for_stack, ll)) = Len(for_stack)
    BY <1>1, <1>4, <1>8, StackOps
  <2>2. Top(for_stack) \in Positions /\ NextOf(Top(for_stack)) \in Positions
    BY <2>1, <1>1, <1>3, NextType
  <2>3. Len(Pop(for_stack)) <= NestLimit
    BY <2>1, <1>1, <1>2
  <2>4. Left = Pop(for_stack) /\ Swapped(ll) = SetTop(for_stack, ll)
    BY DEF Left, Swapped
  <2> QED BY <2>1, <2>2, <2>3, <2>4, <1>1
<1>9. CASE LoopedBack
  <2>1. UNCHANGED <<program, active, conditionals, switches>> /\ for_stack # <<>>
    BY <1>9 DEF LoopedBack
  <2> DEFINE again == Holds(Node.ep, Assigned(Node.step))
  <2>2. /\ eval_first' = [eval_first EXCEPT ![ll] = Rearmed(again)]
        /\ for_stack' = IF again THEN Swapped(ll) ELSE Left
        /\ ll' = IF again THEN NextOf(ll) ELSE NextOf(Top(for_stack))
    BY <1>9 DEF LoopedBack
  <2>3. eval_first' \in [1..Len(Nodes) -> BOOLEAN]
    <3>1. Rearmed(again) \in BOOLEAN
      BY DEF Rearmed, Holds
    <3> QED BY <3>1, <2>2, <1>1
  <2>4. ll' \in Positions
    BY <2>1, <2>2, <1>6, <1>8
  <2>5. for_stack' \in Seq(Entries) /\ Len(for_stack') <= NestLimit
    BY <2>1, <2>2, <1>8
  <2> QED BY <2>1, <2>3, <2>4, <2>5, LoopStep
<1>10. CASE LoopEnd
  <2>1. /\ UNCHANGED <<program, active, conditionals, switches>>
        /\ eval_first' = eval_first
    BY <1>10 DEF LoopEnd
  <2>2. CASE for_stack # <<>>
    <3>1. ll' = Top(for_stack) /\ for_stack' = Swapped(ll)
      BY <1>10, <2>2 DEF LoopEnd
    <3> QED BY <3>1, <2>1, <2>2, <1>1, <1>8, LoopStep
  <2>3. CASE for_stack = <<>>
    <3>1. ll' = NextOf(ll) /\ for_stack' = for_stack
      BY <1>10, <2>3 DEF LoopEnd, Advance
    <3> QED BY <3>1, <2>1, <1>1, <1>6, LoopStep
  <2> QED BY <2>2, <2>3
<1> QED BY <1>7, <1>9, <1>10

-----------------------------------------------------------------------------
\* The same for a step that works on the switches only.
LEMMA SwitchOnlyStep ==
  ASSUME IInv, UNCHANGED <<program, conditionals, loops>>,
         ll' \in Positions, active' \in BOOLEAN,
         switch_stack' \in Seq(DOMAIN switch_struct), Len(switch_stack') <= NestLimit,
         DOMAIN switch_struct' = DOMAIN switch_struct,
         \A i \in DOMAIN switch_struct : /\ switch_struct'[i].status_on_entry
                                         /\ DOMAIN switch_struct'[i] = SwitchFields
  PROVE  IInv'
BY DEF IInv, TypeOK, StacksFit, Positions, End, Nodes, conditionals, loops

\* Writing a field other than status_on_entry of one switch keeps them typed.
LEMMA FieldWritten ==
  ASSUME IInv, NEW i \in DOMAIN switch_struct, NEW x
  PROVE  /\ LET s == [switch_struct EXCEPT ![i].done_a_case = x]
            IN /\ DOMAIN s = DOMAIN switch_struct
               /\ \A j \in DOMAIN switch_struct : /\ s[j].status_on_entry
                                                  /\ DOMAIN s[j] = SwitchFields
         /\ LET s == [switch_struct EXCEPT ![i].ignore_more_matches = x]
            IN /\ DOMAIN s = DOMAIN switch_struct
               /\ \A j \in DOMAIN switch_struct : /\ s[j].status_on_entry
                                                  /\ DOMAIN s[j] = SwitchFields
BY DEF IInv, TypeOK, SwitchFields

LEMMA SwitchSteps ==
  ASSUME IInv, switch \/ case \/ breaksw \/ default \/ endswitch
  PROVE  IInv'
<1>1. /\ program \in Programs /\ ll \in Positions /\ active \in BOOLEAN
      /\ switch_stack \in Seq(DOMAIN switch_struct)
      /\ Len(switch_stack) <= NestLimit
      /\ \A i \in DOMAIN switch_struct : /\ switch_struct[i].status_on_entry
                                         /\ DOMAIN switch_struct[i] = SwitchFields
  BY DEF IInv, TypeOK, StacksFit
<1>2. NestLimit \in Nat /\ Len(switch_stack) \in Nat
  BY <1>1, NestLimitAssumption, LenProperties
<1>3. ll' \in Positions
  BY <1>1, NextType DEF switch, case, breaksw, default, endswitch, SwitchStep, Advance
<1>4. UNCHANGED <<program, conditionals, loops>>
  BY DEF switch, case, breaksw, default, endswitch, SwitchStep
<1>5. ASSUME switch_stack # <<>>
      PROVE  /\ Top(switch_stack) \in DOMAIN switch_struct
             /\ Pop(switch_stack) \in Seq(DOMAIN switch_struct)
             /\ Len(Pop(switch_stack)) <= NestLimit
  <2>1. Len(switch_stack) # 0
    BY <1>1, <1>5, EmptySeq
  <2>2. Top(switch_stack) \in DOMAIN switch_struct
    BY <1>1, <1>2, <2>1, ElementOfSeq DEF Top
  <2>3. /\ Pop(switch_stack) \in Seq(DOMAIN switch_struct)
        /\ Len(Pop(switch_stack)) = Len(switch_stack) - 1
    BY <1>1, <1>5, <2>2, StackOps
  <2> QED BY <1>1, <1>2, <2>2, <2>3
<1>6. CASE switch
  <2>1. At({"SWITCH"}) /\ active
    BY <1>6 DEF switch
  <2>2. ll \in DOMAIN switch_struct
    <3>1. ll \in 1..Len(Nodes) /\ Nodes[ll].type = "SWITCH"
      BY <1>1, <2>1, AtIsInside
    <3> QED BY <3>1 DEF IInv
  <2> DEFINE entered == [done_a_case |-> FALSE, status_on_entry |-> active,
                         ignore_more_matches |-> FALSE,
                         value |-> evaluate_expression(Node.ep, values)]
  <2>3. switch_struct' = [switch_struct EXCEPT ![ll] = entered] /\ active' = FALSE
    BY <1>6 DEF switch
  <2>4. entered.status_on_entry /\ DOMAIN entered = SwitchFields
    BY <2>1 DEF SwitchFields
  <2> HIDE DEF entered
  <2>5. /\ DOMAIN switch_struct' = DOMAIN switch_struct
        /\ \A i \in DOMAIN switch_struct : /\ switch_struct'[i].status_on_entry
                                           /\ DOMAIN switch_struct'[i] = SwitchFields
    BY <1>1, <2>2, <2>3, <2>4
  <2>6. /\ switch_stack' \in Seq(DOMAIN switch_struct)
        /\ Len(switch_stack') <= NestLimit
    <3>1. /\ Append(switch_stack, ll) \in Seq(DOMAIN switch_struct)
          /\ Len(Append(switch_stack, ll)) = Len(switch_stack) + 1
      BY <1>1, <2>2, StackOps
    <3>2. CASE Len(switch_stack) = NestLimit
      <4>1. switch_stack' = switch_stack
        BY <1>6, <3>2 DEF switch
      <4> QED BY <4>1, <1>1
    <3>3. CASE Len(switch_stack) # NestLimit
      <4>1. switch_stack' = Append(switch_stack, ll)
        BY <1>6, <3>3 DEF switch
      <4>2. Len(switch_stack) + 1 <= NestLimit
        BY <1>1, <1>2, <3>3
      <4> QED BY <3>1, <4>1, <4>2
    <3> QED BY <3>2, <3>3
  <2> QED BY <1>3, <1>4, <2>3, <2>5, <2>6, SwitchOnlyStep
<1>7. CASE case
  <2>1. switch_stack' = switch_stack
    BY <1>7 DEF case
  <2>2. CASE InSwitch /\ ~switchp.done_a_case /\ ~switchp.ignore_more_matches
    <3> DEFINE matches == evaluate_expression(Node.ep, values) = switchp.value
    <3>1. /\ active' = matches
          /\ switch_struct' =
               [switch_struct EXCEPT ![Top(switch_stack)].done_a_case = matches]
      BY <1>7, <2>2 DEF case
    <3>2. Top(switch_stack) \in DOMAIN switch_struct
      BY <2>2, <1>5 DEF InSwitch
    <3>3. matches \in BOOLEAN
      OBVIOUS
    <3> HIDE DEF matches
    <3>4. /\ DOMAIN switch_struct' = DOMAIN switch_struct
          /\ \A i \in DOMAIN switch_struct : /\ switch_struct'[i].status_on_entry
                                             /\ DOMAIN switch_struct'[i] = SwitchFields
      BY <3>1, <3>2, FieldWritten
    <3> QED BY <1>1, <1>3, <1>4, <2>1, <3>1, <3>3, <3>4, SwitchOnlyStep
  <2>3. CASE ~(InSwitch /\ ~switchp.done_a_case /\ ~switchp.ignore_more_matches)
    <3>1. active' = active /\ switch_struct' = switch_struct
      BY <1>7, <2>3 DEF case
    <3> QED BY <1>1, <1>3, <1>4, <2>1, <3>1, SwitchOnlyStep
  <2> QED BY <2>2, <2>3
<1>8. CASE breaksw
  <2>1. switch_stack' = switch_stack
    BY <1>8 DEF breaksw
  <2>2. CASE InSwitch /\ active
    <3>1. /\ active' = FALSE
          /\ switch_struct' =
               [switch_struct EXCEPT ![Top(switch_stack)].ignore_more_matches = TRUE]
      BY <1>8, <2>2 DEF breaksw
    <3>2. Top(switch_stack) \in DOMAIN switch_struct
      BY <2>2, <1>5 DEF InSwitch
    <3>3. /\ DOMAIN switch_struct' = DOMAIN switch_struct
          /\ \A i \in DOMAIN switch_struct : /\ switch_struct'[i].status_on_entry
                                             /\ DOMAIN switch_struct'[i] = SwitchFields
      BY <3>1, <3>2, FieldWritten
    <3> QED BY <1>1, <1>3, <1>4, <2>1, <3>1, <3>3, SwitchOnlyStep
  <2>3. CASE ~(InSwitch /\ active)
    <3>1. active' = active /\ switch_struct' = switch_struct
      BY <1>8, <2>3 DEF breaksw
    <3> QED BY <1>1, <1>3, <1>4, <2>1, <3>1, SwitchOnlyStep
  <2> QED BY <2>2, <2>3
<1>9. CASE default
  <2>1. /\ switch_stack' = switch_stack /\ switch_struct' = switch_struct
        /\ active' = IF InSwitch THEN ~switchp.done_a_case ELSE active
    BY <1>9 DEF default, switches
  <2>2. active' \in BOOLEAN
    BY <1>1, <2>1
  <2> QED BY <1>1, <1>3, <1>4, <2>1, <2>2, SwitchOnlyStep
<1>10. CASE endswitch
  <2>1. switch_struct' = switch_struct
    BY <1>10 DEF endswitch
  <2>2. CASE switch_stack # <<>>
    <3>1. /\ active' = switchp.status_on_entry
          /\ switch_stack' = Pop(switch_stack)
      BY <1>10, <2>2 DEF endswitch, Closed
    <3>2. switchp.status_on_entry
      BY <1>1, <1>5, <2>2 DEF switchp
    <3> QED BY <1>1, <1>3, <1>4, <1>5, <2>1, <2>2, <3>1, <3>2, SwitchOnlyStep
  <2>3. CASE switch_stack = <<>>
    <3>1. active' = active /\ switch_stack' = switch_stack
      BY <1>10, <2>3 DEF endswitch
    <3> QED BY <1>1, <1>3, <1>4, <2>1, <3>1, SwitchOnlyStep
  <2> QED BY <2>2, <2>3
<1> QED BY <1>6, <1>7, <1>8, <1>9, <1>10

LEMMA StutterStep == IInv /\ UNCHANGED vars => IInv'
BY DEF IInv, TypeOK, StacksFit, Positions, End, Nodes, vars

LEMMA InductiveStep == IInv /\ [Next]_vars => IInv'
<1> SUFFICES ASSUME IInv, [Next]_vars
             PROVE  IInv'
  OBVIOUS
<1>1. CASE check_for_if \/ check_for_else \/ handle_endif
  BY <1>1, ConditionalSteps
<1>2. CASE print_out_code \/ let \/ Passed
  BY <1>2, PlainSteps
<1>3. CASE LoopEntered \/ LoopedBack \/ LoopEnd
  BY <1>3, LoopSteps
<1>4. CASE switch \/ case \/ breaksw \/ default \/ endswitch
  BY <1>4, SwitchSteps
<1>5. CASE Returned \/ UNCHANGED vars
  BY <1>5, StutterStep DEF Returned
<1> QED BY <1>1, <1>2, <1>3, <1>4, <1>5 DEF Next

LEMMA InvariantHolds == Spec => []IInv
<1> QED BY InitInv, InductiveStep, PTL DEF Spec

-----------------------------------------------------------------------------
\* Whatever region the grammar lets through, the walk stays on its nodes, the
\* stacks hold loops and switches of the region, and a switch on the stack was
\* active when it was entered (eval_stack).
THEOREM InterpreterTypeCorrect == Spec => []TypeOK
<1>1. IInv => TypeOK
  BY DEF IInv
<1> QED BY <1>1, InvariantHolds, PTL

\* for_stack[20] and switch_stack[20] are never written beyond their end: every
\* push is behind its own test of the limit (eval_stack).
THEOREM StacksStayInside == Spec => []StacksFit
<1>1. IInv => StacksFit
  BY DEF IInv
<1> QED BY <1>1, InvariantHolds, PTL
=============================================================================
