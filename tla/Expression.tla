------------------------------ MODULE Expression ------------------------------
(***************************************************************************)
(* Constant expressions of a module as pml/Expression.hh folds them: their *)
(* width, their value in unsigned words, and the copy (ValueExp) that an   *)
(* instantiation takes of them while its parameter values are in force.    *)
(*                                                                         *)
(* An expression is a record: op names the class, args are its operands.   *)
(* A word has Word bits, a plain number is Number bits wide (64 and 32 in  *)
(* the code).  What the code leaves undefined (a division by zero, a shift *)
(* by a word or more) is kept out by Defined.                              *)
(***************************************************************************)
EXTENDS Integers, Sequences, FiniteSetsExt, Bitwise

CONSTANTS
  Word,    \* bits of a word, more than none
  Number,  \* bits of a plain number, at most Word
  None

\* Constructors: numbers, parameters, declared constants, nets, operators.
Num(v, w) == [op |-> "num", value |-> v, width |-> w, args |-> <<>>]
Plain(v) == Num(v, Number)
Param(p) == [op |-> "param", name |-> p, args |-> <<>>]
Const(e, m) == [op |-> "const", msb |-> m, args |-> <<e>>]
Net(m) == [op |-> "net", msb |-> m, args |-> <<>>]
Op(o, a) == [op |-> o, args |-> a]

Arithmetic == {"&", "|", "^", "+", "-", "*", "/", "%", "<<", ">>"}
Conditions == {"&&", "||", ">", "<", ">=", "<=", "!=", "=="}
Reductions == {"!", "&1", "|1", "^1"}

AtMost(a, b) == IF a < b THEN a ELSE b
AtLeast(a, b) == IF a < b THEN b ELSE a
Truth(b) == IF b THEN 1 ELSE 0
Wrap(v) == v % 2^Word

\* ItoS with a width drops or adds leading digits.
ItoS(v, w) == v % 2^AtMost(w, Word)

\* StoI reads with strtoll: what a signed word cannot hold is its maximum.
StoI(v) == AtMost(v, 2^(Word - 1) - 1)

\* Mutant: results keep their carries.
Unmasked(v, w) == v

\* CalcMsk shifts ones into a word.
Masked(v, w) == v % 2^AtMost(w, Word)

\* CBasedNum refuses a literal that needs more digits than its width.
BasedNumFits(v, w) == v = 0 \/ v < 2^AtMost(w, Word)

Ones(v, w) == Cardinality({i \in 0..(w - 1) : (v \div 2^i) % 2 = 1})

\* A parameter has the value of its override while there is one.
Current(ps, p) ==
  IF ps[p].override # None THEN ps[p].override ELSE ps[p].value

TrinaryValue(c, t, f) == IF c # 0 THEN t ELSE f

\* CConcatenation: digits of the parts, one after the other.
ConcatValue(vs, ws) ==
  LET Joined[i \in 0..Len(vs)] ==
        IF i = 0 THEN 0 ELSE Joined[i - 1] * 2^ws[i] + ItoS(vs[i], ws[i])
  IN StoI(Joined[Len(vs)])

\* CDupConcat doubles the digits once for each further time.
DupValue(n, v, w) ==
  LET Doubled[i \in 1..AtLeast(n, 1)] ==
        IF i = 1 THEN ItoS(v, w)
        ELSE Doubled[i - 1] * 2^(w * 2^(i - 2)) + Doubled[i - 1]
  IN StoI(Doubled[AtLeast(n, 1)])

\* CUnaryExp and its classes, on the digits of the operand.
UnaryValue(o, v, w) ==
  CASE o = "!" -> Truth(v = 0)
    [] o = "~" -> StoI(2^w - 1 - ItoS(v, w))
    [] o = "&1" -> Truth(Ones(v, w) = w)
    [] o = "|1" -> Truth(Ones(v, w) > 0)
    [] o = "^1" -> Ones(v, w) % 2

\* CBinExp: sum, difference and product are masked, the others are not.
BinaryValue(o, a, b, w) ==
  CASE o = "&" -> a & b
    [] o = "|" -> a | b
    [] o = "^" -> a ^^ b
    [] o = "+" -> Masked(Wrap(a + b), w)
    [] o = "-" -> Masked(Wrap(a - b), w)
    [] o = "*" -> Masked(Wrap(a * b), w)
    [] o = "/" -> a \div b
    [] o = "%" -> a % b
    [] o = "<<" -> Wrap(a * 2^b)
    [] o = ">>" -> a \div 2^b

\* CBinaryCondExp.
ConditionValue(o, a, b) ==
  CASE o = "&&" -> Truth(a # 0 /\ b # 0)
    [] o = "||" -> Truth(a # 0 \/ b # 0)
    [] o = ">" -> Truth(a > b)
    [] o = "<" -> Truth(a < b)
    [] o = ">=" -> Truth(a >= b)
    [] o = "<=" -> Truth(a <= b)
    [] o = "!=" -> Truth(a # b)
    [] o = "==" -> Truth(a = b)

RECURSIVE IsConst(_), HasParam(_), Width(_, _), Value(_, _), ValueExp(_, _),
          Defined(_, _)

IsConst(e) == e.op # "net" /\ \A i \in DOMAIN e.args : IsConst(e.args[i])

\* A declared constant does not tell the parameters of its value.
HasParam(e) ==
  \/ e.op = "param"
  \/ e.op # "const" /\ \E i \in DOMAIN e.args : HasParam(e.args[i])

Width(ps, e) ==
  LET w == [i \in DOMAIN e.args |-> Width(ps, e.args[i])]
  IN CASE e.op = "num" -> e.width
       [] e.op = "param" -> Width(ps, Current(ps, e.name))
       [] e.op \in {"const", "net"} -> e.msb + 1
       [] e.op \in Conditions \cup Reductions -> 1
       [] e.op \in {"()", "~"} -> w[1]
       [] e.op = "?:" -> AtLeast(w[2], w[3])
       [] e.op = "{}" -> SumFunction(w)
       [] e.op = "{{}}" -> w[2] * Value(ps, e.args[1])
       [] e.op = "*" -> w[1] + w[2]
       [] e.op \in Arithmetic \ {"*"} -> AtLeast(w[1], w[2])

Value(ps, e) ==
  LET v == [i \in DOMAIN e.args |-> Value(ps, e.args[i])]
      w == [i \in DOMAIN e.args |-> Width(ps, e.args[i])]
  IN CASE e.op = "num" -> e.value
       [] e.op = "param" -> Value(ps, Current(ps, e.name))
       [] e.op \in {"const", "()"} -> v[1]
       [] e.op = "?:" -> TrinaryValue(v[1], v[2], v[3])
       [] e.op = "{}" -> ConcatValue(v, w)
       [] e.op = "{{}}" -> DupValue(v[1], v[2], w[2])
       [] e.op \in Reductions \cup {"~"} -> UnaryValue(e.op, v[1], w[1])
       [] e.op \in Conditions -> ConditionValue(e.op, v[1], v[2])
       [] e.op \in Arithmetic ->
            BinaryValue(e.op, v[1], v[2], Width(ps, e))

\* Mutant: the copy names the parameter.
ParameterByName(ps, p) == Param(p)

\* CParameter::ValueExp gives an override away as it is.
ParameterCopy(ps, p) ==
  IF ps[p].override # None THEN ps[p].override ELSE ValueExp(ps, ps[p].value)

ValueExp(ps, e) ==
  CASE e.op = "param" -> ParameterCopy(ps, e.name)
    [] e.op = "const" -> ValueExp(ps, e.args[1])
    [] OTHER -> [e EXCEPT !.args =
                   [i \in DOMAIN e.args |-> ValueExp(ps, e.args[i])]]

\* Nothing below e divides by zero or shifts by a word.
Defined(ps, e) ==
  /\ \A i \in DOMAIN e.args : Defined(ps, e.args[i])
  /\ e.op = "param" => Defined(ps, Current(ps, e.name))
  /\ e.op \in {"/", "%"} => Value(ps, e.args[2]) # 0
  /\ e.op \in {"<<", ">>"} => Value(ps, e.args[2]) < Word

\* CParamTab::Reset takes every override away.
Reset(ps) == [p \in DOMAIN ps |-> [ps[p] EXCEPT !.override = None]]

RECURSIVE Uses(_, _)
Uses(e, ops) == e.op \in ops \/ \E i \in DOMAIN e.args : Uses(e.args[i], ops)

(***************************************************************************)
(* Properties.                                                             *)
(***************************************************************************)

\* The copy that an instantiation takes of a port's bound names no parameter
\* any more, and keeps the value and the width the expression has under the
\* overrides of this instance, after they were reset for the next one.
FrozenAt(ps, e) ==
  IsConst(e) /\ Defined(ps, e) =>
    LET copy == ValueExp(ps, e)
    IN /\ ~HasParam(copy)
       /\ Value(Reset(ps), copy) = Value(ps, e)
       /\ Width(Reset(ps), copy) = Width(ps, e)

\* A folded value fits the width that the code computes for it, so a part of
\* a concatenation loses no digit.  Left shifts and repetitions are known
\* not to.
FitsAt(ps, e) ==
  IsConst(e) /\ Defined(ps, e) /\ ~Uses(e, {"<<", "{{}}"}) =>
    Value(ps, e) < 2^AtMost(Width(ps, e), Word)
=============================================================================
