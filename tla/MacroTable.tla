----------------------------- MODULE MacroTable -----------------------------
(***************************************************************************)
(* Defines_Table of the preprocessor (pml/vpp.l): macros in chains, one    *)
(* chain per hash value.  A chain is the sequence of the entries that its  *)
(* next pointers link.                                                     *)
(***************************************************************************)
EXTENDS Integers, Sequences

CONSTANTS
  Names,      \* macro names
  Texts,      \* macro texts, parameters included
  Undefined,  \* what a lookup that fails returns
  BASE,       \* number of chains
  hash        \* the sum of the characters of a name, modulo BASE

ASSUME HashAssumption ==
  /\ BASE \in Nat \ {0}
  /\ hash \in [Names -> 0..(BASE - 1)]
  /\ Undefined \notin Texts

VARIABLE Defines_Table

Entry(n, t) == [macro_name |-> n, macro |-> t]
EntrySet    == [macro_name : Names, macro : Texts]
EmptyTable  == [h \in 0..(BASE - 1) |-> <<>>]

\* The positions in a chain at which a name stands, and the first one, at
\* which lookup_define and delete_entry stop.
Matches(chain, n) == {k \in 1..Len(chain) : chain[k].macro_name = n}
First(chain, n) ==
  CHOOSE k \in Matches(chain, n) : \A j \in Matches(chain, n) : k <= j

lookup_define(table, n) ==
  IF Matches(table[hash[n]], n) = {} THEN Undefined
  ELSE table[hash[n]][First(table[hash[n]], n)].macro

\* delete_entry links the predecessor, or the head of the chain, to the next
\* entry.  The mutant is the line that the code keeps as a comment, which
\* compared the predecessor with the head.
UnlinkSecondAsHead(chain, k) ==
  IF k <= 2 THEN SubSeq(chain, k + 1, Len(chain))
  ELSE [i \in 1..(Len(chain) - 1) |-> IF i < k THEN chain[i] ELSE chain[i + 1]]
Unlink(chain, k) ==
  [i \in 1..(Len(chain) - 1) |-> IF i < k THEN chain[i] ELSE chain[i + 1]]

delete_entry(table, n) ==
  IF Matches(table[hash[n]], n) = {} THEN table
  ELSE [table EXCEPT ![hash[n]] = Unlink(@, First(@, n))]

add_macro(table, n, t) ==
  [table EXCEPT ![hash[n]] = Append(@, Entry(n, t))]

DefinedTwice(table, n, t) == add_macro(table, n, t)
Defined(table, n, t)      == add_macro(delete_entry(table, n), n, t)

store_define(n, t) == Defines_Table' = Defined(Defines_Table, n, t)
undef_macro(n)     == Defines_Table' = delete_entry(Defines_Table, n)

Init == Defines_Table = EmptyTable
Next == \E n \in Names : undef_macro(n) \/ \E t \in Texts : store_define(n, t)
Spec == Init /\ [][Next]_Defines_Table

-----------------------------------------------------------------------------
Chains == 0..(BASE - 1)

\* Every entry stands in the chain of its hash value.
TypeOK ==
  /\ Defines_Table \in [Chains -> Seq(EntrySet)]
  /\ \A h \in Chains : \A k \in 1..Len(Defines_Table[h]) :
       hash[Defines_Table[h][k].macro_name] = h

\* A name has at most one entry: deleting it leaves no older text behind that
\* a later lookup would find.
UniqueNames ==
  \A h \in Chains : \A j, k \in 1..Len(Defines_Table[h]) :
    Defines_Table[h][j].macro_name = Defines_Table[h][k].macro_name => j = k

\* The table is the dictionary: every definition and removal changes the text
\* of the name it is about and of no other name of its chain.
Dictionary == INSTANCE MacroDictionary
                WITH defs <- [n \in Names |-> lookup_define(Defines_Table, n)]
ImplementsDictionary == Dictionary!DictSpec
=============================================================================
