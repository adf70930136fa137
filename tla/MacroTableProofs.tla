-------------------------- MODULE MacroTableProofs --------------------------
(***************************************************************************)
(* For every set of names and texts and every hash function: the chains    *)
(* are the dictionary of macros.                                           *)
(***************************************************************************)
EXTENDS MacroTable, TLAPS

Unique(chain) ==
  \A j, k \in 1..Len(chain) : chain[j].macro_name = chain[k].macro_name => j = k

\* The inductive invariant, for a table T.
Good(T) ==
  /\ T \in [Chains -> Seq(EntrySet)]
  /\ \A h \in Chains : \A k \in 1..Len(T[h]) : hash[T[h][k].macro_name] = h
  /\ \A h \in Chains : Unique(T[h])

\* In a chain without duplicates the first match is the match.
LEMMA FirstIsMatch ==
  ASSUME NEW chain \in Seq(EntrySet), Unique(chain), NEW n,
         NEW k \in Matches(chain, n)
  PROVE  First(chain, n) = k
<1>1. \A j \in Matches(chain, n) : j = k
  BY DEF Matches, Unique
<1>2. k \in Nat
  BY DEF Matches
<1> DEFINE P(i) == i \in Matches(chain, n) /\ \A j \in Matches(chain, n) : i <= j
<1>3. P(k)
  BY <1>1, <1>2
<1>4. P(CHOOSE i : P(i))
  BY <1>3
<1>5. First(chain, n) = CHOOSE i : P(i)
  BY DEF First
<1> QED BY <1>1, <1>4, <1>5

\* Unlinking takes one entry out of a chain and keeps the others in order.
LEMMA UnlinkIsRemoval ==
  ASSUME NEW chain \in Seq(EntrySet), NEW k \in 1..Len(chain)
  PROVE  /\ Unlink(chain, k) \in Seq(EntrySet)
         /\ Len(Unlink(chain, k)) = Len(chain) - 1
         /\ \A i \in 1..(Len(chain) - 1) :
              Unlink(chain, k)[i] = IF i < k THEN chain[i] ELSE chain[i + 1]
<1>1. Len(chain) - 1 \in Nat
  OBVIOUS
<1>2. \A i \in 1..(Len(chain) - 1) :
        (IF i < k THEN chain[i] ELSE chain[i + 1]) \in EntrySet
  <2> TAKE i \in 1..(Len(chain) - 1)
  <2>1. chain[i] \in EntrySet /\ chain[i + 1] \in EntrySet
    OBVIOUS
  <2> QED BY <2>1
<1>3. Unlink(chain, k) \in [1..(Len(chain) - 1) -> EntrySet]
  BY <1>2 DEF Unlink
<1>4. Unlink(chain, k) \in Seq(EntrySet)
  BY <1>1, <1>3
<1>5. Len(Unlink(chain, k)) = Len(chain) - 1
  BY <1>1, <1>3, <1>4
<1> QED BY <1>4, <1>5 DEF Unlink

\* A lookup returns the text of the entry of the name, wherever it stands.
LEMMA LookupIsMatch ==
  ASSUME NEW T, Good(T), NEW n \in Names, NEW k \in Matches(T[hash[n]], n)
  PROVE  lookup_define(T, n) = T[hash[n]][k].macro
<1>1. hash[n] \in Chains
  BY HashAssumption DEF Chains
<1>2. T[hash[n]] \in Seq(EntrySet) /\ Unique(T[hash[n]])
  BY <1>1 DEF Good
<1>3. First(T[hash[n]], n) = k
  BY <1>2, FirstIsMatch
<1> QED BY <1>3 DEF lookup_define

\* Deleting a name makes it undefined and leaves every other name as it was.
LEMMA DeleteEntry ==
  ASSUME NEW T, Good(T), NEW n \in Names
  PROVE  /\ Good(delete_entry(T, n))
         /\ Matches(delete_entry(T, n)[hash[n]], n) = {}
         /\ \A m \in Names \ {n} :
              lookup_define(delete_entry(T, n), m) = lookup_define(T, m)
<1> DEFINE c == T[hash[n]]
           D == delete_entry(T, n)
<1>1. hash[n] \in Chains
  BY HashAssumption DEF Chains
<1>2. c \in Seq(EntrySet) /\ Unique(c)
  BY <1>1 DEF Good
<1>3. CASE Matches(c, n) = {}
  BY <1>3 DEF delete_entry
<1>4. CASE Matches(c, n) # {}
  <2>1. PICK k \in Matches(c, n) : TRUE
    BY <1>4
  <2>2. First(c, n) = k
    BY <1>2, FirstIsMatch
  <2>3. k \in 1..Len(c) /\ c[k].macro_name = n
    BY DEF Matches
  <2> DEFINE u == Unlink(c, k)
  <2>4. D = [T EXCEPT ![hash[n]] = u]
    BY <1>4, <2>2 DEF delete_entry
  <2>5. /\ u \in Seq(EntrySet)
        /\ Len(u) = Len(c) - 1
        /\ \A i \in 1..(Len(c) - 1) : u[i] = IF i < k THEN c[i] ELSE c[i + 1]
    BY <1>2, <2>3, UnlinkIsRemoval
  <2> DEFINE old(i) == IF i < k THEN i ELSE i + 1
  <2>6. \A i \in 1..Len(u) : old(i) \in 1..Len(c) /\ old(i) # k /\ u[i] = c[old(i)]
    BY <1>2, <2>3, <2>5
  <2>7. \A i, j \in 1..Len(u) : old(i) = old(j) => i = j
    BY <2>3, <2>5, <1>2
  <2> HIDE DEF u, c, D, old
  <2>8. Unique(u)
    <3> SUFFICES ASSUME NEW i \in 1..Len(u), NEW j \in 1..Len(u),
                        u[i].macro_name = u[j].macro_name
                 PROVE  i = j
      BY DEF Unique
    <3>1. c[old(i)].macro_name = c[old(j)].macro_name
      BY <2>6
    <3> QED BY <3>1, <2>6, <2>7, <1>2 DEF Unique
  <2>9. Matches(u, n) = {}
    <3>1. \A i \in 1..Len(u) : u[i].macro_name # n
      BY <2>3, <2>6, <1>2 DEF Unique
    <3> QED BY <3>1 DEF Matches
  <2>10. D[hash[n]] = u /\ \A h \in Chains \ {hash[n]} : D[h] = T[h]
    BY <2>4, <1>1 DEF Good
  <2>11. D \in [Chains -> Seq(EntrySet)]
    BY <2>4, <2>5 DEF Good
  <2>12. \A i \in 1..Len(u) : hash[u[i].macro_name] = hash[n]
    BY <2>6, <1>1 DEF Good, c
  <2>13. Good(D)
    BY <2>8, <2>10, <2>11, <2>12, <1>1 DEF Good
  <2>14. ASSUME NEW m \in Names, m # n
         PROVE  lookup_define(D, m) = lookup_define(T, m)
    <3>1. hash[m] \in Chains
      BY HashAssumption DEF Chains
    <3>2. CASE hash[m] # hash[n]
      BY <3>1, <3>2, <2>10 DEF lookup_define
    <3>3. CASE hash[m] = hash[n]
      <4>1. CASE \E i \in 1..Len(u) : u[i].macro_name = m
        <5>1. PICK i \in 1..Len(u) : u[i].macro_name = m
          BY <4>1
        <5>2. i \in Matches(D[hash[m]], m)
          BY <5>1, <3>3, <2>10 DEF Matches
        <5>3. old(i) \in Matches(T[hash[m]], m)
          BY <5>1, <3>3, <2>6 DEF Matches, c
        <5>4. lookup_define(D, m) = u[i].macro
          BY <5>2, <2>13, LookupIsMatch, <3>3, <2>10
        <5>5. lookup_define(T, m) = c[old(i)].macro
          BY <5>3, LookupIsMatch, <3>3 DEF c
        <5> QED BY <5>4, <5>5, <2>6
      <4>2. CASE \A i \in 1..Len(u) : u[i].macro_name # m
        <5>1. Matches(D[hash[m]], m) = {}
          BY <4>2, <3>3, <2>10 DEF Matches
        <5>2. \A j \in 1..Len(c) : c[j].macro_name # m
          <6> SUFFICES ASSUME NEW j \in 1..Len(c), c[j].macro_name = m
                       PROVE  FALSE
            OBVIOUS
          <6>1. j # k
            BY <2>3, <2>14
          <6> DEFINE i == IF j < k THEN j ELSE j - 1
          <6>2. i \in 1..Len(u) /\ old(i) = j
            BY <6>1, <2>3, <2>5, <1>2 DEF old
          <6>3. u[i].macro_name = m
            BY <6>2, <2>6
          <6> QED BY <6>2, <6>3, <4>2
        <5>3. Matches(T[hash[m]], m) = {}
          BY <5>2, <3>3 DEF Matches, c
        <5> QED BY <5>1, <5>3 DEF lookup_define
      <4> QED BY <4>1, <4>2
    <3> QED BY <3>2, <3>3
  <2> QED BY <2>9, <2>10, <2>13, <2>14 DEF D
<1> QED BY <1>3, <1>4

\* Adding a name that has no entry defines it and leaves every other name as
\* it was.
LEMMA AddMacro ==
  ASSUME NEW T, Good(T), NEW n \in Names, NEW t \in Texts,
         Matches(T[hash[n]], n) = {}
  PROVE  /\ Good(add_macro(T, n, t))
         /\ lookup_define(add_macro(T, n, t), n) = t
         /\ \A m \in Names \ {n} :
              lookup_define(add_macro(T, n, t), m) = lookup_define(T, m)
<1> DEFINE c == T[hash[n]]
           a == Append(c, Entry(n, t))
           A == add_macro(T, n, t)
<1>1. hash[n] \in Chains
  BY HashAssumption DEF Chains
<1>2. c \in Seq(EntrySet) /\ Unique(c)
  BY <1>1 DEF Good
<1>3. Entry(n, t) \in EntrySet /\ Entry(n, t).macro_name = n /\ Entry(n, t).macro = t
  BY DEF Entry, EntrySet
<1>4. /\ a \in Seq(EntrySet) /\ Len(a) = Len(c) + 1
      /\ a[Len(a)] = Entry(n, t)
      /\ \A i \in 1..Len(c) : a[i] = c[i]
  BY <1>2, <1>3
<1>5. \A i \in 1..Len(c) : c[i].macro_name # n
  BY DEF Matches
<1>6. A = [T EXCEPT ![hash[n]] = a]
  BY DEF add_macro
<1>7. A[hash[n]] = a /\ \A h \in Chains \ {hash[n]} : A[h] = T[h]
  BY <1>6, <1>1 DEF Good
<1>8. A \in [Chains -> Seq(EntrySet)]
  BY <1>6, <1>4 DEF Good
<1>9. \A i \in 1..Len(c) : hash[c[i].macro_name] = hash[n]
  BY <1>1 DEF Good
<1> HIDE DEF a, A, c
<1>10. \A i \in 1..Len(a) : i = Len(a) \/ i \in 1..Len(c)
  BY <1>2, <1>4
<1>11. Unique(a)
  BY <1>2, <1>3, <1>4, <1>5, <1>10 DEF Unique
<1>12. \A i \in 1..Len(a) : hash[a[i].macro_name] = hash[n]
  BY <1>3, <1>4, <1>9, <1>10
<1>13. Good(A)
  BY <1>1, <1>7, <1>8, <1>11, <1>12 DEF Good
<1>14. lookup_define(A, n) = t
  <2>1. Len(a) \in Matches(A[hash[n]], n)
    BY <1>2, <1>3, <1>4, <1>7 DEF Matches
  <2> QED BY <2>1, <1>13, LookupIsMatch, <1>3, <1>4, <1>7
<1>15. ASSUME NEW m \in Names, m # n
       PROVE  lookup_define(A, m) = lookup_define(T, m)
  <2>1. hash[m] \in Chains
    BY HashAssumption DEF Chains
  <2>2. CASE hash[m] # hash[n]
    BY <2>1, <2>2, <1>7 DEF lookup_define
  <2>3. CASE hash[m] = hash[n]
    <3>1. Matches(a, m) = Matches(c, m)
      BY <1>2, <1>3, <1>4, <1>10, <1>15 DEF Matches
    <3>2. CASE Matches(c, m) = {}
      BY <3>1, <3>2, <2>3, <1>7 DEF lookup_define, c
    <3>3. CASE Matches(c, m) # {}
      <4>1. PICK k \in Matches(c, m) : TRUE
        BY <3>3
      <4>2. k \in 1..Len(c)
        BY DEF Matches
      <4>3. lookup_define(A, m) = a[k].macro
        BY <3>1, <2>3, <1>7, <1>13, LookupIsMatch
      <4>4. lookup_define(T, m) = c[k].macro
        BY <2>3, LookupIsMatch DEF c
      <4> QED BY <4>2, <4>3, <4>4, <1>4
    <3> QED BY <3>2, <3>3
  <2> QED BY <2>2, <2>3
<1> QED BY <1>13, <1>14, <1>15 DEF A

\* One `define or `undef, seen through lookups.
LEMMA StepIsDictionaryStep ==
  ASSUME NEW n \in Names, Good(Defines_Table)
  PROVE  /\ undef_macro(n) => Good(Defines_Table)' /\ Dictionary!Undef(n)
         /\ \A t \in Texts : store_define(n, t)
                               => Good(Defines_Table)' /\ Dictionary!Define(n, t)
<1> DEFINE D == delete_entry(Defines_Table, n)
<1>1. /\ Good(D) /\ Matches(D[hash[n]], n) = {}
      /\ \A m \in Names \ {n} :
           lookup_define(D, m) = lookup_define(Defines_Table, m)
  BY DeleteEntry
<1>2. lookup_define(D, n) = Undefined
  BY <1>1 DEF lookup_define
<1>3. ASSUME undef_macro(n)
      PROVE  Good(Defines_Table)' /\ Dictionary!Undef(n)
  <2>1. Defines_Table' = D
    BY <1>3 DEF undef_macro
  <2> HIDE DEF D
  <2>2. \A m \in Names : lookup_define(Defines_Table', m)
                            = IF m = n THEN Undefined
                              ELSE lookup_define(Defines_Table, m)
    BY <2>1, <1>1, <1>2
  <2>3. Dictionary!Undef(n)
    BY <2>2 DEF Dictionary!Undef
  <2>4. Good(Defines_Table')
    BY <2>1, <1>1
  <2> QED BY <2>3, <2>4 DEF Good, Unique, Chains, EntrySet
<1>4. ASSUME NEW t \in Texts, store_define(n, t)
      PROVE  Good(Defines_Table)' /\ Dictionary!Define(n, t)
  <2> DEFINE A == add_macro(D, n, t)
  <2>1. Defines_Table' = A
    BY <1>4 DEF store_define, Defined
  <2> HIDE DEF D
  <2>2. /\ Good(A) /\ lookup_define(A, n) = t
        /\ \A m \in Names \ {n} : lookup_define(A, m) = lookup_define(D, m)
    BY <1>1, AddMacro
  <2> HIDE DEF A
  <2>3. \A m \in Names : lookup_define(Defines_Table', m)
                            = IF m = n THEN t ELSE lookup_define(Defines_Table, m)
    BY <2>1, <2>2, <1>1
  <2>4. Dictionary!Define(n, t)
    BY <2>3 DEF Dictionary!Define
  <2>5. Good(Defines_Table')
    BY <2>1, <2>2
  <2> QED BY <2>4, <2>5 DEF Good, Unique, Chains, EntrySet
<1> QED BY <1>3, <1>4

LEMMA EmptyIsGood ==
  Init => Good(Defines_Table) /\ Dictionary!DictInit
<1> SUFFICES ASSUME Init
             PROVE  Good(Defines_Table) /\ Dictionary!DictInit
  OBVIOUS
<1>1. \A h \in Chains : Defines_Table[h] = <<>>
  BY DEF Init, EmptyTable, Chains
<1>2. Good(Defines_Table)
  BY <1>1 DEF Init, EmptyTable, Good, Unique, Chains
<1>3. \A n \in Names : lookup_define(Defines_Table, n) = Undefined
  <2> TAKE n \in Names
  <2>1. Defines_Table[hash[n]] = <<>>
    BY <1>1, HashAssumption DEF Chains
  <2> QED BY <2>1 DEF lookup_define, Matches
<1> QED BY <1>2, <1>3 DEF Dictionary!DictInit

LEMMA AlwaysGood == Spec => []Good(Defines_Table)
<1>1. ASSUME Good(Defines_Table), [Next]_Defines_Table
      PROVE  Good(Defines_Table)'
  <2>1. CASE Next
    BY <1>1, <2>1, StepIsDictionaryStep DEF Next
  <2>2. CASE UNCHANGED Defines_Table
    BY <1>1, <2>2 DEF Good, Unique, Chains, EntrySet
  <2> QED BY <1>1, <2>1, <2>2
<1> QED BY <1>1, EmptyIsGood, PTL DEF Spec

\* Every entry is in the chain of its hash value.
THEOREM TableTypeCorrect == Spec => []TypeOK
<1>1. Good(Defines_Table) => TypeOK
  BY DEF Good, TypeOK
<1> QED BY <1>1, AlwaysGood, PTL

\* A redefinition replaces the entry: no chain holds a name twice.
THEOREM NamesAreUnique == Spec => []UniqueNames
<1>1. Good(Defines_Table) => UniqueNames
  BY DEF Good, Unique, UniqueNames
<1> QED BY <1>1, AlwaysGood, PTL

\* The chains implement the dictionary, whatever names collide.
THEOREM TableIsDictionary == Spec => ImplementsDictionary
<1>1. Init => Dictionary!DictInit
  BY EmptyIsGood
<1>2. ASSUME Good(Defines_Table), [Next]_Defines_Table
      PROVE  [Dictionary!DictNext]_([n \in Names |-> lookup_define(Defines_Table, n)])
  <2>1. CASE Next
    BY <1>2, <2>1, StepIsDictionaryStep DEF Next, Dictionary!DictNext
  <2>2. CASE UNCHANGED Defines_Table
    BY <2>2
  <2> QED BY <1>2, <2>1, <2>2
<1> QED BY <1>1, <1>2, AlwaysGood, PTL
     DEF Spec, ImplementsDictionary, Dictionary!DictSpec
=============================================================================
