--------------------------- MODULE SymbolTableProofs ---------------------------
(***************************************************************************)
(* Proofs about the directions that the symbol table infers, the interface *)
(* that comes of them, the widths and the reports of GenSV, for any        *)
(* names, instances and machines and any text in which no port of an       *)
(* instance is connected twice.                                            *)
(***************************************************************************)
EXTENDS SymbolTable, FiniteSetTheorems, TLAPS

Both == {"INPUT", "OUTPUT"}

\* What the direction and the flag of a symbol remember of its uses.
Remembers(s, U) ==
  /\ U = {} => s.direction = "NONPORT"
  /\ U = {"INPUT"} => s.direction = "INPUT"
  /\ U = {"OUTPUT"} => s.direction = "OUTPUT"
  /\ U = Both => s.direction = "NONPORT"
  /\ s.io_fixed <=> U = Both

\* Inferred, of a symbol s that was declared d and has the uses U.
Open(s, d, U) == d = None /\ "INOUT" \notin U /\ ~s.is_const /\ ~s.is_2D

Fields ==
  {"exists", "direction", "io_fixed", "msb", "width_fixed", "is_2D", "is_const",
   "value", "driver", "loccur", "roccur"}

IsRecord(s) ==
  /\ s = [f \in Fields |-> s[f]]
  /\ s.io_fixed \in BOOLEAN /\ s.is_const \in BOOLEAN /\ s.is_2D \in BOOLEAN
  /\ s.exists \in BOOLEAN

\* The invariant of one name.
Kept(s, d, U) ==
  /\ IsRecord(s)
  /\ U \subseteq NetDirection
  /\ U # {} => s.exists
  /\ d # None => /\ s.io_fixed
                 /\ s.direction = d \/ (s.is_2D /\ s.direction = "NONPORT")
  /\ Open(s, d, U) => Remembers(s, U)

\* A step that leaves the direction of a symbol alone.
Follows(s, t) ==
  /\ IsRecord(t)
  /\ s.exists => t.exists
  /\ t.direction = s.direction /\ t.io_fixed = s.io_fixed
  /\ s.is_const => t.is_const
  /\ t.is_2D = s.is_2D

-----------------------------------------------------------------------------
\* One symbol.

LEMMA FollowsKept ==
  ASSUME NEW s, NEW t, NEW d, NEW U, Kept(s, d, U), Follows(s, t)
  PROVE  Kept(t, d, U)
BY DEF Kept, Follows, Open, Remembers

LEMMA DeclaredKept ==
  ASSUME NEW s, NEW d, NEW U, IsRecord(s), U \subseteq NetDirection, d # None,
         s.exists, s.io_fixed, s.direction = d
  PROVE  Kept(s, d, U)
BY DEF Kept, Open

LEMMA InsertFollows ==
  ASSUME NEW s, IsRecord(s) PROVE Follows(s, Insert(s)) /\ Insert(s).exists
BY DEF IsRecord, Fields, Insert, Follows

LEMMA OccursFollows ==
  ASSUME NEW s, NEW d, IsRecord(s) PROVE Follows(s, Occurs(s, d))
BY DEF IsRecord, Fields, Occurs, Follows

LEMMA WidthFollows ==
  ASSUME NEW s, NEW m, IsRecord(s) PROVE Follows(s, UpdateMsb(s, m))
BY DEF IsRecord, Fields, UpdateMsb, Follows

LEMMA FollowsTrans ==
  ASSUME NEW s, NEW t, NEW u, Follows(s, t), Follows(t, u) PROVE Follows(s, u)
BY DEF Follows

\* CSymbol::Update records one more use.
LEMMA DirectionKept ==
  ASSUME NEW s, NEW d, NEW U, NEW u \in NetDirection, Kept(s, d, U), s.exists
  PROVE  /\ Kept(UpdateDirection(s, u), d, U \cup {u})
         /\ UpdateDirection(s, u).exists
<1> DEFINE t == UpdateDirection(s, u)
<1>1. /\ IsRecord(t) /\ t.exists
      /\ t.is_const = s.is_const /\ t.is_2D = s.is_2D
      /\ s.io_fixed => t = s
  BY DEF Kept, IsRecord, Fields, UpdateDirection
<1>2. ASSUME Open(t, d, U \cup {u}) PROVE Remembers(t, U \cup {u})
  <2>1. Open(s, d, U) /\ u \in Both BY <1>1, <1>2 DEF Open, NetDirection, Both
  <2>2. Remembers(s, U) /\ U \subseteq Both
    BY <2>1 DEF Kept, Open, NetDirection, Both
  <2>3. U \in {{}, {"INPUT"}, {"OUTPUT"}, Both} BY <2>2 DEF Both
  <2>4. ~s.is_const /\ IsRecord(s) BY <2>1 DEF Open, Kept
  <2>5. CASE U = {}
    BY <2>1, <2>2, <2>4, <2>5 DEF Remembers, UpdateDirection, IsRecord, Fields, Both
  <2>6. CASE U = {"INPUT"}
    BY <2>1, <2>2, <2>4, <2>6 DEF Remembers, UpdateDirection, IsRecord, Fields, Both
  <2>7. CASE U = {"OUTPUT"}
    BY <2>1, <2>2, <2>4, <2>7 DEF Remembers, UpdateDirection, IsRecord, Fields, Both
  <2>8. CASE U = Both
    BY <2>1, <2>2, <2>4, <2>8 DEF Remembers, UpdateDirection, IsRecord, Fields, Both
  <2> QED BY <2>3, <2>5, <2>6, <2>7, <2>8
<1>3. d # None => /\ t.io_fixed
                  /\ t.direction = d \/ (t.is_2D /\ t.direction = "NONPORT")
  BY <1>1 DEF Kept
<1> QED BY <1>1, <1>2, <1>3 DEF Kept

LEMMA UsedKept ==
  ASSUME NEW s, NEW d, NEW U, NEW u \in NetDirection, Kept(s, d, U)
  PROVE  Kept(Used(s, u), d, U \cup {u}) /\ Used(s, u).exists
<1> DEFINE t == UpdateDirection(Insert(s), u)
<1>0. IsRecord(s) BY DEF Kept
<1>1. Kept(Insert(s), d, U) /\ Insert(s).exists
  BY <1>0, InsertFollows, FollowsKept
<1>2. Kept(t, d, U \cup {u}) /\ t.exists BY <1>1, DirectionKept
<1>3. Follows(t, Occurs(t, u)) BY <1>2, OccursFollows DEF Kept
<1>4. Used(s, u) = Occurs(t, u) BY DEF Used
<1> QED BY <1>2, <1>3, <1>4, FollowsKept DEF Follows

-----------------------------------------------------------------------------
\* The whole table.

LEMMA WithAt ==
  ASSUME NEW f, NEW S, NEW e, NEW m \in Name
  PROVE  With(f, S, e)[m] = IF m \in S THEN f[m] \cup {e} ELSE f[m]
BY DEF With

\* The production net reads the index and leaves the net's direction alone.
LEMMA NetKept ==
  ASSUME NEW t, NEW f, NEW n, NEW x, NEW m \in Name, NEW d, Kept(t[m], d, f[m])
  PROVE  /\ Kept(Net(t, n, x)[m], d, With(f, Selects(t, x), "INPUT")[m])
         /\ t[m].exists => Net(t, n, x)[m].exists
         /\ m = n => Net(t, n, x)[m].exists
<1> DEFINE U == IF m \in Selects(t, x) THEN f[m] \cup {"INPUT"} ELSE f[m]
           s == IF m \in Selects(t, x) THEN Used(t[m], "INPUT")
                ELSE IF m \in SymbolsOf(n, x) THEN Insert(t[m]) ELSE t[m]
<1>1. Kept(s, d, U) /\ (t[m].exists => s.exists) /\ (m = n => s.exists)
  <2>1. CASE m \in Selects(t, x)
    BY <2>1, UsedKept DEF NetDirection
  <2>2. CASE m \notin Selects(t, x) /\ m \in SymbolsOf(n, x)
    <3>1. IsRecord(t[m]) BY DEF Kept
    <3>2. Kept(Insert(t[m]), d, f[m]) /\ Insert(t[m]).exists
      BY <3>1, InsertFollows, FollowsKept
    <3> QED BY <2>2, <3>2
  <2>3. CASE m \notin Selects(t, x) /\ m \notin SymbolsOf(n, x)
    BY <2>3 DEF SymbolsOf
  <2> QED BY <2>1, <2>2, <2>3
<1>2. Net(t, n, x)[m] = IF m = n THEN UpdateMsb(s, IndexMsb(t, x)) ELSE s
  BY DEF Net
<1>3. Follows(s, UpdateMsb(s, IndexMsb(t, x))) BY <1>1, WidthFollows DEF Kept
<1>4. With(f, Selects(t, x), "INPUT")[m] = U BY WithAt
<1> HIDE DEF s, U
<1> QED BY <1>1, <1>2, <1>3, <1>4, FollowsKept DEF Follows

LEMMA ClocksKept ==
  ASSUME NEW t, NEW f, NEW C, NEW m \in Name, NEW d, Kept(t[m], d, f[m])
  PROVE  /\ Kept(Clocks(t, C)[m], d, With(f, C, "INPUT")[m])
         /\ t[m].exists => Clocks(t, C)[m].exists
<1>1. CASE m \in C
  <2>1. Clocks(t, C)[m] = Used(t[m], "INPUT") BY <1>1 DEF Clocks
  <2>2. With(f, C, "INPUT")[m] = f[m] \cup {"INPUT"} BY <1>1 DEF With
  <2>3. /\ Kept(Used(t[m], "INPUT"), d, f[m] \cup {"INPUT"})
        /\ Used(t[m], "INPUT").exists
    BY UsedKept DEF NetDirection
  <2> QED BY <2>1, <2>2, <2>3
<1>2. CASE m \notin C
  <2>1. Clocks(t, C)[m] = t[m] BY <1>2 DEF Clocks
  <2>2. With(f, C, "INPUT")[m] = f[m] BY <1>2 DEF With
  <2> QED BY <2>1, <2>2
<1> QED BY <1>1, <1>2

LEMMA DrivenFollows ==
  ASSUME NEW t, NEW S, NEW b, NEW m \in Name, IsRecord(t[m])
  PROVE  Follows(t[m], Driven(t, S, b)[m])
BY DEF Driven, IsRecord, Fields, Follows

LEMMA BuildFollows ==
  ASSUME NEW t, NEW m \in Name, IsRecord(t[m])
  PROVE  Follows(t[m], BuildFSM(t)[m])
<1>1. CASE m \in {StateReg, NextReg}
  BY <1>1, WidthFollows DEF BuildFSM
<1>2. CASE m \notin {StateReg, NextReg}
  <2> DEFINE i == CHOOSE i \in DOMAIN states : states[i] = m /\ IsLast(i)
             j == CHOOSE j \in DOMAIN states :
                    StateIndex[states[j]] = m /\ IsLast(j)
  <2>1. \/ BuildFSM(t)[m] = t[m]
        \/ \E v, w : BuildFSM(t)[m] =
             [t[m] EXCEPT !.is_const = TRUE, !.msb = v, !.value = w]
        \/ \E w : BuildFSM(t)[m] = [t[m] EXCEPT !.is_const = TRUE, !.value = w]
    BY <1>2, Zenon DEF BuildFSM
  <2> QED BY <2>1 DEF IsRecord, Fields, Follows
<1> QED BY <1>1, <1>2

-----------------------------------------------------------------------------
\* The invariant.

Functions == /\ symbols = [n \in Name |-> symbols[n]]
             /\ uses = [n \in Name |-> uses[n]]
             /\ declared = [n \in Name |-> declared[n]]

AllKept == \A n \in Name : Kept(symbols[n], declared[n], uses[n])

\* A net that a rule has named is merged before it could be taken out, and the
\* net of an expression is in the table.
Connected ==
  /\ connect_map \in [Port -> Connection]
  /\ todo \subseteq Port
  /\ \A n \in symbol_to_remove : \E p \in todo :
       /\ connect_map[p].kind = "net" /\ connect_map[p].name = n
       /\ ~connect_map[p].own
  /\ \A p \in Port : connect_map[p].kind \in {"concat", "operator"} =>
       symbols[connect_map[p].name].exists

Ended == {"generated", "exit"}

\* Until GenSV, the interface is what was declared.
Ports ==
  /\ phase \notin Ended =>
       \A n \in Name : n \in io_table <=> declared[n] \in NetDirection
  /\ Interface

IInv == Functions /\ AllKept /\ Connected /\ Ports

\* What the step of one action must show of the table.
Holds ==
  /\ Functions'
  /\ \A m \in Name : /\ Kept(symbols'[m], declared'[m], uses'[m])
                     /\ symbols[m].exists => symbols'[m].exists

LEMMA InitIInv == Init => IInv
<1> SUFFICES ASSUME Init PROVE IInv
  OBVIOUS
<1> USE DEF Init
<1>1. Functions BY DEF Functions
<1>2. AllKept
  BY DEF AllKept, Kept, IsRecord, Fields, NewSymbol, Remembers, Both, NetDirection
<1>3. Connected
  BY NameAssumption DEF Connected, DefaultConnections, Connection, Index, Whole
<1>4. Ports
  BY NameAssumption DEF Ports, Interface, NetDirection
<1> QED BY <1>1, <1>2, <1>3, <1>4 DEF IInv

-----------------------------------------------------------------------------
\* What each action does to the table.

LEMMA DeclarePortHolds ==
  ASSUME IInv, NEW d \in Directions, NEW n \in Name, NEW x, DeclarePort(d, n, x)
  PROVE  Holds
<1>1. Functions /\ AllKept BY DEF IInv
<1>2. /\ uses' = uses /\ declared' = [declared EXCEPT ![n] = d]
      /\ \/ symbols' = [symbols EXCEPT ![n] =
              [Insert(@) EXCEPT !.io_fixed = TRUE, !.direction = d]]
         \/ symbols' = [symbols EXCEPT ![n] =
              [UpdateMsb(Insert(@), x.at)
                 EXCEPT !.io_fixed = TRUE, !.direction = d, !.width_fixed = TRUE]]
  BY DEF DeclarePort, PlainPort, RangedPort
<1>3. Functions' BY <1>1, <1>2 DEF Functions
<1>4. ASSUME NEW m \in Name
      PROVE  /\ Kept(symbols'[m], declared'[m], uses'[m])
             /\ symbols[m].exists => symbols'[m].exists
  <2>1. CASE m # n
    BY <1>1, <1>2, <2>1 DEF Functions, AllKept
  <2>2. CASE m = n
    <3>1. Kept(symbols[n], declared[n], uses[n]) BY <1>1 DEF AllKept
    <3>2. declared'[n] = d /\ d # None
      BY <1>1, <1>2, NameAssumption DEF Functions, Directions
    <3> DEFINE s == Insert(symbols[n])
               t == UpdateMsb(s, x.at)
    <3>3. IsRecord(s) /\ s.exists
      BY <3>1, InsertFollows DEF Kept, Follows
    <3>4. IsRecord(t) /\ t.exists
      BY <3>3, WidthFollows DEF Follows
    <3>5. \/ symbols'[n] = [s EXCEPT !.io_fixed = TRUE, !.direction = d]
          \/ symbols'[n] = [t EXCEPT !.io_fixed = TRUE, !.direction = d,
                                     !.width_fixed = TRUE]
      BY <1>1, <1>2 DEF Functions
    <3> HIDE DEF s, t
    <3>6. /\ IsRecord(symbols'[n]) /\ symbols'[n].exists
          /\ symbols'[n].io_fixed /\ symbols'[n].direction = d
      BY <3>3, <3>4, <3>5 DEF IsRecord, Fields
    <3>7. Kept(symbols'[n], d, uses[n]) 
      <4>1. uses[n] \subseteq NetDirection BY <3>1 DEF Kept
      <4> QED BY <3>2, <3>6, <4>1, DeclaredKept
    <3> QED BY <1>2, <2>2, <3>2, <3>6, <3>7
  <2> QED BY <2>1, <2>2
<1> QED BY <1>3, <1>4 DEF Holds

LEMMA DeclareNetHolds ==
  ASSUME IInv, NEW n \in Name, NEW v, NEW m,
         \/ DeclareVariable(n, m) \/ DeclareArray(n, m) \/ DeclareConstant(n, v, m)
  PROVE  Holds
<1> DEFINE s == Insert(symbols[n])
           c == [s EXCEPT !.is_const = TRUE, !.value = v]
<1>1. Functions /\ AllKept BY DEF IInv
<1>2. /\ uses' = uses /\ declared' = declared
      /\ \/ symbols' = [symbols EXCEPT ![n] =
              [Insert(@) EXCEPT !.width_fixed = TRUE, !.msb = m]]
         \/ symbols' = [symbols EXCEPT ![n] =
              [Insert(@) EXCEPT !.direction = "NONPORT", !.io_fixed = TRUE,
                                !.is_2D = TRUE, !.width_fixed = TRUE, !.msb = m]]
         \/ symbols' = [symbols EXCEPT ![n] =
              UpdateMsb([Insert(@) EXCEPT !.is_const = TRUE, !.value = v], m)]
  BY DEF DeclareVariable, DeclareArray, DeclareConstant, text
<1>3. Functions' BY <1>1, <1>2 DEF Functions
<1>4. /\ Kept(symbols[n], declared[n], uses[n]) /\ Follows(symbols[n], s)
      /\ s.exists
  BY <1>1, InsertFollows DEF AllKept, Kept
<1>5. \/ symbols'[n] = [s EXCEPT !.width_fixed = TRUE, !.msb = m]
      \/ symbols'[n] = [s EXCEPT !.direction = "NONPORT", !.io_fixed = TRUE,
                                 !.is_2D = TRUE, !.width_fixed = TRUE, !.msb = m]
      \/ symbols'[n] = UpdateMsb(c, m)
  BY <1>1, <1>2 DEF Functions
<1> HIDE DEF s
<1>6. Kept(symbols'[n], declared[n], uses[n]) /\ symbols'[n].exists
  <2>1. CASE symbols'[n] = [s EXCEPT !.width_fixed = TRUE, !.msb = m]
    <3>1. Follows(s, symbols'[n]) BY <1>4, <2>1 DEF Follows, IsRecord, Fields
    <3> QED BY <1>4, <3>1, FollowsTrans, FollowsKept DEF Follows
  <2>2. CASE symbols'[n] = [s EXCEPT !.direction = "NONPORT", !.io_fixed = TRUE,
                                 !.is_2D = TRUE, !.width_fixed = TRUE, !.msb = m]
    <3>1. /\ IsRecord(symbols'[n]) /\ symbols'[n].is_2D /\ symbols'[n].exists
          /\ symbols'[n].io_fixed /\ symbols'[n].direction = "NONPORT"
      BY <1>4, <2>2 DEF Follows, IsRecord, Fields
    <3> QED BY <1>4, <3>1 DEF Kept, Open
  <2>3. CASE symbols'[n] = UpdateMsb(c, m)
    <3>1. Follows(s, c) BY <1>4 DEF Follows, IsRecord, Fields
    <3> HIDE DEF c
    <3>2. Follows(c, symbols'[n]) BY <2>3, <3>1, WidthFollows DEF Follows
    <3> QED BY <1>4, <3>1, <3>2, FollowsTrans, FollowsKept DEF Follows
  <2> QED BY <1>5, <2>1, <2>2, <2>3
<1>7. \A k \in Name : k # n => symbols'[k] = symbols[k]
  BY <1>1, <1>2 DEF Functions
<1> QED BY <1>1, <1>2, <1>3, <1>6, <1>7 DEF AllKept, Holds

\* A table in which every symbol follows its former self.
LEMMA FollowersHold ==
  ASSUME IInv, uses' = uses, declared' = declared,
         symbols' = [m \in Name |-> symbols'[m]],
         \A m \in Name : Follows(symbols[m], symbols'[m])
  PROVE  Holds
BY FollowsKept DEF Holds, Functions, AllKept, Follows, IInv

LEMMA InsertedHold ==
  ASSUME IInv, uses' = uses, declared' = declared, NEW S,
         symbols' = [m \in Name |-> IF m \in S THEN Insert(symbols[m]) ELSE symbols[m]]
  PROVE  Holds
<1>1. \A m \in Name : IsRecord(symbols[m]) BY DEF IInv, AllKept, Kept
<1>2. \A m \in Name : Follows(symbols[m], symbols'[m])
  BY <1>1, InsertFollows DEF Follows
<1> QED BY <1>2, FollowersHold

\* A net with an index, on either side of an assignment.
LEMMA UseHolds ==
  ASSUME IInv, NEW n \in Name, NEW x, NEW e \in NetDirection, declared' = declared,
         symbols' = [Net(symbols, n, x) EXCEPT ![n] = Used(@, e)],
         uses' = With(With(uses, Selects(symbols, x), "INPUT"), {n}, e)
  PROVE  Holds
<1> DEFINE t == Net(symbols, n, x)
           u == With(uses, Selects(symbols, x), "INPUT")
<1>1. Functions /\ AllKept BY DEF IInv
<1>2. /\ symbols' = [t EXCEPT ![n] = Used(@, e)]
      /\ uses' = With(u, {n}, e) /\ declared' = declared
  OBVIOUS
<1>3. t = [m \in Name |-> t[m]] BY DEF Net
<1>4. \A m \in Name : /\ Kept(t[m], declared[m], u[m])
                      /\ symbols[m].exists => t[m].exists
  BY <1>1, NetKept DEF AllKept
<1> HIDE DEF t, u
<1>5. Functions'
  BY <1>1, <1>2, <1>3 DEF Functions, With
<1>6. Kept(Used(t[n], e), declared[n], u[n] \cup {e})
      /\ Used(t[n], e).exists
  BY <1>4, UsedKept
<1>7. ASSUME NEW m \in Name
      PROVE  /\ Kept(symbols'[m], declared'[m], uses'[m])
             /\ symbols[m].exists => symbols'[m].exists
  <2>1. CASE m # n
    <3>1. symbols'[m] = t[m] /\ uses'[m] = u[m] BY <1>2, <1>3, <2>1 DEF With
    <3> QED BY <1>2, <1>4, <3>1
  <2>2. CASE m = n
    <3>1. symbols'[m] = Used(t[n], e) /\ uses'[m] = u[n] \cup {e}
      BY <1>2, <1>3, <2>2 DEF With
    <3> QED BY <1>2, <1>6, <2>2, <3>1
  <2> QED BY <2>1, <2>2
<1> QED BY <1>5, <1>7 DEF Holds

LEMMA DriveHolds ==
  ASSUME IInv, NEW n \in Name, NEW x, NEW f, Drive(n, x, f)
  PROVE  Holds
BY UseHolds DEF Drive, NetDirection

LEMMA ReadHolds ==
  ASSUME IInv, NEW n \in Name, NEW x, Read(n, x)
  PROVE  Holds
<1>1. With(uses, {n} \cup Selects(symbols, x), "INPUT")
        = With(With(uses, Selects(symbols, x), "INPUT"), {n}, "INPUT")
  BY DEF With
<1> QED BY <1>1, UseHolds DEF Read, NetDirection

\* The end of a block: clocks are read, then symbols only follow themselves.
LEMMA CloseHolds ==
  ASSUME IInv, NEW C, declared' = declared, uses' = With(uses, C, "INPUT"),
         symbols' = [m \in Name |-> symbols'[m]],
         \A m \in Name : IsRecord(Clocks(symbols, C)[m]) =>
           Follows(Clocks(symbols, C)[m], symbols'[m])
  PROVE  Holds
<1> DEFINE t == Clocks(symbols, C)
<1>1. Functions' BY DEF IInv, Functions, With
<1>2. ASSUME NEW m \in Name
      PROVE  /\ Kept(t[m], declared[m], uses'[m])
             /\ symbols[m].exists => t[m].exists
  BY ClocksKept DEF IInv, AllKept
<1> HIDE DEF t
<1>3. ASSUME NEW m \in Name
      PROVE  /\ Kept(symbols'[m], declared'[m], uses'[m])
             /\ symbols[m].exists => symbols'[m].exists
  <2>1. Follows(t[m], symbols'[m]) BY <1>2 DEF Kept, t
  <2> QED BY <1>2, <2>1, FollowsKept DEF Follows
<1> QED BY <1>1, <1>3 DEF Holds

LEMMA CloseBlockHolds ==
  ASSUME IInv, NEW C, CloseBlock(C)
  PROVE  Holds
<1>1. symbols' = Driven(Clocks(symbols, C), block.lsymbols, code_blocks)
  BY DEF CloseBlock
<1>2. symbols' = [m \in Name |-> symbols'[m]] BY <1>1 DEF Driven
<1>3. \A m \in Name : IsRecord(Clocks(symbols, C)[m]) =>
        Follows(Clocks(symbols, C)[m], symbols'[m])
  BY <1>1, DrivenFollows
<1> QED BY <1>2, <1>3, CloseHolds DEF CloseBlock

LEMMA CloseFSMHolds ==
  ASSUME IInv, NEW C, CloseFSM(C)
  PROVE  Holds
<1> DEFINE t == Clocks(symbols, C)
           u == BuildFSM(t)
           v == Driven(u, block.lsymbols \cup {NextReg}, code_blocks)
<1>1. symbols' = Driven(v, {StateReg}, Registers(code_blocks))
  BY DEF CloseFSM
<1>2. symbols' = [m \in Name |-> symbols'[m]] BY <1>1 DEF Driven
<1>3. ASSUME NEW m \in Name, IsRecord(t[m])
      PROVE  Follows(t[m], symbols'[m])
  <2>1. Follows(t[m], u[m]) BY <1>3, BuildFollows
  <2>2. Follows(u[m], v[m]) BY <2>1, DrivenFollows DEF Follows
  <2>3. Follows(v[m], symbols'[m]) BY <1>1, <2>2, DrivenFollows DEF Follows
  <2> QED BY <2>1, <2>2, <2>3, FollowsTrans
<1> QED BY <1>2, <1>3, CloseHolds DEF CloseFSM

LEMMA ConnectHolds ==
  ASSUME IInv, NEW p \in Port, NEW k, NEW n \in Name, NEW x, Connect(p, k, n, x)
  PROVE  Holds /\ symbols'[n].exists
<1> DEFINE t == Net(symbols, n, x)
           u == With(uses, Selects(symbols, x), "INPUT")
<1>1. Functions /\ AllKept BY DEF IInv
<1>2. /\ symbols' = [t EXCEPT ![n] = Occurs(@, PortDirection[p])]
      /\ uses' = u /\ declared' = declared
  BY DEF Connect
<1>3. t = [m \in Name |-> t[m]] BY DEF Net
<1>4. \A m \in Name : /\ Kept(t[m], declared[m], u[m])
                      /\ symbols[m].exists => t[m].exists
                      /\ m = n => t[m].exists
  BY <1>1, NetKept DEF AllKept
<1>5. Functions' BY <1>1, <1>2, <1>3 DEF Functions, With
<1> HIDE DEF t, u
<1>6. \A m \in Name : Follows(t[m], symbols'[m])
  <2>1. \A m \in Name : IsRecord(t[m]) BY <1>4 DEF Kept
  <2>2. Follows(t[n], symbols'[n]) BY <1>2, <1>3, <2>1, OccursFollows
  <2>3. \A m \in Name : m # n => symbols'[m] = t[m] BY <1>2, <1>3
  <2> QED BY <2>1, <2>2, <2>3 DEF Follows
<1>7. \A m \in Name : /\ Kept(symbols'[m], declared'[m], uses'[m])
                      /\ symbols[m].exists => symbols'[m].exists
  BY <1>2, <1>4, <1>6, FollowsKept DEF Follows
<1> QED BY <1>4, <1>5, <1>6, <1>7 DEF Holds, Follows

\* One net of the table is updated in a direction.
LEMMA UpdatedHolds ==
  ASSUME IInv, NEW n \in Name, NEW e \in NetDirection, NEW s, NEW r,
         Follows(symbols[n], s), s.exists,
         Follows(UpdateDirection(s, e), r),
         symbols' = [symbols EXCEPT ![n] = r],
         uses' = With(uses, {n}, e), declared' = declared
  PROVE  Holds
<1>1. Functions /\ AllKept BY DEF IInv
<1>2. Functions' BY <1>1 DEF Functions, With
<1>3. Kept(s, declared[n], uses[n]) BY <1>1, FollowsKept DEF AllKept
<1>4. /\ Kept(UpdateDirection(s, e), declared[n], uses[n] \cup {e})
      /\ UpdateDirection(s, e).exists
  BY <1>3, DirectionKept
<1>5. Kept(r, declared[n], uses[n] \cup {e}) /\ r.exists
  BY <1>4, FollowsKept DEF Follows
<1>6. symbols'[n] = r /\ uses'[n] = uses[n] \cup {e}
  BY <1>1 DEF Functions, With
<1>7. ASSUME NEW m \in Name, m # n
      PROVE  symbols'[m] = symbols[m] /\ uses'[m] = uses[m]
  BY <1>1, <1>7 DEF Functions, With
<1> QED BY <1>1, <1>2, <1>5, <1>6, <1>7 DEF AllKept, Holds

LEMMA MergeNetHolds ==
  ASSUME IInv, NEW p \in Port, MergeNet(p)
  PROVE  Holds
<1> DEFINE n == connect_map[p].name
           d == PortDirection[p]
           s == UpdateMsb(Insert(symbols[n]), ConnectedMsb(p))
<1>1. n \in Name /\ d \in NetDirection
  BY NameAssumption DEF IInv, Connected, Connection, NetDirection
<1>2. IsRecord(symbols[n]) BY <1>1 DEF IInv, AllKept, Kept
<1>3. Follows(symbols[n], Insert(symbols[n])) /\ Insert(symbols[n]).exists
  BY <1>2, InsertFollows
<1>4. Follows(Insert(symbols[n]), s) BY <1>3, WidthFollows DEF Follows
<1>5. Follows(symbols[n], s) /\ s.exists BY <1>3, <1>4, FollowsTrans DEF Follows
<1>6. /\ symbols' = [symbols EXCEPT ![n] = Merged(p)]
      /\ uses' = With(uses, {n}, d) /\ declared' = declared
  BY DEF MergeNet, Merges
<1>7. Merged(p) \in {UpdateDirection(s, d), Occurs(UpdateDirection(s, d), d)}
  BY DEF Merged
<1>8. Kept(s, declared[n], uses[n])
  BY <1>1, <1>5, FollowsKept DEF IInv, AllKept
<1> HIDE DEF n, d, s
<1>9. IsRecord(UpdateDirection(s, d)) BY <1>1, <1>5, <1>8, DirectionKept DEF Kept
<1>10. Follows(UpdateDirection(s, d), Merged(p))
  BY <1>7, <1>9, OccursFollows DEF Follows
<1> QED BY <1>1, <1>5, <1>6, <1>10, UpdatedHolds

LEMMA MergeExpressionHolds ==
  ASSUME IInv, NEW p \in Port, MergeExpression(p)
  PROVE  Holds
<1> DEFINE n == connect_map[p].name
           d == PortDirection[p]
           s == symbols[n]
<1>1. n \in Name /\ d \in NetDirection
  BY NameAssumption DEF IInv, Connected, Connection, NetDirection
<1>2. /\ symbols' = [symbols EXCEPT ![n] = UpdateDirection(@, d)]
      /\ uses' = With(uses, {n}, d) /\ declared' = declared
      /\ connect_map[p].kind \in {"concat", "operator"}
  BY DEF MergeExpression, Merges
<1>3. symbols' = [symbols EXCEPT ![n] = UpdateDirection(s, d)]
  BY <1>2
<1>4. Kept(s, declared[n], uses[n]) /\ s.exists
  BY <1>1, <1>2 DEF IInv, AllKept, Connected
<1> HIDE DEF n, d, s
<1>5. IsRecord(UpdateDirection(s, d)) BY <1>1, <1>4, DirectionKept DEF Kept
<1>6. Follows(UpdateDirection(s, d), UpdateDirection(s, d)) BY <1>5 DEF Follows
<1>7. Follows(s, s) BY <1>4 DEF Follows, Kept
<1> QED BY <1>1, <1>2, <1>3, <1>4, <1>6, <1>7, UpdatedHolds DEF s

LEMMA CloseInstanceHolds ==
  ASSUME IInv, CloseInstance
  PROVE  Holds
<1>1. symbol_to_remove = {} BY DEF CloseInstance, IInv, Connected
<1> DEFINE t == [m \in Name |-> IF m \in symbol_to_remove
                                THEN NewSymbol ELSE symbols[m]]
<1>2. symbols' = Driven(t, block.lsymbols \ symbol_to_remove, code_blocks)
  BY DEF CloseInstance
<1>3. t = symbols BY <1>1 DEF IInv, Functions
<1>4. uses' = uses /\ declared' = declared BY DEF CloseInstance
<1> HIDE DEF t
<1>5. symbols' = [m \in Name |-> symbols'[m]] BY <1>2 DEF Driven
<1>6. \A m \in Name : Follows(symbols[m], symbols'[m])
  BY <1>2, <1>3, DrivenFollows DEF IInv, AllKept, Kept
<1> QED BY <1>4, <1>5, <1>6, FollowersHold

LEMMA MachineHolds ==
  ASSUME IInv, \/ OpenFSM
               \/ \E s \in State : StateItem(s) \/ Goto(s)
  PROVE  Holds
<1>1. CASE OpenFSM
  BY <1>1, InsertedHold DEF OpenFSM, text
<1>2. ASSUME NEW s \in State, StateItem(s) PROVE Holds
  BY <1>2, InsertedHold DEF StateItem, text
<1>3. ASSUME NEW s \in State, Goto(s) PROVE Holds
  <2>1. symbols' = [m \in Name |-> IF m \in {s} THEN Insert(symbols[m])
                                   ELSE symbols[m]]
    BY <1>3 DEF Goto, IInv, Functions
  <2> QED BY <1>3, <2>1, InsertedHold DEF Goto, text
<1> QED BY <1>1, <1>2, <1>3

\* The other actions leave the table and its uses alone.
LEMMA UnchangedHolds ==
  ASSUME IInv, UNCHANGED <<symbols, uses, declared>> PROVE Holds
BY DEF IInv, Functions, AllKept, Holds

LEMMA StepHolds ==
  ASSUME IInv, [Next]_vars PROVE Holds
<1> USE NameAssumption
<1>1. CASE Declare
  <2>1. ASSUME NEW n \in Signal, NEW x, NEW d \in Directions, DeclarePort(d, n, x)
        PROVE  Holds
    BY <2>1, DeclarePortHolds
  <2>2. ASSUME NEW n \in Signal, NEW x, DeclarePortError(n, x) PROVE Holds
    BY <2>2, UnchangedHolds DEF DeclarePortError, Error, table, text
  <2>3. ASSUME NEW n \in Signal \cup Constant, NEW v, NEW m,
               \/ DeclareVariable(n, m) \/ DeclareArray(n, m)
               \/ DeclareConstant(n, v, m)
        PROVE  Holds
    BY <2>3, DeclareNetHolds
  <2> QED BY <1>1, <2>1, <2>2, <2>3 DEF Declare
<1>2. CASE Code
  <2>1. ASSUME NEW k \in CodeBlock, OpenBlock(k) PROVE Holds
    BY <2>1, UnchangedHolds DEF OpenBlock, table, text
  <2>2. ASSUME NEW n \in Signal, NEW x, Read(n, x) PROVE Holds
    BY <2>2, ReadHolds
  <2>5. ASSUME NEW n \in Signal, NEW x, NEW f, Drive(n, x, f) PROVE Holds
    BY <2>5, DriveHolds
  <2>3. ASSUME NEW n \in Signal, NEW x \in Index, IndexOutOfRange(n, x) PROVE Holds
    BY <2>3, UnchangedHolds DEF IndexOutOfRange, Error, table, text
  <2>4. ASSUME NEW C, CloseBlock(C) PROVE Holds
    BY <2>4, CloseBlockHolds
  <2> QED BY <1>2, <2>1, <2>2, <2>3, <2>4, <2>5 DEF Code
<1>3. CASE Machine
  <2>1. ASSUME RefuseFSM PROVE Holds
    BY <2>1, UnchangedHolds DEF RefuseFSM, Error, table, text
  <2>2. ASSUME NEW C, CloseFSM(C) PROVE Holds
    BY <2>2, CloseFSMHolds
  <2> QED BY <1>3, <2>1, <2>2, MachineHolds DEF Machine
<1>4. CASE Inst
  <2>1. ASSUME NEW v, OpenInstance(v) PROVE Holds
    BY <2>1, UnchangedHolds DEF OpenInstance, table, text
  <2>2. ASSUME NEW p \in Port, NEW k, NEW n \in Signal, NEW x, Connect(p, k, n, x)
        PROVE  Holds
    BY <2>2, ConnectHolds
  <2>3. ASSUME NEW p \in Port, LeaveOpen(p) PROVE Holds
    BY <2>3, UnchangedHolds DEF LeaveOpen, table, text
  <2>4. ASSUME NEW p \in Port, MergeNet(p) \/ MergeExpression(p) PROVE Holds
    BY <2>4, MergeNetHolds, MergeExpressionHolds
  <2>5. ASSUME NEW p \in Port, MergeOpen(p) PROVE Holds
    BY <2>5, UnchangedHolds DEF MergeOpen, Merges
  <2>6. ASSUME Rename \/ NoValue PROVE Holds
    BY <2>6, UnchangedHolds DEF Rename, NoValue, Error, table, text
  <2> QED BY <1>4, <2>1, <2>2, <2>3, <2>4, <2>5, <2>6, CloseInstanceHolds DEF Inst
<1>5. CASE Generate
  BY <1>5, UnchangedHolds DEF Generate, GenSV, DropResult, table, text
<1>6. CASE UNCHANGED vars
  BY <1>6, UnchangedHolds DEF vars
<1> QED BY <1>1, <1>2, <1>3, <1>4, <1>5, <1>6 DEF Next

-----------------------------------------------------------------------------
\* The connections of the open instance.

LEMMA SameConnected ==
  ASSUME IInv, Holds, UNCHANGED <<connect_map, todo, symbol_to_remove>>
  PROVE  Connected'
<1>1. ASSUME NEW p \in Port PROVE connect_map[p].name \in Name
  BY DEF IInv, Connected, Connection
<1> QED BY <1>1 DEF IInv, Connected, Holds

LEMMA InstConnected ==
  ASSUME IInv, Holds, ~Reconnect, Inst PROVE Connected'
<1> USE NameAssumption
<1>0. Connected /\ \A p \in Port : connect_map[p].name \in Name
  BY DEF IInv, Connected, Connection
<1>1. ASSUME NEW v, OpenInstance(v) PROVE Connected'
  BY <1>0, <1>1 DEF OpenInstance, Connected, table
<1>2. ASSUME NEW p \in Port, NEW k \in {"net", "concat", "operator"}, NEW n \in Signal,
             NEW x \in Index, Connect(p, k, n, x)
      PROVE  Connected'
  <2> DEFINE c == [kind |-> k, own |-> FALSE, name |-> n, index |-> x]
  <2>1. /\ connect_map' = [connect_map EXCEPT ![p] = c]
        /\ symbol_to_remove' = symbol_to_remove \cup IF k = "net" THEN {n} ELSE {}
        /\ todo = Port /\ todo' = todo /\ connect_map[p].own
    BY <1>2 DEF Connect
  <2>2. c \in Connection BY DEF Connection
  <2>3. symbols'[n].exists BY <1>2, ConnectHolds
  <2>4. connect_map' \in [Port -> Connection] BY <1>0, <2>1, <2>2 DEF Connected
  <2>5. \A m \in symbol_to_remove' : \E q \in todo' :
          /\ connect_map'[q].kind = "net" /\ connect_map'[q].name = m
          /\ ~connect_map'[q].own
    <3> SUFFICES ASSUME NEW m \in symbol_to_remove'
                 PROVE  \E q \in todo' :
                          /\ connect_map'[q].kind = "net"
                          /\ connect_map'[q].name = m /\ ~connect_map'[q].own
      OBVIOUS
    <3>1. CASE m \in symbol_to_remove
      <4>1. PICK q \in todo : /\ connect_map[q].kind = "net"
                              /\ connect_map[q].name = m /\ ~connect_map[q].own
        BY <1>0, <3>1 DEF Connected
      <4>2. q # p BY <2>1, <4>1
      <4> QED BY <1>0, <2>1, <4>1, <4>2 DEF Connected
    <3>2. CASE k = "net" /\ m = n
      BY <1>0, <2>1, <3>2 DEF Connected
    <3> QED BY <2>1, <3>1, <3>2
  <2>6. \A q \in Port : connect_map'[q].kind \in {"concat", "operator"} =>
          symbols'[connect_map'[q].name].exists
    BY <1>0, <2>1, <2>3 DEF Connected, Holds
  <2> QED BY <1>0, <2>1, <2>4, <2>5, <2>6 DEF Connected
<1>3. ASSUME NEW p \in Port, LeaveOpen(p) PROVE Connected'
  <2>1. /\ connect_map' = [connect_map EXCEPT ![p].kind = "open", ![p].own = FALSE]
        /\ UNCHANGED <<todo, symbol_to_remove, symbols>> /\ connect_map[p].own
    BY <1>3 DEF LeaveOpen, table
  <2> DEFINE c == [connect_map[p] EXCEPT !.kind = "open", !.own = FALSE]
  <2>3. c \in Connection /\ c.kind = "open"
    <3>1. connect_map[p] \in Connection BY <1>0 DEF Connected
    <3>2. \A e \in Connection :
            /\ [e EXCEPT !.kind = "open", !.own = FALSE] \in Connection
            /\ [e EXCEPT !.kind = "open", !.own = FALSE].kind = "open"
      BY DEF Connection
    <3> QED BY <3>1, <3>2
  <2>4. connect_map' = [connect_map EXCEPT ![p] = c] BY <1>0, <2>1 DEF Connected
  <2> HIDE DEF c
  <2>2. /\ connect_map' \in [Port -> Connection] /\ connect_map'[p].kind = "open"
        /\ \A q \in Port : q # p => connect_map'[q] = connect_map[q]
    BY <1>0, <2>3, <2>4 DEF Connected
  <2> QED BY <1>0, <2>1, <2>2 DEF Connected
<1>4. ASSUME NEW p \in Port, MergeNet(p) PROVE Connected'
  BY <1>0, <1>4 DEF MergeNet, Merges, Connected, Holds
<1>5. ASSUME NEW p \in Port, MergeExpression(p) \/ MergeOpen(p) PROVE Connected'
  BY <1>0, <1>5 DEF MergeExpression, MergeOpen, Merges, Connected, Holds
<1>6. ASSUME Rename PROVE Connected'
  <2>1. connect_map' = [q \in Port |->
          IF connect_map[q].kind = "net"
          THEN [connect_map[q] EXCEPT !.name = Renamed[@]] ELSE connect_map[q]]
    BY <1>6 DEF Rename
  <2>2. connect_map' \in [Port -> Connection]
    <3>1. ASSUME NEW q \in Port
          PROVE  [connect_map[q] EXCEPT !.name = Renamed[@]] \in Connection
      BY <1>0 DEF Connected, Connection
    <3> QED BY <1>0, <2>1, <3>1 DEF Connected
  <2>3. symbol_to_remove = {} BY <1>0, <1>6 DEF Rename, Connected
  <2>4. \A q \in Port : connect_map'[q].kind = "net" <=> connect_map[q].kind = "net"
    BY <1>0, <2>1 DEF Connected, Connection
  <2>5. \A q \in Port : connect_map[q].kind # "net" => connect_map'[q] = connect_map[q]
    BY <2>1
  <2>6. UNCHANGED <<symbols, todo, symbol_to_remove>> BY <1>6 DEF Rename, table
  <2> QED BY <1>0, <2>2, <2>3, <2>4, <2>5, <2>6 DEF Connected
<1>7. ASSUME NoValue PROVE Connected'
  BY <1>7, SameConnected DEF NoValue, Error, instance
<1>8. ASSUME CloseInstance PROVE Connected'
  BY <1>0, <1>8
     DEF CloseInstance, Connected, DefaultConnections, Connection, Index, Whole
<1> QED
  BY <1>1, <1>2, <1>3, <1>4, <1>5, <1>6, <1>7, <1>8 DEF Inst

LEMMA StepConnected ==
  ASSUME IInv, Holds, ~Reconnect, [Next]_vars PROVE Connected'
<1>1. CASE Declare
  BY <1>1, SameConnected
     DEF Declare, DeclarePort, DeclarePortError, DeclareVariable, DeclareArray,
         DeclareConstant, Error, instance
<1>2. CASE Code
  BY <1>2, SameConnected
     DEF Code, OpenBlock, Read, Drive, IndexOutOfRange, CloseBlock, Error, instance
<1>3. CASE Machine
  BY <1>3, SameConnected
     DEF Machine, OpenFSM, RefuseFSM, StateItem, Goto, CloseFSM, Error, instance
<1>4. CASE Generate
  BY <1>4, SameConnected DEF Generate, GenSV, DropResult, table, instance
<1>5. CASE UNCHANGED vars
  BY <1>5, SameConnected DEF vars
<1> QED BY <1>1, <1>2, <1>3, <1>4, <1>5, InstConnected DEF Next

-----------------------------------------------------------------------------
\* The interface.

LEMMA OneUse ==
  ASSUME NEW U, U \in {{}, {"INPUT"}, {"OUTPUT"}, Both}
  PROVE  Cardinality(U) = 1 <=> U # {} /\ U # Both
<1>1. Cardinality({}) = 0 BY FS_EmptySet
<1>2. Cardinality({"INPUT"}) = 1 /\ IsFiniteSet({"INPUT"}) BY FS_Singleton
<1>3. Cardinality({"OUTPUT"}) = 1 BY FS_Singleton
<1>4. Cardinality(Both) = 2
  <2>1. Both = {"INPUT"} \cup {"OUTPUT"} /\ "OUTPUT" \notin {"INPUT"} BY DEF Both
  <2> QED BY <1>2, <2>1, FS_AddElement
<1> QED BY <1>1, <1>2, <1>3, <1>4

LEMMA GeneratedInterface ==
  ASSUME IInv, NEW mctrl \in Control, GenSV(mctrl) PROVE Interface'
<1>1. /\ io_table' = io_table \cup
           {n \in Name : symbols[n].exists /\ symbols[n].direction \in Both}
      /\ UNCHANGED <<symbols, uses, declared>> /\ phase \notin Ended
  BY DEF GenSV, Extracted, Both, text, Between, Parsing, Ended
<1> SUFFICES ASSUME NEW n \in Name
             PROVE  /\ declared[n] \in NetDirection => n \in io_table'
                    /\ declared[n] = "NONPORT" => n \notin io_table'
                    /\ declared[n] # None /\ ~symbols[n].is_2D =>
                         symbols[n].direction = declared[n]
                    /\ Inferred(n) => (n \in io_table' <=> Cardinality(uses[n]) = 1)
  BY <1>1 DEF Interface, Inferred
<1>2. /\ Kept(symbols[n], declared[n], uses[n])
      /\ n \in io_table <=> declared[n] \in NetDirection
  BY <1>1 DEF IInv, AllKept, Ports
<1>3. declared[n] \in NetDirection => n \in io_table' BY <1>1, <1>2
<1>4. declared[n] = "NONPORT" => n \notin io_table'
  BY <1>1, <1>2, NameAssumption DEF Kept, NetDirection, Both
<1>5. declared[n] # None /\ ~symbols[n].is_2D => symbols[n].direction = declared[n]
  BY <1>2 DEF Kept
<1>6. ASSUME Inferred(n) PROVE n \in io_table' <=> Cardinality(uses[n]) = 1
  <2>1. Open(symbols[n], declared[n], uses[n]) BY <1>6 DEF Inferred, Open
  <2>2. Remembers(symbols[n], uses[n]) BY <1>2, <2>1 DEF Kept
  <2>3. uses[n] \in {{}, {"INPUT"}, {"OUTPUT"}, Both}
    <3>1. uses[n] \subseteq Both
      BY <1>2, <2>1 DEF Kept, Open, NetDirection, Both
    <3> QED BY <3>1 DEF Both
  <2>4. n \notin io_table
    BY <1>2, <2>1, NameAssumption DEF Open, NetDirection
  <2>5. n \in io_table' <=> uses[n] # {} /\ uses[n] # Both
    BY <1>1, <1>2, <2>2, <2>3, <2>4 DEF Kept, Remembers, Both
  <2> QED BY <2>3, <2>5, OneUse
<1> QED BY <1>3, <1>4, <1>5, <1>6

LEMMA StepPorts ==
  ASSUME IInv, [Next]_vars PROVE Ports'
<1>1. ASSUME UNCHANGED <<io_table, declared>>, phase \notin Ended, phase' \notin Ended
      PROVE  Ports'
  BY <1>1 DEF IInv, Ports, Interface, Ended
<1>2. ASSUME NEW d \in Directions, NEW n \in Name, NEW x, DeclarePort(d, n, x)
      PROVE  Ports'
  <2>1. /\ io_table' = IF d = "NONPORT" THEN io_table ELSE io_table \cup {n}
        /\ declared' = [declared EXCEPT ![n] = d] /\ n \notin io_table
        /\ phase \notin Ended /\ phase' = phase
    BY <1>2 DEF DeclarePort, Between, Parsing, Ended
  <2> QED BY <2>1 DEF IInv, Ports, Interface, Functions, Directions, NetDirection, Ended
<1> USE DEF Between, Parsing, In, Error, table, text, Ended
<1>3. CASE Declare
  <2>1. ASSUME NEW n, NEW m, NEW v, NEW x,
               \/ DeclareVariable(n, m) \/ DeclareArray(n, m)
               \/ DeclareConstant(n, v, m) \/ DeclarePortError(n, x)
        PROVE  Ports'
    BY <1>1, <2>1
       DEF DeclarePortError, DeclareVariable, DeclareArray, DeclareConstant
  <2> QED BY <1>2, <1>3, <2>1, NameAssumption DEF Declare
<1>4. CASE Code
  BY <1>1, <1>4 DEF Code, OpenBlock, Read, Drive, IndexOutOfRange, CloseBlock
<1>5. CASE Machine
  BY <1>1, <1>5 DEF Machine, OpenFSM, RefuseFSM, StateItem, Goto, CloseFSM
<1>6. CASE Inst
  <2>1. ASSUME NEW v, OpenInstance(v) PROVE Ports'
    BY <1>1, <2>1 DEF OpenInstance
  <2>2. ASSUME NEW p, NEW k, NEW n, NEW x, Connect(p, k, n, x) PROVE Ports'
    BY <1>1, <2>2 DEF Connect
  <2>3. ASSUME NEW p, LeaveOpen(p) PROVE Ports'
    BY <1>1, <2>3 DEF LeaveOpen
  <2>4. ASSUME NEW p, MergeNet(p) \/ MergeExpression(p) \/ MergeOpen(p) PROVE Ports'
    BY <1>1, <2>4 DEF MergeNet, MergeExpression, MergeOpen, Merges
  <2>5. ASSUME Rename \/ NoValue PROVE Ports'
    BY <1>1, <2>5 DEF Rename, NoValue
  <2>6. ASSUME CloseInstance PROVE Ports'
    BY <1>1, <2>6 DEF CloseInstance
  <2> QED BY <1>6, <2>1, <2>2, <2>3, <2>4, <2>5, <2>6 DEF Inst
<1>7. CASE Generate
  <2>1. CASE DropResult
    BY <1>1, <2>1 DEF DropResult, Ended
  <2>2. ASSUME NEW mctrl \in Control, GenSV(mctrl) PROVE Ports'
    <3>1. phase' \in Ended BY <2>2 DEF GenSV, Ended
    <3> QED BY <2>2, <3>1, GeneratedInterface DEF Ports
  <2> QED BY <1>7, <2>1, <2>2 DEF Generate
<1>8. CASE UNCHANGED vars
  BY <1>8 DEF vars, IInv, Ports, Interface, Inferred
<1> QED BY <1>3, <1>4, <1>5, <1>6, <1>7, <1>8 DEF Next

-----------------------------------------------------------------------------
\* The invariant holds of every text without a port connected twice.
THEOREM Invariant ==
  ASSUME ~Reconnect PROVE Spec => []IInv
<1>1. IInv /\ [Next]_vars => IInv'
  <2> SUFFICES ASSUME IInv, [Next]_vars PROVE IInv'
    OBVIOUS
  <2>1. Holds BY StepHolds
  <2>2. Functions' /\ AllKept' BY <2>1 DEF Holds, AllKept
  <2> QED BY <2>1, <2>2, StepConnected, StepPorts DEF IInv
<1> QED BY <1>1, InitIInv, PTL DEF Spec

\* The direction of every net that is left to the code is the one that its uses
\* have, whatever the order of blocks, machines and instances (CSymbol::Update).
THEOREM DirectionsInferred ==
  ASSUME ~Reconnect PROVE Spec => []DirectionOfUses
<1>1. IInv => DirectionOfUses
  <2> SUFFICES ASSUME IInv, NEW n \in Name, Inferred(n)
               PROVE  symbols[n].direction = DirectionOf(uses[n])
    BY DEF DirectionOfUses
  <2>1. Open(symbols[n], declared[n], uses[n]) BY DEF Inferred, Open
  <2>2. /\ Remembers(symbols[n], uses[n])
        /\ uses[n] \in {{}, {"INPUT"}, {"OUTPUT"}, Both}
    <3>1. Kept(symbols[n], declared[n], uses[n]) BY DEF IInv, AllKept
    <3>2. uses[n] \subseteq Both
      BY <2>1, <3>1 DEF Kept, Open, NetDirection, Both
    <3> QED BY <2>1, <3>1, <3>2 DEF Kept, Both
  <2>3. /\ DirectionOf({"INPUT"}) = "INPUT" /\ DirectionOf({"OUTPUT"}) = "OUTPUT"
        /\ DirectionOf({}) = "NONPORT" /\ DirectionOf(Both) = "NONPORT"
    BY DEF DirectionOf, Both
  <2> QED BY <2>2, <2>3 DEF Remembers
<1> QED BY <1>1, Invariant, PTL

\* GenSV gives the module the declared ports and the nets used in one direction
\* only (CSymbolTab::ExtractIO).
THEOREM InterfaceInferred ==
  ASSUME ~Reconnect PROVE Spec => []Interface
<1>1. IInv => Interface BY DEF IInv, Ports
<1> QED BY <1>1, Invariant, PTL

-----------------------------------------------------------------------------
\* What GenSV reports.

\* The text names no driver that the table has not.
Drivers ==
  \A n \in Name : drives[n] \subseteq symbols[n].driver /\ IsFiniteSet(symbols[n].driver)

OpenBlocks ==
  [kind : CodeBlock \cup {"inst"}, lsymbols : SUBSET Name, driven : SUBSET Name,
   given : Override \cup {None}]

\* What the open block drives is in the list that it gives to SetDriver.
Listed(b) == b # None => b \in OpenBlocks /\ b.driven \subseteq b.lsymbols

\* Ports are connected only while an instance is open.
Settled ==
  (block # None /\ block.kind = "inst") \/ \A p \in Port : connect_map[p].own

\* A rule has marked net n, which is still to be merged.
Pending(n) ==
  \E p \in todo : /\ connect_map[p].kind # "open" /\ ~connect_map[p].own
                  /\ connect_map[p].name = n

Occurred(s) == s.roccur \/ s.loccur

\* A net is marked as read or driven only if the text reads or drives it.
Marked == \A n \in Name : Occurred(symbols[n]) => uses[n] # {} \/ Pending(n)

RInv ==
  /\ drives = [n \in Name |-> drives[n]]
  /\ Drivers /\ Listed(block) /\ Settled /\ Marked /\ ReportsComplete

\* What a step must show of the drivers ...
DriversGrow ==
  /\ drives' = [n \in Name |-> drives'[n]]
  /\ \A n \in Name : \E B :
       /\ IsFiniteSet(B) /\ symbols'[n].driver = symbols[n].driver \cup B
       /\ drives'[n] \subseteq drives[n] \cup B

\* ... and of the marks.
MarksGrow ==
  \A n \in Name :
    /\ Occurred(symbols'[n]) => Occurred(symbols[n]) \/ uses'[n] # {} \/ Pending(n)'
    /\ uses[n] # {} => uses'[n] # {}
    /\ Pending(n) => uses'[n] # {} \/ Pending(n)'

-----------------------------------------------------------------------------
\* One symbol.

SameMarks(s, t) ==
  /\ IsRecord(t)
  /\ t.driver = s.driver
  /\ Occurred(t) => Occurred(s)

LEMMA SameMarksTrans ==
  ASSUME NEW s, NEW t, NEW u, SameMarks(s, t), SameMarks(t, u) PROVE SameMarks(s, u)
BY DEF SameMarks

\* CSymbolTab::Insert and both CSymbol::Update leave drivers and marks alone.
LEMMA InsertMarks ==
  ASSUME NEW s, IsRecord(s) PROVE SameMarks(s, Insert(s))
BY DEF IsRecord, Fields, Insert, SameMarks, Occurred

LEMMA WidthMarks ==
  ASSUME NEW s, NEW m, IsRecord(s) PROVE SameMarks(s, UpdateMsb(s, m))
BY DEF IsRecord, Fields, UpdateMsb, SameMarks, Occurred

LEMMA DirectionMarks ==
  ASSUME NEW s, NEW d, IsRecord(s) PROVE SameMarks(s, UpdateDirection(s, d))
BY DEF IsRecord, Fields, UpdateDirection, SameMarks, Occurred

\* AddRoccure and AddLoccure leave the drivers alone.
LEMMA OccursMarks ==
  ASSUME NEW s, NEW d, IsRecord(s)
  PROVE  IsRecord(Occurs(s, d)) /\ Occurs(s, d).driver = s.driver
BY DEF IsRecord, Fields, Occurs

\* A use leaves the drivers alone.
LEMMA UsedMarks ==
  ASSUME NEW s, NEW d, IsRecord(s)
  PROVE  IsRecord(Used(s, d)) /\ Used(s, d).driver = s.driver
<1> DEFINE t == UpdateDirection(Insert(s), d)
<1>1. SameMarks(s, t)
  BY InsertMarks, DirectionMarks, SameMarksTrans DEF SameMarks
<1>2. Used(s, d) = Occurs(t, d)
  BY DEF Used
<1> HIDE DEF t
<1> QED BY <1>1, <1>2, OccursMarks DEF SameMarks

-----------------------------------------------------------------------------
\* The whole table.

\* The production net marks the net of the index at most.
LEMMA NetMarks ==
  ASSUME NEW t, NEW n, NEW x, NEW m \in Name, IsRecord(t[m])
  PROVE  /\ IsRecord(Net(t, n, x)[m]) /\ Net(t, n, x)[m].driver = t[m].driver
         /\ m \notin Selects(t, x) => SameMarks(t[m], Net(t, n, x)[m])
<1> DEFINE s == IF m \in Selects(t, x) THEN Used(t[m], "INPUT")
                ELSE IF m \in SymbolsOf(n, x) THEN Insert(t[m]) ELSE t[m]
<1>1. /\ IsRecord(s) /\ s.driver = t[m].driver
      /\ m \notin Selects(t, x) => SameMarks(t[m], s)
  <2>1. CASE m \in Selects(t, x)
    BY <2>1, UsedMarks
  <2>2. CASE m \notin Selects(t, x) /\ m \in SymbolsOf(n, x)
    BY <2>2, InsertMarks DEF SameMarks
  <2>3. CASE m \notin Selects(t, x) /\ m \notin SymbolsOf(n, x)
    BY <2>3 DEF SameMarks
  <2> QED BY <2>1, <2>2, <2>3
<1>2. Net(t, n, x)[m] = IF m = n THEN UpdateMsb(s, IndexMsb(t, x)) ELSE s
  BY DEF Net
<1> HIDE DEF s
<1>3. SameMarks(s, UpdateMsb(s, IndexMsb(t, x)))
  BY <1>1, WidthMarks
<1>4. SameMarks(s, Net(t, n, x)[m])
  BY <1>1, <1>2, <1>3 DEF SameMarks
<1> QED BY <1>1, <1>4 DEF SameMarks

\* Only the clocks of a block are marked at its end.
LEMMA ClocksMarks ==
  ASSUME NEW t, NEW C, NEW m \in Name, IsRecord(t[m])
  PROVE  /\ IsRecord(Clocks(t, C)[m]) /\ Clocks(t, C)[m].driver = t[m].driver
         /\ m \notin C => Clocks(t, C)[m] = t[m]
<1>1. Clocks(t, C)[m] = IF m \in C THEN Used(t[m], "INPUT") ELSE t[m]
  BY DEF Clocks
<1> QED BY <1>1, UsedMarks

\* SetDriver.
LEMMA DrivenMarks ==
  ASSUME NEW t, NEW S, NEW b, NEW m \in Name, IsRecord(t[m])
  PROVE  /\ IsRecord(Driven(t, S, b)[m])
         /\ Driven(t, S, b)[m].driver = t[m].driver \cup IF m \in S THEN {b} ELSE {}
         /\ Occurred(Driven(t, S, b)[m]) => Occurred(t[m])
BY DEF Driven, IsRecord, Fields, Occurred

\* BuildFSM sets widths and values.
LEMMA BuildMarks ==
  ASSUME NEW t, NEW m \in Name, IsRecord(t[m])
  PROVE  SameMarks(t[m], BuildFSM(t)[m])
<1>1. CASE m \in {StateReg, NextReg}
  BY <1>1, WidthMarks DEF BuildFSM
<1>2. CASE m \notin {StateReg, NextReg}
  <2>1. \/ BuildFSM(t)[m] = t[m]
        \/ \E v, w : BuildFSM(t)[m] =
             [t[m] EXCEPT !.is_const = TRUE, !.msb = v, !.value = w]
        \/ \E w : BuildFSM(t)[m] = [t[m] EXCEPT !.is_const = TRUE, !.value = w]
    BY <1>2, Zenon DEF BuildFSM
  <2> QED BY <2>1 DEF IsRecord, Fields, SameMarks, Occurred
<1> QED BY <1>1, <1>2

\* A step that only changes other things of the table.
LEMMA SameMarksGrow ==
  ASSUME IInv, RInv, UNCHANGED <<drives, connect_map, todo>>,
         \A n \in Name : SameMarks(symbols[n], symbols'[n]),
         \A n \in Name : uses[n] \subseteq uses'[n]
  PROVE  DriversGrow /\ MarksGrow
<1>1. DriversGrow
  <2> SUFFICES ASSUME NEW n \in Name
               PROVE  /\ IsFiniteSet({}) /\ symbols'[n].driver = symbols[n].driver \cup {}
                      /\ drives'[n] \subseteq drives[n] \cup {}
    BY DEF DriversGrow, RInv
  <2> QED BY FS_EmptySet DEF SameMarks
<1>2. \A n \in Name : Pending(n) => Pending(n)'
  BY DEF Pending
<1> QED BY <1>1, <1>2 DEF MarksGrow, SameMarks

-----------------------------------------------------------------------------
\* What each action does to drivers and marks.

\* The table holds symbols.
LEMMA Records == IInv => \A n \in Name : IsRecord(symbols[n])
BY DEF IInv, AllKept, Kept

Grow == DriversGrow /\ MarksGrow

\* A declaration.
LEMMA DeclareGrows ==
  ASSUME IInv, RInv, NEW n \in Name, NEW d \in Directions, NEW x, NEW v, NEW m,
         \/ DeclarePort(d, n, x)
         \/ DeclareVariable(n, m) \/ DeclareArray(n, m) \/ DeclareConstant(n, v, m)
  PROVE  Grow
<1> DEFINE s == Insert(symbols[n])
           c == [s EXCEPT !.is_const = TRUE, !.value = v]
           t == UpdateMsb(s, x.at)
<1>1. /\ uses' = uses /\ drives' = drives /\ connect_map' = connect_map /\ todo' = todo
      /\ \/ symbols' = [symbols EXCEPT ![n] =
              [Insert(@) EXCEPT !.io_fixed = TRUE, !.direction = d]]
         \/ symbols' = [symbols EXCEPT ![n] =
              [UpdateMsb(Insert(@), x.at)
                 EXCEPT !.io_fixed = TRUE, !.direction = d, !.width_fixed = TRUE]]
         \/ symbols' = [symbols EXCEPT ![n] =
              [Insert(@) EXCEPT !.width_fixed = TRUE, !.msb = m]]
         \/ symbols' = [symbols EXCEPT ![n] =
              [Insert(@) EXCEPT !.direction = "NONPORT", !.io_fixed = TRUE,
                                !.is_2D = TRUE, !.width_fixed = TRUE, !.msb = m]]
         \/ symbols' = [symbols EXCEPT ![n] =
              UpdateMsb([Insert(@) EXCEPT !.is_const = TRUE, !.value = v], m)]
  BY DEF DeclarePort, PlainPort, RangedPort, DeclareVariable, DeclareArray,
         DeclareConstant, instance, text
<1>2. symbols = [k \in Name |-> symbols[k]] /\ \A k \in Name : IsRecord(symbols[k])
  BY Records DEF IInv, Functions
<1>3. SameMarks(symbols[n], s)
  BY <1>2, InsertMarks
<1>4. SameMarks(s, t)
  BY <1>3, WidthMarks DEF SameMarks
<1>5. \/ symbols'[n] = [s EXCEPT !.io_fixed = TRUE, !.direction = d]
      \/ symbols'[n] = [t EXCEPT !.io_fixed = TRUE, !.direction = d, !.width_fixed = TRUE]
      \/ symbols'[n] = [s EXCEPT !.width_fixed = TRUE, !.msb = m]
      \/ symbols'[n] = [s EXCEPT !.direction = "NONPORT", !.io_fixed = TRUE,
                                 !.is_2D = TRUE, !.width_fixed = TRUE, !.msb = m]
      \/ symbols'[n] = UpdateMsb(c, m)
  BY <1>1, <1>2
<1>6. Holds
  BY DeclarePortHolds, DeclareNetHolds
<1>7. IsRecord(symbols'[n])
  BY <1>6 DEF Holds, Kept
<1> HIDE DEF s, t
<1>8. SameMarks(symbols[n], symbols'[n])
  <2>1. CASE symbols'[n] = UpdateMsb(c, m)
    <3>1. SameMarks(s, c)
      BY <1>3 DEF SameMarks, IsRecord, Fields, Occurred
    <3> HIDE DEF c
    <3>2. SameMarks(c, symbols'[n])
      BY <2>1, <3>1, WidthMarks DEF SameMarks
    <3> QED BY <1>3, <3>1, <3>2 DEF SameMarks
  <2>2. CASE symbols'[n] # UpdateMsb(c, m)
    <3>1. IsRecord(s) /\ IsRecord(t)
      BY <1>3, <1>4 DEF SameMarks
    <3>2. \/ /\ symbols'[n].driver = s.driver
             /\ symbols'[n].roccur = s.roccur /\ symbols'[n].loccur = s.loccur
          \/ /\ symbols'[n].driver = t.driver
             /\ symbols'[n].roccur = t.roccur /\ symbols'[n].loccur = t.loccur
      BY <1>5, <2>2, <3>1 DEF IsRecord, Fields
    <3> QED BY <1>3, <1>4, <1>7, <3>2 DEF SameMarks, Occurred
  <2> QED BY <2>1, <2>2
<1>9. \A k \in Name : k # n => symbols'[k] = symbols[k]
  BY <1>1, <1>2
<1>10. \A k \in Name : SameMarks(symbols[k], symbols'[k])
  BY <1>2, <1>8, <1>9 DEF SameMarks
<1> QED BY <1>1, <1>10, SameMarksGrow DEF Grow

\* Symbols are inserted and nothing else.
LEMMA InsertedGrow ==
  ASSUME IInv, RInv, UNCHANGED <<uses, drives, connect_map, todo>>, NEW S,
         symbols' = [m \in Name |-> IF m \in S THEN Insert(symbols[m]) ELSE symbols[m]]
  PROVE  Grow
<1>1. \A m \in Name : SameMarks(symbols[m], symbols'[m])
  BY Records, InsertMarks DEF SameMarks
<1> QED BY <1>1, SameMarksGrow DEF Grow

\* The parts of a state machine.
LEMMA MachineGrows ==
  ASSUME IInv, RInv, \/ OpenFSM
                     \/ \E s \in State : StateItem(s) \/ Goto(s)
  PROVE  Grow
<1> USE DEF instance, text
<1>1. CASE OpenFSM
  BY <1>1, InsertedGrow DEF OpenFSM
<1>2. ASSUME NEW s \in State, StateItem(s) PROVE Grow
  BY <1>2, InsertedGrow DEF StateItem
<1>3. ASSUME NEW s \in State, Goto(s) PROVE Grow
  <2>1. symbols' = [m \in Name |-> IF m \in {s} THEN Insert(symbols[m])
                                   ELSE symbols[m]]
    BY <1>3 DEF Goto, IInv, Functions
  <2> QED BY <1>3, <2>1, InsertedGrow DEF Goto
<1> QED BY <1>1, <1>2, <1>3

\* A net with an index, on either side of an assignment.
LEMMA UseGrows ==
  ASSUME IInv, RInv, NEW n \in Name, NEW x, NEW e,
         UNCHANGED <<drives, connect_map, todo>>,
         symbols' = [Net(symbols, n, x) EXCEPT ![n] = Used(@, e)],
         uses' = With(With(uses, Selects(symbols, x), "INPUT"), {n}, e)
  PROVE  Grow
<1> DEFINE t == Net(symbols, n, x)
           T == Selects(symbols, x)
<1>1. \A m \in Name : /\ IsRecord(t[m]) /\ t[m].driver = symbols[m].driver
                      /\ m \notin T => SameMarks(symbols[m], t[m])
  BY Records, NetMarks
<1>2. /\ \A m \in Name : m # n => symbols'[m] = t[m]
      /\ symbols'[n] = Used(t[n], e)
  <2>1. t = [m \in Name |-> t[m]] BY DEF Net
  <2> HIDE DEF t
  <2> QED BY <2>1 DEF t
<1>3. \A m \in Name : /\ uses[m] \subseteq uses'[m]
                      /\ m \in T \/ m = n => uses'[m] # {}
  BY DEF With
<1> HIDE DEF t, T
<1>4. \A m \in Name : symbols'[m].driver = symbols[m].driver
  BY <1>1, <1>2, UsedMarks
<1>5. \A m \in Name : m \notin T /\ m # n => (Occurred(symbols'[m]) => Occurred(symbols[m]))
  BY <1>1, <1>2 DEF SameMarks
<1>6. DriversGrow
  <2> SUFFICES ASSUME NEW m \in Name
               PROVE  /\ IsFiniteSet({}) /\ symbols'[m].driver = symbols[m].driver \cup {}
                      /\ drives'[m] \subseteq drives[m] \cup {}
    BY DEF DriversGrow, RInv
  <2> QED BY <1>4, FS_EmptySet
<1>7. \A m \in Name : Pending(m) => Pending(m)'
  BY DEF Pending
<1> QED BY <1>3, <1>5, <1>6, <1>7 DEF Grow, MarksGrow

\* Both sides of an assignment.
LEMMA DriveGrows ==
  ASSUME IInv, RInv, NEW n \in Name, NEW x, NEW f, Drive(n, x, f)
  PROVE  Grow
BY UseGrows DEF Drive, instance

LEMMA ReadGrows ==
  ASSUME IInv, RInv, NEW n \in Name, NEW x, Read(n, x)
  PROVE  Grow
<1>1. With(uses, {n} \cup Selects(symbols, x), "INPUT")
        = With(With(uses, Selects(symbols, x), "INPUT"), {n}, "INPUT")
  BY DEF With
<1> QED BY <1>1, UseGrows DEF Read, instance

\* The end of a block: what the text drives is driven in the table.
LEMMA CloseGrows ==
  ASSUME IInv, RInv, NEW C, NEW u, uses' = With(uses, C, "INPUT"),
         UNCHANGED <<connect_map, todo>>,
         \A n \in Name : SameMarks(Clocks(symbols, C)[n], u[n]),
         drives' = [n \in Name |-> drives'[n]],
         \A n \in Name : \E B :
           /\ IsFiniteSet(B) /\ symbols'[n].driver = u[n].driver \cup B
           /\ Occurred(symbols'[n]) => Occurred(u[n])
           /\ drives'[n] \subseteq drives[n] \cup B
  PROVE  Grow
<1>1. \A n \in Name : /\ Clocks(symbols, C)[n].driver = symbols[n].driver
                      /\ n \notin C => Clocks(symbols, C)[n] = symbols[n]
  BY Records, ClocksMarks
<1>2. \A n \in Name : u[n].driver = symbols[n].driver
  BY <1>1 DEF SameMarks
<1>3. DriversGrow
  BY <1>2 DEF DriversGrow
<1>4. \A n \in Name : /\ uses[n] \subseteq uses'[n]
                      /\ n \in C => uses'[n] # {}
  BY DEF With
<1>5. \A n \in Name : n \notin C => (Occurred(symbols'[n]) => Occurred(symbols[n]))
  BY <1>1 DEF SameMarks
<1>6. \A n \in Name : Pending(n) => Pending(n)'
  BY DEF Pending
<1> QED BY <1>3, <1>4, <1>5, <1>6 DEF Grow, MarksGrow

\* CBlkAssign, CBlkComb and the clocked blocks.
LEMMA CloseBlockGrows ==
  ASSUME IInv, RInv, NEW C, CloseBlock(C)
  PROVE  Grow
<1> DEFINE t == Clocks(symbols, C)
<1>1. /\ symbols' = Driven(t, block.lsymbols, code_blocks)
      /\ drives' = With(drives, block.driven, code_blocks)
      /\ block.driven \subseteq block.lsymbols
      /\ uses' = With(uses, C, "INPUT") /\ connect_map' = connect_map /\ todo' = todo
  BY DEF CloseBlock, RInv, Listed, In, instance
<1>2. \A n \in Name : IsRecord(t[n])
  BY Records, ClocksMarks
<1>3. \A n \in Name : SameMarks(t[n], t[n])
  BY <1>2 DEF SameMarks
<1> HIDE DEF t
<1>4. ASSUME NEW n \in Name
      PROVE  \E B : /\ IsFiniteSet(B) /\ symbols'[n].driver = t[n].driver \cup B
                    /\ Occurred(symbols'[n]) => Occurred(t[n])
                    /\ drives'[n] \subseteq drives[n] \cup B
  <2> DEFINE B == IF n \in block.lsymbols THEN {code_blocks} ELSE {}
  <2>1. IsFiniteSet(B)
    BY FS_EmptySet, FS_Singleton
  <2>2. symbols'[n].driver = t[n].driver \cup B /\ (Occurred(symbols'[n]) => Occurred(t[n]))
    BY <1>1, <1>2, DrivenMarks
  <2>3. drives'[n] \subseteq drives[n] \cup B
    BY <1>1 DEF With
  <2> QED BY <2>1, <2>2, <2>3
<1>5. drives' = [n \in Name |-> drives'[n]]
  BY <1>1 DEF With
<1> QED BY <1>1, <1>3, <1>4, <1>5, CloseGrows DEF t

\* A state machine drives its registers as a block of their own.
LEMMA CloseFSMGrows ==
  ASSUME IInv, RInv, NEW C, CloseFSM(C)
  PROVE  Grow
<1> DEFINE t == Clocks(symbols, C)
           u == BuildFSM(t)
           v == Driven(u, block.lsymbols \cup {NextReg}, code_blocks)
           b == Registers(code_blocks)
<1>1. /\ symbols' = Driven(v, {StateReg}, b)
      /\ drives' = With(With(drives, block.driven \cup {NextReg}, code_blocks), {StateReg}, b)
      /\ block.driven \subseteq block.lsymbols
      /\ uses' = With(uses, C, "INPUT") /\ connect_map' = connect_map /\ todo' = todo
  BY DEF CloseFSM, RInv, Listed, In, instance
<1>2. \A n \in Name : IsRecord(t[n])
  BY Records, ClocksMarks
<1>3. \A n \in Name : SameMarks(t[n], u[n])
  BY <1>2, BuildMarks
<1> HIDE DEF t, u, b
<1>4. ASSUME NEW n \in Name
      PROVE  \E B : /\ IsFiniteSet(B) /\ symbols'[n].driver = u[n].driver \cup B
                    /\ Occurred(symbols'[n]) => Occurred(u[n])
                    /\ drives'[n] \subseteq drives[n] \cup B
  <2> DEFINE B1 == IF n \in block.lsymbols \cup {NextReg} THEN {code_blocks} ELSE {}
             B2 == IF n \in {StateReg} THEN {b} ELSE {}
  <2>1. IsFiniteSet(B1 \cup B2)
    BY FS_EmptySet, FS_Singleton, FS_Union
  <2>2. IsRecord(u[n])
    BY <1>3 DEF SameMarks
  <2>3. /\ IsRecord(v[n]) /\ v[n].driver = u[n].driver \cup B1
        /\ Occurred(v[n]) => Occurred(u[n])
    BY <2>2, DrivenMarks
  <2> HIDE DEF v
  <2>4. /\ symbols'[n].driver = v[n].driver \cup B2
        /\ Occurred(symbols'[n]) => Occurred(v[n])
    BY <1>1, <2>3, DrivenMarks
  <2>5. drives'[n] \subseteq drives[n] \cup (B1 \cup B2)
    BY <1>1 DEF With
  <2> HIDE DEF B1, B2
  <2>6. symbols'[n].driver = u[n].driver \cup (B1 \cup B2)
    BY <2>3, <2>4
  <2> QED BY <2>1, <2>3, <2>4, <2>5, <2>6
<1>5. drives' = [n \in Name |-> drives'[n]]
  BY <1>1 DEF With
<1> HIDE DEF v
<1> QED BY <1>1, <1>3, <1>4, <1>5, CloseGrows DEF t

\* A step that leaves symbols, uses and drivers alone.
LEMMA UnchangedGrow ==
  ASSUME IInv, RInv, UNCHANGED <<symbols, uses, drives>>,
         \A n \in Name : Pending(n) => Pending(n)'
  PROVE  Grow
<1>1. DriversGrow
  <2> SUFFICES ASSUME NEW n \in Name
               PROVE  /\ IsFiniteSet({}) /\ symbols'[n].driver = symbols[n].driver \cup {}
                      /\ drives'[n] \subseteq drives[n] \cup {}
    BY DEF DriversGrow, RInv
  <2> QED BY FS_EmptySet
<1> QED BY <1>1 DEF Grow, MarksGrow

\* A connection rule marks its net, which is pending from then on.
LEMMA ConnectGrows ==
  ASSUME IInv, RInv, ~Reconnect, NEW p \in Port, NEW k \in {"net", "concat", "operator"},
         NEW n \in Name, NEW x, Connect(p, k, n, x)
  PROVE  Grow
<1> DEFINE t == Net(symbols, n, x)
           T == Selects(symbols, x)
           c == [kind |-> k, own |-> FALSE, name |-> n, index |-> x]
<1>1. /\ symbols' = [t EXCEPT ![n] = Occurs(@, PortDirection[p])]
      /\ connect_map' = [connect_map EXCEPT ![p] = c]
      /\ connect_map[p].own /\ todo = Port /\ todo' = todo
      /\ uses' = With(uses, T, "INPUT") /\ drives' = drives
  BY DEF Connect
<1>2. \A m \in Name : /\ IsRecord(t[m]) /\ t[m].driver = symbols[m].driver
                      /\ m \notin T => SameMarks(symbols[m], t[m])
  BY Records, NetMarks
<1>3. /\ \A m \in Name : m # n => symbols'[m] = t[m]
      /\ symbols'[n] = Occurs(t[n], PortDirection[p])
  <2>1. t = [m \in Name |-> t[m]] BY DEF Net
  <2> HIDE DEF t
  <2> QED BY <1>1, <2>1
<1>4. \A m \in Name : /\ uses[m] \subseteq uses'[m]
                      /\ m \in T => uses'[m] # {}
  BY <1>1 DEF With
<1>5. connect_map = [q \in Port |-> connect_map[q]]
  BY DEF IInv, Connected
<1>6. c.kind = k /\ c.name = n /\ ~c.own
  OBVIOUS
<1> HIDE DEF t, T, c
<1>7. connect_map'[p] = c /\ \A q \in Port : q # p => connect_map'[q] = connect_map[q]
  BY <1>1, <1>5
<1>8. Pending(n)'
  BY <1>1, <1>6, <1>7 DEF Pending
<1>9. \A m \in Name : Pending(m) => Pending(m)'
  <2> SUFFICES ASSUME NEW m \in Name, Pending(m) PROVE Pending(m)'
    OBVIOUS
  <2>1. PICK q \in todo : /\ connect_map[q].kind # "open" /\ ~connect_map[q].own
                          /\ connect_map[q].name = m
    BY DEF Pending
  <2>2. q # p
    BY <1>1, <2>1
  <2> QED BY <1>1, <1>7, <2>1, <2>2 DEF Pending
<1>10. \A m \in Name : symbols'[m].driver = symbols[m].driver
  BY <1>2, <1>3, OccursMarks
<1>11. \A m \in Name : m \notin T /\ m # n => (Occurred(symbols'[m]) => Occurred(symbols[m]))
  BY <1>2, <1>3 DEF SameMarks
<1>12. DriversGrow
  <2> SUFFICES ASSUME NEW m \in Name
               PROVE  /\ IsFiniteSet({}) /\ symbols'[m].driver = symbols[m].driver \cup {}
                      /\ drives'[m] \subseteq drives[m] \cup {}
    BY <1>1 DEF DriversGrow, RInv
  <2> QED BY <1>1, <1>10, FS_EmptySet
<1> QED BY <1>4, <1>8, <1>9, <1>11, <1>12 DEF Grow, MarksGrow

\* The net of a port is used where it is merged.
LEMMA MergedGrow ==
  ASSUME IInv, RInv, NEW p \in Port, NEW e, NEW r,
         LET n == connect_map[p].name IN
         /\ symbols' = [symbols EXCEPT ![n] = r]
         /\ r.driver = symbols[n].driver
         /\ uses' = With(uses, {n}, e),
         UNCHANGED <<drives, connect_map>>, todo' = todo \ {p}
  PROVE  Grow
<1> DEFINE n == connect_map[p].name
<1>1. n \in Name
  BY DEF IInv, Connected, Connection
<1>2. symbols'[n] = r /\ \A m \in Name : m # n => symbols'[m] = symbols[m]
  BY <1>1 DEF IInv, Functions
<1>3. uses'[n] # {} /\ \A m \in Name : uses[m] \subseteq uses'[m]
  BY <1>1 DEF With
<1>4. \A m \in Name : symbols'[m].driver = symbols[m].driver
  BY <1>2
<1>5. \A m \in Name : m # n /\ Pending(m) => Pending(m)'
  BY DEF Pending
<1> HIDE DEF n
<1>6. DriversGrow
  <2> SUFFICES ASSUME NEW m \in Name
               PROVE  /\ IsFiniteSet({}) /\ symbols'[m].driver = symbols[m].driver \cup {}
                      /\ drives'[m] \subseteq drives[m] \cup {}
    BY DEF DriversGrow, RInv
  <2> QED BY <1>4, FS_EmptySet
<1> QED BY <1>2, <1>3, <1>5, <1>6 DEF Grow, MarksGrow

\* The net of a connection by name ...
LEMMA MergeNetGrows ==
  ASSUME IInv, RInv, NEW p \in Port, MergeNet(p)
  PROVE  Grow
<1> DEFINE n == connect_map[p].name
           d == PortDirection[p]
           s == UpdateMsb(Insert(symbols[n]), ConnectedMsb(p))
           u == UpdateDirection(s, d)
<1>1. n \in Name
  BY DEF IInv, Connected, Connection
<1>2. /\ symbols' = [symbols EXCEPT ![n] = Merged(p)]
      /\ uses' = With(uses, {n}, d) /\ drives' = drives /\ connect_map' = connect_map
      /\ todo' = todo \ {p}
  BY DEF MergeNet, Merges
<1>3. Merged(p) \in {u, Occurs(u, d)}
  BY DEF Merged
<1>4. SameMarks(symbols[n], Insert(symbols[n]))
  BY <1>1, Records, InsertMarks
<1>5. SameMarks(Insert(symbols[n]), s)
  BY <1>4, WidthMarks DEF SameMarks
<1> HIDE DEF s
<1>6. SameMarks(s, u)
  BY <1>5, DirectionMarks DEF SameMarks
<1> HIDE DEF u
<1>7. Merged(p).driver = symbols[n].driver
  BY <1>3, <1>4, <1>5, <1>6, OccursMarks DEF SameMarks
<1> QED BY <1>2, <1>7, MergedGrow

\* ... and the net of an expression.
LEMMA MergeExpressionGrows ==
  ASSUME IInv, RInv, NEW p \in Port, MergeExpression(p)
  PROVE  Grow
<1> DEFINE n == connect_map[p].name
           r == UpdateDirection(symbols[n], PortDirection[p])
<1>1. n \in Name
  BY DEF IInv, Connected, Connection
<1>2. /\ symbols' = [symbols EXCEPT ![n] = r]
      /\ uses' = With(uses, {n}, PortDirection[p]) /\ drives' = drives
      /\ connect_map' = connect_map /\ todo' = todo \ {p}
  BY DEF MergeExpression, Merges
<1>3. r.driver = symbols[n].driver
  BY <1>1, Records, DirectionMarks DEF SameMarks
<1> HIDE DEF r
<1> QED BY <1>2, <1>3, MergedGrow

\* No net that is used is taken out with the instance.
LEMMA CloseInstanceGrows ==
  ASSUME IInv, RInv, CloseInstance
  PROVE  Grow
<1>1. symbol_to_remove = {} /\ todo = {} /\ todo' = todo
  BY DEF CloseInstance, IInv, Connected
<1> DEFINE t == [m \in Name |-> IF m \in symbol_to_remove
                                THEN NewSymbol ELSE symbols[m]]
<1>2. /\ symbols' = Driven(t, block.lsymbols \ symbol_to_remove, code_blocks)
      /\ drives' = With(drives, block.driven, code_blocks) /\ uses' = uses
      /\ block.driven \subseteq block.lsymbols
  BY DEF CloseInstance, RInv, Listed, In
<1>3. t = symbols
  BY <1>1 DEF IInv, Functions
<1> HIDE DEF t
<1>4. symbols' = Driven(symbols, block.lsymbols, code_blocks)
  BY <1>1, <1>2, <1>3
<1>5. ASSUME NEW n \in Name
      PROVE  \E B : /\ IsFiniteSet(B) /\ symbols'[n].driver = symbols[n].driver \cup B
                    /\ Occurred(symbols'[n]) => Occurred(symbols[n])
                    /\ drives'[n] \subseteq drives[n] \cup B
  <2> DEFINE B == IF n \in block.lsymbols THEN {code_blocks} ELSE {}
  <2>1. IsFiniteSet(B)
    BY FS_EmptySet, FS_Singleton
  <2>2. /\ symbols'[n].driver = symbols[n].driver \cup B
        /\ Occurred(symbols'[n]) => Occurred(symbols[n])
    BY <1>4, Records, DrivenMarks
  <2>3. drives'[n] \subseteq drives[n] \cup B
    BY <1>2 DEF With
  <2> QED BY <2>1, <2>2, <2>3
<1>6. drives' = [n \in Name |-> drives'[n]]
  BY <1>2 DEF With
<1>7. \A n \in Name : ~Pending(n)
  BY <1>1 DEF Pending
<1> QED BY <1>2, <1>5, <1>6, <1>7 DEF Grow, DriversGrow, MarksGrow

\* A connection that the text has not given is not pending, nor is one left open.
LEMMA OtherInstGrow ==
  ASSUME IInv, RInv, ~Reconnect,
         \/ \E v : OpenInstance(v)
         \/ \E p \in Port : LeaveOpen(p) \/ MergeOpen(p)
         \/ Rename \/ NoValue
  PROVE  Grow
<1>0. todo \subseteq Port /\ connect_map = [q \in Port |-> connect_map[q]]
  BY DEF IInv, Connected
<1>1. ASSUME NEW v, OpenInstance(v) PROVE Grow
  <2>1. \A n \in Name : Pending(n) => Pending(n)'
    BY <1>0, <1>1 DEF OpenInstance, Pending
  <2> QED BY <1>1, <2>1, UnchangedGrow DEF OpenInstance, table, text
<1>2. ASSUME NEW p \in Port, LeaveOpen(p) PROVE Grow
  <2>1. /\ connect_map[p].own /\ todo' = todo
        /\ \A q \in Port : q # p => connect_map'[q] = connect_map[q]
    BY <1>0, <1>2 DEF LeaveOpen
  <2>2. \A n \in Name : Pending(n) => Pending(n)'
    BY <1>0, <2>1 DEF Pending
  <2> QED BY <1>2, <2>2, UnchangedGrow DEF LeaveOpen, table, text
<1>3. ASSUME NEW p \in Port, MergeOpen(p) PROVE Grow
  <2>1. \A n \in Name : Pending(n) => Pending(n)'
    BY <1>0, <1>3 DEF MergeOpen, Merges, Pending
  <2> QED BY <1>3, <2>1, UnchangedGrow DEF MergeOpen, Merges
<1>4. ASSUME Rename PROVE Grow
  <2>1. /\ todo' = todo
        /\ \A q \in Port : ~connect_map[q].own => connect_map'[q] = connect_map[q]
    BY <1>4 DEF Rename
  <2>2. \A n \in Name : Pending(n) => Pending(n)'
    BY <1>0, <2>1 DEF Pending
  <2> QED BY <1>4, <2>2, UnchangedGrow DEF Rename, table, text
<1>5. ASSUME NoValue PROVE Grow
  <2>1. \A n \in Name : Pending(n) => Pending(n)'
    BY <1>5 DEF NoValue, Error, instance, Pending
  <2> QED BY <1>5, <2>1, UnchangedGrow DEF NoValue, Error, table, text
<1> QED BY <1>1, <1>2, <1>3, <1>4, <1>5

\* Every step.
LEMMA StepGrows ==
  ASSUME IInv, RInv, ~Reconnect, [Next]_vars PROVE Grow
<1> USE NameAssumption
<1>0. ASSUME UNCHANGED <<symbols, uses, drives, connect_map, todo>> PROVE Grow
  <2>1. \A n \in Name : Pending(n) => Pending(n)'
    BY <1>0 DEF Pending
  <2> QED BY <1>0, <2>1, UnchangedGrow
<1>1. CASE Declare
  <2>1. ASSUME NEW n \in Signal, NEW x, NEW d \in Directions, DeclarePort(d, n, x)
        PROVE  Grow
    BY <2>1, DeclareGrows
  <2>2. ASSUME NEW n \in Signal, NEW x, DeclarePortError(n, x) PROVE Grow
    BY <1>0, <2>2 DEF DeclarePortError, Error, table, text, instance
  <2>3. ASSUME NEW n \in Signal \cup Constant, NEW v, NEW m,
               \/ DeclareVariable(n, m) \/ DeclareArray(n, m)
               \/ DeclareConstant(n, v, m)
        PROVE  Grow
    <3>1. "INPUT" \in Directions BY DEF Directions
    <3> QED BY <2>3, <3>1, DeclareGrows
  <2> QED BY <1>1, <2>1, <2>2, <2>3 DEF Declare
<1>2. CASE Code
  <2>1. ASSUME NEW k \in CodeBlock, OpenBlock(k) PROVE Grow
    BY <1>0, <2>1 DEF OpenBlock, table, text, instance
  <2>2. ASSUME NEW n \in Signal, NEW x, Read(n, x) PROVE Grow
    BY <2>2, ReadGrows
  <2>3. ASSUME NEW n \in Signal, NEW x, NEW f, Drive(n, x, f) PROVE Grow
    BY <2>3, DriveGrows
  <2>4. ASSUME NEW n \in Signal, NEW x \in Index, IndexOutOfRange(n, x) PROVE Grow
    BY <1>0, <2>4 DEF IndexOutOfRange, Error, table, text, instance
  <2>5. ASSUME NEW C, CloseBlock(C) PROVE Grow
    BY <2>5, CloseBlockGrows
  <2> QED BY <1>2, <2>1, <2>2, <2>3, <2>4, <2>5 DEF Code
<1>3. CASE Machine
  <2>1. ASSUME RefuseFSM PROVE Grow
    BY <1>0, <2>1 DEF RefuseFSM, Error, table, text, instance
  <2>2. ASSUME NEW C, CloseFSM(C) PROVE Grow
    BY <2>2, CloseFSMGrows
  <2> QED BY <1>3, <2>1, <2>2, MachineGrows DEF Machine
<1>4. CASE Inst
  <2>1. ASSUME NEW p \in Port, NEW k \in {"net", "concat", "operator"}, NEW n \in Signal,
               NEW x, Connect(p, k, n, x)
        PROVE  Grow
    BY <2>1, ConnectGrows
  <2>2. ASSUME NEW p \in Port, MergeNet(p) \/ MergeExpression(p) PROVE Grow
    BY <2>2, MergeNetGrows, MergeExpressionGrows
  <2> QED BY <1>4, <2>1, <2>2, OtherInstGrow, CloseInstanceGrows DEF Inst
<1>5. CASE Generate
  BY <1>0, <1>5 DEF Generate, GenSV, DropResult, table, text, instance
<1>6. CASE UNCHANGED vars
  BY <1>0, <1>6 DEF vars
<1> QED BY <1>1, <1>2, <1>3, <1>4, <1>5, <1>6 DEF Next

-----------------------------------------------------------------------------
\* The open block.

\* A net, with the net of its index, in the list and what it drives.
LEMMA Extended ==
  ASSUME NEW b \in OpenBlocks, b.driven \subseteq b.lsymbols,
         NEW L \in SUBSET Name, NEW D \in SUBSET L
  PROVE  LET c == [b EXCEPT !.lsymbols = @ \cup L, !.driven = @ \cup D]
         IN Listed(c) /\ c.kind = b.kind /\ c # None
<1> DEFINE c == [b EXCEPT !.lsymbols = @ \cup L, !.driven = @ \cup D]
<1>1. /\ c \in OpenBlocks /\ c.kind = b.kind
      /\ c.lsymbols = b.lsymbols \cup L /\ c.driven = b.driven \cup D
  BY DEF OpenBlocks
<1> HIDE DEF c
<1>2. c # None
  BY <1>1, NameAssumption DEF OpenBlocks, CodeBlock, Clocked
<1>3. Listed(c)
  BY <1>1 DEF Listed
<1> QED BY <1>1, <1>2, <1>3 DEF c

\* A new block drives nothing.
LEMMA NewListed ==
  ASSUME NEW k \in CodeBlock \cup {"inst"}, NEW v \in Override \cup {None}
  PROVE  Listed(NewBlock(k, v)) /\ NewBlock(k, v).kind = k /\ NewBlock(k, v) # None
<1> DEFINE b == NewBlock(k, v)
<1>1. b \in OpenBlocks /\ b.driven \subseteq b.lsymbols /\ b.kind = k
  BY DEF NewBlock, OpenBlocks
<1> HIDE DEF b
<1>2. b # None
  BY <1>1, NameAssumption DEF OpenBlocks, CodeBlock, Clocked
<1> QED BY <1>1, <1>2 DEF Listed, b

BlockHolds == Listed(block)' /\ Settled'

\* Both lists get the net of an assignment.
LEMMA DriveBlock ==
  ASSUME RInv, NEW n \in Name, NEW x \in Index, NEW f \in BOOLEAN, Drive(n, x, f)
  PROVE  BlockHolds
<1> DEFINE L == Lsymbols(n, x, f)
           D == IF f THEN {} ELSE {n}
<1>1. /\ block # None /\ block.kind # "inst" /\ connect_map' = connect_map
      /\ block' = [block EXCEPT !.lsymbols = @ \cup L, !.driven = @ \cup D]
  BY DEF Drive, In, instance, CodeBlock, Clocked
<1>2. L \in SUBSET Name /\ D \in SUBSET L
  BY NameAssumption DEF Lsymbols, SymbolsOf, Index
<1> HIDE DEF L, D
<1>3. block \in OpenBlocks /\ block.driven \subseteq block.lsymbols
  BY <1>1 DEF RInv, Listed
<1>4. Listed(block')
  BY <1>1, <1>2, <1>3, Extended
<1>5. Settled'
  BY <1>1 DEF RInv, Settled
<1> QED BY <1>4, <1>5 DEF BlockHolds, Listed

\* The instance stays open while its ports are merged.
LEMMA MergeBlock ==
  ASSUME IInv, RInv, NEW p \in Port,
         MergeNet(p) \/ MergeExpression(p) \/ MergeOpen(p)
  PROVE  BlockHolds /\ block' # None
<1>1. block # None /\ block.kind = "inst" /\ block' \in {block, DrivenBy(p)}
  BY DEF MergeNet, MergeExpression, MergeOpen, Merges, In
<1>2. block \in OpenBlocks /\ block.driven \subseteq block.lsymbols
  BY <1>1 DEF RInv, Listed
<1>3. Listed(block') /\ block' # None /\ block'.kind = "inst"
  <2>1. CASE block' = block
    BY <1>1, <2>1 DEF RInv
  <2>2. CASE block' # block
    <3> DEFINE L == SymbolsOf(connect_map[p].name, connect_map[p].index)
               D == {connect_map[p].name}
    <3>1. block' = [block EXCEPT !.lsymbols = @ \cup L, !.driven = @ \cup D]
      BY <1>1, <2>2 DEF DrivenBy
    <3>2. L \in SUBSET Name /\ D \in SUBSET L
      <4>1. connect_map[p].name \in Name /\ connect_map[p].index \in Index
        BY DEF IInv, Connected, Connection
      <4> QED BY <4>1, NameAssumption DEF SymbolsOf, Index
    <3> HIDE DEF L, D
    <3> QED BY <1>1, <1>2, <3>1, <3>2, Extended
  <2> QED BY <2>1, <2>2
<1> QED BY <1>3 DEF BlockHolds, Listed, Settled

\* A new block, while no port is connected.
LEMMA OpenedBlock ==
  ASSUME RInv, block = None, connect_map' = connect_map,
         NEW k \in CodeBlock \cup {"inst"}, NEW v \in Override \cup {None},
         block' = NewBlock(k, v)
  PROVE  BlockHolds
<1>1. Listed(block')
  BY NewListed
<1>2. Settled'
  BY DEF RInv, Settled
<1> QED BY <1>1, <1>2 DEF BlockHolds, Listed

\* With the block, its connections are gone.
LEMMA ClosedBlock ==
  ASSUME block' = None, \A p \in Port : connect_map'[p].own
  PROVE  BlockHolds
BY DEF BlockHolds, Listed, Settled

LEMMA SameBlock ==
  ASSUME RInv, UNCHANGED <<block, connect_map>> PROVE BlockHolds
BY DEF RInv, BlockHolds, Listed, Settled

\* Every step.
LEMMA StepBlock ==
  ASSUME IInv, RInv, [Next]_vars PROVE BlockHolds
<1> USE NameAssumption
<1>1. CASE Declare
  BY <1>1, SameBlock
     DEF Declare, DeclarePort, DeclarePortError, DeclareVariable, DeclareArray,
         DeclareConstant, Error, instance
<1>2. CASE Code
  <2>1. ASSUME NEW k \in CodeBlock, OpenBlock(k) PROVE BlockHolds
    BY <2>1, OpenedBlock DEF OpenBlock, Between, instance
  <2>2. ASSUME NEW n \in Signal, NEW x, Read(n, x) PROVE BlockHolds
    BY <2>2, SameBlock DEF Read, instance
  <2>3. ASSUME NEW n \in Signal, NEW x \in Index, NEW f \in BOOLEAN, Drive(n, x, f)
        PROVE  BlockHolds
    BY <2>3, DriveBlock
  <2>4. ASSUME NEW n \in Signal, NEW x \in Index, IndexOutOfRange(n, x) PROVE BlockHolds
    BY <2>4, SameBlock DEF IndexOutOfRange, Error, instance
  <2>5. ASSUME NEW C, CloseBlock(C) PROVE BlockHolds
    <3>1. block.kind # "inst" /\ block' = None /\ connect_map' = connect_map
      BY <2>5 DEF CloseBlock, In, CodeBlock, Clocked, instance
    <3> QED BY <3>1, ClosedBlock DEF RInv, Settled
  <2> QED BY <1>2, <2>1, <2>2, <2>3, <2>4, <2>5 DEF Code
<1>3. CASE Machine
  <2>1. ASSUME OpenFSM PROVE BlockHolds
    <3>1. "fsm" \in CodeBlock BY DEF CodeBlock, Clocked
    <3> QED BY <2>1, <3>1, OpenedBlock DEF OpenFSM, Between, instance
  <2>2. ASSUME NEW s, RefuseFSM \/ StateItem(s) \/ Goto(s) PROVE BlockHolds
    BY <2>2, SameBlock DEF RefuseFSM, StateItem, Goto, Error, instance
  <2>3. ASSUME NEW C, CloseFSM(C) PROVE BlockHolds
    <3>1. block.kind # "inst" /\ block' = None /\ connect_map' = connect_map
      BY <2>3 DEF CloseFSM, In, instance
    <3> QED BY <3>1, ClosedBlock DEF RInv, Settled
  <2> QED BY <1>3, <2>1, <2>2, <2>3 DEF Machine
<1>4. CASE Inst
  <2>1. ASSUME NEW v \in Override \cup {None}, OpenInstance(v) PROVE BlockHolds
    BY <2>1, OpenedBlock DEF OpenInstance, Between
  <2>2. ASSUME NEW p, NEW k, NEW n, NEW x,
               Connect(p, k, n, x) \/ LeaveOpen(p) \/ Rename \/ NoValue
        PROVE  BlockHolds
    <3>1. block # None /\ block.kind = "inst" /\ block' = block
      BY <2>2 DEF Connect, LeaveOpen, Rename, NoValue, Error, In
    <3> QED BY <3>1 DEF RInv, BlockHolds, Listed, Settled
  <2>3. ASSUME CloseInstance PROVE BlockHolds
    BY <2>3, ClosedBlock DEF CloseInstance, DefaultConnections
  <2> QED BY <1>4, <2>1, <2>2, <2>3, MergeBlock DEF Inst
<1>5. CASE Generate
  BY <1>5, SameBlock DEF Generate, GenSV, DropResult, instance
<1>6. CASE UNCHANGED vars
  BY <1>6, SameBlock DEF vars
<1> QED BY <1>1, <1>2, <1>3, <1>4, <1>5, <1>6 DEF Next

-----------------------------------------------------------------------------
\* The reports.

\* GenSV reports what the table shows, which is all that the text has.
LEMMA GeneratedReports ==
  ASSUME IInv, RInv, NEW mctrl \in Control, GenSV(mctrl) PROVE ReportsComplete'
<1>1. /\ block = None /\ phase \notin Ended
      /\ UNCHANGED <<symbols, uses, drives, declared>>
  BY DEF GenSV, Between, Parsing, text, Ended
<1>2. ASSUME NEW n \in Name, Cardinality(drives[n]) > 1
      PROVE  n \in MultiDriver
  <2>1. drives[n] \subseteq symbols[n].driver /\ IsFiniteSet(symbols[n].driver)
    BY DEF RInv, Drivers
  <2>2. /\ Cardinality(drives[n]) <= Cardinality(symbols[n].driver)
        /\ Cardinality(drives[n]) \in Nat /\ Cardinality(symbols[n].driver) \in Nat
    BY <2>1, FS_Subset, FS_CardinalityType
  <2>3. Cardinality(symbols[n].driver) > 1
    BY <1>2, <2>2
  <2> QED BY <2>3 DEF MultiDriver
<1>3. ASSUME NEW n \in Name, declared[n] \in NetDirection, uses[n] = {}, ~symbols[n].is_2D
      PROVE  n \in Missing(Extracted)
  <2>1. declared[n] # None
    BY <1>3, NameAssumption DEF NetDirection
  <2>2. symbols[n].direction \in NetDirection
    BY <1>3, <2>1 DEF IInv, AllKept, Kept
  <2>3. n \in Extracted
    BY <1>1, <1>3 DEF IInv, Ports, Extracted
  <2>4. ~Pending(n)
    BY <1>1 DEF RInv, Settled, Pending, IInv, Connected
  <2>5. ~symbols[n].roccur /\ ~symbols[n].loccur
    BY <1>3, <2>4 DEF RInv, Marked, Occurred
  <2> QED BY <2>2, <2>3, <2>5 DEF Missing, NetDirection
<1> SUFFICES ASSUME phase' = "generated", NEW n \in Name
             PROVE  /\ mctrl.multidriverchk /\ Cardinality(drives[n]) > 1 =>
                         n \in report'.multi /\ ~mctrl.exitonlintwarning
                    /\ /\ mctrl.portchk /\ declared[n] \in NetDirection
                       /\ uses[n] = {} /\ ~symbols[n].is_2D
                       => n \in report'.missing /\ ~mctrl.exitonlintwarning
  BY <1>1 DEF ReportsComplete, GenSV
<1>4. /\ mctrl.portchk => report'.missing = Missing(Extracted)
      /\ ~(mctrl.exitonlintwarning /\ (PortWarning(mctrl) \/ DriverWarning(mctrl)))
      /\ mctrl.multidriverchk => report'.multi = MultiDriver
  BY DEF GenSV
<1> QED BY <1>2, <1>3, <1>4 DEF PortWarning, DriverWarning

\* Nothing is parsed after GenSV.
LEMMA StepReports ==
  ASSUME IInv, RInv, [Next]_vars PROVE ReportsComplete'
<1>1. CASE Generate
  <2>1. DropResult => phase' # "generated"
    BY DEF DropResult
  <2> QED BY <1>1, <2>1, GeneratedReports DEF Generate, ReportsComplete
<1>2. CASE UNCHANGED vars
  BY <1>2 DEF vars, RInv, ReportsComplete
<1>3. CASE Declare \/ Code \/ Machine \/ Inst
  <2>1. phase' # "generated"
    BY <1>3 DEF Declare, DeclarePort, DeclarePortError, DeclareVariable, DeclareArray,
         DeclareConstant, Code, OpenBlock, Read, Drive, IndexOutOfRange, CloseBlock,
         Machine, OpenFSM, RefuseFSM, StateItem, Goto, CloseFSM,
         Inst, OpenInstance, Connect, LeaveOpen, MergeNet, MergeExpression, MergeOpen,
         Merges, Rename, NoValue, CloseInstance, Error, Between, In, Parsing
  <2> QED BY <2>1 DEF ReportsComplete
<1> QED BY <1>1, <1>2, <1>3 DEF Next

LEMMA InitRInv == Init => RInv
<1> SUFFICES ASSUME Init PROVE RInv
  OBVIOUS
<1> USE DEF Init
<1>1. Drivers
  BY FS_EmptySet DEF Drivers, NewSymbol
<1>2. Listed(block) /\ Settled
  BY DEF Listed, Settled, DefaultConnections
<1>3. Marked
  BY DEF Marked, Occurred, NewSymbol
<1>4. ReportsComplete
  BY DEF ReportsComplete
<1> QED BY <1>1, <1>2, <1>3, <1>4 DEF RInv

LEMMA NextRInv ==
  ASSUME IInv, RInv, ~Reconnect, [Next]_vars PROVE RInv'
<1>1. DriversGrow /\ MarksGrow
  BY StepGrows DEF Grow
<1>2. Drivers'
  <2> SUFFICES ASSUME NEW n \in Name
               PROVE  drives'[n] \subseteq symbols'[n].driver /\ IsFiniteSet(symbols'[n].driver)
    BY DEF Drivers
  <2>1. PICK B : /\ IsFiniteSet(B) /\ symbols'[n].driver = symbols[n].driver \cup B
                 /\ drives'[n] \subseteq drives[n] \cup B
    BY <1>1 DEF DriversGrow
  <2>2. drives[n] \subseteq symbols[n].driver /\ IsFiniteSet(symbols[n].driver)
    BY DEF RInv, Drivers
  <2>3. IsFiniteSet(symbols[n].driver \cup B)
    BY <2>1, <2>2, FS_Union
  <2> QED BY <2>1, <2>2, <2>3
<1>3. Marked'
  BY <1>1 DEF RInv, Marked, MarksGrow
<1>4. (drives = [n \in Name |-> drives[n]])'
  BY <1>1 DEF DriversGrow
<1> QED BY <1>2, <1>3, <1>4, StepBlock, StepReports DEF RInv, BlockHolds

\* What GenSV is told to look for it finds: with multidriverchk every net that two blocks
\* drive (ChkMultiDriver), with portchk every declared port that is not used
\* (ChkMissingPort), whichever kinds of blocks they are, and with exitonlintwarning it
\* generates no module that has one.  Each kind of block fills its own list of symbols, and
\* none loses what the text says.
THEOREM ReportsEverything ==
  ASSUME ~Reconnect PROVE Spec => []ReportsComplete
<1>1. IInv /\ RInv /\ [Next]_vars => RInv'
  BY NextRInv
<1>2. RInv => ReportsComplete
  BY DEF RInv
<1> QED BY <1>1, <1>2, InitRInv, Invariant, PTL DEF Spec

-----------------------------------------------------------------------------
\* Widths.

Larger(a, b) == IF b > a THEN b ELSE a

\* The width of a symbol with the largest constant index h and the largest
\* other use f; k tells whether it was declared after a larger index.
Wide(s, h, f, k) ==
  /\ s.msb \in Nat /\ s.value \in Nat /\ s.width_fixed \in BOOLEAN
  /\ s.is_2D => s.width_fixed
  /\ h \in Nat /\ f \in Nat
  /\ ~Fixed(s) => s.msb = IF h > f THEN h ELSE f
  /\ s.width_fixed /\ ~s.is_const /\ ~k => h <= s.msb

AllWide == \A n \in Name : Wide(symbols[n], hard[n], soft[n], n \in narrowed)

\* The parameter has the value of the open instance, and none without one.
Overridden ==
  override = IF block # None /\ block.kind = "inst" THEN block.given ELSE None

Counted == states \in Seq(State) /\ Len(states) <= MaxStates

Uses == hard = [n \in Name |-> hard[n]] /\ soft = [n \in Name |-> soft[n]]

WInv == Uses /\ AllWide /\ Overridden /\ Counted

\* A step that leaves the width of a symbol alone.
SameWidth(s, t) ==
  /\ t.msb = s.msb /\ t.value = s.value /\ t.width_fixed = s.width_fixed
  /\ t.is_2D = s.is_2D /\ t.is_const = s.is_const

LEMMA SameWidthTrans ==
  ASSUME NEW s, NEW t, NEW u, SameWidth(s, t), SameWidth(t, u) PROVE SameWidth(s, u)
BY DEF SameWidth

LEMMA SameWide ==
  ASSUME NEW s, NEW t, NEW h, NEW f, NEW k, Wide(s, h, f, k), SameWidth(s, t)
  PROVE  Wide(t, h, f, k)
BY DEF Wide, SameWidth, Fixed

LEMMA InsertWidth ==
  ASSUME NEW s, IsRecord(s) PROVE SameWidth(s, Insert(s)) /\ IsRecord(Insert(s))
BY DEF IsRecord, Fields, Insert, SameWidth

LEMMA OccursWidth ==
  ASSUME NEW s, NEW d, IsRecord(s)
  PROVE  SameWidth(s, Occurs(s, d)) /\ IsRecord(Occurs(s, d))
BY DEF IsRecord, Fields, Occurs, SameWidth

LEMMA DirectionWidth ==
  ASSUME NEW s, NEW d, IsRecord(s)
  PROVE  SameWidth(s, UpdateDirection(s, d)) /\ IsRecord(UpdateDirection(s, d))
BY DEF IsRecord, Fields, UpdateDirection, SameWidth

LEMMA UsedWidth ==
  ASSUME NEW s, NEW d, IsRecord(s)
  PROVE  SameWidth(s, Used(s, d)) /\ IsRecord(Used(s, d))
<1>1. SameWidth(s, Insert(s)) /\ IsRecord(Insert(s)) BY InsertWidth
<1> DEFINE t == UpdateDirection(Insert(s), d)
<1>2. SameWidth(Insert(s), t) /\ IsRecord(t) BY <1>1, DirectionWidth
<1>3. SameWidth(t, Occurs(t, d)) /\ IsRecord(Occurs(t, d)) BY <1>2, OccursWidth
<1>4. Used(s, d) = Occurs(t, d) BY DEF Used
<1> QED BY <1>1, <1>2, <1>3, <1>4, SameWidthTrans

LEMMA DrivenWidth ==
  ASSUME NEW t, NEW S, NEW b, NEW m \in Name, IsRecord(t[m])
  PROVE  SameWidth(t[m], Driven(t, S, b)[m]) /\ IsRecord(Driven(t, S, b)[m])
BY DEF Driven, IsRecord, Fields, SameWidth

LEMMA ClocksWidth ==
  ASSUME NEW t, NEW C, NEW m \in Name, IsRecord(t[m])
  PROVE  SameWidth(t[m], Clocks(t, C)[m]) /\ IsRecord(Clocks(t, C)[m])
<1>1. Clocks(t, C)[m] = IF m \in C THEN Used(t[m], "INPUT") ELSE t[m]
  BY DEF Clocks
<1>2. SameWidth(t[m], t[m]) BY DEF SameWidth
<1> QED BY <1>1, <1>2, UsedWidth

\* CSymbol::Update(msb) with what an instance or a machine asks for ...
LEMMA SoftWide ==
  ASSUME NEW s, NEW h, NEW f, NEW k, NEW m \in Nat, IsRecord(s), Wide(s, h, f, k)
  PROVE  Wide(UpdateMsb(s, m), h, Larger(f, m), k) /\ IsRecord(UpdateMsb(s, m))
<1>0. IsRecord(UpdateMsb(s, m)) BY WidthFollows DEF Follows
<1>1. /\ h \in Nat /\ f \in Nat /\ s.msb \in Nat /\ Larger(f, m) \in Nat
  BY DEF Wide, Larger
<1>2. CASE ~Fixed(s) /\ m > s.msb
  <2>1. UpdateMsb(s, m) = [s EXCEPT !.msb = m] BY <1>2 DEF UpdateMsb
  <2> DEFINE t == [s EXCEPT !.msb = m]
  <2>2. /\ t.msb = m /\ t.value = s.value /\ t.width_fixed = s.width_fixed
        /\ t.is_2D = s.is_2D /\ t.is_const = s.is_const
    BY DEF IsRecord, Fields
  <2> HIDE DEF t
  <2>3. ~Fixed(t) /\ ~t.width_fixed BY <1>2, <2>2 DEF Fixed
  <2>4. s.msb = IF h > f THEN h ELSE f BY <1>2 DEF Wide
  <2>5. t.msb = IF h > Larger(f, m) THEN h ELSE Larger(f, m)
    BY <1>1, <1>2, <2>2, <2>4 DEF Larger
  <2>6. Wide(t, h, Larger(f, m), k)
    BY <1>1, <2>2, <2>3, <2>5 DEF Wide
  <2> QED BY <1>0, <2>1, <2>6 DEF t
<1>3. CASE ~Fixed(s) /\ ~(m > s.msb)
  <2>1. UpdateMsb(s, m) = s BY <1>3 DEF UpdateMsb
  <2>2. s.msb = IF h > f THEN h ELSE f BY <1>3 DEF Wide
  <2>3. s.msb = IF h > Larger(f, m) THEN h ELSE Larger(f, m)
    BY <1>1, <1>3, <2>2 DEF Larger
  <2> QED BY <1>0, <1>1, <2>1, <2>3 DEF Wide
<1>4. CASE Fixed(s)
  <2>1. UpdateMsb(s, m) = s BY <1>4 DEF UpdateMsb
  <2> QED BY <1>0, <1>1, <1>4, <2>1 DEF Wide
<1> QED BY <1>2, <1>3, <1>4

\* ... and with a constant index that was not refused.
LEMMA HardWide ==
  ASSUME NEW s, NEW h, NEW f, NEW k, NEW m \in Nat, IsRecord(s), Wide(s, h, f, k),
         ~Refuses(s, m)
  PROVE  Wide(UpdateMsb(s, m), Larger(h, m), f, k) /\ IsRecord(UpdateMsb(s, m))
<1>0. IsRecord(UpdateMsb(s, m)) BY WidthFollows DEF Follows
<1>1. /\ h \in Nat /\ f \in Nat /\ s.msb \in Nat /\ Larger(h, m) \in Nat
  BY DEF Wide, Larger
<1>2. CASE ~Fixed(s) /\ m > s.msb
  <2>1. UpdateMsb(s, m) = [s EXCEPT !.msb = m] BY <1>2 DEF UpdateMsb
  <2> DEFINE t == [s EXCEPT !.msb = m]
  <2>2. /\ t.msb = m /\ t.value = s.value /\ t.width_fixed = s.width_fixed
        /\ t.is_2D = s.is_2D /\ t.is_const = s.is_const
    BY DEF IsRecord, Fields
  <2> HIDE DEF t
  <2>3. ~Fixed(t) /\ ~t.width_fixed BY <1>2, <2>2 DEF Fixed
  <2>4. s.msb = IF h > f THEN h ELSE f BY <1>2 DEF Wide
  <2>5. t.msb = IF Larger(h, m) > f THEN Larger(h, m) ELSE f
    BY <1>1, <1>2, <2>2, <2>4 DEF Larger
  <2>6. Wide(t, Larger(h, m), f, k)
    BY <1>1, <2>2, <2>3, <2>5 DEF Wide
  <2> QED BY <1>0, <2>1, <2>6 DEF t
<1>3. CASE ~Fixed(s) /\ ~(m > s.msb)
  <2>1. UpdateMsb(s, m) = s BY <1>3 DEF UpdateMsb
  <2>2. s.msb = IF h > f THEN h ELSE f BY <1>3 DEF Wide
  <2>3. s.msb = IF Larger(h, m) > f THEN Larger(h, m) ELSE f
    BY <1>1, <1>3, <2>2 DEF Larger
  <2>4. ~s.width_fixed BY <1>3 DEF Fixed
  <2> QED BY <1>0, <1>1, <2>1, <2>3, <2>4 DEF Wide
<1>4. CASE Fixed(s)
  <2>1. UpdateMsb(s, m) = s BY <1>4 DEF UpdateMsb
  <2>2. m <= s.msb BY <1>1, <1>4 DEF Refuses
  <2>3. s.width_fixed /\ ~s.is_const /\ ~k => Larger(h, m) <= s.msb
    BY <1>1, <2>2 DEF Wide, Larger
  <2> QED BY <1>0, <1>1, <1>4, <2>1, <2>3 DEF Wide
<1> QED BY <1>2, <1>3, <1>4

\* What an index asks for is a number.
LEMMA IndexNumber ==
  ASSUME AllWide, NEW x \in Index, Narrow(x)
  PROVE  IndexMsb(symbols, x) \in Nat
<1>1. CASE x.kind = "whole"
  BY <1>1 DEF IndexMsb
<1>2. CASE x.kind = "bit"
  <2>1. x.at \in Bit BY <1>2 DEF Index
  <2> QED BY <1>2, <2>1, NameAssumption DEF IndexMsb
<1>3. CASE x.kind = "by"
  <2>1. x.net \in Name BY <1>3, NameAssumption DEF Index
  <2>2. symbols[x.net].value \in Nat /\ symbols[x.net].msb \in Nat
    BY <2>1 DEF AllWide, Wide
  <2>3. symbols[x.net].msb <= MaxSelectorMsb BY <1>3 DEF Narrow
  <2>4. symbols[x.net].msb + 1 \in 0..(MaxSelectorMsb + 1)
    BY <2>2, <2>3, PowerAssumption
  <2>5. 2^(symbols[x.net].msb + 1) \in Nat \ {0}
    BY <2>4, PowerAssumption
  <2>6. 2^(symbols[x.net].msb + 1) - 1 \in Nat
    BY <2>5
  <2>7. IndexMsb(symbols, x) = IF symbols[x.net].is_const THEN symbols[x.net].value
                               ELSE 2^(symbols[x.net].msb + 1) - 1
    BY <1>3 DEF IndexMsb
  <2> QED BY <2>2, <2>6, <2>7
<1>4. x.kind \in {"whole", "bit", "by"} BY DEF Index
<1> QED BY <1>1, <1>2, <1>3, <1>4

LEMMA ConstIndexNumber ==
  ASSUME AllWide, NEW x \in Index, ConstIndex(symbols, x)
  PROVE  IndexMsb(symbols, x) \in Nat
<1>1. CASE x.kind = "whole"
  BY <1>1 DEF IndexMsb
<1>2. CASE x.kind = "bit"
  <2>1. x.at \in Bit BY <1>2 DEF Index
  <2> QED BY <1>2, <2>1, NameAssumption DEF IndexMsb
<1>3. CASE x.kind = "by"
  <2>1. x.net \in Name BY <1>3, NameAssumption DEF Index
  <2>2. symbols[x.net].value \in Nat /\ symbols[x.net].is_const
    BY <1>3, <2>1 DEF AllWide, Wide, ConstIndex
  <2> QED BY <1>3, <2>2 DEF IndexMsb
<1>4. x.kind \in {"whole", "bit", "by"} BY DEF Index
<1> QED BY <1>1, <1>2, <1>3, <1>4

LEMMA RaisedAt ==
  ASSUME NEW f, f = [n \in Name |-> f[n]], NEW n \in Name, NEW m
  PROVE  /\ Raised(f, n, m) = [k \in Name |-> Raised(f, n, m)[k]]
         /\ \A k \in Name : Raised(f, n, m)[k] = IF k = n THEN Larger(f[n], m) ELSE f[k]
BY DEF Raised, Larger

AllRecords(t) == \A m \in Name : IsRecord(t[m])

LEMMA IInvRecords == IInv => AllRecords(symbols)
BY DEF IInv, AllKept, Kept, AllRecords

\* A net with its index: the width it had, then the index.
LEMMA NetWidth ==
  ASSUME AllRecords(symbols), NEW n \in Name, NEW x, NEW m \in Name
  PROVE  /\ IsRecord(Net(symbols, n, x)[m])
         /\ m # n => SameWidth(symbols[m], Net(symbols, n, x)[m])
         /\ m = n => \E s : /\ SameWidth(symbols[m], s) /\ IsRecord(s)
                            /\ Net(symbols, n, x)[m] = UpdateMsb(s, IndexMsb(symbols, x))
<1> DEFINE s == IF m \in Selects(symbols, x) THEN Used(symbols[m], "INPUT")
                ELSE IF m \in SymbolsOf(n, x) THEN Insert(symbols[m]) ELSE symbols[m]
<1>1. Net(symbols, n, x)[m] = IF m = n THEN UpdateMsb(s, IndexMsb(symbols, x)) ELSE s
  BY DEF Net
<1>2. IsRecord(symbols[m]) /\ SameWidth(symbols[m], symbols[m])
  BY DEF AllRecords, SameWidth
<1>3. SameWidth(symbols[m], s) /\ IsRecord(s)
  BY <1>2, UsedWidth, InsertWidth
<1> HIDE DEF s
<1>4. IsRecord(UpdateMsb(s, IndexMsb(symbols, x)))
  BY <1>3, WidthFollows DEF Follows
<1> QED BY <1>1, <1>3, <1>4

WideHolds == Uses' /\ AllWide'

\* The widths of every symbol stay.
LEMMA SameWidths ==
  ASSUME IInv, WInv, UNCHANGED <<hard, soft, narrowed>>,
         \A m \in Name : SameWidth(symbols[m], symbols'[m])
  PROVE  WideHolds
<1>1. AllWide'
  BY SameWide DEF WInv, AllWide
<1>2. Uses'
  BY DEF WInv, Uses
<1> QED BY <1>1, <1>2 DEF WideHolds

LEMMA NoWidths ==
  ASSUME WInv, UNCHANGED <<symbols, hard, soft, narrowed>> PROVE WideHolds
BY DEF WInv, AllWide, Uses, WideHolds

\* One symbol changes.
LEMMA OneWidth ==
  ASSUME IInv, WInv, NEW n \in Name, Uses', symbols' = [symbols EXCEPT ![n] = symbols'[n]],
         \A m \in Name : m # n => /\ hard'[m] = hard[m] /\ soft'[m] = soft[m]
                                  /\ m \in narrowed' <=> m \in narrowed,
         Wide(symbols'[n], hard'[n], soft'[n], n \in narrowed')
  PROVE  WideHolds
<1>1. ASSUME NEW m \in Name, m # n
      PROVE  Wide(symbols'[m], hard'[m], soft'[m], m \in narrowed')
  <2>1. symbols'[m] = symbols[m] BY <1>1 DEF IInv, Functions
  <2>2. Wide(symbols[m], hard[m], soft[m], m \in narrowed) BY DEF WInv, AllWide
  <2>3. CASE m \in narrowed
    <3>1. m \in narrowed' BY <1>1, <2>3
    <3> QED BY <1>1, <2>1, <2>2, <2>3, <3>1 DEF Wide
  <2>4. CASE m \notin narrowed
    <3>1. m \notin narrowed' BY <1>1, <2>4
    <3> QED BY <1>1, <2>1, <2>2, <2>4, <3>1 DEF Wide
  <2> QED BY <2>3, <2>4
<1>2. AllWide' BY <1>1 DEF AllWide
<1> QED BY <1>2 DEF WideHolds

\* A net is used with an index: e is what else happens to it.
LEMMA UseWide ==
  ASSUME IInv, WInv, NEW n \in Name, NEW x \in Index, Narrow(x),
         ~IndexError(symbols, n, x), AsksWidth(n, x), narrowed' = narrowed,
         NEW r, symbols' = [Net(symbols, n, x) EXCEPT ![n] = r],
         SameWidth(Net(symbols, n, x)[n], r)
  PROVE  WideHolds
<1> DEFINE i == IndexMsb(symbols, x)
           t == Net(symbols, n, x)
<1>1. AllRecords(symbols) /\ AllWide /\ Uses BY IInvRecords DEF WInv
<1>2. i \in Nat BY <1>1, IndexNumber
<1>3. PICK s : /\ SameWidth(symbols[n], s) /\ IsRecord(s) /\ t[n] = UpdateMsb(s, i)
  BY <1>1, NetWidth
<1>4. Wide(s, hard[n], soft[n], n \in narrowed)
  BY <1>1, <1>3, SameWide DEF AllWide
<1>5. t = [m \in Name |-> t[m]] BY DEF Net
<1>6. \A m \in Name : m # n => SameWidth(symbols[m], t[m])
  BY <1>1, NetWidth
<1>7. SameWidth(t[n], r) OBVIOUS
<1>8. symbols' = [t EXCEPT ![n] = r] OBVIOUS
<1>9. IF ConstIndex(symbols, x) THEN hard' = Raised(hard, n, i) /\ soft' = soft
                                ELSE soft' = Raised(soft, n, i) /\ hard' = hard
  BY DEF AsksWidth
<1>10. ConstIndex(symbols, x) => ~Refuses(s, i)
  <2>1. ConstIndex(symbols, x) => ~Refuses(symbols[n], i) BY DEF IndexError
  <2> QED BY <1>3, <2>1 DEF Refuses, Fixed, SameWidth
<1> HIDE DEF i, t
<1>11. symbols'[n] = r /\ \A m \in Name : m # n => symbols'[m] = t[m]
  BY <1>5, <1>8
<1>12. CASE ConstIndex(symbols, x)
  <2>1. hard' = Raised(hard, n, i) /\ soft' = soft BY <1>9, <1>12
  <2>2. Wide(t[n], Larger(hard[n], i), soft[n], n \in narrowed)
    BY <1>2, <1>3, <1>4, <1>10, <1>12, HardWide
  <2>3. Wide(r, Larger(hard[n], i), soft[n], n \in narrowed)
    BY <1>7, <2>2, SameWide
  <2>4. /\ Uses' /\ hard'[n] = Larger(hard[n], i)
        /\ \A m \in Name : m # n => hard'[m] = hard[m]
    BY <1>1, <2>1, RaisedAt DEF Uses
  <2>5. ASSUME NEW m \in Name PROVE Wide(symbols'[m], hard'[m], soft'[m], m \in narrowed')
    <3>1. CASE m = n BY <1>11, <2>1, <2>3, <2>4, <3>1
    <3>2. CASE m # n
      <4>1. Wide(t[m], hard[m], soft[m], m \in narrowed)
        BY <1>1, <1>6, <3>2, SameWide DEF AllWide
      <4> QED BY <1>11, <2>1, <2>4, <3>2, <4>1
    <3> QED BY <3>1, <3>2
  <2> QED BY <2>4, <2>5 DEF WideHolds, AllWide
<1>13. CASE ~ConstIndex(symbols, x)
  <2>1. soft' = Raised(soft, n, i) /\ hard' = hard BY <1>9, <1>13
  <2>2. Wide(t[n], hard[n], Larger(soft[n], i), n \in narrowed)
    BY <1>2, <1>3, <1>4, SoftWide
  <2>3. Wide(r, hard[n], Larger(soft[n], i), n \in narrowed)
    BY <1>7, <2>2, SameWide
  <2>4. /\ Uses' /\ soft'[n] = Larger(soft[n], i)
        /\ \A m \in Name : m # n => soft'[m] = soft[m]
    BY <1>1, <2>1, RaisedAt DEF Uses
  <2>5. ASSUME NEW m \in Name PROVE Wide(symbols'[m], hard'[m], soft'[m], m \in narrowed')
    <3>1. CASE m = n BY <1>11, <2>1, <2>3, <2>4, <3>1
    <3>2. CASE m # n
      <4>1. Wide(t[m], hard[m], soft[m], m \in narrowed)
        BY <1>1, <1>6, <3>2, SameWide DEF AllWide
      <4> QED BY <1>11, <2>1, <2>4, <3>2, <4>1
    <3> QED BY <3>1, <3>2
  <2> QED BY <2>4, <2>5 DEF WideHolds, AllWide
<1> QED BY <1>12, <1>13

LEMMA CodeWide ==
  ASSUME IInv, WInv, NEW n \in Name, NEW x \in Index,
         \/ Read(n, x) \/ (\E f : Drive(n, x, f))
         \/ \E p \in Port : \E k : Connect(p, k, n, x)
  PROVE  WideHolds
<1> DEFINE t == Net(symbols, n, x)
<1>1. IsRecord(t[n]) BY IInvRecords, NetWidth
<1>2. t = [m \in Name |-> t[m]] BY DEF Net
<1>3. CASE Read(n, x)
  <2>1. symbols' = [t EXCEPT ![n] = Used(t[n], "INPUT")]
    BY <1>3 DEF Read
  <2>2. SameWidth(t[n], Used(t[n], "INPUT")) BY <1>1, UsedWidth
  <2>3. Narrow(x) /\ ~IndexError(symbols, n, x) /\ AsksWidth(n, x) /\ narrowed' = narrowed
    BY <1>3 DEF Read
  <2> QED BY <2>1, <2>2, <2>3, UseWide
<1>4. ASSUME NEW f, Drive(n, x, f) PROVE WideHolds
  <2>1. symbols' = [t EXCEPT ![n] = Used(t[n], "OUTPUT")]
    BY <1>4 DEF Drive
  <2>2. SameWidth(t[n], Used(t[n], "OUTPUT")) BY <1>1, UsedWidth
  <2>3. Narrow(x) /\ ~IndexError(symbols, n, x) /\ AsksWidth(n, x) /\ narrowed' = narrowed
    BY <1>4 DEF Drive
  <2> QED BY <2>1, <2>2, <2>3, UseWide
<1>5. ASSUME NEW p \in Port, NEW k, Connect(p, k, n, x) PROVE WideHolds
  <2>1. symbols' = [t EXCEPT ![n] = Occurs(t[n], PortDirection[p])]
    BY <1>5 DEF Connect
  <2>2. SameWidth(t[n], Occurs(t[n], PortDirection[p])) BY <1>1, OccursWidth
  <2>3. Narrow(x) /\ ~IndexError(symbols, n, x) /\ AsksWidth(n, x) /\ narrowed' = narrowed
    BY <1>5 DEF Connect
  <2> QED BY <2>1, <2>2, <2>3, UseWide
<1> QED BY <1>3, <1>4, <1>5

\* Declarations.
LEMMA DeclarePortWide ==
  ASSUME IInv, WInv, NEW d \in Directions, NEW n \in Name, NEW x \in Index,
         DeclarePort(d, n, x)
  PROVE  WideHolds
<1> DEFINE s == Insert(symbols[n])
           i == x.at
<1>0. /\ Uses /\ Wide(symbols[n], hard[n], soft[n], n \in narrowed)
      /\ soft' = soft /\ narrowed' = narrowed
  BY DEF WInv, AllWide, DeclarePort
<1>1. symbols = [m \in Name |-> symbols[m]] BY DEF IInv, Functions
<1>2. SameWidth(symbols[n], s) /\ IsRecord(s)
  BY IInvRecords, InsertWidth DEF AllRecords
<1>3. Wide(s, hard[n], soft[n], n \in narrowed) BY <1>0, <1>2, SameWide
<1>4. CASE x.kind # "bit"
  <2>1. /\ symbols' = [symbols EXCEPT ![n] = [s EXCEPT !.io_fixed = TRUE, !.direction = d]]
        /\ hard' = hard
    BY <1>4 DEF DeclarePort, PlainPort
  <2> DEFINE r == [s EXCEPT !.io_fixed = TRUE, !.direction = d]
  <2> HIDE DEF s
  <2>2. SameWidth(s, r) BY <1>2 DEF IsRecord, Fields, SameWidth
  <2>3. Wide(r, hard[n], soft[n], n \in narrowed) BY <1>3, <2>2, SameWide
  <2> HIDE DEF r
  <2>4. symbols'[n] = r BY <1>1, <2>1 DEF r
  <2>5. symbols' = [symbols EXCEPT ![n] = symbols'[n]] BY <1>1, <2>1, <2>4 DEF r
  <2>6. Uses' BY <1>0, <2>1 DEF Uses
  <2> QED BY <1>0, <2>1, <2>3, <2>4, <2>5, <2>6, OneWidth
<1>5. CASE x.kind = "bit"
  <2> DEFINE t == UpdateMsb(s, i)
             r == [t EXCEPT !.io_fixed = TRUE, !.direction = d, !.width_fixed = TRUE]
  <2>1. /\ symbols' = [symbols EXCEPT ![n] = r]
        /\ hard' = Raised(hard, n, i) /\ ~Refuses(symbols[n], i)
    BY <1>5 DEF DeclarePort, RangedPort
  <2>2. i \in Nat
    <3>1. x.at \in Bit BY <1>5 DEF Index
    <3> QED BY <3>1, NameAssumption
  <2>3. ~Refuses(s, i) BY <1>2, <2>1 DEF Refuses, Fixed, SameWidth
  <2> HIDE DEF s, i
  <2>4. Wide(t, Larger(hard[n], i), soft[n], n \in narrowed) /\ IsRecord(t)
    BY <1>2, <1>3, <2>2, <2>3, HardWide
  <2> HIDE DEF t
  <2>5. /\ r.msb = t.msb /\ r.value = t.value /\ r.width_fixed = TRUE
        /\ r.is_2D = t.is_2D /\ r.is_const = t.is_const
    BY <2>4 DEF IsRecord, Fields
  <2>6. ~t.is_const /\ n \notin narrowed => Larger(hard[n], i) <= t.msb
    <3>1. CASE Fixed(t) BY <2>4, <3>1 DEF Fixed, Wide
    <3>2. CASE ~Fixed(t)
      <4>1. t.msb = IF Larger(hard[n], i) > soft[n] THEN Larger(hard[n], i) ELSE soft[n]
        BY <2>4, <3>2 DEF Wide
      <4>2. Larger(hard[n], i) \in Nat /\ soft[n] \in Nat BY <2>4 DEF Wide
      <4> QED BY <4>1, <4>2
    <3> QED BY <3>1, <3>2
  <2> HIDE DEF r
  <2>7. Wide(r, Larger(hard[n], i), soft[n], n \in narrowed)
    BY <2>4, <2>5, <2>6 DEF Wide, Fixed
  <2>8. symbols'[n] = r BY <1>1, <2>1
  <2>9. symbols' = [symbols EXCEPT ![n] = symbols'[n]] BY <1>1, <2>1, <2>8
  <2>10. /\ Uses' /\ hard'[n] = Larger(hard[n], i)
         /\ \A m \in Name : m # n => hard'[m] = hard[m]
    BY <1>0, <2>1, RaisedAt DEF Uses
  <2> QED BY <1>0, <2>7, <2>8, <2>9, <2>10, OneWidth
<1> QED BY <1>4, <1>5

LEMMA DeclareNetWide ==
  ASSUME IInv, WInv, NEW n \in Name, NEW m \in Nat,
         DeclareVariable(n, m) \/ DeclareArray(n, m)
  PROVE  WideHolds
<1> DEFINE s == Insert(symbols[n])
<1>0. /\ Uses /\ Wide(symbols[n], hard[n], soft[n], n \in narrowed)
      /\ soft' = soft /\ hard' = hard
      /\ narrowed' = narrowed \cup IF hard[n] > m THEN {n} ELSE {}
  BY DEF WInv, AllWide, DeclareVariable, DeclareArray
<1>1. symbols = [k \in Name |-> symbols[k]] BY DEF IInv, Functions
<1>2. SameWidth(symbols[n], s) /\ IsRecord(s)
  BY IInvRecords, InsertWidth DEF AllRecords
<1>3. Wide(s, hard[n], soft[n], n \in narrowed) BY <1>0, <1>2, SameWide
<1>4. \/ symbols' = [symbols EXCEPT ![n] = [s EXCEPT !.width_fixed = TRUE, !.msb = m]]
      \/ symbols' = [symbols EXCEPT ![n] =
           [s EXCEPT !.direction = "NONPORT", !.io_fixed = TRUE, !.is_2D = TRUE,
                     !.width_fixed = TRUE, !.msb = m]]
  BY DEF DeclareVariable, DeclareArray
<1> HIDE DEF s
<1>5. PICK r : /\ symbols' = [symbols EXCEPT ![n] = r]
               /\ r.msb = m /\ r.width_fixed = TRUE /\ r.value = s.value
               /\ r.is_const = s.is_const
  <2>1. /\ [s EXCEPT !.width_fixed = TRUE, !.msb = m].msb = m
        /\ [s EXCEPT !.width_fixed = TRUE, !.msb = m].width_fixed = TRUE
        /\ [s EXCEPT !.width_fixed = TRUE, !.msb = m].value = s.value
        /\ [s EXCEPT !.width_fixed = TRUE, !.msb = m].is_const = s.is_const
    BY <1>2 DEF IsRecord, Fields
  <2> DEFINE a == [s EXCEPT !.direction = "NONPORT", !.io_fixed = TRUE, !.is_2D = TRUE,
                     !.width_fixed = TRUE, !.msb = m]
  <2>2. /\ a.msb = m /\ a.width_fixed = TRUE /\ a.value = s.value
        /\ a.is_const = s.is_const
    BY <1>2 DEF IsRecord, Fields
  <2> HIDE DEF a
  <2>3. CASE symbols' = [symbols EXCEPT ![n] = a]
    BY <2>2, <2>3
  <2>4. CASE symbols' = [symbols EXCEPT ![n] = [s EXCEPT !.width_fixed = TRUE, !.msb = m]]
    BY <2>1, <2>4
  <2> QED BY <1>4, <2>3, <2>4 DEF a
<1>6. symbols'[n] = r BY <1>1, <1>5
<1>7. hard[n] > m => n \in narrowed' BY <1>0
<1>8. Wide(r, hard[n], soft[n], n \in narrowed')
  <2>1. r.value \in Nat /\ hard[n] \in Nat /\ soft[n] \in Nat BY <1>3, <1>5 DEF Wide
  <2>2. n \notin narrowed' => hard[n] <= m BY <1>7, <2>1
  <2> QED BY <1>5, <2>1, <2>2 DEF Wide, Fixed
<1>9. symbols' = [symbols EXCEPT ![n] = symbols'[n]] BY <1>5, <1>6
<1>10. Uses' BY <1>0 DEF Uses
<1>11. \A k \in Name : k # n => (k \in narrowed' <=> k \in narrowed) BY <1>0
<1> QED BY <1>0, <1>6, <1>8, <1>9, <1>10, <1>11, OneWidth

LEMMA DeclareConstantWide ==
  ASSUME IInv, WInv, NEW n \in Name, NEW v \in Nat, NEW m \in Nat, DeclareConstant(n, v, m)
  PROVE  WideHolds
<1> DEFINE s == Insert(symbols[n])
           c == [s EXCEPT !.is_const = TRUE, !.value = v]
<1>0. /\ Uses /\ Wide(symbols[n], hard[n], soft[n], n \in narrowed)
      /\ soft' = soft /\ hard' = hard /\ narrowed' = narrowed
      /\ symbols' = [symbols EXCEPT ![n] = UpdateMsb(c, m)]
  BY DEF WInv, AllWide, DeclareConstant, text
<1>1. symbols = [k \in Name |-> symbols[k]] BY DEF IInv, Functions
<1>2. SameWidth(symbols[n], s) /\ IsRecord(s)
  BY IInvRecords, InsertWidth DEF AllRecords
<1>3. Wide(s, hard[n], soft[n], n \in narrowed) BY <1>0, <1>2, SameWide
<1> HIDE DEF s
<1>4. /\ c.is_const = TRUE /\ c.value = v /\ c.msb = s.msb /\ c.is_2D = s.is_2D
      /\ c.width_fixed = s.width_fixed
  BY <1>2 DEF IsRecord, Fields
<1> HIDE DEF c
<1>5. UpdateMsb(c, m) = c BY <1>4 DEF UpdateMsb, Fixed
<1>6. Wide(c, hard[n], soft[n], n \in narrowed) BY <1>3, <1>4 DEF Wide, Fixed
<1>7. symbols'[n] = c BY <1>0, <1>1, <1>5
<1>8. symbols' = [symbols EXCEPT ![n] = symbols'[n]] BY <1>0, <1>5, <1>7
<1>9. Uses' BY <1>0 DEF Uses
<1> QED BY <1>0, <1>6, <1>7, <1>8, <1>9, OneWidth

LEMMA CloseBlockWide ==
  ASSUME IInv, WInv, NEW C, CloseBlock(C)
  PROVE  WideHolds
<1> DEFINE t == Clocks(symbols, C)
<1>1. /\ symbols' = Driven(t, block.lsymbols, code_blocks)
      /\ UNCHANGED <<hard, soft, narrowed>>
  BY DEF CloseBlock
<1>2. ASSUME NEW m \in Name PROVE SameWidth(symbols[m], symbols'[m])
  <2>1. SameWidth(symbols[m], t[m]) /\ IsRecord(t[m])
    BY IInvRecords, ClocksWidth DEF AllRecords
  <2> HIDE DEF t
  <2>2. SameWidth(t[m], symbols'[m]) BY <1>1, <2>1, DrivenWidth
  <2> QED BY <2>1, <2>2, SameWidthTrans
<1> QED BY <1>1, <1>2, SameWidths

LEMMA InsertedWide ==
  ASSUME IInv, WInv, UNCHANGED <<hard, soft, narrowed>>, NEW S,
         symbols' = [m \in Name |-> IF m \in S THEN Insert(symbols[m]) ELSE symbols[m]]
  PROVE  WideHolds
<1>1. \A m \in Name : SameWidth(symbols[m], symbols'[m])
  BY IInvRecords, InsertWidth DEF AllRecords, SameWidth
<1> QED BY <1>1, SameWidths

\* A nonempty set of numbers has a least one.
LEMMA LeastNumber ==
  ASSUME NEW S \in SUBSET Nat, S # {}
  PROVE  \E m \in S : \A k \in S : m <= k
<1>1. \E m \in S : \A k \in S : <<k, m>> \notin OpToRel(<, Nat)
  BY NatLessThanWellFounded, WFMin
<1>2. PICK m \in S : \A k \in S : <<k, m>> \notin OpToRel(<, Nat)
  BY <1>1
<1>3. \A k \in S : ~(k < m)
  BY <1>2 DEF OpToRel
<1> QED BY <1>3

\* A state that was listed was listed for the last time.
LEMMA LastListed ==
  ASSUME states \in Seq(State), NEW i \in DOMAIN states
  PROVE  \E j \in DOMAIN states : states[j] = states[i] /\ IsLast(j)
<1>1. Len(states) \in Nat /\ DOMAIN states = 1..Len(states)
  OBVIOUS
<1> DEFINE T == {k \in Nat : \E j \in DOMAIN states :
                   states[j] = states[i] /\ j + k = Len(states)}
<1>2. T # {}
  <2>1. Len(states) - i \in Nat /\ i + (Len(states) - i) = Len(states) BY <1>1
  <2>2. (Len(states) - i) \in T BY <2>1
  <2> QED BY <2>2
<1>3. PICK k \in T : \A l \in T : k <= l
  <2>1. T \in SUBSET Nat OBVIOUS
  <2> HIDE DEF T
  <2> QED BY <1>2, <2>1, LeastNumber
<1>4. PICK j \in DOMAIN states : states[j] = states[i] /\ j + k = Len(states)
  OBVIOUS
<1>5. ASSUME NEW e \in (j + 1)..Len(states) PROVE states[e] # states[j]
  <2> SUFFICES ASSUME states[e] = states[j] PROVE FALSE
    OBVIOUS
  <2>1. e \in DOMAIN states /\ states[e] = states[i] /\ e > j BY <1>1, <1>4
  <2>2. Len(states) - e \in Nat /\ e + (Len(states) - e) = Len(states) BY <1>1, <2>1
  <2>3. Len(states) - e \in T BY <2>1, <2>2
  <2> HIDE DEF T
  <2>4. k <= Len(states) - e BY <1>3, <2>3
  <2>5. k \in Nat BY DEF T
  <2> QED BY <1>1, <1>4, <2>1, <2>4, <2>5
<1> QED BY <1>4, <1>5 DEF IsLast

\* The widths and values that a machine gives its names.
LEMMA BuildWide ==
  ASSUME WInv, states # <<>>, NEW t, NEW m \in Name, IsRecord(t[m]),
         Wide(t[m], hard[m], soft[m], m \in narrowed),
         NEW f, f = IF m \in {StateReg, NextReg} /\ StateMsb > soft[m] THEN StateMsb
                    ELSE soft[m]
  PROVE  /\ Wide(BuildFSM(t)[m], hard[m], f, m \in narrowed)
         /\ IsRecord(BuildFSM(t)[m])
<1>0. /\ states \in Seq(State) /\ Len(states) <= MaxStates /\ Len(states) \in Nat
      /\ DOMAIN states = 1..Len(states) /\ StateMsb \in Nat
  BY DEF WInv, Counted, StateMsb
<1>1. IsRecord(BuildFSM(t)[m]) BY BuildFollows DEF Follows
<1>2. CASE m \in {StateReg, NextReg}
  <2>1. BuildFSM(t)[m] = UpdateMsb(t[m], StateMsb) BY <1>2 DEF BuildFSM
  <2>2. Larger(soft[m], StateMsb) = f BY <1>2 DEF Larger
  <2> QED BY <1>0, <1>1, <2>1, <2>2, SoftWide
<1>3. CASE m \notin {StateReg, NextReg} /\ \E i \in DOMAIN states : m = states[i]
  <2> DEFINE i == CHOOSE i \in DOMAIN states : states[i] = m /\ IsLast(i)
             s == [t[m] EXCEPT !.is_const = TRUE, !.msb = StateMsb, !.value = 2^(i - 1)]
  <2>1. BuildFSM(t)[m] = s BY <1>3 DEF BuildFSM
  <2>2. i \in DOMAIN states
    <3>1. \E j \in DOMAIN states : states[j] = m /\ IsLast(j) BY <1>0, <1>3, LastListed
    <3> QED BY <3>1
  <2> HIDE DEF i
  <2>3. i - 1 \in 0..MaxStates BY <1>0, <2>2, PowerAssumption
  <2>4. 2^(i - 1) \in Nat BY <2>3, PowerAssumption
  <2>5. /\ s.is_const = TRUE /\ s.msb = StateMsb /\ s.value = 2^(i - 1)
        /\ s.width_fixed = t[m].width_fixed /\ s.is_2D = t[m].is_2D
    BY DEF IsRecord, Fields
  <2> HIDE DEF s
  <2>6. f = soft[m] BY <1>3
  <2> QED BY <1>0, <1>1, <2>1, <2>4, <2>5, <2>6 DEF Wide, Fixed
<1>4. CASE /\ m \notin {StateReg, NextReg} /\ ~(\E i \in DOMAIN states : m = states[i])
           /\ \E i \in DOMAIN states : m = StateIndex[states[i]]
  <2> DEFINE i == CHOOSE i \in DOMAIN states : StateIndex[states[i]] = m /\ IsLast(i)
             s == [t[m] EXCEPT !.is_const = TRUE, !.value = i - 1]
  <2>1. BuildFSM(t)[m] = s BY <1>4 DEF BuildFSM
  <2>2. i \in DOMAIN states
    <3>1. PICK j \in DOMAIN states : m = StateIndex[states[j]] BY <1>4
    <3>2. PICK e \in DOMAIN states : states[e] = states[j] /\ IsLast(e)
      BY <1>0, LastListed
    <3>3. StateIndex[states[e]] = m BY <3>1, <3>2
    <3> QED BY <3>2, <3>3
  <2> HIDE DEF i
  <2>3. i - 1 \in Nat BY <1>0, <2>2
  <2>5. /\ s.is_const = TRUE /\ s.msb = t[m].msb /\ s.value = i - 1
        /\ s.width_fixed = t[m].width_fixed /\ s.is_2D = t[m].is_2D
    BY DEF IsRecord, Fields
  <2> HIDE DEF s
  <2>6. f = soft[m] BY <1>4
  <2> QED BY <1>1, <2>1, <2>3, <2>5, <2>6 DEF Wide, Fixed
<1>5. CASE /\ m \notin {StateReg, NextReg} /\ ~(\E i \in DOMAIN states : m = states[i])
           /\ ~(\E i \in DOMAIN states : m = StateIndex[states[i]])
  <2>1. BuildFSM(t)[m] = t[m] BY <1>5 DEF BuildFSM
  <2>2. f = soft[m] BY <1>5
  <2> QED BY <1>1, <2>1, <2>2
<1> QED BY <1>2, <1>3, <1>4, <1>5

LEMMA CloseFSMWide ==
  ASSUME IInv, WInv, NEW C, CloseFSM(C)
  PROVE  WideHolds
<1> DEFINE t == Clocks(symbols, C)
           u == BuildFSM(t)
           v == Driven(u, block.lsymbols \cup {NextReg}, code_blocks)
<1>1. /\ symbols' = Driven(v, {StateReg}, Registers(code_blocks))
      /\ soft' = [n \in Name |-> IF n \in {StateReg, NextReg} /\ StateMsb > soft[n]
                                 THEN StateMsb ELSE soft[n]]
      /\ states # <<>> /\ hard' = hard /\ narrowed' = narrowed
  BY DEF CloseFSM
<1>2. ASSUME NEW m \in Name PROVE Wide(symbols'[m], hard'[m], soft'[m], m \in narrowed')
  <2>1. SameWidth(symbols[m], t[m]) /\ IsRecord(t[m])
    BY IInvRecords, ClocksWidth DEF AllRecords
  <2>2. Wide(t[m], hard[m], soft[m], m \in narrowed)
    BY <2>1, SameWide DEF WInv, AllWide
  <2> HIDE DEF t
  <2>3. soft'[m] = IF m \in {StateReg, NextReg} /\ StateMsb > soft[m] THEN StateMsb
                   ELSE soft[m]
    BY <1>1
  <2>4. Wide(u[m], hard[m], soft'[m], m \in narrowed) /\ IsRecord(u[m])
    BY <1>1, <2>1, <2>2, <2>3, BuildWide
  <2> HIDE DEF u
  <2>5. SameWidth(u[m], v[m]) /\ IsRecord(v[m]) BY <2>4, DrivenWidth
  <2> HIDE DEF v
  <2>6. SameWidth(v[m], symbols'[m]) BY <1>1, <2>5, DrivenWidth
  <2>7. Wide(symbols'[m], hard[m], soft'[m], m \in narrowed)
    BY <2>4, <2>5, <2>6, SameWide
  <2> QED BY <1>1, <2>7
<1>3. Uses' BY <1>1 DEF Uses, WInv
<1> QED BY <1>2, <1>3 DEF WideHolds, AllWide

\* The end of an instance.
LEMMA MergeNetWide ==
  ASSUME IInv, RInv, WInv, NEW p \in Port, MergeNet(p)
  PROVE  WideHolds
<1> DEFINE n == connect_map[p].name
           x == connect_map[p].index
           d == PortDirection[p]
           i == ConnectedMsb(p)
           s == Insert(symbols[n])
           u == UpdateMsb(s, i)
<1>1. /\ n \in Name /\ x \in Index /\ connect_map[p].kind = "net"
  BY DEF IInv, Connected, Connection, MergeNet
<1>2. /\ symbols' = [symbols EXCEPT ![n] = Merged(p)]
      /\ soft' = Raised(soft, n, AskedMsb(p)) /\ hard' = hard /\ narrowed' = narrowed
      /\ block # None /\ block.kind = "inst" /\ HasValues
  BY DEF MergeNet, Merges, In
<1>3. override = block.given /\ AllWide /\ Uses
  BY <1>2 DEF WInv, Overridden
<1>4. AskedMsb(p) = i
  BY <1>3 DEF AskedMsb, ConnectedMsb
<1>5. i \in Nat
  <2>1. CASE x.kind = "whole"
    <3>1. block \in OpenBlocks BY <1>2 DEF RInv, Listed
    <3>2. override \in Override \cup {None} BY <1>3, <3>1 DEF OpenBlocks
    <3> QED BY <2>1, <3>2, NameAssumption DEF ConnectedMsb
  <2>2. CASE x.kind # "whole"
    <3>1. ConstIndex(symbols, x) BY <1>1, <1>2 DEF HasValues
    <3> QED BY <1>1, <1>3, <2>2, <3>1, ConstIndexNumber DEF ConnectedMsb
  <2> QED BY <2>1, <2>2
<1>6. SameWidth(symbols[n], s) /\ IsRecord(s)
  BY <1>1, IInvRecords, InsertWidth DEF AllRecords
<1>7. Wide(s, hard[n], soft[n], n \in narrowed)
  BY <1>1, <1>3, <1>6, SameWide DEF AllWide
<1>8. Merged(p) \in {UpdateDirection(u, d), Occurs(UpdateDirection(u, d), d)}
  BY DEF Merged
<1>9. symbols = [k \in Name |-> symbols[k]] BY DEF IInv, Functions
<1> HIDE DEF n, x, d, i, s
<1>10. Wide(u, hard[n], Larger(soft[n], i), n \in narrowed) /\ IsRecord(u)
  BY <1>5, <1>6, <1>7, SoftWide
<1> HIDE DEF u
<1>11. SameWidth(u, UpdateDirection(u, d)) /\ IsRecord(UpdateDirection(u, d))
  BY <1>10, DirectionWidth
<1>12. SameWidth(UpdateDirection(u, d), Occurs(UpdateDirection(u, d), d))
  BY <1>11, OccursWidth
<1>13. SameWidth(u, Merged(p)) BY <1>8, <1>11, <1>12, SameWidthTrans
<1>14. symbols'[n] = Merged(p) /\ symbols' = [symbols EXCEPT ![n] = symbols'[n]]
  BY <1>1, <1>2, <1>9
<1>15. /\ Uses' /\ soft'[n] = Larger(soft[n], i)
       /\ \A m \in Name : m # n => soft'[m] = soft[m]
  BY <1>1, <1>2, <1>3, <1>4, RaisedAt DEF Uses
<1>16. Wide(symbols'[n], hard'[n], soft'[n], n \in narrowed')
  BY <1>2, <1>10, <1>13, <1>14, <1>15, SameWide
<1> QED BY <1>1, <1>2, <1>14, <1>15, <1>16, OneWidth

LEMMA MergeExpressionWide ==
  ASSUME IInv, WInv, NEW p \in Port, MergeExpression(p)
  PROVE  WideHolds
<1> DEFINE n == connect_map[p].name
           d == PortDirection[p]
<1>1. n \in Name BY DEF IInv, Connected, Connection
<1>2. /\ symbols' = [symbols EXCEPT ![n] = UpdateDirection(symbols[n], d)]
      /\ UNCHANGED <<hard, soft, narrowed>>
  BY DEF MergeExpression, Merges
<1>3. SameWidth(symbols[n], UpdateDirection(symbols[n], d))
  BY <1>1, IInvRecords, DirectionWidth DEF AllRecords
<1> HIDE DEF n, d
<1>4. \A m \in Name : SameWidth(symbols[m], symbols'[m])
  BY <1>1, <1>2, <1>3 DEF IInv, Functions, SameWidth
<1> QED BY <1>2, <1>4, SameWidths

LEMMA CloseInstanceWide ==
  ASSUME IInv, WInv, CloseInstance
  PROVE  WideHolds
<1>1. symbol_to_remove = {} BY DEF CloseInstance, IInv, Connected
<1> DEFINE t == [m \in Name |-> IF m \in symbol_to_remove
                                THEN NewSymbol ELSE symbols[m]]
<1>2. /\ symbols' = Driven(t, block.lsymbols \ symbol_to_remove, code_blocks)
      /\ UNCHANGED <<hard, soft, narrowed>>
  BY DEF CloseInstance
<1>3. t = symbols BY <1>1 DEF IInv, Functions
<1> HIDE DEF t
<1>4. \A m \in Name : SameWidth(symbols[m], symbols'[m])
  BY <1>2, <1>3, IInvRecords, DrivenWidth DEF AllRecords
<1> QED BY <1>2, <1>4, SameWidths

\* Every step.
LEMMA StepWide ==
  ASSUME IInv, RInv, WInv, [Next]_vars PROVE WideHolds
<1> USE NameAssumption
<1>1. CASE Declare
  <2>1. ASSUME NEW n \in Signal, NEW x \in Index, NEW d \in Directions, DeclarePort(d, n, x)
        PROVE  WideHolds
    BY <2>1, DeclarePortWide
  <2>2. ASSUME NEW n \in Signal, NEW x, DeclarePortError(n, x) PROVE WideHolds
    BY <2>2, NoWidths DEF DeclarePortError, Error, table, text
  <2>3. ASSUME NEW n \in Signal, NEW m \in Bit, DeclareVariable(n, m) \/ DeclareArray(n, m)
        PROVE  WideHolds
    BY <2>3, DeclareNetWide
  <2>4. ASSUME NEW n \in Constant, NEW v \in Bit, NEW m \in Bit, DeclareConstant(n, v, m)
        PROVE  WideHolds
    BY <2>4, DeclareConstantWide
  <2> QED BY <1>1, <2>1, <2>2, <2>3, <2>4 DEF Declare
<1>2. CASE Code
  <2>1. ASSUME NEW k \in CodeBlock, OpenBlock(k) PROVE WideHolds
    BY <2>1, NoWidths DEF OpenBlock, table, text
  <2>2. ASSUME NEW n \in Signal, NEW x \in Index, Read(n, x) PROVE WideHolds
    BY <2>2, CodeWide
  <2>3. ASSUME NEW n \in Signal, NEW x \in Index, NEW f, Drive(n, x, f) PROVE WideHolds
    BY <2>3, CodeWide
  <2>4. ASSUME NEW n \in Signal, NEW x \in Index, IndexOutOfRange(n, x) PROVE WideHolds
    BY <2>4, NoWidths DEF IndexOutOfRange, Error, table, text
  <2>5. ASSUME NEW C, CloseBlock(C) PROVE WideHolds
    BY <2>5, CloseBlockWide
  <2> QED BY <1>2, <2>1, <2>2, <2>3, <2>4, <2>5 DEF Code
<1>3. CASE Machine
  <2>1. ASSUME RefuseFSM PROVE WideHolds
    BY <2>1, NoWidths DEF RefuseFSM, Error, table, text
  <2>2. ASSUME NEW C, CloseFSM(C) PROVE WideHolds
    BY <2>2, CloseFSMWide
  <2>3. ASSUME OpenFSM PROVE WideHolds
    BY <2>3, InsertedWide DEF OpenFSM, text
  <2>4. ASSUME NEW s \in State, StateItem(s) PROVE WideHolds
    BY <2>4, InsertedWide DEF StateItem, text
  <2>5. ASSUME NEW s \in State, Goto(s) PROVE WideHolds
    <3>1. symbols' = [m \in Name |-> IF m \in {s} THEN Insert(symbols[m])
                                     ELSE symbols[m]]
      BY <2>5 DEF Goto, IInv, Functions
    <3> QED BY <2>5, <3>1, InsertedWide DEF Goto, text
  <2> QED BY <1>3, <2>1, <2>2, <2>3, <2>4, <2>5 DEF Machine
<1>4. CASE Inst
  <2>1. ASSUME NEW v, OpenInstance(v) PROVE WideHolds
    BY <2>1, NoWidths DEF OpenInstance, table, text
  <2>2. ASSUME NEW p \in Port, NEW k, NEW n \in Signal, NEW x \in Index, Connect(p, k, n, x)
        PROVE  WideHolds
    BY <2>2, CodeWide
  <2>3. ASSUME NEW p \in Port, LeaveOpen(p) PROVE WideHolds
    BY <2>3, NoWidths DEF LeaveOpen, table, text
  <2>4. ASSUME NEW p \in Port, MergeNet(p) \/ MergeExpression(p) PROVE WideHolds
    BY <2>4, MergeNetWide, MergeExpressionWide
  <2>5. ASSUME NEW p \in Port, MergeOpen(p) PROVE WideHolds
    BY <2>5, NoWidths DEF MergeOpen, Merges
  <2>6. ASSUME Rename \/ NoValue PROVE WideHolds
    BY <2>6, NoWidths DEF Rename, NoValue, Error, table, text
  <2> QED BY <1>4, <2>1, <2>2, <2>3, <2>4, <2>5, <2>6, CloseInstanceWide DEF Inst
<1>5. CASE Generate
  BY <1>5, NoWidths DEF Generate, GenSV, DropResult, table, text
<1>6. CASE UNCHANGED vars
  BY <1>6, NoWidths DEF vars
<1> QED BY <1>1, <1>2, <1>3, <1>4, <1>5, <1>6 DEF Next

\* The values of a module's parameters are set when its instance is opened and
\* taken back when it is closed.
LEMMA StepOverridden ==
  ASSUME IInv, RInv, Overridden, [Next]_vars PROVE Overridden'
<1> USE DEF Between, Parsing, In, Error, table, text, instance, fsm
<1>0. ASSUME UNCHANGED <<block, override>> PROVE Overridden'
  BY <1>0 DEF Overridden
<1>1. CASE Declare
  BY <1>0, <1>1
     DEF Declare, DeclarePort, DeclarePortError, DeclareVariable, DeclareArray,
         DeclareConstant
<1>2. ASSUME NEW k \in CodeBlock, block = None, override' = override,
             block' = NewBlock(k, None)
      PROVE  Overridden'
  BY <1>2 DEF Overridden, NewBlock, CodeBlock, Clocked
<1>3. CASE Code
  <2>1. ASSUME NEW k \in CodeBlock, OpenBlock(k) PROVE Overridden'
    BY <1>2, <2>1 DEF OpenBlock
  <2>2. ASSUME NEW n, NEW x, Read(n, x) \/ IndexOutOfRange(n, x) PROVE Overridden'
    BY <1>0, <2>2 DEF Read, IndexOutOfRange
  <2>3. ASSUME NEW n, NEW x, NEW f, Drive(n, x, f) PROVE Overridden'
    <3>1. /\ block \in OpenBlocks /\ block.kind # "inst" /\ override' = override
          /\ block' = [block EXCEPT !.lsymbols = @ \cup Lsymbols(n, x, f),
                            !.driven = @ \cup IF f THEN {} ELSE {n}]
      BY <2>3 DEF Drive, RInv, Listed, CodeBlock, Clocked
    <3>2. block'.kind = block.kind BY <3>1 DEF OpenBlocks
    <3> QED BY <3>1, <3>2 DEF Overridden
  <2>4. ASSUME NEW C, CloseBlock(C) PROVE Overridden'
    BY <2>4 DEF CloseBlock, Overridden, CodeBlock, Clocked
  <2> QED BY <1>3, <2>1, <2>2, <2>3, <2>4 DEF Code
<1>4. CASE Machine
  <2>1. ASSUME OpenFSM PROVE Overridden'
    BY <1>2, <2>1 DEF OpenFSM, CodeBlock, Clocked
  <2>2. ASSUME NEW s, RefuseFSM \/ StateItem(s) \/ Goto(s) PROVE Overridden'
    BY <1>0, <2>2 DEF RefuseFSM, StateItem, Goto
  <2>3. ASSUME NEW C, CloseFSM(C) PROVE Overridden'
    BY <2>3 DEF CloseFSM, Overridden
  <2> QED BY <1>4, <2>1, <2>2, <2>3 DEF Machine
<1>5. CASE Inst
  <2>1. ASSUME NEW v \in Override \cup {None}, OpenInstance(v) PROVE Overridden'
    <3>1. /\ block = None /\ block' = NewBlock("inst", v)
          /\ override' = IF v = None THEN override ELSE v
      BY <2>1 DEF OpenInstance
    <3>2. block' # None BY <3>1, NewListed
    <3>3. block'.kind = "inst" /\ block'.given = v BY <3>1 DEF NewBlock
    <3> QED BY <3>1, <3>2, <3>3 DEF Overridden
  <2>2. ASSUME NEW p, NEW k, NEW n, NEW x,
               Connect(p, k, n, x) \/ LeaveOpen(p) \/ Rename \/ NoValue
        PROVE  Overridden'
    BY <1>0, <2>2 DEF Connect, LeaveOpen, Rename, NoValue
  <2>3. ASSUME NEW p \in Port, MergeNet(p) \/ MergeExpression(p) \/ MergeOpen(p)
        PROVE  Overridden'
    <3>1. /\ block \in OpenBlocks /\ block # None /\ block.kind = "inst"
          /\ override' = override /\ block' \in {block, DrivenBy(p)}
      BY <2>3 DEF MergeNet, MergeExpression, MergeOpen, Merges, RInv, Listed
    <3>2. DrivenBy(p) \in [kind : {block.kind}, lsymbols : {DrivenBy(p).lsymbols},
                           driven : {DrivenBy(p).driven}, given : {block.given}]
      BY <3>1 DEF DrivenBy, OpenBlocks
    <3>3. block'.kind = "inst" /\ block'.given = block.given BY <3>1, <3>2
    <3>4. override = block.given BY <3>1 DEF Overridden
    <3>5. block' # None /\ override' = block'.given
      BY <2>3, <3>1, <3>3, <3>4, MergeBlock
    <3> QED BY <3>3, <3>5 DEF Overridden
  <2>4. ASSUME CloseInstance PROVE Overridden'
    BY <2>4 DEF CloseInstance, Overridden
  <2> QED BY <1>5, <2>1, <2>2, <2>3, <2>4 DEF Inst
<1>6. CASE Generate
  BY <1>0, <1>6 DEF Generate, GenSV, DropResult
<1>7. CASE UNCHANGED vars
  BY <1>0, <1>7 DEF vars
<1> QED BY <1>1, <1>3, <1>4, <1>5, <1>6, <1>7 DEF Next

LEMMA StepCounted ==
  ASSUME Counted, [Next]_vars PROVE Counted'
<1> USE DEF Between, Parsing, In, Error, table, text, instance, fsm
<1>0. ASSUME states' = states PROVE Counted'
  BY <1>0 DEF Counted
<1>1. ASSUME states' = <<>> PROVE Counted'
  BY <1>1, PowerAssumption DEF Counted
<1>2. ASSUME NEW s \in State, StateItem(s) PROVE Counted'
  <2>1. states' = Append(states, s) /\ Len(states) < MaxStates /\ states \in Seq(State)
    BY <1>2 DEF StateItem, Counted
  <2>2. states' \in Seq(State) /\ Len(states') = Len(states) + 1 /\ Len(states) \in Nat
    BY <2>1
  <2> QED BY <2>1, <2>2, PowerAssumption DEF Counted
<1>3. CASE Declare
  BY <1>0, <1>3
     DEF Declare, DeclarePort, DeclarePortError, DeclareVariable, DeclareArray,
         DeclareConstant
<1>4. CASE Code
  BY <1>0, <1>4 DEF Code, OpenBlock, Read, Drive, IndexOutOfRange, CloseBlock
<1>5. CASE Machine
  BY <1>0, <1>1, <1>2, <1>5 DEF Machine, OpenFSM, RefuseFSM, Goto, CloseFSM
<1>6. CASE Inst
  BY <1>0, <1>6
     DEF Inst, OpenInstance, Connect, LeaveOpen, MergeNet, MergeExpression, MergeOpen,
         Merges, Rename, NoValue, CloseInstance
<1>7. CASE Generate
  BY <1>0, <1>7 DEF Generate, GenSV, DropResult
<1>8. CASE UNCHANGED vars
  BY <1>0, <1>8 DEF vars
<1> QED BY <1>3, <1>4, <1>5, <1>6, <1>7, <1>8 DEF Next

LEMMA InitWInv == Init => WInv
<1> SUFFICES ASSUME Init PROVE WInv
  OBVIOUS
<1> USE DEF Init
<1>1. Uses BY DEF Uses
<1>2. AllWide BY DEF AllWide, Wide, NewSymbol, Fixed
<1>3. Overridden BY DEF Overridden
<1>4. Counted BY PowerAssumption DEF Counted
<1> QED BY <1>1, <1>2, <1>3, <1>4 DEF WInv

\* A net of no declared width is exactly as wide as its widest use, the ports
\* of instances under the values of their own parameters; one of declared width
\* holds every constant index that was accepted (CSymbol::Update, CIOTab::GetIO
\* and BuildFSM), whatever the order of the text.
THEOREM WidthsKept ==
  ASSUME ~Reconnect PROVE Spec => []WidthsCover
<1>1. IInv /\ RInv /\ [Next]_vars => RInv'
  BY NextRInv
<1>2. IInv /\ RInv /\ WInv /\ [Next]_vars => WInv'
  BY StepWide, StepOverridden, StepCounted DEF WInv, WideHolds
<1>3. WInv => WidthsCover
  BY DEF WInv, AllWide, Wide, WidthsCover
<1> QED BY <1>1, <1>2, <1>3, InitRInv, InitWInv, Invariant, PTL DEF Spec
===============================================================================
