--------------------------- MODULE AssembleProofs ---------------------------
(***************************************************************************)
(* Proofs about the reassembling channel of Assemble.tla: _Occupied is     *)
(* exact, a packet appears whole or not at all, and readers see an ordered *)
(* queue of whole packets (PacketQueue.tla).                               *)
(*                                                                         *)
(* The packets in the channel are told apart by their addresses: a piece,  *)
(* and what the pieces make up when they are merged, is known by a prefix  *)
(* of the addresses of the pieces below it, and no address in the channel  *)
(* is a prefix of another (ApartInv).  So a source that MergeFacets works  *)
(* on stands for a branch of the tree of addresses, and an entry that can  *)
(* be merged covers the branch (FamilyCovers): the sums over its pieces    *)
(* are the sums over all that lies below (TotalNest).                      *)
(***************************************************************************)
EXTENDS Assemble, FiniteSetTheorems, TLAPS

-----------------------------------------------------------------------------
\* Addresses.

\* A prefix has the same places.
LEMMA PrefixIs ==
  ASSUME NEW s \in Seq(Nat), NEW t \in Seq(Nat)
  PROVE  IsPrefix(s, t) <=> Len(s) <= Len(t) /\ \A i \in 1 .. Len(s) : s[i] = t[i]
<1> DEFINE u == SubSeq(t, 1, Len(s))
<1>1. SubSeq(s, 1, Len(s)) = s
  OBVIOUS
<1>2. ASSUME Len(s) <= Len(t)
      PROVE  /\ u \in Seq(Nat)
             /\ Len(u) = Len(s)
             /\ \A i \in 1 .. Len(s) : u[i] = t[i]
  BY <1>2
<1>3. ASSUME Len(s) <= Len(t), \A i \in 1 .. Len(s) : s[i] = t[i]
      PROVE  s = u
  BY <1>2, <1>3
<1>4. QED
  BY <1>1, <1>2, <1>3 DEF IsPrefix

\* A prefix of a prefix is a prefix.
LEMMA PrefixTrans ==
  ASSUME NEW s \in Seq(Nat), NEW t \in Seq(Nat), NEW u \in Seq(Nat),
         IsPrefix(s, t), IsPrefix(t, u)
  PROVE  IsPrefix(s, u)
<1>1. /\ Len(s) <= Len(t) /\ \A i \in 1 .. Len(s) : s[i] = t[i]
      /\ Len(t) <= Len(u) /\ \A i \in 1 .. Len(t) : t[i] = u[i]
  BY PrefixIs
<1>2. Len(s) <= Len(u) /\ \A i \in 1 .. Len(s) : s[i] = u[i]
  BY <1>1
<1>3. QED
  BY <1>2, PrefixIs

\* Of two prefixes the shorter is a prefix of the longer.
LEMMA PrefixMeet ==
  ASSUME NEW s \in Seq(Nat), NEW t \in Seq(Nat), NEW u \in Seq(Nat),
         IsPrefix(s, u), IsPrefix(t, u), Len(s) <= Len(t)
  PROVE  IsPrefix(s, t)
<1>1. /\ \A i \in 1 .. Len(s) : s[i] = u[i]
      /\ \A i \in 1 .. Len(t) : t[i] = u[i]
  BY PrefixIs
<1>2. \A i \in 1 .. Len(s) : s[i] = t[i]
  BY <1>1
<1>3. QED
  BY <1>2, PrefixIs

\* A prefix that is as long is the whole.
LEMMA PrefixWhole ==
  ASSUME NEW s \in Seq(Nat), NEW t \in Seq(Nat), IsPrefix(s, t), Len(t) <= Len(s)
  PROVE  s = t
BY PrefixIs

\* Every sequence is its own prefix.
LEMMA PrefixSelf ==
  ASSUME NEW s \in Seq(Nat)
  PROVE  IsPrefix(s, s)
BY PrefixIs

\* The first n places.
LEMMA Cut ==
  ASSUME NEW t \in Seq(Nat), NEW n \in 0 .. Len(t)
  PROVE  LET s == SubSeq(t, 1, n) IN
         /\ s \in Seq(Nat)
         /\ Len(s) = n
         /\ IsPrefix(s, t)
<1> DEFINE s == SubSeq(t, 1, n)
<1>1. s \in Seq(Nat) /\ Len(s) = n /\ \A i \in 1 .. n : s[i] = t[i]
  OBVIOUS
<1> HIDE DEF s
<1>2. IsPrefix(s, t)
  BY <1>1, PrefixIs
<1>3. QED
  BY <1>1, <1>2 DEF s

\* A prefix is a cut.
LEMMA PrefixIsCut ==
  ASSUME NEW s \in Seq(Nat), NEW t \in Seq(Nat), IsPrefix(s, t)
  PROVE  /\ Len(s) \in 0 .. Len(t)
         /\ s = SubSeq(t, 1, Len(s))
<1> DEFINE u == SubSeq(t, 1, Len(s))
<1>1. Len(s) <= Len(t) /\ \A i \in 1 .. Len(s) : s[i] = t[i]
  BY PrefixIs
<1>2. u \in Seq(Nat) /\ Len(u) = Len(s) /\ \A i \in 1 .. Len(s) : u[i] = t[i]
  BY <1>1
<1>3. u = s
  BY <1>1, <1>2
<1>4. QED
  BY <1>1, <1>3

-----------------------------------------------------------------------------
\* Sums.

\* The pairs that Total counts.
Pairs(m) == UNION {{x} \X (1 .. m[x]) : x \in DOMAIN m}

\* n pairs with the same first member are n.
LEMMA RowCount ==
  ASSUME NEW x, NEW n \in Nat
  PROVE  /\ IsFiniteSet({x} \X (1 .. n))
         /\ Cardinality({x} \X (1 .. n)) = n
<1> DEFINE S == {x}
           T == 1 .. n
<1>1. /\ IsFiniteSet(T)
      /\ Cardinality(T) = IF 1 > n THEN 0 ELSE n - 1 + 1
  BY FS_Interval
<1>2. /\ IsFiniteSet(S) /\ IsFiniteSet(T)
      /\ Cardinality(S) = 1 /\ Cardinality(T) = n
  <2>1. IsFiniteSet(S) /\ Cardinality(S) = 1
    BY FS_Singleton
  <2>2. QED
    BY <1>1, <2>1
<1> HIDE DEF S, T
<1>3. IsFiniteSet(S \X T) /\ Cardinality(S \X T) = Cardinality(S) * Cardinality(T)
  BY <1>2, FS_Product
<1>4. QED
  BY <1>2, <1>3 DEF S, T

\* A disjoint union has as many members as its parts together.
LEMMA DisjointCount ==
  ASSUME NEW S, NEW T, IsFiniteSet(S), IsFiniteSet(T), S \cap T = {}
  PROVE  /\ IsFiniteSet(S \cup T)
         /\ Cardinality(S \cup T) = Cardinality(S) + Cardinality(T)
<1>1. /\ Cardinality({}) = 0
      /\ Cardinality(S) \in Nat
      /\ Cardinality(T) \in Nat
  BY FS_EmptySet, FS_CardinalityType
<1>2. /\ IsFiniteSet(S \cup T)
      /\ Cardinality(S \cup T) =
           Cardinality(S) + Cardinality(T) - Cardinality(S \cap T)
  BY FS_Union, Zenon
<1>3. Cardinality(S \cap T) = 0
  BY <1>1
<1>4. QED
  BY <1>1, <1>2, <1>3

\* A sum over a finite set is a number.
LEMMA TotalType ==
  ASSUME NEW D, IsFiniteSet(D), NEW m \in [D -> Nat]
  PROVE  /\ IsFiniteSet(Pairs(m))
         /\ Total(m) = Cardinality(Pairs(m))
         /\ Total(m) \in Nat
<1> DEFINE row(x) == {x} \X (1 .. m[x])
           S == {row(x) : x \in D}
           h == [x \in D |-> row(x)]
<1>1. \A T \in S : IsFiniteSet(T)
  <2>1. \A x \in D : IsFiniteSet(row(x))
    BY RowCount
  <2>2. QED
    BY <2>1
<1>2. h \in Surjection(D, S)
  BY DEF Surjection
<1>3. IsFiniteSet(S)
  <2> HIDE DEF S, h
  <2>1. QED
    BY <1>2, FS_Surjection
<1>4. IsFiniteSet(UNION S)
  <2> HIDE DEF S
  <2>1. QED
    BY <1>1, <1>3, FS_UNION
<1>5. Pairs(m) = UNION S
  BY DEF Pairs
<1>6. Total(m) = Cardinality(Pairs(m))
  BY DEF Total, Pairs
<1>7. QED
  BY <1>4, <1>5, <1>6, FS_CardinalityType

\* The sum over two sets with nothing in common.
LEMMA TotalSplit ==
  ASSUME NEW S, NEW T, IsFiniteSet(S), IsFiniteSet(T), S \cap T = {},
         NEW U, U = S \cup T,
         NEW m \in [U -> Nat], NEW p \in [S -> Nat], NEW q \in [T -> Nat],
         \A x \in S : p[x] = m[x], \A x \in T : q[x] = m[x]
  PROVE  Total(m) = Total(p) + Total(q)
<1>1. DOMAIN m = S \cup T /\ DOMAIN p = S /\ DOMAIN q = T
  OBVIOUS
<1>2. Pairs(m) = Pairs(p) \cup Pairs(q)
  BY <1>1 DEF Pairs
<1>3. Pairs(p) \cap Pairs(q) = {}
  BY <1>1 DEF Pairs
<1>4. IsFiniteSet(U)
  BY FS_Union
<1>5. /\ IsFiniteSet(Pairs(p)) /\ Total(p) = Cardinality(Pairs(p))
      /\ IsFiniteSet(Pairs(q)) /\ Total(q) = Cardinality(Pairs(q))
      /\ Total(m) = Cardinality(Pairs(m))
  BY <1>4, TotalType
<1>6. Cardinality(Pairs(p) \cup Pairs(q)) = Cardinality(Pairs(p)) + Cardinality(Pairs(q))
  BY <1>3, <1>5, DisjointCount
<1>7. QED
  BY <1>2, <1>5, <1>6

\* The sum over one.
LEMMA TotalOne ==
  ASSUME NEW a, NEW m, DOMAIN m = {a}, m[a] \in Nat
  PROVE  Total(m) = m[a]
<1>1. Pairs(m) = {a} \X (1 .. m[a])
  BY DEF Pairs
<1>2. Total(m) = Cardinality(Pairs(m))
  BY DEF Total, Pairs
<1>3. QED
  BY <1>1, <1>2, RowCount

\* The sum over none.
LEMMA TotalNone ==
  ASSUME NEW m, DOMAIN m = {}
  PROVE  Total(m) = 0
<1>1. Pairs(m) = {}
  BY DEF Pairs
<1>2. QED
  BY <1>1, FS_EmptySet DEF Total, Pairs

\* The sums of the parts have the sum of the whole.
LEMMA TotalNest ==
  ASSUME NEW P, NEW D, IsFiniteSet(P), IsFiniteSet(D), NEW m \in [D -> Nat],
         NEW part \in [P -> SUBSET D],
         \A x, y \in P : part[x] \cap part[y] # {} => x = y,
         \A f \in D : \E x \in P : f \in part[x]
  PROVE  Total(m) = Total([x \in P |-> Total([f \in part[x] |-> m[f]])])
<1> DEFINE on(x) == [f \in part[x] |-> m[f]]
           n == [x \in P |-> Total(on(x))]
           B == [x \in P |-> CHOOSE b : b \in Bijection(1 .. n[x], Pairs(on(x)))]
           h == [z \in Pairs(n) |-> B[z[1]][z[2]]]
<1>1. \A x \in P : n[x] \in Nat /\ B[x] \in Bijection(1 .. n[x], Pairs(on(x)))
  <2> SUFFICES ASSUME NEW x \in P
               PROVE  n[x] \in Nat /\ B[x] \in Bijection(1 .. n[x], Pairs(on(x)))
    OBVIOUS
  <2>1. IsFiniteSet(part[x])
    BY FS_Subset
  <2>2. on(x) \in [part[x] -> Nat]
    OBVIOUS
  <2>3. /\ IsFiniteSet(Pairs(on(x)))
        /\ n[x] = Cardinality(Pairs(on(x)))
        /\ n[x] \in Nat
    <3> DEFINE o == on(x)
    <3>1. n[x] = Total(o)
      OBVIOUS
    <3>2. o \in [part[x] -> Nat]
      BY <2>2
    <3> HIDE DEF n, o
    <3>3. IsFiniteSet(Pairs(o)) /\ Total(o) = Cardinality(Pairs(o)) /\ Total(o) \in Nat
      BY <2>1, <3>2, TotalType
    <3>4. QED
      BY <3>1, <3>3 DEF o
  <2>4. ExistsBijection(1 .. n[x], Pairs(on(x)))
    <3> HIDE DEF n
    <3> DEFINE R == Pairs(on(x))
    <3> HIDE DEF R
    <3>1. IsFiniteSet(R) /\ n[x] = Cardinality(R)
      BY <2>3 DEF R
    <3>2. ExistsBijection(1 .. Cardinality(R), R)
      BY <3>1, FS_CardinalityType
    <3>3. QED
      BY <3>1, <3>2 DEF R
  <2>5. \E b : b \in Bijection(1 .. n[x], Pairs(on(x)))
    BY <2>4 DEF ExistsBijection
  <2>6. B[x] = CHOOSE b : b \in Bijection(1 .. n[x], Pairs(on(x)))
    OBVIOUS
  <2> HIDE DEF n, B
  <2>7. QED
    BY <2>3, <2>5, <2>6
<1>2. n \in [P -> Nat]
  BY <1>1
<1>3. DOMAIN n = P
  OBVIOUS
<1>4. \A z : z \in Pairs(n) <=> \E x \in P : \E j \in 1 .. n[x] : z = <<x, j>>
  <2> HIDE DEF n
  <2>1. QED
    BY <1>3 DEF Pairs
<1> DEFINE cells == [x \in P |-> Pairs(on(x))]
<1>5. \A x \in P : \A c : c \in cells[x] <=>
        \E f \in part[x] : \E i \in 1 .. m[f] : c = <<f, i>>
  <2> SUFFICES ASSUME NEW x \in P
               PROVE  \A c : c \in cells[x] <=>
                        \E f \in part[x] : \E i \in 1 .. m[f] : c = <<f, i>>
    OBVIOUS
  <2> DEFINE o == on(x)
  <2>1. cells[x] = Pairs(o)
    OBVIOUS
  <2>2. DOMAIN o = part[x] /\ \A f \in part[x] : o[f] = m[f]
    OBVIOUS
  <2> HIDE DEF o, cells
  <2>3. \A c : c \in Pairs(o) <=> \E f \in part[x] : \E i \in 1 .. m[f] : c = <<f, i>>
    BY <2>2 DEF Pairs
  <2>4. QED
    BY <2>1, <2>3
<1>6. \A c : c \in Pairs(m) <=> \E f \in D : \E i \in 1 .. m[f] : c = <<f, i>>
  BY DEF Pairs
<1>7. \A x \in P : \A j \in 1 .. n[x] : <<x, j>> \in Pairs(n) /\ h[<<x, j>>] = B[x][j]
  BY <1>4
<1>8. \A x \in P : /\ \A j \in 1 .. n[x] : B[x][j] \in cells[x]
                   /\ \A i, j \in 1 .. n[x] : B[x][i] = B[x][j] => i = j
                   /\ \A c \in cells[x] : \E j \in 1 .. n[x] : B[x][j] = c
  <2>1. \A x \in P : B[x] \in Bijection(1 .. n[x], cells[x])
    <3>1. \A x \in P : cells[x] = Pairs(on(x))
      OBVIOUS
    <3> HIDE DEF n, B, cells
    <3>2. QED
      BY <1>1, <3>1
  <2> HIDE DEF n, B, cells
  <2> SUFFICES ASSUME NEW x \in P
               PROVE  /\ \A j \in 1 .. n[x] : B[x][j] \in cells[x]
                      /\ \A i, j \in 1 .. n[x] : B[x][i] = B[x][j] => i = j
                      /\ \A c \in cells[x] : \E j \in 1 .. n[x] : B[x][j] = c
    OBVIOUS
  <2> DEFINE b == B[x]
             R == 1 .. n[x]
             K == cells[x]
  <2>2. b \in Bijection(R, K)
    BY <2>1
  <2> HIDE DEF b, R, K
  <2>3. /\ b \in [R -> K]
        /\ \A i, j \in R : b[i] = b[j] => i = j
        /\ \A c \in K : \E j \in R : b[j] = c
    BY <2>2 DEF Bijection, Injection, Surjection, IsInjective
  <2>4. \A j \in R : b[j] \in K
    BY <2>3
  <2>5. QED
    BY <2>3, <2>4 DEF b, R, K
<1>13. h = [z \in Pairs(n) |-> h[z]]
  OBVIOUS
<1> HIDE DEF n, B, h, cells
<1>9. \A x, y \in P : \A c : c \in cells[x] /\ c \in cells[y] => x = y
  <2> SUFFICES ASSUME NEW x \in P, NEW y \in P, NEW c, c \in cells[x], c \in cells[y]
               PROVE  x = y
    OBVIOUS
  <2>1. PICK f \in part[x] : \E i \in 1 .. m[f] : c = <<f, i>>
    BY <1>5
  <2>2. PICK g \in part[y] : \E i \in 1 .. m[g] : c = <<g, i>>
    BY <1>5
  <2>3. f = g
    BY <2>1, <2>2
  <2>4. QED
    BY <2>3
<1>10. \A x \in P : cells[x] \subseteq Pairs(m)
  BY <1>5, <1>6
<1>11. \A c \in Pairs(m) : \E x \in P : c \in cells[x]
  <2> SUFFICES ASSUME NEW c \in Pairs(m)
               PROVE  \E x \in P : c \in cells[x]
    OBVIOUS
  <2>1. PICK f \in D : \E i \in 1 .. m[f] : c = <<f, i>>
    BY <1>6
  <2>2. PICK x \in P : f \in part[x]
    OBVIOUS
  <2>3. QED
    BY <1>5, <2>1, <2>2
<1>14. \A z \in Pairs(n) : \E x \in P : \E j \in 1 .. n[x] : z = <<x, j>> /\ h[z] = B[x][j]
  BY <1>4, <1>7
<1>15. h \in [Pairs(n) -> Pairs(m)]
  <2>1. \A z \in Pairs(n) : h[z] \in Pairs(m)
    <3> SUFFICES ASSUME NEW z \in Pairs(n)
                 PROVE  h[z] \in Pairs(m)
      OBVIOUS
    <3>1. PICK x \in P : \E j \in 1 .. n[x] : z = <<x, j>> /\ h[z] = B[x][j]
      BY <1>14
    <3>2. h[z] \in cells[x] /\ cells[x] \subseteq Pairs(m)
      BY <3>1, <1>8, <1>10
    <3>3. QED
      BY <3>2
  <2>2. QED
    BY <2>1, <1>13
<1>16. \A z, w \in Pairs(n) : h[z] = h[w] => z = w
  <2> SUFFICES ASSUME NEW z \in Pairs(n), NEW w \in Pairs(n), h[z] = h[w]
               PROVE  z = w
    OBVIOUS
  <2>1. PICK x \in P : \E j \in 1 .. n[x] : z = <<x, j>> /\ h[z] = B[x][j]
    BY <1>14
  <2>2. PICK j \in 1 .. n[x] : z = <<x, j>> /\ h[z] = B[x][j]
    BY <2>1
  <2>3. PICK y \in P : \E i \in 1 .. n[y] : w = <<y, i>> /\ h[w] = B[y][i]
    BY <1>14
  <2>4. PICK i \in 1 .. n[y] : w = <<y, i>> /\ h[w] = B[y][i]
    BY <2>3
  <2>5. x = y
    BY <1>8, <1>9, <2>2, <2>4
  <2>6. i = j
    BY <1>8, <2>2, <2>4, <2>5
  <2>7. QED
    BY <2>2, <2>4, <2>5, <2>6
<1>17. \A c \in Pairs(m) : \E z \in Pairs(n) : h[z] = c
  <2> SUFFICES ASSUME NEW c \in Pairs(m)
               PROVE  \E z \in Pairs(n) : h[z] = c
    OBVIOUS
  <2>1. PICK x \in P : c \in cells[x]
    BY <1>11
  <2>2. PICK j \in 1 .. n[x] : B[x][j] = c
    BY <1>8, <2>1
  <2>3. QED
    BY <1>7, <2>2
<1>18. ExistsBijection(Pairs(n), Pairs(m))
  <2>1. h \in Bijection(Pairs(n), Pairs(m))
    BY <1>15, <1>16, <1>17 DEF Bijection, Injection, Surjection, IsInjective
  <2>2. QED
    BY <2>1 DEF ExistsBijection
<1>19. /\ IsFiniteSet(Pairs(n)) /\ Total(n) = Cardinality(Pairs(n))
       /\ Total(m) = Cardinality(Pairs(m))
  BY <1>2, TotalType
<1>20. Cardinality(Pairs(m)) = Cardinality(Pairs(n))
  BY <1>18, <1>19, FS_Bijection
<1>21. Total(m) = Total(n)
  BY <1>19, <1>20
<1>22. QED
  BY <1>21 DEF n

-----------------------------------------------------------------------------
\* The inductive invariant, in parts.

\* What waits to be merged.
Stored == pool \cup toAssemble

\* All packets in the channel.
Live == Stored \cup ToSet(content)

\* x is f, or what f becomes when its upper levels are merged.
Ancestor(x, f) ==
  /\ f \in AllFragments
  /\ Len(x.split) <= Len(f.split)
  /\ x.id = Address(f, Len(x.split))
  /\ x.split = SubSeq(f.split, 1, Len(x.split))

\* Sizes and lengths add up.
Sums(x) ==
  /\ x.size = Total([f \in Below(x.id) |-> f.size])
  /\ x.length = Total([f \in Below(x.id) |-> f.length])

\* The types.
TypeInv ==
  /\ sent \in [Writer -> Nat]
  /\ chSize \in [Id -> Nat]
  /\ offset \in [Id -> Nat]
  /\ pool \subseteq PacketRecord /\ IsFiniteSet(pool)
  /\ toAssemble \subseteq PacketRecord /\ IsFiniteSet(toAssemble)
  /\ content \in Seq(PacketRecord)
  /\ arrived \in Seq(Seq(Nat))
  /\ occupied \in Nat

\* What is in the channel are pieces and what they make up, with the right sums.
ShapeInv ==
  /\ \A x \in Live : (\E f \in AllFragments : Ancestor(x, f)) /\ Sums(x)
  /\ \A x \in Live, f \in AllFragments : x.id = f.id => x = f
  /\ \A x \in Stored : x.split # <<>>
  /\ \A x \in ToSet(content) : x.split = <<>>
  /\ \A i \in DOMAIN arrived : \E f \in AllFragments : arrived[i] = Address(f, 0)

\* No packet is there as itself and as a part of another one.
ApartInv ==
  /\ \A x, y \in Live : IsPrefix(x.id, y.id) => x = y
  /\ \A x \in Stored, i \in DOMAIN arrived :
       ~IsPrefix(arrived[i], x.id) /\ ~IsPrefix(x.id, arrived[i])
  /\ \A i, j \in DOMAIN arrived : IsPrefix(arrived[i], arrived[j]) => i = j

\* The content is what has arrived last.
QueueInv ==
  /\ Len(content) <= Len(arrived)
  /\ \A k \in DOMAIN content : content[k].id = arrived[Len(arrived) - Len(content) + k]

\* What is put back after the loop is not in the pool.
PoolInv ==
  /\ pool \cap toAssemble = {}
  /\ Running => toAssemble = {}

\* The addresses of what is in the channel or has left it whole.
Seen == {x.id : x \in Live} \cup ToSet(arrived)

\* What was merged was complete, and what is in part there stands in the channel.
ByteInv ==
  /\ \A f \in AllFragments : chSize[f.id] <= f.size
  /\ \A x \in Live : x \notin AllFragments => chSize[x.id] = x.size
  /\ \A id \in Id : offset[id] <= chSize[id]
  /\ \A id \in Id : offset[id] # 0 => id \in ToSet(arrived)
  /\ \A f \in AllFragments, id \in Seen :
       IsPrefix(id, f.id) /\ f \notin Live => IsChComplete(f)
  /\ \A f \in AllFragments : chSize[f.id] # 0 /\ ~IsChComplete(f) => f \in Live

\* What a writer has still to bring is not complete.
SentInv ==
  \A w \in Writer : \A i \in DOMAIN Cargo[w] :
    i > sent[w] => ~IsChComplete(Cargo[w][i])

\* The inductive invariant.
IInv ==
  /\ TypeInv
  /\ ShapeInv
  /\ ApartInv
  /\ QueueInv
  /\ PoolInv
  /\ ByteInv
  /\ SentInv
  /\ OccupiedExact

-----------------------------------------------------------------------------
\* Pieces.

\* How often f was cut.
Depth(f) == Len(f.split)

\* The length of its address before.
Base(f) == Len(f.id) - Len(f.split)

\* What the assumptions say of a piece, with its addresses.
LEMMA FragmentType ==
  ASSUME NEW f \in AllFragments
  PROVE  /\ f \in PacketRecord
         /\ f.id \in Seq(Nat)
         /\ f.split \in Seq(SplitStatus)
         /\ Depth(f) \in Nat /\ Base(f) \in Nat
         /\ Len(f.id) = Base(f) + Depth(f)
         /\ DOMAIN f.split = 1 .. Depth(f)
         /\ f.size \in Nat \ {0} /\ f.length \in Nat
<1>1. f \in PacketRecord /\ f.size # 0 /\ Len(f.split) <= Len(f.id)
  BY CutAssumption
<1>2. /\ f.id \in Seq(Nat) /\ f.split \in Seq(SplitStatus)
      /\ f.size \in Nat /\ f.length \in Nat
  BY <1>1 DEF PacketRecord
<1>3. /\ Len(f.id) \in Nat /\ Len(f.split) \in Nat
      /\ DOMAIN f.split = 1 .. Len(f.split)
  BY <1>2
<1> DEFINE a == Len(f.id)
           b == Len(f.split)
<1>4. a \in Nat /\ b \in Nat /\ b <= a
  BY <1>1, <1>3
<1> HIDE DEF a, b
<1>5. a - b \in Nat /\ a = (a - b) + b
  BY <1>4
<1>6. QED
  BY <1>1, <1>2, <1>3, <1>5 DEF Depth, Base, a, b

\* The addresses above a piece.
LEMMA AddressType ==
  ASSUME NEW f \in AllFragments, NEW n \in 0 .. Depth(f)
  PROVE  /\ Address(f, n) \in Seq(Nat)
         /\ Len(Address(f, n)) = Base(f) + n
         /\ IsPrefix(Address(f, n), f.id)
         /\ Address(f, n) \in Id
         /\ n = Depth(f) => Address(f, n) = f.id
<1> DEFINE k == Base(f) + n
<1>1. Depth(f) \in Nat /\ Base(f) \in Nat /\ Len(f.id) = Base(f) + Depth(f)
  BY FragmentType
<1>2. f.id \in Seq(Nat)
  BY FragmentType
<1>3. Address(f, n) = SubSeq(f.id, 1, k)
  BY DEF Address, Base
<1>4. k \in 0 .. Len(f.id) /\ (n = Depth(f) => k = Len(f.id))
  BY <1>1
<1> HIDE DEF k
<1>5. /\ SubSeq(f.id, 1, k) \in Seq(Nat)
      /\ Len(SubSeq(f.id, 1, k)) = k
      /\ IsPrefix(SubSeq(f.id, 1, k), f.id)
  BY <1>2, <1>4, Cut
<1>6. Address(f, n) \in Id
  BY DEF Id, Depth
<1>7. SubSeq(f.id, 1, Len(f.id)) = f.id
  BY <1>2
<1>8. QED
  BY <1>3, <1>4, <1>5, <1>6, <1>7 DEF k

\* No piece is a part of another.
LEMMA FragmentsApart ==
  ASSUME NEW f \in AllFragments, NEW g \in AllFragments, IsPrefix(f.id, g.id)
  PROVE  f = g
BY CutAssumption DEF Below

\* A SplitStatus is shared by all that is below its source.
LEMMA Kin ==
  ASSUME NEW f \in AllFragments, NEW n \in 1 .. Depth(f),
         NEW g \in Below(Address(f, n - 1))
  PROVE  /\ g \in AllFragments
         /\ n \in 1 .. Depth(g)
         /\ SubSeq(g.split, 1, n) = SubSeq(f.split, 1, n)
         /\ Base(g) = Base(f)
         /\ Address(g, n - 1) = Address(f, n - 1)
         /\ f.split[n].source = Address(f, n - 1)
         /\ f.split[n].total = Cardinality(Children(Address(f, n - 1)))
<1>1. n \in DOMAIN f.split
  BY FragmentType
<1>2. /\ f.split[n].source = Address(f, n - 1)
      /\ f.split[n].total = Cardinality(Children(Address(f, n - 1)))
      /\ Depth(g) >= n /\ SubSeq(g.split, 1, n) = SubSeq(f.split, 1, n)
  BY <1>1, CutAssumption DEF Depth
<1>3. g \in AllFragments
  BY DEF Below
<1>4. /\ Depth(f) \in Nat /\ Base(f) \in Nat /\ f.split \in Seq(SplitStatus)
      /\ Depth(g) \in Nat /\ Base(g) \in Nat /\ g.split \in Seq(SplitStatus)
      /\ DOMAIN g.split = 1 .. Depth(g)
  BY <1>3, FragmentType
<1>5. n \in 1 .. Depth(g) /\ n \in DOMAIN g.split
  BY <1>2, <1>4
<1>6. g.split[n] = f.split[n]
  <2>1. SubSeq(g.split, 1, n)[n] = g.split[n]
    BY <1>4, <1>5 DEF Depth
  <2>2. SubSeq(f.split, 1, n)[n] = f.split[n]
    BY <1>1, <1>4 DEF Depth
  <2>3. QED
    BY <1>2, <2>1, <2>2
<1>7. g.split[n].source = Address(g, n - 1)
  BY <1>3, <1>5, CutAssumption
<1>8. Address(g, n - 1) = Address(f, n - 1)
  BY <1>2, <1>6, <1>7
<1>9. /\ Len(Address(g, n - 1)) = Base(g) + (n - 1)
      /\ Len(Address(f, n - 1)) = Base(f) + (n - 1)
  <2>1. n - 1 \in 0 .. Depth(g) /\ n - 1 \in 0 .. Depth(f)
    BY <1>4, <1>5
  <2>2. QED
    BY <1>3, <2>1, AddressType
<1>10. Base(g) = Base(f)
  BY <1>4, <1>8, <1>9
<1>11. QED
  BY <1>2, <1>3, <1>5, <1>8, <1>10

\* The next address on the way from a source to what is below it.
LEMMA ChildType ==
  ASSUME NEW f \in AllFragments, NEW n \in 1 .. Depth(f),
         NEW g \in Below(Address(f, n - 1))
  PROVE  LET source == Address(f, n - 1)
             c == SubSeq(g.id, 1, Len(source) + 1)
         IN /\ c = Address(g, n)
            /\ c \in Children(source)
            /\ c \in Seq(Nat)
            /\ Len(c) = Len(source) + 1
            /\ IsPrefix(c, g.id)
            /\ IsPrefix(source, c)
            /\ source \in Seq(Nat) /\ Len(source) = Base(f) + (n - 1)
<1> DEFINE source == Address(f, n - 1)
           c == SubSeq(g.id, 1, Len(source) + 1)
<1>1. g \in AllFragments /\ n \in 1 .. Depth(g) /\ Base(g) = Base(f)
  BY Kin
<1>2. /\ Depth(f) \in Nat /\ Base(f) \in Nat /\ Depth(g) \in Nat
      /\ g.id \in Seq(Nat)
  BY <1>1, FragmentType
<1>3. n - 1 \in 0 .. Depth(f) /\ n \in 0 .. Depth(g)
  BY <1>1, <1>2
<1>4. source \in Seq(Nat) /\ Len(source) = Base(f) + (n - 1)
  BY <1>3, AddressType
<1>5. Len(source) + 1 = Base(g) + n
  <2> DEFINE k == Len(source)
             b == Base(f)
             d == Depth(f)
  <2>1. k = b + (n - 1) /\ b \in Nat /\ d \in Nat /\ n \in 1 .. d
    BY <1>2, <1>4
  <2> HIDE DEF k, b, d
  <2>2. k + 1 = b + n
    BY <2>1
  <2>3. QED
    BY <1>1, <2>2 DEF k, b
<1>6. c = Address(g, n)
  BY <1>5 DEF Address, Base
<1>7. c \in Seq(Nat) /\ Len(c) = Base(g) + n /\ IsPrefix(c, g.id)
  BY <1>1, <1>3, <1>6, AddressType
<1>8. c \in Children(source)
  BY DEF Children
<1>9. IsPrefix(source, g.id)
  BY DEF Below
<1> HIDE DEF source, c
<1>10. Len(source) <= Len(c)
  BY <1>1, <1>2, <1>4, <1>7
<1>11. IsPrefix(source, c)
  BY <1>2, <1>4, <1>7, <1>9, <1>10, PrefixMeet
<1>12. QED
  BY <1>4, <1>5, <1>6, <1>7, <1>8, <1>11 DEF source, c

\* What the channel has of a piece.
LEMMA AncestorIs ==
  ASSUME NEW x \in PacketRecord, NEW f \in AllFragments, Ancestor(x, f)
  PROVE  /\ x.id \in Seq(Nat) /\ x.id \in Id
         /\ IsPrefix(x.id, f.id) /\ f \in Below(x.id)
         /\ Depth(x) \in 0 .. Depth(f)
         /\ x.split \in Seq(SplitStatus)
         /\ Len(x.id) = Base(f) + Depth(x)
<1>1. x.split \in Seq(SplitStatus)
  BY DEF PacketRecord
<1>2. Depth(x) \in 0 .. Depth(f)
  BY <1>1, FragmentType DEF Ancestor, Depth
<1>3. x.id = Address(f, Depth(x))
  BY DEF Ancestor, Depth
<1>4. QED
  BY <1>1, <1>2, <1>3, AddressType DEF Below

\* The top of its stack.
LEMMA TopIs ==
  ASSUME NEW x \in PacketRecord, NEW f \in AllFragments, Ancestor(x, f), x.split # <<>>
  PROVE  LET n == Depth(x) IN
         /\ n \in 1 .. Depth(f)
         /\ Top(x).source = Address(f, n - 1)
         /\ Top(x).total = Cardinality(Children(Address(f, n - 1)))
         /\ f \in Below(Address(f, n - 1))
         /\ x.id = Address(f, n)
         /\ x.id \in Children(Address(f, n - 1))
         /\ IsPrefix(Top(x).source, x.id)
         /\ Len(x.id) = Len(Top(x).source) + 1
         /\ Top(x).source \in Seq(Nat) /\ Top(x).source \in Id
<1> DEFINE n == Depth(x)
<1>1. /\ x.split \in Seq(SplitStatus) /\ n \in 0 .. Depth(f)
      /\ x.split = SubSeq(f.split, 1, n)
      /\ x.id = Address(f, n)
  BY AncestorIs DEF Ancestor, Depth
<1>2. n # 0
  BY <1>1 DEF Depth
<1>3. /\ f.split \in Seq(SplitStatus) /\ Depth(f) \in Nat
      /\ DOMAIN f.split = 1 .. Depth(f)
  BY FragmentType
<1>4. n \in 1 .. Depth(f) /\ n - 1 \in 0 .. Depth(f)
  BY <1>1, <1>2, <1>3
<1>5. Top(x) = f.split[n]
  <2>1. Top(x) = x.split[n]
    BY DEF Top, Last, Depth
  <2>2. SubSeq(f.split, 1, n)[n] = f.split[n]
    <3> HIDE DEF n
    <3>1. n \in DOMAIN f.split
      BY <1>3, <1>4
    <3>2. QED
      BY <1>3, <3>1
  <2>3. QED
    BY <1>1, <2>1, <2>2
<1>6. /\ Address(f, n - 1) \in Seq(Nat) /\ IsPrefix(Address(f, n - 1), f.id)
      /\ Address(f, n - 1) \in Id
  BY <1>4, AddressType
<1>7. f \in Below(Address(f, n - 1))
  BY <1>6 DEF Below
<1>8. /\ f.split[n].source = Address(f, n - 1)
      /\ f.split[n].total = Cardinality(Children(Address(f, n - 1)))
  BY <1>4, <1>7, Kin
<1>9. LET source == Address(f, n - 1)
          c == SubSeq(f.id, 1, Len(source) + 1)
      IN /\ c = Address(f, n) /\ c \in Children(source)
         /\ Len(c) = Len(source) + 1 /\ IsPrefix(source, c)
  BY <1>4, <1>7, ChildType
<1>10. QED
  BY <1>1, <1>4, <1>5, <1>6, <1>7, <1>8, <1>9

-----------------------------------------------------------------------------
\* One number changes.

\* The sum over one more.
LEMMA TotalMore ==
  ASSUME NEW S, IsFiniteSet(S), NEW a, a \notin S,
         NEW U, U = S \cup {a},
         NEW m \in [U -> Nat], NEW p \in [S -> Nat], \A x \in S : p[x] = m[x]
  PROVE  Total(m) = Total(p) + m[a]
<1> DEFINE T == {a}
           q == [x \in T |-> m[x]]
<1>1. IsFiniteSet(T)
  BY FS_Singleton
<1>2. S \cap T = {} /\ U = S \cup T /\ q \in [T -> Nat]
  OBVIOUS
<1>3. DOMAIN q = {a} /\ q[a] = m[a] /\ m[a] \in Nat
  OBVIOUS
<1>4. \A x \in T : q[x] = m[x]
  OBVIOUS
<1>5. Total(q) = m[a]
  <2> HIDE DEF q
  <2>1. QED
    BY <1>3, TotalOne
<1> HIDE DEF T, q
<1>6. Total(m) = Total(p) + Total(q)
  BY <1>1, <1>2, <1>4, TotalSplit
<1>7. QED
  BY <1>5, <1>6

\* The sum follows the change of one of its numbers.
LEMMA TotalPoint ==
  ASSUME NEW D, IsFiniteSet(D), NEW a \in D, NEW m \in [D -> Nat], NEW l \in [D -> Nat],
         \A x \in D : x # a => l[x] = m[x]
  PROVE  Total(l) = Total(m) + (l[a] - m[a])
<1> DEFINE R == D \ {a}
           p == [x \in R |-> m[x]]
<1>1. IsFiniteSet(R)
  BY FS_Subset
<1>2. R \cup {a} = D /\ a \notin R
  OBVIOUS
<1>3. /\ p \in [R -> Nat]
      /\ \A x \in R : p[x] = m[x]
      /\ \A x \in R : p[x] = l[x]
  OBVIOUS
<1>4. m[a] \in Nat /\ l[a] \in Nat
  OBVIOUS
<1> HIDE DEF R, p
<1>6. Total(m) = Total(p) + m[a]
  BY <1>1, <1>2, <1>3, TotalMore
<1>7. Total(l) = Total(p) + l[a]
  BY <1>1, <1>2, <1>3, TotalMore
<1>8. Total(p) \in Nat
  BY <1>1, <1>3, TotalType
<1>9. QED
  BY <1>4, <1>6, <1>7, <1>8

-----------------------------------------------------------------------------
\* What is merged.

\* All pieces of source are in the pool: they are one for each child of it, were
\* cut in the same way, and are as deep.
Family(source, f, n) ==
  /\ f \in AllFragments
  /\ n \in 1 .. Depth(f)
  /\ source = Address(f, n - 1)
  /\ f \in Below(source)
  /\ \A x \in FacetSet(source) :
       /\ x \in PacketRecord
       /\ x.id \in Children(source)
       /\ x.id \in Seq(Nat)
       /\ Len(x.id) = Len(source) + 1
       /\ IsPrefix(source, x.id)
       /\ x.split = SubSeq(f.split, 1, n)
  /\ \A c \in Children(source) : \E x \in FacetSet(source) : x.id = c

\* The parts of the invariant speak of the facets of an entry.
LEMMA FacetOf ==
  ASSUME TypeInv, ShapeInv, NEW source, NEW x \in FacetSet(source)
  PROVE  /\ x \in pool /\ x \in Stored /\ x \in Live
         /\ x \in PacketRecord
         /\ Top(x).source = source
         /\ x.split # <<>>
         /\ \E g \in AllFragments : Ancestor(x, g)
         /\ Sums(x)
<1>1. x \in pool /\ Top(x).source = source
  BY DEF FacetSet
<1>2. x \in Stored /\ x \in Live
  BY <1>1 DEF Stored, Live
<1>3. x \in PacketRecord
  BY <1>1 DEF TypeInv
<1>4. QED
  BY <1>1, <1>2, <1>3 DEF ShapeInv

\* An entry that can be merged has a piece for each child of its source.
LEMMA FamilyIs ==
  ASSUME TypeInv, ShapeInv, ApartInv, NEW source, Mergeable(source)
  PROVE  \E f, n : Family(source, f, n)
<1> DEFINE FS == FacetSet(source)
<1>1. PICK x \in FS : TRUE
  BY DEF Mergeable
<1>2. PICK f \in AllFragments : Ancestor(x, f)
  BY FacetOf
<1>3. x \in PacketRecord /\ x.split # <<>> /\ Top(x).source = source
  BY FacetOf
<1> DEFINE n == Depth(x)
<1>4. /\ n \in 1 .. Depth(f)
      /\ source = Address(f, n - 1)
      /\ Top(x).total = Cardinality(Children(source))
      /\ f \in Below(source)
      /\ source \in Seq(Nat)
      /\ Len(x.id) = Len(source) + 1
  BY <1>2, <1>3, TopIs
<1>5. Depth(f) \in Nat /\ Base(f) \in Nat
  BY FragmentType
<1> HIDE DEF n
<1>6. Len(source) = Base(f) + (n - 1)
  BY <1>4, <1>5, AddressType
<1>7. ASSUME NEW y \in FS
      PROVE  /\ y \in PacketRecord
             /\ y.id \in Children(source)
             /\ y.id \in Seq(Nat)
             /\ Len(y.id) = Len(source) + 1
             /\ IsPrefix(source, y.id)
             /\ y.split = SubSeq(f.split, 1, n)
  <2>1. PICK g \in AllFragments : Ancestor(y, g)
    BY <1>7, FacetOf
  <2>2. y \in PacketRecord /\ y.split # <<>> /\ Top(y).source = source
    BY <1>7, FacetOf
  <2> DEFINE k == Depth(y)
  <2>3. /\ k \in 1 .. Depth(g)
        /\ source = Address(g, k - 1)
        /\ g \in Below(source)
        /\ y.id \in Children(source)
        /\ IsPrefix(source, y.id)
        /\ Len(y.id) = Len(source) + 1
    BY <2>1, <2>2, TopIs
  <2>4. y.id \in Seq(Nat) /\ y.split = SubSeq(g.split, 1, k)
    BY <2>1, <2>2, AncestorIs DEF Ancestor, Depth
  <2> HIDE DEF k
  <2>5. /\ Base(g) = Base(f)
        /\ SubSeq(g.split, 1, n) = SubSeq(f.split, 1, n)
    <3>1. g \in Below(Address(f, n - 1))
      BY <1>4, <2>3
    <3>2. QED
      BY <1>4, <3>1, Kin
  <2>6. Depth(g) \in Nat
    BY FragmentType
  <2>7. Len(source) = Base(g) + (k - 1)
    BY <2>3, <2>6, AddressType
  <2>8. k = n
    BY <1>4, <1>5, <1>6, <2>3, <2>5, <2>6, <2>7
  <2>9. QED
    BY <2>2, <2>3, <2>4, <2>5, <2>8
<1>8. \A c \in Children(source) : \E y \in FS : y.id = c
  <2> DEFINE K == Children(source)
             h == [y \in FS |-> y.id]
             B == Below(source)
             e == [g \in B |-> SubSeq(g.id, 1, Len(source) + 1)]
  <2>1. h \in Injection(FS, K)
    <3>1. \A y \in FS : y.id \in K
      BY <1>7
    <3>2. \A y, z \in FS : y.id = z.id => y = z
      <4> SUFFICES ASSUME NEW y \in FS, NEW z \in FS, y.id = z.id
                   PROVE  y = z
        OBVIOUS
      <4>1. y \in Live /\ z \in Live /\ y.id \in Seq(Nat)
        BY <1>7, FacetOf
      <4>2. IsPrefix(y.id, z.id)
        BY <4>1, PrefixSelf
      <4>3. QED
        BY <4>1, <4>2 DEF ApartInv
    <3> HIDE DEF FS, K
    <3>3. QED
      BY <3>1, <3>2 DEF Injection, IsInjective
  <2>2. IsFiniteSet(K)
    <3>1. IsFiniteSet(B)
      BY CutAssumption, FS_Subset DEF Below
    <3>2. K = {SubSeq(g.id, 1, Len(source) + 1) : g \in B}
      BY DEF Children
    <3>3. e \in Surjection(B, K)
      <4> HIDE DEF B, K
      <4>1. QED
        BY <3>2 DEF Surjection
    <3> HIDE DEF B, K, e
    <3>4. QED
      BY <3>1, <3>3, FS_Surjection
  <2>3. Cardinality(FS) = Cardinality(K)
    BY <1>1, <1>4 DEF Mergeable
  <2> HIDE DEF K, h, FS
  <2>4. h \in Surjection(FS, K)
    BY <2>1, <2>2, <2>3, FS_Injection
  <2>5. \A c \in K : \E y \in FS : h[y] = c
    BY <2>4 DEF Surjection
  <2>6. QED
    BY <2>5 DEF h, K
<1>9. Family(source, f, n)
  BY <1>4, <1>7, <1>8 DEF Family
<1>10. QED
  BY <1>9

\* Each piece below the source is below one facet of its entry.
LEMMA FamilyCovers ==
  ASSUME NEW source, NEW f, NEW n, Family(source, f, n)
  PROVE  /\ source \in Seq(Nat) /\ source \in Id
         /\ \A x \in FacetSet(source) : Below(x.id) \subseteq Below(source)
         /\ \A g \in Below(source) : \E x \in FacetSet(source) : g \in Below(x.id)
<1>1. /\ f \in AllFragments /\ n \in 1 .. Depth(f) /\ source = Address(f, n - 1)
  BY DEF Family
<1>2. Depth(f) \in Nat
  BY <1>1, FragmentType
<1>3. source \in Seq(Nat) /\ source \in Id
  BY <1>1, <1>2, AddressType
<1>4. ASSUME NEW x \in FacetSet(source), NEW g \in Below(x.id)
      PROVE  g \in Below(source)
  <2>1. x.id \in Seq(Nat) /\ IsPrefix(source, x.id)
    BY DEF Family
  <2>2. g \in AllFragments /\ IsPrefix(x.id, g.id)
    BY <1>4 DEF Below
  <2>3. g.id \in Seq(Nat)
    BY <2>2, FragmentType
  <2>4. QED
    BY <1>3, <2>1, <2>2, <2>3, PrefixTrans DEF Below
<1>5. ASSUME NEW g \in Below(source)
      PROVE  \E x \in FacetSet(source) : g \in Below(x.id)
  <2> DEFINE c == SubSeq(g.id, 1, Len(source) + 1)
  <2>1. c \in Children(source) /\ IsPrefix(c, g.id)
    BY <1>1, ChildType
  <2>2. PICK x \in FacetSet(source) : x.id = c
    BY <2>1 DEF Family
  <2>3. g \in AllFragments
    BY DEF Below
  <2>4. QED
    BY <2>1, <2>2, <2>3 DEF Below
<1>6. QED
  BY <1>3, <1>4, <1>5

\* Two facets of an entry have nothing below them in common.
LEMMA FamilyApart ==
  ASSUME TypeInv, ShapeInv, ApartInv, NEW source, NEW f, NEW n, Family(source, f, n),
         NEW x \in FacetSet(source), NEW y \in FacetSet(source),
         Below(x.id) \cap Below(y.id) # {}
  PROVE  x = y
<1>1. PICK g : g \in Below(x.id) /\ g \in Below(y.id)
  OBVIOUS
<1>2. g \in AllFragments /\ IsPrefix(x.id, g.id) /\ IsPrefix(y.id, g.id)
  BY <1>1 DEF Below
<1>3. /\ x.id \in Seq(Nat) /\ y.id \in Seq(Nat)
      /\ Len(x.id) = Len(source) + 1 /\ Len(y.id) = Len(source) + 1
  BY DEF Family
<1>4. g.id \in Seq(Nat)
  BY <1>2, FragmentType
<1>5. Len(x.id) <= Len(y.id)
  <2>1. Len(x.id) = Len(y.id) /\ Len(x.id) \in Nat
    BY <1>3
  <2>2. QED
    BY <2>1
<1>6. IsPrefix(x.id, y.id)
  BY <1>2, <1>3, <1>4, <1>5, PrefixMeet
<1>7. x \in Live /\ y \in Live
  BY FacetOf
<1>8. QED
  BY <1>6, <1>7 DEF ApartInv

\* A number of the pieces, summed over the facets of an entry, is its sum over all
\* that is below the source.
LEMMA FamilyTotal ==
  ASSUME TypeInv, ShapeInv, ApartInv, NEW source, NEW f, NEW n, Family(source, f, n),
         NEW m \in [AllFragments -> Nat]
  PROVE  Total([g \in Below(source) |-> m[g]])
           = Total([x \in FacetSet(source) |-> Total([g \in Below(x.id) |-> m[g]])])
<1> DEFINE P == FacetSet(source)
           D == Below(source)
           part == [x \in P |-> Below(x.id)]
           on == [g \in D |-> m[g]]
<1>1. IsFiniteSet(P)
  <2>1. IsFiniteSet(pool) /\ P \subseteq pool
    BY DEF TypeInv, FacetSet
  <2>2. QED
    BY <2>1, FS_Subset
<1>2. IsFiniteSet(D)
  BY CutAssumption, FS_Subset DEF Below
<1>3. D \subseteq AllFragments
  BY DEF Below
<1>4. on \in [D -> Nat]
  BY <1>3
<1>5. part \in [P -> SUBSET D]
  <2>1. \A x \in P : Below(x.id) \in SUBSET D
    BY FamilyCovers
  <2> HIDE DEF P, D
  <2>2. QED
    BY <2>1
<1>6. \A x, y \in P : part[x] \cap part[y] # {} => x = y
  <2> SUFFICES ASSUME NEW x \in P, NEW y \in P, part[x] \cap part[y] # {}
               PROVE  x = y
    OBVIOUS
  <2>1. Below(x.id) \cap Below(y.id) # {}
    OBVIOUS
  <2>2. QED
    BY <2>1, FamilyApart
<1>7. \A g \in D : \E x \in P : g \in part[x]
  <2>1. \A g \in D : \E x \in P : g \in Below(x.id)
    BY FamilyCovers
  <2> HIDE DEF P, D
  <2>2. QED
    BY <2>1
<1>8. \A x \in P : [g \in part[x] |-> on[g]] = [g \in Below(x.id) |-> m[g]]
  <2> SUFFICES ASSUME NEW x \in P
               PROVE  [g \in part[x] |-> on[g]] = [g \in Below(x.id) |-> m[g]]
    OBVIOUS
  <2>1. part[x] = Below(x.id) /\ part[x] \subseteq D
    BY <1>5
  <2>2. \A g \in Below(x.id) : on[g] = m[g]
    BY <2>1
  <2> HIDE DEF part, on
  <2>3. QED
    BY <2>1, <2>2
<1>9. [x \in P |-> Total([g \in part[x] |-> on[g]])]
        = [x \in P |-> Total([g \in Below(x.id) |-> m[g]])]
  <2> HIDE DEF P, on, part
  <2>1. QED
    BY <1>8
<1>10. Total(on) = Total([x \in P |-> Total([g \in part[x] |-> on[g]])])
  <2> HIDE DEF P, D, part, on
  <2>1. QED
    BY <1>1, <1>2, <1>4, <1>5, <1>6, <1>7, TotalNest
<1>11. Total(on) = Total([x \in P |-> Total([g \in Below(x.id) |-> m[g]])])
  BY <1>9, <1>10
<1>12. QED
  BY <1>11

\* The record that MergeFacets makes.
LEMMA MergedFields ==
  ASSUME TypeInv, ShapeInv, ApartInv, NEW source, NEW f, NEW n, Family(source, f, n)
  PROVE  LET m == Merged(source) IN
         /\ m \in PacketRecord
         /\ m.id = source
         /\ m.size = Sizes(source) /\ m.length = Lengths(source)
         /\ m.split = SubSeq(f.split, 1, n - 1)
         /\ IsFiniteSet(FacetSet(source)) /\ FacetSet(source) # {}
<1> DEFINE FS == FacetSet(source)
           x == CHOOSE y \in FS : TRUE
<1>1. /\ f \in AllFragments /\ n \in 1 .. Depth(f) /\ source = Address(f, n - 1)
      /\ f \in Below(source)
  BY DEF Family
<1>2. x \in FS
  <2>1. \E y \in FS : TRUE
    BY <1>1, FamilyCovers
  <2>2. QED
    BY <2>1
<1>3. x \in PacketRecord /\ x.split = SubSeq(f.split, 1, n)
  BY <1>2 DEF Family
<1>4. /\ Depth(f) \in Nat /\ f.split \in Seq(SplitStatus)
      /\ DOMAIN f.split = 1 .. Depth(f)
  BY <1>1, FragmentType
<1>5. /\ SubSeq(f.split, 1, n - 1) \in Seq(SplitStatus)
      /\ Front(x.split) = SubSeq(f.split, 1, n - 1)
  <2> DEFINE s == f.split
             d == Depth(f)
  <2>1. s \in Seq(SplitStatus) /\ d \in Nat /\ d = Len(s) /\ n \in 1 .. d
    BY <1>1, <1>4 DEF Depth
  <2> HIDE DEF s, d
  <2>2. SubSeq(s, 1, n - 1) \in Seq(SplitStatus)
    BY <2>1
  <2>3. Len(SubSeq(s, 1, n)) = n
    BY <2>1
  <2>4. SubSeq(SubSeq(s, 1, n), 1, n - 1) = SubSeq(s, 1, n - 1)
    BY <2>1
  <2>5. Front(SubSeq(s, 1, n)) = SubSeq(s, 1, n - 1)
    BY <2>3, <2>4 DEF Front
  <2>6. QED
    BY <1>3, <2>2, <2>5 DEF s
<1>6. source \in Seq(Nat)
  BY FamilyCovers
<1>7. IsFiniteSet(FS)
  <2>1. IsFiniteSet(pool) /\ FS \subseteq pool
    BY DEF TypeInv, FacetSet
  <2>2. QED
    BY <2>1, FS_Subset
<1>8. Sizes(source) \in Nat /\ Lengths(source) \in Nat
  <2> DEFINE p == [y \in FS |-> y.size]
             q == [y \in FS |-> y.length]
  <2>1. \A y \in FS : y.size \in Nat /\ y.length \in Nat
    <3>1. \A y \in FS : y \in PacketRecord
      BY DEF Family
    <3>2. QED
      BY <3>1 DEF PacketRecord
  <2>2. p \in [FS -> Nat] /\ q \in [FS -> Nat]
    BY <2>1
  <2>3. Sizes(source) = Total(p) /\ Lengths(source) = Total(q)
    BY DEF Sizes, Lengths
  <2> HIDE DEF p, q, FS
  <2>4. QED
    BY <1>7, <2>2, <2>3, TotalType
<1>9. Merged(source) = [[[[x EXCEPT !.id = source] EXCEPT !.size = Sizes(source)]
                         EXCEPT !.length = Lengths(source)]
                         EXCEPT !.split = Front(x.split)]
  <2>1. x = CHOOSE y \in FacetSet(source) : TRUE
    OBVIOUS
  <2> HIDE DEF FS, x
  <2>2. QED
    BY <1>3, <2>1 DEF Merged, MergedAs, CopyOf, Stack, PacketRecord
<1> DEFINE a == Sizes(source)
           b == Lengths(source)
           t == SubSeq(f.split, 1, n - 1)
<1>10. Merged(source) = [[[[x EXCEPT !.id = source] EXCEPT !.size = a]
                         EXCEPT !.length = b] EXCEPT !.split = t]
  BY <1>5, <1>9
<1>11. a \in Nat /\ b \in Nat /\ t \in Seq(SplitStatus)
  BY <1>5, <1>8
<1> HIDE DEF a, b, t, x, FS
<1>12. /\ Merged(source) \in PacketRecord
       /\ Merged(source).id = source /\ Merged(source).size = a
       /\ Merged(source).length = b /\ Merged(source).split = t
  BY <1>3, <1>6, <1>10, <1>11 DEF PacketRecord
<1>13. QED
  BY <1>2, <1>7, <1>12 DEF a, b, t, FS

\* Its size and its length are those of all pieces below it.
LEMMA MergedSums ==
  ASSUME TypeInv, ShapeInv, ApartInv, NEW source, NEW f, NEW n, Family(source, f, n)
  PROVE  Sums(Merged(source))
<1> DEFINE FS == FacetSet(source)
           sz == [g \in AllFragments |-> g.size]
           ln == [g \in AllFragments |-> g.length]
<1>1. /\ Merged(source).id = source
      /\ Merged(source).size = Total([x \in FS |-> x.size])
      /\ Merged(source).length = Total([x \in FS |-> x.length])
  BY MergedFields DEF Sizes, Lengths
<1>2. sz \in [AllFragments -> Nat] /\ ln \in [AllFragments -> Nat]
  BY FragmentType
<1>3. ASSUME NEW id
      PROVE  /\ [g \in Below(id) |-> sz[g]] = [g \in Below(id) |-> g.size]
             /\ [g \in Below(id) |-> ln[g]] = [g \in Below(id) |-> g.length]
  <2>1. Below(id) \subseteq AllFragments
    BY DEF Below
  <2>2. \A g \in Below(id) : sz[g] = g.size /\ ln[g] = g.length
    BY <2>1
  <2> HIDE DEF sz, ln
  <2>3. QED
    BY <2>2
<1> HIDE DEF sz, ln
<1>4. /\ Total([g \in Below(source) |-> sz[g]])
           = Total([x \in FS |-> Total([g \in Below(x.id) |-> sz[g]])])
      /\ Total([g \in Below(source) |-> ln[g]])
           = Total([x \in FS |-> Total([g \in Below(x.id) |-> ln[g]])])
  BY <1>2, FamilyTotal
<1>5. \A x \in FS : /\ x.size = Total([g \in Below(x.id) |-> sz[g]])
                    /\ x.length = Total([g \in Below(x.id) |-> ln[g]])
  BY <1>3, FacetOf DEF Sums
<1>6. /\ [x \in FS |-> x.size] = [x \in FS |-> Total([g \in Below(x.id) |-> sz[g]])]
      /\ [x \in FS |-> x.length] = [x \in FS |-> Total([g \in Below(x.id) |-> ln[g]])]
  <2> HIDE DEF FS
  <2>1. QED
    BY <1>5
<1>7. /\ Merged(source).size = Total([g \in Below(source) |-> g.size])
      /\ Merged(source).length = Total([g \in Below(source) |-> g.length])
  <2>1. /\ Merged(source).size = Total([g \in Below(source) |-> sz[g]])
        /\ Merged(source).length = Total([g \in Below(source) |-> ln[g]])
    BY <1>1, <1>4, <1>6
  <2>2. QED
    BY <1>3, <2>1
<1>8. QED
  BY <1>1, <1>7 DEF Sums

\* It is what the pieces below it become.
LEMMA MergedAncestor ==
  ASSUME TypeInv, ShapeInv, ApartInv, NEW source, NEW f, NEW n, Family(source, f, n)
  PROVE  /\ Ancestor(Merged(source), f)
         /\ Depth(Merged(source)) = n - 1
<1>1. /\ f \in AllFragments /\ n \in 1 .. Depth(f) /\ source = Address(f, n - 1)
  BY DEF Family
<1>2. /\ Depth(f) \in Nat /\ f.split \in Seq(SplitStatus)
  BY <1>1, FragmentType
<1>3. /\ Merged(source).id = source
      /\ Merged(source).split = SubSeq(f.split, 1, n - 1)
  BY MergedFields
<1> DEFINE s == f.split
           d == Depth(f)
           t == Merged(source).split
<1>4. s \in Seq(SplitStatus) /\ d \in Nat /\ d = Len(s) /\ n \in 1 .. d
      /\ t = SubSeq(s, 1, n - 1)
  BY <1>1, <1>2, <1>3 DEF Depth
<1> HIDE DEF s, d, t
<1>5. Len(t) = n - 1
  BY <1>4
<1>6. Len(t) <= Len(s)
  BY <1>4, <1>5
<1>7. Depth(Merged(source)) = n - 1
  BY <1>5 DEF Depth, t
<1>8. Ancestor(Merged(source), f)
  BY <1>1, <1>3, <1>4, <1>5, <1>6 DEF Ancestor, t, s
<1>9. QED
  BY <1>7, <1>8

\* Nothing but the facets of its entry is in the channel on its branch.
LEMMA MergedApart ==
  ASSUME TypeInv, ShapeInv, ApartInv, NEW source, NEW f, NEW n, Family(source, f, n)
  PROVE  /\ \A x \in Live : IsPrefix(source, x.id) => x \in FacetSet(source)
         /\ \A x \in Live : ~IsPrefix(x.id, source)
         /\ \A i \in DOMAIN arrived :
              ~IsPrefix(arrived[i], source) /\ ~IsPrefix(source, arrived[i])
         /\ \A g \in AllFragments : ~IsPrefix(g.id, source)
         /\ \A x \in FacetSet(source) : x.id # source
<1> DEFINE FS == FacetSet(source)
<1>1. source \in Seq(Nat)
  BY FamilyCovers
<1>2. ASSUME NEW y \in FS
      PROVE  /\ y \in Live /\ y \in Stored /\ y.id \in Seq(Nat)
             /\ Len(y.id) = Len(source) + 1
             /\ IsPrefix(source, y.id)
             /\ ~IsPrefix(y.id, source)
             /\ \E h \in AllFragments : IsPrefix(y.id, h.id)
  <2>1. /\ y.id \in Seq(Nat) /\ IsPrefix(source, y.id) /\ Len(y.id) = Len(source) + 1
        /\ y \in PacketRecord
    BY DEF Family
  <2>2. ~IsPrefix(y.id, source)
    BY <1>1, <2>1, PrefixIs
  <2>3. y \in Live /\ y \in Stored
    BY FacetOf
  <2>4. PICK h \in AllFragments : Ancestor(y, h)
    BY FacetOf
  <2>5. IsPrefix(y.id, h.id)
    BY <2>1, <2>4, AncestorIs
  <2>6. QED
    BY <2>1, <2>2, <2>3, <2>5
<1>3. PICK y \in FS : TRUE
  BY MergedFields
<1>4. ASSUME NEW x \in Live
      PROVE  /\ x.id \in Seq(Nat)
             /\ \E g \in AllFragments : IsPrefix(x.id, g.id)
  <2>1. PICK g \in AllFragments : Ancestor(x, g)
    BY DEF ShapeInv
  <2>2. x \in PacketRecord
    <3>1. ToSet(content) \subseteq PacketRecord
      BY DEF TypeInv, ToSet
    <3>2. QED
      BY <3>1 DEF Live, Stored, TypeInv
  <2>3. QED
    BY <2>1, <2>2, AncestorIs
<1>5. ASSUME NEW x \in Live, IsPrefix(x.id, source)
      PROVE  FALSE
  <2>1. IsPrefix(x.id, y.id)
    BY <1>1, <1>2, <1>3, <1>4, <1>5, PrefixTrans
  <2>2. x = y
    BY <1>2, <1>3, <2>1 DEF ApartInv
  <2>3. QED
    BY <1>2, <1>3, <1>5, <2>2
<1>6. ASSUME NEW s \in Seq(Nat), NEW g \in AllFragments, IsPrefix(s, g.id),
             IsPrefix(source, s)
      PROVE  \E z \in FS : IsPrefix(z.id, s) \/ IsPrefix(s, z.id)
  <2>1. g.id \in Seq(Nat)
    BY FragmentType
  <2>2. IsPrefix(source, g.id)
    BY <1>1, <1>6, <2>1, PrefixTrans
  <2>3. PICK z \in FS : g \in Below(z.id)
    BY <2>2, FamilyCovers DEF Below
  <2>4. IsPrefix(z.id, g.id) /\ z.id \in Seq(Nat)
    BY <1>2, <2>3 DEF Below
  <2>5. Len(z.id) \in Nat /\ Len(s) \in Nat
    BY <2>4
  <2>6. CASE Len(z.id) <= Len(s)
    BY <1>6, <2>1, <2>4, <2>6, PrefixMeet
  <2>7. CASE Len(s) <= Len(z.id)
    BY <1>6, <2>1, <2>4, <2>7, PrefixMeet
  <2>8. QED
    BY <2>5, <2>6, <2>7
<1>7. ASSUME NEW x \in Live, IsPrefix(source, x.id)
      PROVE  x \in FS
  <2>1. PICK g \in AllFragments : IsPrefix(x.id, g.id)
    BY <1>4
  <2>2. PICK z \in FS : IsPrefix(z.id, x.id) \/ IsPrefix(x.id, z.id)
    BY <1>4, <1>6, <1>7, <2>1
  <2>3. x = z
    BY <1>2, <2>2 DEF ApartInv
  <2>4. QED
    BY <2>3
<1>8. ASSUME NEW i \in DOMAIN arrived
      PROVE  ~IsPrefix(arrived[i], source) /\ ~IsPrefix(source, arrived[i])
  <2>1. PICK g \in AllFragments : arrived[i] = Address(g, 0)
    BY DEF ShapeInv
  <2>2. arrived[i] \in Seq(Nat) /\ IsPrefix(arrived[i], g.id)
    BY <2>1, FragmentType, AddressType
  <2>3. ASSUME IsPrefix(arrived[i], source)
        PROVE  FALSE
    <3>1. IsPrefix(arrived[i], y.id)
      BY <1>1, <1>2, <1>3, <2>2, <2>3, PrefixTrans
    <3>2. QED
      BY <1>2, <1>3, <3>1 DEF ApartInv
  <2>4. ASSUME IsPrefix(source, arrived[i])
        PROVE  FALSE
    <3>1. PICK z \in FS : IsPrefix(z.id, arrived[i]) \/ IsPrefix(arrived[i], z.id)
      BY <1>6, <2>2, <2>4
    <3>2. QED
      BY <1>2, <3>1 DEF ApartInv
  <2>5. QED
    BY <2>3, <2>4
<1>9. ASSUME NEW g \in AllFragments, IsPrefix(g.id, source)
      PROVE  FALSE
  <2>1. PICK h \in AllFragments : IsPrefix(y.id, h.id)
    BY <1>2, <1>3
  <2>2. g.id \in Seq(Nat) /\ h.id \in Seq(Nat)
    BY FragmentType
  <2>3. IsPrefix(source, h.id)
    BY <1>1, <1>2, <1>3, <2>1, <2>2, PrefixTrans
  <2>4. IsPrefix(g.id, h.id)
    BY <1>1, <1>9, <2>2, <2>3, PrefixTrans
  <2>5. g = h
    BY <2>4, FragmentsApart
  <2>6. IsPrefix(y.id, source)
    BY <1>1, <1>2, <1>3, <1>9, <2>1, <2>2, <2>5, PrefixTrans
  <2>7. QED
    BY <1>2, <1>3, <2>6
<1>10. \A x \in FS : x.id # source
  BY <1>1, <1>2, PrefixSelf
<1>11. QED
  BY <1>5, <1>7, <1>8, <1>9, <1>10

\* The pieces of an entry that can be merged hold as many bytes as it will.
LEMMA MergedBytes ==
  ASSUME TypeInv, ShapeInv, ApartInv, NEW source, Mergeable(source)
  PROVE  Total([x \in FacetSet(source) |-> chSize[x.id]]) = Sizes(source)
<1>1. \A x \in FacetSet(source) : chSize[x.id] = x.size
  BY DEF Mergeable, IsChComplete
<1>2. [x \in FacetSet(source) |-> chSize[x.id]] = [x \in FacetSet(source) |-> x.size]
  BY <1>1
<1>3. QED
  BY <1>2 DEF Sizes

-----------------------------------------------------------------------------
\* What the invariant says of one packet.

\* A packet in the channel, and its address.
LEMMA LiveType ==
  ASSUME TypeInv, ShapeInv, NEW x \in Live
  PROVE  /\ x \in PacketRecord
         /\ x.id \in Seq(Nat) /\ x.id \in Id
         /\ Sums(x)
         /\ \E f \in AllFragments : Ancestor(x, f) /\ IsPrefix(x.id, f.id)
<1>1. PICK f \in AllFragments : Ancestor(x, f)
  BY DEF ShapeInv
<1>2. x \in PacketRecord
  <2>1. ToSet(content) \subseteq PacketRecord
    BY DEF TypeInv, ToSet
  <2>2. QED
    BY <2>1 DEF Live, Stored, TypeInv
<1>3. Sums(x)
  BY DEF ShapeInv
<1>4. QED
  BY <1>1, <1>2, <1>3, AncestorIs

\* The channel holds finitely many packets.
LEMMA LiveFinite ==
  ASSUME TypeInv
  PROVE  IsFiniteSet(Stored) /\ IsFiniteSet(ToSet(content))
<1>1. IsFiniteSet(Stored)
  BY FS_Union DEF TypeInv, Stored
<1>2. IsFiniteSet(ToSet(content))
  <2> DEFINE D == 1 .. Len(content)
             T == ToSet(content)
             h == [i \in D |-> content[i]]
  <2>1. content \in Seq(PacketRecord)
    BY DEF TypeInv
  <2>2. DOMAIN content = D /\ Len(content) \in Nat
    BY <2>1
  <2>3. IsFiniteSet(D)
    BY <2>2, FS_Interval
  <2>4. h \in Surjection(D, T)
    BY <2>2 DEF ToSet, Surjection
  <2> HIDE DEF D, T, h
  <2>5. IsFiniteSet(T)
    BY <2>3, <2>4, FS_Surjection
  <2>6. QED
    BY <2>5 DEF T
<1>3. QED
  BY <1>1, <1>2

\* What is in the content has arrived, and stands there once.
LEMMA ContentArrived ==
  ASSUME TypeInv, ApartInv, QueueInv
  PROVE  /\ \A x \in ToSet(content) : x.id \in ToSet(arrived)
         /\ \A i, j \in DOMAIN content : content[i].id = content[j].id => i = j
<1> DEFINE p == Len(content)
           q == Len(arrived)
           at(k) == q - p + k
<1>1. /\ p \in Nat /\ q \in Nat /\ p <= q
      /\ DOMAIN content = 1 .. p /\ DOMAIN arrived = 1 .. q
      /\ \A k \in 1 .. p : content[k].id = arrived[at(k)]
      /\ \A k \in 1 .. q : arrived[k] \in Seq(Nat)
  BY DEF TypeInv, QueueInv
<1>2. \A i, j \in 1 .. q : arrived[i] = arrived[j] => i = j
  <2>1. \A i, j \in 1 .. q : IsPrefix(arrived[i], arrived[j]) => i = j
    BY <1>1 DEF ApartInv
  <2>2. \A i \in 1 .. q : IsPrefix(arrived[i], arrived[i])
    BY <1>1, PrefixSelf
  <2> HIDE DEF q
  <2>3. QED
    BY <2>1, <2>2
<1> HIDE DEF p, q
<1>3. \A k \in 1 .. p : at(k) \in 1 .. q
  BY <1>1
<1>4. \A i, j \in 1 .. p : content[i].id = content[j].id => i = j
  <2> SUFFICES ASSUME NEW i \in 1 .. p, NEW j \in 1 .. p, content[i].id = content[j].id
               PROVE  i = j
    OBVIOUS
  <2>1. arrived[at(i)] = arrived[at(j)]
    BY <1>1
  <2>2. at(i) = at(j)
    BY <1>2, <1>3, <2>1
  <2>3. QED
    BY <1>1, <2>2
<1>5. \A k \in 1 .. p : content[k].id \in ToSet(arrived)
  BY <1>1, <1>3 DEF ToSet
<1>6. \A x \in ToSet(content) : \E k \in 1 .. p : x = content[k]
  BY <1>1 DEF ToSet
<1>7. QED
  BY <1>1, <1>4, <1>5, <1>6

\* Nothing in the channel has the address of a piece but the piece.
LEMMA SameId ==
  ASSUME TypeInv, ShapeInv, ApartInv, NEW x \in Live, NEW y \in Live, x.id = y.id
  PROVE  x = y
<1>1. IsPrefix(x.id, y.id)
  BY LiveType, PrefixSelf
<1>2. QED
  BY <1>1 DEF ApartInv

-----------------------------------------------------------------------------
\* A packet enters.

\* x comes in, and the packets of R leave the pool.
Enters(x, R) ==
  /\ x \in PacketRecord
  /\ R \subseteq Stored
  /\ \E f \in AllFragments : Ancestor(x, f)
  /\ Sums(x)
  /\ \A f \in AllFragments : x.id = f.id => x = f
  /\ \A y \in Live \ R : ~IsPrefix(x.id, y.id) /\ ~IsPrefix(y.id, x.id)
  /\ \A i \in DOMAIN arrived : ~IsPrefix(x.id, arrived[i]) /\ ~IsPrefix(arrived[i], x.id)
  /\ \/ /\ x.split # <<>>
        /\ Stored' = (Stored \ R) \cup {x}
        /\ content' = content
        /\ arrived' = arrived
     \/ /\ x.split = <<>>
        /\ Stored' = Stored \ R
        /\ content' = Append(content, x)
        /\ arrived' = Append(arrived, x.id)

\* Its place.
LEMMA EnterPlace ==
  ASSUME TypeInv, ShapeInv, ApartInv, QueueInv, NEW x, NEW R, Enters(x, R)
  PROVE  /\ Live' = (Live \ R) \cup {x}
         /\ x \notin Live \ R
         /\ content' \in Seq(PacketRecord) /\ arrived' \in Seq(Seq(Nat))
         /\ x.split # <<>> => ToSet(content)' = ToSet(content)
         /\ x.split = <<>> => ToSet(content)' = ToSet(content) \cup {x}
         /\ ToSet(arrived)' \subseteq ToSet(arrived) \cup {x.id}
         /\ ToSet(arrived) \subseteq ToSet(arrived)'
         /\ x.id \in Seq(Nat) /\ x.id \in Id
         /\ QueueInv'
         /\ R \cap ToSet(content) = {}
<1>1. x \in PacketRecord /\ x.id \in Seq(Nat) /\ x.id \in Id
  BY AncestorIs DEF Enters
<1>2. content \in Seq(PacketRecord) /\ arrived \in Seq(Seq(Nat))
  BY DEF TypeInv
<1>3. R \cap ToSet(content) = {}
  BY DEF Enters, ShapeInv
<1>4. x \notin Live \ R
  BY <1>1, PrefixSelf DEF Enters
<1>5. CASE x.split # <<>>
  <2>1. Stored' = (Stored \ R) \cup {x} /\ content' = content /\ arrived' = arrived
    BY <1>5 DEF Enters
  <2>2. ToSet(content)' = ToSet(content) /\ ToSet(arrived)' = ToSet(arrived)
    BY <2>1 DEF ToSet
  <2>3. Live' = (Live \ R) \cup {x}
    BY <1>3, <2>1, <2>2 DEF Live
  <2>4. QueueInv'
    BY <2>1 DEF QueueInv
  <2>5. QED
    BY <1>1, <1>2, <1>3, <1>4, <1>5, <2>1, <2>2, <2>3, <2>4
<1>6. CASE x.split = <<>>
  <2>1. /\ Stored' = Stored \ R
        /\ content' = Append(content, x) /\ arrived' = Append(arrived, x.id)
    BY <1>6 DEF Enters
  <2> DEFINE p == Len(content)
             q == Len(arrived)
             c == content'
             a == arrived'
  <2>2. p \in Nat /\ q \in Nat /\ DOMAIN content = 1 .. p /\ DOMAIN arrived = 1 .. q
    BY <1>2
  <2>3. /\ c \in Seq(PacketRecord) /\ Len(c) = p + 1 /\ DOMAIN c = 1 .. p + 1
        /\ c[p + 1] = x /\ \A k \in 1 .. p : c[k] = content[k]
    BY <1>1, <1>2, <2>1
  <2>4. /\ a \in Seq(Seq(Nat)) /\ Len(a) = q + 1 /\ DOMAIN a = 1 .. q + 1
        /\ a[q + 1] = x.id /\ \A k \in 1 .. q : a[k] = arrived[k]
    BY <1>1, <1>2, <2>1
  <2>5. p <= q /\ \A k \in 1 .. p : content[k].id = arrived[q - p + k]
    BY <2>2 DEF QueueInv
  <2>6. ToSet(content)' = {c[k] : k \in DOMAIN c} /\ ToSet(arrived)' = {a[k] : k \in DOMAIN a}
    BY DEF ToSet
  <2>7. ToSet(content) = {content[k] : k \in 1 .. p} /\ ToSet(arrived) = {arrived[k] : k \in 1 .. q}
    BY <2>2 DEF ToSet
  <2> HIDE DEF p, q, c, a
  <2>8. ToSet(content)' = ToSet(content) \cup {x}
    <3>1. \A k \in 1 .. p + 1 : k = p + 1 \/ k \in 1 .. p
      BY <2>2
    <3>2. \A k \in 1 .. p : k \in 1 .. p + 1
      BY <2>2
    <3>3. p + 1 \in 1 .. p + 1
      BY <2>2
    <3>4. QED
      BY <2>3, <2>6, <2>7, <3>1, <3>2, <3>3
  <2>9. /\ ToSet(arrived)' = ToSet(arrived) \cup {x.id}
    <3>1. \A k \in 1 .. q + 1 : k = q + 1 \/ k \in 1 .. q
      BY <2>2
    <3>2. \A k \in 1 .. q : k \in 1 .. q + 1
      BY <2>2
    <3>3. q + 1 \in 1 .. q + 1
      BY <2>2
    <3>4. QED
      BY <2>4, <2>6, <2>7, <3>1, <3>2, <3>3
  <2>10. QueueInv'
    <3>1. Len(c) <= Len(a)
      BY <2>2, <2>3, <2>4, <2>5
    <3>2. \A k \in 1 .. p + 1 : c[k].id = a[(q + 1) - (p + 1) + k]
      <4> SUFFICES ASSUME NEW k \in 1 .. p + 1
                   PROVE  c[k].id = a[(q + 1) - (p + 1) + k]
        OBVIOUS
      <4>1. (q + 1) - (p + 1) + k = q - p + k
        BY <2>2
      <4>2. CASE k = p + 1
        <5>1. q - p + k = q + 1
          BY <2>2, <4>2
        <5>2. QED
          BY <2>3, <2>4, <4>1, <4>2, <5>1
      <4>3. CASE k # p + 1
        <5>1. k \in 1 .. p /\ q - p + k \in 1 .. q
          BY <2>2, <2>5, <4>3
        <5>2. QED
          BY <2>3, <2>4, <2>5, <4>1, <5>1
      <4>4. QED
        BY <4>2, <4>3
    <3>3. \A k \in DOMAIN c : c[k].id = a[Len(a) - Len(c) + k]
      BY <2>3, <2>4, <3>2
    <3>4. QED
      BY <3>1, <3>3 DEF QueueInv, c, a
  <2>11. Live' = (Live \ R) \cup {x}
    BY <1>3, <2>1, <2>8 DEF Live
  <2>12. content' \in Seq(PacketRecord) /\ arrived' \in Seq(Seq(Nat))
    BY <2>3, <2>4 DEF c, a
  <2>13. QED
    BY <1>1, <1>3, <1>4, <1>6, <2>8, <2>9, <2>10, <2>11, <2>12
<1>7. QED
  BY <1>5, <1>6

\* It keeps the shape of things.
LEMMA EnterKeepsShape ==
  ASSUME TypeInv, ShapeInv, ApartInv, QueueInv, NEW x, NEW R, Enters(x, R)
  PROVE  ShapeInv'
<1>1. Live' = (Live \ R) \cup {x}
  BY EnterPlace
<1>2. (\E f \in AllFragments : Ancestor(x, f)) /\ Sums(x)
  BY DEF Enters
<1>3. \A y \in Live' : (\E f \in AllFragments : Ancestor(y, f)) /\ Sums(y)
  BY <1>1, <1>2 DEF ShapeInv
<1>4. \A y \in Live', f \in AllFragments : y.id = f.id => y = f
  BY <1>1 DEF ShapeInv, Enters
<1>5. \A y \in Stored' : y.split # <<>>
  BY DEF ShapeInv, Enters
<1>6. \A y \in ToSet(content)' : y.split = <<>>
  BY EnterPlace DEF ShapeInv
<1>7. \A i \in DOMAIN arrived' : \E f \in AllFragments : arrived'[i] = Address(f, 0)
  <2>1. CASE x.split # <<>>
    <3>1. arrived' = arrived
      BY <2>1 DEF Enters
    <3>2. QED
      BY <3>1 DEF ShapeInv
  <2>2. CASE x.split = <<>>
    <3>1. arrived' = Append(arrived, x.id)
      BY <2>2 DEF Enters
    <3>2. PICK f \in AllFragments : Ancestor(x, f)
      BY <1>2
    <3>3. x.id = Address(f, 0)
      BY <2>2, <3>2 DEF Ancestor
    <3>4. arrived \in Seq(Seq(Nat)) /\ x.id \in Seq(Nat)
      BY EnterPlace DEF TypeInv
    <3>5. \A i \in DOMAIN arrived' : arrived'[i] = x.id \/ (i \in DOMAIN arrived /\ arrived'[i] = arrived[i])
      BY <3>1, <3>4
    <3>6. QED
      BY <3>3, <3>5 DEF ShapeInv
  <2>3. QED
    BY <2>1, <2>2
<1>8. QED
  BY <1>3, <1>4, <1>5, <1>6, <1>7 DEF ShapeInv

\* It keeps them apart.
LEMMA EnterKeepsApart ==
  ASSUME TypeInv, ShapeInv, ApartInv, QueueInv, NEW x, NEW R, Enters(x, R)
  PROVE  ApartInv'
<1>1. Live' = (Live \ R) \cup {x} /\ x.id \in Seq(Nat)
  BY EnterPlace
<1>2. \A y, z \in Live' : IsPrefix(y.id, z.id) => y = z
  BY <1>1 DEF ApartInv, Enters
<1>3. CASE x.split # <<>>
  <2>1. arrived' = arrived /\ Stored' = (Stored \ R) \cup {x}
    BY <1>3 DEF Enters
  <2>2. \A y \in Stored', i \in DOMAIN arrived' :
          ~IsPrefix(arrived'[i], y.id) /\ ~IsPrefix(y.id, arrived'[i])
    BY <2>1 DEF ApartInv, Enters
  <2>3. \A i, j \in DOMAIN arrived' : IsPrefix(arrived'[i], arrived'[j]) => i = j
    BY <2>1 DEF ApartInv
  <2>4. QED
    BY <1>2, <2>2, <2>3 DEF ApartInv
<1>4. CASE x.split = <<>>
  <2>1. arrived' = Append(arrived, x.id) /\ Stored' = Stored \ R
    BY <1>4 DEF Enters
  <2>2. arrived \in Seq(Seq(Nat))
    BY DEF TypeInv
  <2>3. \A i \in DOMAIN arrived' :
          \/ arrived'[i] = x.id /\ i = Len(arrived) + 1
          \/ i \in DOMAIN arrived /\ arrived'[i] = arrived[i]
    BY <1>1, <2>1, <2>2
  <2>4. \A y \in Stored', i \in DOMAIN arrived' :
          ~IsPrefix(arrived'[i], y.id) /\ ~IsPrefix(y.id, arrived'[i])
    <3> SUFFICES ASSUME NEW y \in Stored', NEW i \in DOMAIN arrived'
                 PROVE  ~IsPrefix(arrived'[i], y.id) /\ ~IsPrefix(y.id, arrived'[i])
      OBVIOUS
    <3>1. y \in Stored /\ y \in Live \ R
      BY <2>1 DEF Live
    <3>2. ~IsPrefix(x.id, y.id) /\ ~IsPrefix(y.id, x.id)
      BY <3>1 DEF Enters
    <3>3. \A j \in DOMAIN arrived : ~IsPrefix(arrived[j], y.id) /\ ~IsPrefix(y.id, arrived[j])
      BY <3>1 DEF ApartInv
    <3>4. QED
      BY <2>3, <3>2, <3>3
  <2>5. \A i, j \in DOMAIN arrived' : IsPrefix(arrived'[i], arrived'[j]) => i = j
    <3> SUFFICES ASSUME NEW i \in DOMAIN arrived', NEW j \in DOMAIN arrived',
                        IsPrefix(arrived'[i], arrived'[j])
                 PROVE  i = j
      OBVIOUS
    <3> DEFINE q == Len(arrived) + 1
    <3>1. /\ \/ arrived'[i] = x.id /\ i = q
             \/ i \in DOMAIN arrived /\ arrived'[i] = arrived[i]
          /\ \/ arrived'[j] = x.id /\ j = q
             \/ j \in DOMAIN arrived /\ arrived'[j] = arrived[j]
      BY <2>3
    <3>2. \A k \in DOMAIN arrived : ~IsPrefix(x.id, arrived[k]) /\ ~IsPrefix(arrived[k], x.id)
      BY DEF Enters
    <3>3. \A k, l \in DOMAIN arrived : IsPrefix(arrived[k], arrived[l]) => k = l
      BY DEF ApartInv
    <3> HIDE DEF q
    <3>4. QED
      BY <3>1, <3>2, <3>3
  <2>6. QED
    BY <1>2, <2>4, <2>5 DEF ApartInv
<1>5. QED
  BY <1>3, <1>4

-----------------------------------------------------------------------------
\* The sums of _Occupied.

\* The bytes of what waits to be merged.
Held == Total([x \in Stored |-> chSize[x.id]])

\* The bytes that readers can reach.
Ready == Total([x \in ToSet(content) |-> chSize[x.id] - offset[x.id]])

\* _Occupied is their sum.
LEMMA Exact ==
  /\ OccupiedExact <=> occupied = Held + Ready
  /\ OccupiedExact' <=> occupied' = Held' + Ready'
BY DEF OccupiedExact, BytesHeld, Held, Ready, Stored

\* They are numbers.
LEMMA SumsType ==
  ASSUME TypeInv, ShapeInv, ByteInv
  PROVE  /\ [x \in Stored |-> chSize[x.id]] \in [Stored -> Nat]
         /\ [x \in ToSet(content) |-> chSize[x.id] - offset[x.id]] \in [ToSet(content) -> Nat]
         /\ Held \in Nat /\ Ready \in Nat
<1> DEFINE T == ToSet(content)
           p == [x \in Stored |-> chSize[x.id]]
           q == [x \in T |-> chSize[x.id] - offset[x.id]]
<1>1. \A x \in Live : x.id \in Id
  BY LiveType
<1>2. \A i \in Id : chSize[i] \in Nat /\ offset[i] \in Nat /\ offset[i] <= chSize[i]
  BY DEF TypeInv, ByteInv
<1>3. \A i \in Id : chSize[i] - offset[i] \in Nat
  BY <1>2
<1>4. \A x \in Stored : chSize[x.id] \in Nat
  BY <1>1, <1>2 DEF Live
<1>5. \A x \in T : chSize[x.id] - offset[x.id] \in Nat
  BY <1>1, <1>3 DEF Live
<1>6. IsFiniteSet(Stored) /\ IsFiniteSet(T)
  BY LiveFinite
<1>7. p \in [Stored -> Nat] /\ q \in [T -> Nat]
  <2> HIDE DEF T
  <2>1. QED
    BY <1>4, <1>5
<1>8. Held = Total(p) /\ Ready = Total(q)
  BY DEF Held, Ready
<1>9. Total(p) \in Nat /\ Total(q) \in Nat
  <2> HIDE DEF T, p, q
  <2>1. QED
    BY <1>6, <1>7, TotalType
<1>10. QED
  BY <1>7, <1>8, <1>9

-----------------------------------------------------------------------------
\* Init.

\* The empty channel has it all.
LEMMA InitIInv ==
  ASSUME Init
  PROVE  IInv
<1>1. /\ sent = [w \in Writer |-> 0] /\ chSize = [id \in Id |-> 0]
      /\ offset = [id \in Id |-> 0] /\ pool = {} /\ toAssemble = {}
      /\ content = <<>> /\ arrived = <<>> /\ occupied = 0
  BY DEF Init
<1>2. Stored = {} /\ ToSet(content) = {} /\ ToSet(arrived) = {} /\ Live = {}
  BY <1>1 DEF Stored, Live, ToSet
<1>3. /\ sent \in [Writer -> Nat] /\ \A w \in Writer : sent[w] = 0
      /\ chSize \in [Id -> Nat] /\ \A id \in Id : chSize[id] = 0
      /\ offset \in [Id -> Nat] /\ \A id \in Id : offset[id] = 0
  BY <1>1
<1>4. \A f \in AllFragments : f.id \in Id /\ f.size \in Nat \ {0}
  <2>1. \A f \in AllFragments : Depth(f) \in 0 .. Depth(f)
    BY FragmentType
  <2>2. QED
    BY <2>1, FragmentType, AddressType
<1>5. TypeInv
  BY <1>1, <1>3, FS_EmptySet DEF TypeInv
<1>6. ShapeInv
  BY <1>1, <1>2 DEF ShapeInv
<1>7. ApartInv
  BY <1>1, <1>2 DEF ApartInv
<1>8. QueueInv
  BY <1>1 DEF QueueInv
<1>9. PoolInv
  BY <1>1 DEF PoolInv
<1>10. ByteInv
  <2>1. Seen = {}
    BY <1>2 DEF Seen
  <2>2. QED
    BY <1>2, <1>3, <1>4, <2>1 DEF ByteInv
<1>11. SentInv
  <2>1. \A w \in Writer : \A i \in DOMAIN Cargo[w] : Cargo[w][i] \in AllFragments
    BY AssembleAssumption
  <2>2. QED
    BY <1>3, <1>4, <2>1 DEF SentInv, IsChComplete
<1>12. OccupiedExact
  <2>1. Held = 0 /\ Ready = 0
    <3> DEFINE p == [x \in Stored |-> chSize[x.id]]
               q == [x \in ToSet(content) |-> chSize[x.id] - offset[x.id]]
    <3>1. DOMAIN p = {} /\ DOMAIN q = {}
      BY <1>2
    <3>2. Held = Total(p) /\ Ready = Total(q)
      BY DEF Held, Ready
    <3> HIDE DEF p, q
    <3>3. QED
      BY <3>1, <3>2, TotalNone
  <2>2. QED
    BY <1>1, <2>1, Exact
<1>13. QED
  BY <1>5, <1>6, <1>7, <1>8, <1>9, <1>10, <1>11, <1>12 DEF IInv

-----------------------------------------------------------------------------
\* The steps that move nothing.

\* What the channel holds stays as it is.
LEMMA SameHoldings ==
  ASSUME IInv, Stored' = Stored,
         UNCHANGED <<sent, chSize, offset, content, arrived, occupied>>
  PROVE  ShapeInv' /\ ApartInv' /\ QueueInv' /\ ByteInv' /\ SentInv' /\ OccupiedExact'
<1>1. ToSet(content)' = ToSet(content) /\ ToSet(arrived)' = ToSet(arrived)
  BY DEF ToSet
<1>2. Live' = Live
  BY <1>1 DEF Live
<1>3. Seen' = Seen
  BY <1>1, <1>2 DEF Seen
<1>4. ShapeInv'
  BY <1>1, <1>2 DEF IInv, ShapeInv
<1>5. ApartInv'
  BY <1>2 DEF IInv, ApartInv
<1>6. QueueInv'
  BY DEF IInv, QueueInv
<1>7. ByteInv'
  BY <1>1, <1>2, <1>3 DEF IInv, ByteInv, IsChComplete
<1>8. SentInv'
  BY DEF IInv, SentInv, IsChComplete
<1>9. OccupiedExact'
  <2>1. Held' = Held /\ Ready' = Ready
    BY <1>1 DEF Held, Ready
  <2>2. QED
    BY <2>1, Exact DEF IInv
<1>10. QED
  BY <1>4, <1>5, <1>6, <1>7, <1>8, <1>9

\* The update phase begins and ends, the program dies, or nothing happens.
LEMMA QuietSteps ==
  ASSUME IInv, BeginUpdate \/ EndLoop \/ Die \/ UNCHANGED vars
  PROVE  IInv'
<1>1. UNCHANGED <<sent, chSize, offset, content, arrived, occupied>>
  BY DEF BeginUpdate, EndLoop, Die, vars, queueVars
<1>2. /\ Stored' = Stored
      /\ pool' \subseteq Stored /\ toAssemble' \subseteq toAssemble
  BY DEF BeginUpdate, EndLoop, Die, vars, Stored
<1>3. TypeInv'
  <2>1. /\ pool' \subseteq PacketRecord /\ IsFiniteSet(pool')
        /\ toAssemble' \subseteq PacketRecord /\ IsFiniteSet(toAssemble')
    <3>1. IsFiniteSet(Stored) /\ IsFiniteSet(toAssemble)
      BY LiveFinite DEF IInv, TypeInv
    <3>2. Stored \subseteq PacketRecord /\ toAssemble \subseteq PacketRecord
      BY DEF IInv, TypeInv, Stored
    <3>3. IsFiniteSet(pool') /\ IsFiniteSet(toAssemble')
      BY <1>2, <3>1, FS_Subset
    <3>4. QED
      BY <1>2, <3>2, <3>3
  <2>2. QED
    BY <1>1, <2>1 DEF IInv, TypeInv
<1>4. PoolInv'
  <2>1. CASE BeginUpdate
    BY <2>1 DEF BeginUpdate, IInv, PoolInv, Running
  <2>2. CASE EndLoop
    BY <2>2 DEF EndLoop, IInv, PoolInv, Running
  <2>3. CASE Die
    BY <2>3 DEF Die, IInv, PoolInv, Running
  <2>4. CASE UNCHANGED vars
    BY <2>4 DEF vars, IInv, PoolInv, Running
  <2>5. QED
    BY <2>1, <2>2, <2>3, <2>4
<1>5. QED
  BY <1>1, <1>2, <1>3, <1>4, SameHoldings DEF IInv

-----------------------------------------------------------------------------
\* Take.

\* What Take(n) does with the packet f at the head.
Taken(f, n) ==
  /\ n \in Nat \ {0}
  /\ content # <<>> /\ f = Head(content)
  /\ offset[f.id] + n <= chSize[f.id]
  /\ offset' = [offset EXCEPT ![f.id] = @ + n]
  /\ occupied' = occupied - n
  /\ content' = IF offset[f.id] + n = f.size THEN Tail(content) ELSE content
  /\ UNCHANGED <<sent, chSize, arrived, updating, pool, toAssemble, dead>>

\* The guard and the effects of Take.
LEMMA TakeIs ==
  ASSUME TypeInv, ShapeInv, NEW id \in Id, NEW n \in 1 .. chSize[id], Take(n)
  PROVE  /\ Taken(Head(content), n)
         /\ Head(content) \in ToSet(content) /\ Head(content) \in Live
<1> DEFINE f == Head(content)
<1>1. /\ content # <<>>
      /\ n \in 1 .. chSize[f.id] - offset[f.id]
      /\ offset' = [offset EXCEPT ![f.id] = @ + n]
      /\ occupied' = occupied - n
      /\ content' = IF offset[f.id] + n = f.size THEN Tail(content) ELSE content
      /\ UNCHANGED <<sent, chSize, arrived, updating, pool, toAssemble, dead>>
  BY DEF Take, poolVars
<1>2. content \in Seq(PacketRecord)
  BY DEF TypeInv
<1>3. f = content[1] /\ 1 \in DOMAIN content
  BY <1>1, <1>2
<1>4. f \in ToSet(content) /\ f \in Live
  BY <1>3 DEF ToSet, Live
<1>5. f.id \in Id
  BY <1>4, LiveType
<1>6. chSize[f.id] \in Nat /\ offset[f.id] \in Nat /\ chSize[id] \in Nat
  BY <1>5 DEF TypeInv
<1> DEFINE a == chSize[f.id]
           b == offset[f.id]
           c == chSize[id]
<1>7. a \in Nat /\ b \in Nat /\ c \in Nat /\ n \in 1 .. c /\ n \in 1 .. a - b
  BY <1>1, <1>6
<1> HIDE DEF a, b, c
<1>8. n \in Nat \ {0} /\ b + n <= a
  BY <1>7
<1>9. QED
  BY <1>1, <1>4, <1>8 DEF Taken, a, b

\* What the numbers of the packet at the head tell.
LEMMA TakenNumbers ==
  ASSUME TypeInv, ShapeInv, ByteInv, NEW f \in ToSet(content), NEW n, Taken(f, n)
  PROVE  /\ f \in Live /\ f.id \in Id
         /\ chSize[f.id] \in Nat /\ offset[f.id] \in Nat /\ n \in Nat \ {0} /\ f.size \in Nat
         /\ offset' \in [Id -> Nat]
         /\ offset'[f.id] = offset[f.id] + n
         /\ offset'[f.id] <= chSize[f.id]
         /\ \A id \in Id : id # f.id => offset'[id] = offset[id]
         /\ chSize[f.id] <= f.size
<1>1. f \in Live
  BY DEF Live
<1>2. f.id \in Id /\ f \in PacketRecord
  BY <1>1, LiveType
<1>3. chSize[f.id] \in Nat /\ offset[f.id] \in Nat /\ f.size \in Nat /\ offset \in [Id -> Nat]
  BY <1>2 DEF TypeInv, PacketRecord
<1>4. /\ n \in Nat \ {0} /\ offset[f.id] + n <= chSize[f.id]
      /\ offset' = [offset EXCEPT ![f.id] = @ + n]
  BY DEF Taken
<1> DEFINE k == offset[f.id] + n
<1>5. k \in Nat
  BY <1>3, <1>4
<1>6. /\ offset' \in [Id -> Nat] /\ offset'[f.id] = k
      /\ \A id \in Id : id # f.id => offset'[id] = offset[id]
  <2> HIDE DEF k
  <2>1. offset' = [offset EXCEPT ![f.id] = k]
    BY <1>4 DEF k
  <2>2. QED
    BY <1>2, <1>3, <1>5, <2>1
<1>7. chSize[f.id] <= f.size
  <2>1. CASE f \in AllFragments
    BY <2>1 DEF ByteInv
  <2>2. CASE f \notin AllFragments
    <3>1. chSize[f.id] = f.size
      BY <1>1, <2>2 DEF ByteInv
    <3>2. QED
      BY <1>3, <3>1
  <2>3. QED
    BY <2>1, <2>2
<1>8. QED
  BY <1>1, <1>2, <1>3, <1>4, <1>6, <1>7

\* What is left in the content.
LEMMA TakenContent ==
  ASSUME TypeInv, ApartInv, QueueInv, NEW f, NEW n, Taken(f, n)
  PROVE  LET popped == offset[f.id] + n = f.size IN
         /\ content' \in Seq(PacketRecord)
         /\ QueueInv'
         /\ ~popped => ToSet(content)' = ToSet(content)
         /\ popped => ToSet(content)' = ToSet(content) \ {f}
<1> DEFINE popped == offset[f.id] + n = f.size
           p == Len(content)
           q == Len(arrived)
<1>1. content \in Seq(PacketRecord) /\ content # <<>> /\ f = Head(content)
  BY DEF TypeInv, Taken
<1>2. arrived' = arrived
  BY DEF Taken
<1>3. CASE ~popped
  <2>1. content' = content
    BY <1>3 DEF Taken
  <2>2. ToSet(content)' = ToSet(content)
    BY <2>1 DEF ToSet
  <2>3. QueueInv'
    BY <1>2, <2>1 DEF QueueInv
  <2>4. QED
    BY <1>1, <1>3, <2>1, <2>2, <2>3
<1>4. CASE popped
  <2> DEFINE c == content'
  <2>1. c = Tail(content)
    BY <1>4 DEF Taken
  <2>2. /\ p \in Nat \ {0} /\ c \in Seq(PacketRecord) /\ Len(c) = p - 1
        /\ DOMAIN c = 1 .. p - 1 /\ DOMAIN content = 1 .. p
        /\ \A k \in 1 .. p - 1 : c[k] = content[k + 1]
        /\ f = content[1]
    BY <1>1, <2>1
  <2>3. /\ p <= q /\ q \in Nat
        /\ \A k \in 1 .. p : content[k].id = arrived[q - p + k]
    <3>1. arrived \in Seq(Seq(Nat))
      BY DEF TypeInv
    <3>2. q \in Nat
      BY <3>1
    <3>3. p <= q /\ \A k \in 1 .. p : content[k].id = arrived[q - p + k]
      BY <2>2 DEF QueueInv
    <3>4. QED
      BY <3>2, <3>3
  <2>4. \A i, j \in 1 .. p : content[i].id = content[j].id => i = j
    BY <2>2, ContentArrived
  <2>5. /\ ToSet(content)' = {c[k] : k \in DOMAIN c}
        /\ ToSet(content) = {content[k] : k \in 1 .. p}
    BY <2>2 DEF ToSet
  <2> HIDE DEF p, q, c
  <2>6. ToSet(content)' = ToSet(content) \ {f}
    <3>1. \A k \in 1 .. p - 1 : k + 1 \in 1 .. p /\ k + 1 # 1
      BY <2>2
    <3>2. \A k \in 1 .. p : k = 1 \/ (k - 1 \in 1 .. p - 1 /\ (k - 1) + 1 = k)
      BY <2>2
    <3>3. 1 \in 1 .. p
      BY <2>2
    <3>4. \A k \in 1 .. p : k # 1 => content[k] # f
      BY <2>2, <2>4, <3>3
    <3>5. \A k \in 1 .. p - 1 : c[k] \in ToSet(content) \ {f}
      BY <2>2, <2>5, <3>1, <3>4
    <3>6. \A k \in 1 .. p : content[k] # f => \E i \in 1 .. p - 1 : c[i] = content[k]
      <4> SUFFICES ASSUME NEW k \in 1 .. p, content[k] # f
                   PROVE  \E i \in 1 .. p - 1 : c[i] = content[k]
        OBVIOUS
      <4>1. k - 1 \in 1 .. p - 1 /\ (k - 1) + 1 = k
        BY <2>2, <3>2
      <4>2. c[k - 1] = content[k]
        BY <2>2, <4>1
      <4>3. QED
        BY <4>1, <4>2
    <3>7. ToSet(content)' \subseteq ToSet(content) \ {f}
      BY <2>2, <2>5, <3>5
    <3>8. ToSet(content) \ {f} \subseteq ToSet(content)'
      <4> SUFFICES ASSUME NEW x \in ToSet(content), x # f
                   PROVE  x \in ToSet(content)'
        OBVIOUS
      <4>1. PICK k \in 1 .. p : x = content[k]
        BY <2>5
      <4>2. PICK i \in 1 .. p - 1 : c[i] = content[k]
        BY <3>6, <4>1
      <4>3. i \in DOMAIN c /\ c[i] = x
        BY <2>2, <4>1, <4>2
      <4>4. QED
        BY <2>5, <4>3
    <3>9. QED
      BY <3>7, <3>8
  <2>7. QueueInv'
    <3>1. Len(c) <= q
      BY <2>2, <2>3
    <3>2. \A k \in DOMAIN c : c[k].id = arrived[q - Len(c) + k]
      <4> SUFFICES ASSUME NEW k \in DOMAIN c
                   PROVE  c[k].id = arrived[q - Len(c) + k]
        OBVIOUS
      <4>1. k \in 1 .. p - 1 /\ k + 1 \in 1 .. p
        BY <2>2
      <4>2. q - Len(c) + k = q - p + (k + 1)
        BY <2>2, <2>3, <4>1
      <4>3. QED
        BY <2>2, <2>3, <4>1, <4>2
    <3>3. QED
      BY <1>2, <3>1, <3>2 DEF QueueInv, c, q
  <2>8. QED
    BY <1>4, <2>2, <2>6, <2>7 DEF c
<1>5. QED
  BY <1>3, <1>4

\* Reading keeps the invariant.
LEMMA TakeStep ==
  ASSUME IInv, NEW id \in Id, NEW n \in 1 .. chSize[id], Take(n)
  PROVE  IInv'
<1> DEFINE f == Head(content)
           T == ToSet(content)
<1>0. TypeInv /\ ShapeInv /\ ApartInv /\ QueueInv /\ PoolInv /\ ByteInv /\ SentInv /\ OccupiedExact
  BY DEF IInv
<1>1. Taken(f, n) /\ f \in T /\ f \in Live
  BY <1>0, TakeIs
<1>2. /\ f.id \in Id
      /\ chSize[f.id] \in Nat /\ offset[f.id] \in Nat /\ n \in Nat \ {0} /\ f.size \in Nat
      /\ offset' \in [Id -> Nat]
      /\ offset'[f.id] = offset[f.id] + n
      /\ offset'[f.id] <= chSize[f.id]
      /\ \A i \in Id : i # f.id => offset'[i] = offset[i]
      /\ chSize[f.id] <= f.size
  BY <1>0, <1>1, TakenNumbers
<1> DEFINE popped == offset[f.id] + n = f.size
<1>3. /\ content' \in Seq(PacketRecord)
      /\ QueueInv'
      /\ ~popped => ToSet(content)' = T
      /\ popped => ToSet(content)' = T \ {f}
  BY <1>0, <1>1, TakenContent
<1>4. /\ UNCHANGED <<sent, chSize, arrived, updating, pool, toAssemble, dead>>
      /\ occupied' = occupied - n
  BY <1>1 DEF Taken
<1>5. popped => chSize[f.id] = f.size
  BY <1>2
<1> HIDE DEF f
<1>6. Stored' = Stored /\ ToSet(arrived)' = ToSet(arrived)
  BY <1>4 DEF Stored, ToSet
<1>7. ToSet(content)' \subseteq T /\ Live' \subseteq Live
  BY <1>3, <1>6 DEF Live
<1>8. \A x \in Live : x \notin Live' => x = f /\ chSize[f.id] = f.size
  BY <1>3, <1>5, <1>6 DEF Live
<1>9. \A x \in T : x.id = f.id => x = f
  BY <1>0, <1>1, SameId DEF Live
<1>10. Ready = Ready' + n /\ Ready' \in Nat
  <2> DEFINE p == [x \in T |-> chSize[x.id] - offset[x.id]]
             o == offset'
             q == [x \in T |-> chSize[x.id] - o[x.id]]
             r == [x \in ToSet(content)' |-> chSize[x.id] - o[x.id]]
  <2>1. /\ Ready = Total(p)
        /\ Ready' = Total(r)
    BY <1>4 DEF Ready
  <2>2. IsFiniteSet(T)
    BY <1>0, LiveFinite
  <2>3. p \in [T -> Nat]
    BY <1>0, SumsType
  <2>4. \A x \in T : x.id \in Id
    BY <1>0, LiveType DEF Live
  <2> HIDE DEF o
  <2>5. /\ \A x \in T : x # f => chSize[x.id] - o[x.id] = chSize[x.id] - offset[x.id]
        /\ chSize[f.id] - o[f.id] = (chSize[f.id] - offset[f.id]) - n
        /\ chSize[f.id] - o[f.id] \in Nat
    BY <1>2, <1>9, <2>4 DEF o
  <2>6. \A x \in T : chSize[x.id] - offset[x.id] \in Nat
    BY <2>3
  <2>7. \A x \in T : chSize[x.id] - o[x.id] \in Nat
    BY <2>5, <2>6
  <2>8. q \in [T -> Nat] /\ (\A x \in T : x # f => q[x] = p[x]) /\ q[f] = p[f] - n
        /\ p[f] \in Nat
    <3> HIDE DEF T
    <3>1. QED
      BY <1>1, <2>5, <2>6, <2>7
  <2>9. Total(q) = Total(p) - n /\ Total(p) \in Nat /\ Total(q) \in Nat
    <3> HIDE DEF T, p, q
    <3>1. Total(q) = Total(p) + (q[f] - p[f])
      BY <1>1, <2>2, <2>3, <2>8, TotalPoint
    <3>2. Total(p) \in Nat /\ Total(q) \in Nat
      BY <2>2, <2>3, <2>8, TotalType
    <3>3. QED
      BY <1>2, <2>8, <3>1, <3>2
  <2>10. CASE ~popped
    <3>1. r = q
      BY <1>3, <2>10
    <3> HIDE DEF p, q, r
    <3>2. QED
      BY <1>2, <2>1, <2>9, <3>1
  <2>11. CASE popped
    <3> DEFINE R == T \ {f}
    <3>1. ToSet(content)' = R
      BY <1>3, <2>11
    <3>2. r \in [R -> Nat] /\ \A x \in R : r[x] = q[x]
      BY <2>7, <3>1
    <3>3. q[f] = 0
      <4>1. q[f] = chSize[f.id] - o[f.id]
        BY <1>1
      <4>2. o[f.id] = chSize[f.id]
        BY <1>2, <1>5, <2>11 DEF o
      <4> HIDE DEF q
      <4>3. QED
        BY <1>2, <4>1, <4>2
    <3>4. IsFiniteSet(R)
      BY <2>2, FS_Subset
    <3>5. R \cup {f} = T /\ f \notin R
      BY <1>1
    <3> HIDE DEF p, q, r, R, T
    <3>6. Total(q) = Total(r) + q[f]
      BY <2>8, <3>2, <3>4, <3>5, TotalMore
    <3>7. Total(r) \in Nat
      BY <3>2, <3>4, TotalType
    <3>8. QED
      BY <1>2, <2>1, <2>9, <3>3, <3>6, <3>7
  <2>12. QED
    BY <2>10, <2>11
<1>11. Held' = Held /\ Held \in Nat
  BY <1>0, <1>4, <1>6, SumsType DEF Held
<1>12. occupied = Held + Ready
  BY <1>0, Exact
<1>13. OccupiedExact' /\ occupied' \in Nat
  <2>1. occupied' = Held' + Ready'
    BY <1>2, <1>4, <1>10, <1>11, <1>12
  <2>2. occupied' \in Nat
    <3> DEFINE a == Held'
               b == Ready'
               c == occupied'
    <3>1. a \in Nat /\ b \in Nat /\ c = a + b
      BY <1>10, <1>11, <2>1
    <3> HIDE DEF a, b, c
    <3>2. c \in Nat
      BY <3>1
    <3>3. QED
      BY <3>2 DEF c
  <2>3. QED
    BY <2>1, <2>2, Exact
<1>14. TypeInv'
  BY <1>0, <1>2, <1>3, <1>4, <1>13 DEF TypeInv
<1>15. ShapeInv'
  BY <1>0, <1>4, <1>6, <1>7 DEF ShapeInv
<1>16. ApartInv'
  BY <1>0, <1>4, <1>6, <1>7 DEF ApartInv
<1>17. PoolInv'
  BY <1>0, <1>4 DEF PoolInv, Running
<1>18. ByteInv'
  <2>1. Seen' \subseteq Seen
    BY <1>6, <1>7 DEF Seen
  <2>2. f.id \in ToSet(arrived)
    BY <1>0, <1>1, ContentArrived
  <2>3. \A i \in Id : offset'[i] <= chSize[i]
    BY <1>0, <1>2 DEF ByteInv
  <2>4. \A i \in Id : offset'[i] # 0 => i \in ToSet(arrived)'
    BY <1>0, <1>2, <1>6, <2>2 DEF ByteInv
  <2>5. /\ \A g \in AllFragments : chSize[g.id] <= g.size
        /\ \A x \in Live' : x \notin AllFragments => chSize[x.id] = x.size
    BY <1>0, <1>7 DEF ByteInv
  <2>6. \A g \in AllFragments, i \in Seen' :
          IsPrefix(i, g.id) /\ g \notin Live' => IsChComplete(g)
    BY <1>0, <1>8, <2>1 DEF ByteInv, IsChComplete
  <2>7. \A g \in AllFragments : chSize[g.id] # 0 /\ ~IsChComplete(g) => g \in Live'
    BY <1>0, <1>8 DEF ByteInv, IsChComplete
  <2>8. \A g : IsChComplete(g)' <=> IsChComplete(g)
    BY <1>4 DEF IsChComplete
  <2>9. QED
    BY <1>4, <2>3, <2>4, <2>5, <2>6, <2>7, <2>8 DEF ByteInv
<1>19. SentInv'
  BY <1>0, <1>4 DEF SentInv, IsChComplete
<1>20. QED
  BY <1>3, <1>13, <1>14, <1>15, <1>16, <1>17, <1>18, <1>19 DEF IInv

-----------------------------------------------------------------------------
\* Write.

\* What Write(w) does with k bytes of its next piece f.
Bitten(w, f, k) ==
  /\ Running
  /\ sent[w] \in Nat /\ sent[w] + 1 \in DOMAIN Cargo[w] /\ f = Cargo[w][sent[w] + 1]
  /\ f \in AllFragments
  /\ k \in Nat \ {0}
  /\ chSize[f.id] + k <= f.size
  /\ chSize' = [chSize EXCEPT ![f.id] = @ + k]
  /\ occupied' = occupied + k
  /\ f.split # <<>> => pool' = pool \cup {f} /\ content' = content /\ arrived' = arrived
  /\ f.split = <<>> => PushBack(f) /\ pool' = pool
  /\ sent' = IF chSize[f.id] + k = f.size THEN [sent EXCEPT ![w] = @ + 1] ELSE sent
  /\ UNCHANGED <<offset, updating, toAssemble, dead>>

\* The lesser of two numbers.
LEMMA MinOfTwo ==
  ASSUME NEW a \in Nat \ {0}, NEW b \in Nat \ {0}
  PROVE  /\ Min({a, b}) \in Nat \ {0}
         /\ Min({a, b}) <= b
<1>1. Min({a, b}) = CHOOSE x \in {a, b} : \A y \in {a, b} : x <= y
  BY DEF Min
<1>2. \E x \in {a, b} : \A y \in {a, b} : x <= y
  BY a <= b \/ b <= a
<1>3. Min({a, b}) \in {a, b} /\ \A y \in {a, b} : Min({a, b}) <= y
  BY <1>1, <1>2
<1>4. QED
  BY <1>3

\* The guard and the effects of Write.
LEMMA WriteIs ==
  ASSUME TypeInv, ByteInv, SentInv, NEW w \in Writer, Write(w)
  PROVE  \E f, k : Bitten(w, f, k)
<1> DEFINE f == Cargo[w][sent[w] + 1]
           a == chSize[f.id]
           k == Min({BiteSize[w], f.size - a})
<1>1. sent[w] \in Nat /\ Cargo[w] \in Seq(AllFragments) /\ BiteSize[w] \in Nat \ {0}
  BY AssembleAssumption DEF TypeInv
<1>2. sent[w] < Len(Cargo[w])
  BY DEF Write
<1>3. sent[w] + 1 \in DOMAIN Cargo[w] /\ sent[w] + 1 > sent[w]
  BY <1>1, <1>2
<1>4. f \in AllFragments
  BY <1>1, <1>3
<1>5. f.size \in Nat /\ f.id \in Id
  <2>1. Depth(f) \in 0 .. Depth(f)
    BY <1>4, FragmentType
  <2>2. QED
    BY <1>4, <2>1, FragmentType, AddressType
<1>6. a \in Nat /\ a <= f.size /\ a # f.size
  <2>1. ~IsChComplete(f)
    BY <1>3 DEF SentInv
  <2>2. a # f.size
    BY <2>1 DEF IsChComplete
  <2>3. a \in Nat
    BY <1>5 DEF TypeInv
  <2>4. a <= f.size
    BY <1>4 DEF ByteInv
  <2>5. QED
    BY <2>2, <2>3, <2>4
<1> DEFINE b == f.size
<1>7. b \in Nat /\ a \in Nat /\ a <= b /\ a # b
  BY <1>5, <1>6
<1>8. /\ Running
      /\ chSize' = [chSize EXCEPT ![f.id] = @ + k]
      /\ occupied' = occupied + k
      /\ f.split # <<>> => pool' = pool \cup {f} /\ content' = content /\ arrived' = arrived
      /\ f.split = <<>> => PushBack(f) /\ pool' = pool
      /\ sent' = IF chSize[f.id] + k = f.size THEN [sent EXCEPT ![w] = @ + 1] ELSE sent
      /\ UNCHANGED <<offset, updating, toAssemble, dead>>
  BY DEF Write
<1>9. k \in Nat \ {0} /\ a + k <= b
  <2> HIDE DEF a, b
  <2> DEFINE c == b - a
             e == BiteSize[w]
  <2>1. c \in Nat \ {0} /\ e \in Nat \ {0}
    BY <1>1, <1>7
  <2>2. k = Min({e, c})
    BY DEF b
  <2> HIDE DEF c, e, k
  <2>3. k \in Nat \ {0} /\ k <= c
    BY <2>1, <2>2, MinOfTwo
  <2>4. QED
    BY <1>7, <2>3 DEF c
<1> HIDE DEF k
<1>10. Bitten(w, f, k)
  <2> HIDE DEF f
  <2>1. chSize[f.id] + k <= f.size
    BY <1>9
  <2>2. f = Cargo[w][sent[w] + 1]
    BY DEF f
  <2>3. QED
    BY <1>1, <1>3, <1>4, <1>8, <1>9, <2>1, <2>2 DEF Bitten
<1>11. QED
  BY <1>10

\* The numbers.
LEMMA BittenNumbers ==
  ASSUME TypeInv, NEW w \in Writer, NEW f, NEW k, Bitten(w, f, k)
  PROVE  /\ f.id \in Id /\ f.size \in Nat /\ k \in Nat \ {0}
         /\ chSize[f.id] \in Nat
         /\ chSize' \in [Id -> Nat]
         /\ chSize'[f.id] = chSize[f.id] + k
         /\ \A id \in Id : id # f.id => chSize'[id] = chSize[id]
         /\ ~IsChComplete(f)
         /\ sent' \in [Writer -> Nat]
         /\ chSize'[f.id] = f.size => sent'[w] = sent[w] + 1
         /\ \A v \in Writer : sent'[v] >= sent[v]
<1>1. f \in AllFragments /\ k \in Nat \ {0} /\ chSize[f.id] + k <= f.size
  BY DEF Bitten
<1>2. f.id \in Id /\ f.size \in Nat
  <2>1. Depth(f) \in 0 .. Depth(f)
    BY <1>1, FragmentType
  <2>2. QED
    BY <1>1, <2>1, FragmentType, AddressType
<1>3. chSize \in [Id -> Nat] /\ chSize[f.id] \in Nat /\ sent \in [Writer -> Nat]
  BY <1>2 DEF TypeInv
<1> DEFINE a == chSize[f.id] + k
<1>4. a \in Nat /\ a <= f.size /\ chSize[f.id] # f.size
  BY <1>1, <1>2, <1>3
<1>5. chSize' = [chSize EXCEPT ![f.id] = a]
  BY <1>3 DEF Bitten
<1>6. sent' = IF a = f.size THEN [sent EXCEPT ![w] = @ + 1] ELSE sent
  BY DEF Bitten
<1> HIDE DEF a
<1>7. /\ chSize' \in [Id -> Nat] /\ chSize'[f.id] = a
      /\ \A id \in Id : id # f.id => chSize'[id] = chSize[id]
  BY <1>2, <1>3, <1>4, <1>5
<1>8. /\ sent' \in [Writer -> Nat]
      /\ a = f.size => sent'[w] = sent[w] + 1
      /\ \A v \in Writer : sent'[v] >= sent[v]
  <2>1. CASE a = f.size
    <3>1. sent' = [sent EXCEPT ![w] = sent[w] + 1]
      BY <1>6, <2>1
    <3>2. sent[w] \in Nat /\ sent[w] + 1 \in Nat /\ sent[w] + 1 >= sent[w]
      BY <1>3
    <3>3. \A v \in Writer : sent[v] >= sent[v]
      BY <1>3
    <3>4. QED
      BY <1>3, <3>1, <3>2, <3>3
  <2>2. CASE a # f.size
    BY <1>3, <1>6, <2>2
  <2>3. QED
    BY <2>1, <2>2
<1>9. QED
  BY <1>1, <1>2, <1>3, <1>4, <1>7, <1>8 DEF IsChComplete, a

\* A piece that is not there is apart from all that is there or has left.
LEMMA NewcomerApart ==
  ASSUME TypeInv, ShapeInv, ByteInv, NEW f \in AllFragments, f \notin Live, ~IsChComplete(f)
  PROVE  /\ \A y \in Live : ~IsPrefix(f.id, y.id) /\ ~IsPrefix(y.id, f.id)
         /\ \A i \in DOMAIN arrived :
              ~IsPrefix(f.id, arrived[i]) /\ ~IsPrefix(arrived[i], f.id)
         /\ chSize[f.id] = 0
<1>1. f.id \in Seq(Nat)
  BY FragmentType
<1>2. \A id \in Seen : ~IsPrefix(id, f.id)
  BY DEF ByteInv
<1>3. ASSUME NEW y \in Live
      PROVE  ~IsPrefix(f.id, y.id) /\ ~IsPrefix(y.id, f.id)
  <2>1. ~IsPrefix(y.id, f.id)
    BY <1>2 DEF Seen
  <2>2. PICK g \in AllFragments : IsPrefix(y.id, g.id)
    BY LiveType
  <2>3. g.id \in Seq(Nat) /\ y.id \in Seq(Nat)
    BY FragmentType, LiveType
  <2>4. ASSUME IsPrefix(f.id, y.id)
        PROVE  FALSE
    <3>1. IsPrefix(f.id, g.id)
      BY <1>1, <2>2, <2>3, <2>4, PrefixTrans
    <3>2. f = g
      BY <3>1, FragmentsApart
    <3>3. QED
      BY <2>1, <2>2, <3>2
  <2>5. QED
    BY <2>1, <2>4
<1>4. ASSUME NEW i \in DOMAIN arrived
      PROVE  ~IsPrefix(f.id, arrived[i]) /\ ~IsPrefix(arrived[i], f.id)
  <2>1. ~IsPrefix(arrived[i], f.id)
    BY <1>2 DEF Seen, ToSet
  <2>2. PICK g \in AllFragments : arrived[i] = Address(g, 0)
    BY DEF ShapeInv
  <2>3. g.id \in Seq(Nat) /\ arrived[i] \in Seq(Nat) /\ IsPrefix(arrived[i], g.id)
    BY <2>2, FragmentType, AddressType
  <2>4. ASSUME IsPrefix(f.id, arrived[i])
        PROVE  FALSE
    <3>1. IsPrefix(f.id, g.id)
      BY <1>1, <2>3, <2>4, PrefixTrans
    <3>2. f = g
      BY <3>1, FragmentsApart
    <3>3. QED
      BY <2>1, <2>3, <3>2
  <2>5. QED
    BY <2>1, <2>4
<1>5. chSize[f.id] = 0
  BY DEF ByteInv
<1>6. QED
  BY <1>3, <1>4, <1>5

\* A piece is what it becomes when nothing of it is merged.
LEMMA FragmentShape ==
  ASSUME NEW f \in AllFragments
  PROVE  /\ Ancestor(f, f)
         /\ Sums(f)
<1>1. f.split \in Seq(SplitStatus) /\ Depth(f) \in Nat
  BY FragmentType
<1>2. Ancestor(f, f)
  <2>1. f.split = SubSeq(f.split, 1, Len(f.split))
    BY <1>1
  <2>2. f.id = Address(f, Depth(f))
    BY <1>1, AddressType
  <2>3. Len(f.split) <= Len(f.split)
    BY <1>1
  <2>4. QED
    BY <2>1, <2>2, <2>3 DEF Ancestor, Depth
<1>3. Sums(f)
  <2> DEFINE p == [g \in Below(f.id) |-> g.size]
             q == [g \in Below(f.id) |-> g.length]
  <2>1. Below(f.id) = {f}
    BY CutAssumption
  <2>2. f.size \in Nat /\ f.length \in Nat
    BY FragmentType
  <2>3. DOMAIN p = {f} /\ p[f] = f.size /\ DOMAIN q = {f} /\ q[f] = f.length
    BY <2>1
  <2> HIDE DEF p, q
  <2>4. Total(p) = f.size /\ Total(q) = f.length
    BY <2>2, <2>3, TotalOne
  <2>5. QED
    BY <2>4 DEF Sums, p, q
<1>4. QED
  BY <1>2, <1>3

\* The piece is there already, or it enters with nothing in it.
LEMMA BittenPlace ==
  ASSUME IInv, NEW w \in Writer, NEW f, NEW k, Bitten(w, f, k)
  PROVE  \/ /\ f \in Live
            /\ Stored' = Stored /\ content' = content /\ arrived' = arrived
         \/ /\ f \notin Live
            /\ Enters(f, {})
            /\ chSize[f.id] = 0
            /\ \A i \in DOMAIN arrived : arrived[i] # f.id
<1>0. TypeInv /\ ShapeInv /\ PoolInv /\ ByteInv
  BY DEF IInv
<1>1. /\ f \in AllFragments
      /\ f.split # <<>> => pool' = pool \cup {f} /\ content' = content /\ arrived' = arrived
      /\ f.split = <<>> => PushBack(f) /\ pool' = pool
      /\ toAssemble' = toAssemble
      /\ Running
  BY DEF Bitten
<1>2. toAssemble = {}
  BY <1>0, <1>1 DEF PoolInv
<1>3. CASE f \in Live
  <2>1. CASE f.split # <<>>
    <3>1. f \in pool
      BY <1>0, <1>2, <1>3, <2>1 DEF Live, Stored, ShapeInv
    <3>2. pool' = pool
      BY <1>1, <2>1, <3>1
    <3>3. QED
      BY <1>1, <1>3, <2>1, <3>2 DEF Stored
  <2>2. CASE f.split = <<>>
    <3>1. f \in ToSet(content)
      BY <1>0, <1>3, <2>2 DEF Live, ShapeInv
    <3>2. QED
      BY <1>1, <1>3, <2>2, <3>1 DEF Stored, PushBack
  <2>3. QED
    BY <2>1, <2>2
<1>4. CASE f \notin Live
  <2>1. ~IsChComplete(f)
    BY <1>0, BittenNumbers
  <2>2. /\ \A y \in Live : ~IsPrefix(f.id, y.id) /\ ~IsPrefix(y.id, f.id)
        /\ \A i \in DOMAIN arrived :
             ~IsPrefix(f.id, arrived[i]) /\ ~IsPrefix(arrived[i], f.id)
        /\ chSize[f.id] = 0
    BY <1>0, <1>1, <1>4, <2>1, NewcomerApart
  <2>3. f \in PacketRecord /\ f.id \in Seq(Nat)
    BY <1>1, FragmentType
  <2>4. \A i \in DOMAIN arrived : arrived[i] # f.id
    BY <2>2, <2>3, PrefixSelf
  <2>5. \A g \in AllFragments : f.id = g.id => f = g
    <3>1. \A g \in AllFragments : f.id = g.id => IsPrefix(f.id, g.id)
      BY <2>3, PrefixSelf
    <3>2. QED
      BY <1>1, <3>1, FragmentsApart
  <2>6. \/ /\ f.split # <<>>
           /\ Stored' = (Stored \ {}) \cup {f}
           /\ content' = content /\ arrived' = arrived
        \/ /\ f.split = <<>>
           /\ Stored' = Stored \ {}
           /\ content' = Append(content, f) /\ arrived' = Append(arrived, f.id)
    <3>1. f \notin ToSet(content)
      BY <1>4 DEF Live
    <3>2. QED
      BY <1>1, <3>1 DEF Stored, PushBack
  <2>7. Ancestor(f, f) /\ Sums(f)
    BY <1>1, FragmentShape
  <2>8. Enters(f, {})
    BY <1>1, <2>2, <2>3, <2>5, <2>6, <2>7 DEF Enters
  <2>9. QED
    BY <1>4, <2>2, <2>4, <2>8
<1>5. QED
  BY <1>3, <1>4

\* l is m over D and f, with k more at f.
Grown(D, U, m, l, f, k) ==
  /\ IsFiniteSet(D) /\ U = D \cup {f}
  /\ m \in [D -> Nat] /\ l \in [U -> Nat] /\ k \in Nat
  /\ \A x \in D : x # f => l[x] = m[x]
  /\ l[f] = k + IF f \in D THEN m[f] ELSE 0

\* What f adds to a sum.
LEMMA TotalGrows ==
  ASSUME NEW D, NEW U, NEW m, NEW l, NEW f, NEW k, Grown(D, U, m, l, f, k)
  PROVE  Total(l) = Total(m) + k
<1>0. /\ IsFiniteSet(D) /\ U = D \cup {f}
      /\ m \in [D -> Nat] /\ l \in [U -> Nat] /\ k \in Nat
      /\ \A x \in D : x # f => l[x] = m[x]
      /\ l[f] = k + IF f \in D THEN m[f] ELSE 0
  BY DEF Grown
<1>1. CASE f \in D
  <2>1. U = D /\ m[f] \in Nat
    BY <1>0, <1>1
  <2>2. l \in [D -> Nat]
    BY <1>0, <2>1
  <2>3. PICK h \in [D -> Nat] : h = l
    BY <2>2
  <2>4. (\A x \in D : x # f => h[x] = m[x]) /\ h[f] = k + m[f] /\ h[f] \in Nat
    BY <1>0, <1>1, <2>1, <2>3
  <2>5. Total(h) = Total(m) + (h[f] - m[f])
    <3>1. IsFiniteSet(D) /\ f \in D /\ m \in [D -> Nat] /\ h \in [D -> Nat]
      BY <1>0, <1>1
    <3>2. QED
      BY <2>4, <3>1, TotalPoint
  <2>6. Total(m) \in Nat
    BY <1>0, TotalType
  <2>7. QED
    BY <1>0, <2>1, <2>3, <2>4, <2>5, <2>6
<1>2. CASE f \notin D
  <2>1. \A x \in D : m[x] = l[x]
    BY <1>0, <1>2
  <2>2. Total(l) = Total(m) + l[f]
    BY <1>0, <1>2, <2>1, TotalMore
  <2>3. l[f] = k
    BY <1>0, <1>2
  <2>4. QED
    BY <2>2, <2>3
<1>3. QED
  BY <1>1, <1>2

\* A bite in a piece that waits to be merged counts there.
LEMMA BiteHeld ==
  ASSUME IInv, NEW w \in Writer, NEW f, NEW k, Bitten(w, f, k), f.split # <<>>
  PROVE  Held' = Held + k /\ Ready' = Ready
<1> DEFINE T == ToSet(content)
           c == chSize'
           m == [x \in Stored |-> chSize[x.id]]
           l == [x \in Stored' |-> c[x.id]]
<1>0. TypeInv /\ ShapeInv /\ ApartInv /\ ByteInv
  BY DEF IInv
<1>1. /\ f.id \in Id /\ k \in Nat \ {0} /\ chSize[f.id] \in Nat
      /\ c \in [Id -> Nat] /\ c[f.id] = chSize[f.id] + k
      /\ \A id \in Id : id # f.id => c[id] = chSize[id]
  BY <1>0, BittenNumbers
<1>2. f \in AllFragments
  BY DEF Bitten
<1>3. \A x \in Live : x.id \in Id /\ (x.id = f.id => x = f)
  BY <1>0, <1>2, LiveType DEF ShapeInv
<1>4. f \notin T
  BY <1>0 DEF ShapeInv
<1>5. /\ Stored' = Stored \cup {f} /\ content' = content
      /\ f \in Live \/ chSize[f.id] = 0
  <2>1. CASE f \in Live
    <3>1. Stored' = Stored /\ content' = content
      BY <2>1, BittenPlace
    <3>2. f \in Stored
      BY <1>4, <2>1 DEF Live
    <3>3. QED
      BY <2>1, <3>1, <3>2
  <2>2. CASE f \notin Live
    BY <2>2, BittenPlace DEF Enters
  <2>3. QED
    BY <2>1, <2>2
<1>6. offset' = offset /\ ToSet(content)' = T
  BY <1>5 DEF Bitten, ToSet
<1>7. m \in [Stored -> Nat] /\ IsFiniteSet(Stored)
  BY <1>0, SumsType, LiveFinite
<1> HIDE DEF c
<1>8. \A x \in Stored : x # f => c[x.id] = chSize[x.id] /\ c[x.id] \in Nat
  BY <1>1, <1>3 DEF Live
<1>9. l \in [Stored' -> Nat] /\ (\A x \in Stored : x # f => l[x] = m[x])
  <2>1. c[f.id] \in Nat
    BY <1>1
  <2>2. \A x \in Stored' : c[x.id] \in Nat
    BY <1>5, <1>8, <2>1
  <2>3. \A x \in Stored : x \in Stored'
    BY <1>5
  <2>4. QED
    BY <1>8, <2>2, <2>3
<1>10. l[f] = k + IF f \in Stored THEN m[f] ELSE 0
  <2>1. l[f] = c[f.id]
    BY <1>5
  <2>2. CASE f \in Stored
    <3>1. m[f] = chSize[f.id]
      BY <2>2
    <3> HIDE DEF l, m
    <3>2. QED
      BY <1>1, <2>1, <2>2, <3>1
  <2>3. CASE f \notin Stored
    <3>1. chSize[f.id] = 0
      BY <1>4, <1>5, <2>3 DEF Live
    <3> HIDE DEF l, m
    <3>2. QED
      BY <1>1, <2>1, <2>3, <3>1
  <2>4. QED
    BY <2>2, <2>3
<1>11. Held = Total(m) /\ Held' = Total(l)
  BY DEF Held, c
<1>12. Held' = Held + k
  <2> DEFINE U == Stored'
             D == Stored
  <2>1. U = D \cup {f} /\ l \in [U -> Nat] /\ m \in [D -> Nat] /\ IsFiniteSet(D)
    BY <1>5, <1>7, <1>9
  <2>2. (\A x \in D : x # f => l[x] = m[x]) /\ l[f] = k + IF f \in D THEN m[f] ELSE 0
    BY <1>9, <1>10
  <2>3. k \in Nat
    BY <1>1
  <2> HIDE DEF U, D, l, m
  <2>4. Total(l) = Total(m) + k
    <3>1. Grown(D, U, m, l, f, k)
      BY <2>1, <2>2, <2>3 DEF Grown
    <3>2. QED
      BY <3>1, TotalGrows
  <2>5. QED
    BY <1>11, <2>4
<1>13. Ready' = Ready
  <2> DEFINE p == [x \in T |-> chSize[x.id] - offset[x.id]]
             q == [x \in T |-> c[x.id] - offset[x.id]]
  <2>1. \A x \in T : c[x.id] = chSize[x.id]
    BY <1>1, <1>3, <1>4 DEF Live
  <2>2. p = q
    BY <2>1
  <2>3. Ready = Total(p) /\ Ready' = Total(q)
    BY <1>6 DEF Ready, c
  <2>4. QED
    BY <2>2, <2>3
<1>14. QED
  BY <1>12, <1>13

\* A bite in a packet that was not cut can be read.
LEMMA BiteReady ==
  ASSUME IInv, NEW w \in Writer, NEW f, NEW k, Bitten(w, f, k), f.split = <<>>
  PROVE  Held' = Held /\ Ready' = Ready + k
<1> DEFINE T == ToSet(content)
           c == chSize'
           m == [x \in T |-> chSize[x.id] - offset[x.id]]
           l == [x \in ToSet(content)' |-> c[x.id] - offset[x.id]]
<1>0. TypeInv /\ ShapeInv /\ ApartInv /\ QueueInv /\ ByteInv
  BY DEF IInv
<1>1. /\ f.id \in Id /\ k \in Nat \ {0} /\ chSize[f.id] \in Nat
      /\ c \in [Id -> Nat] /\ c[f.id] = chSize[f.id] + k
      /\ \A id \in Id : id # f.id => c[id] = chSize[id]
  BY <1>0, BittenNumbers
<1>2. f \in AllFragments
  BY DEF Bitten
<1>3. \A x \in Live : x.id \in Id /\ (x.id = f.id => x = f)
  BY <1>0, <1>2, LiveType DEF ShapeInv
<1>4. f \notin Stored
  BY <1>0 DEF ShapeInv
<1>5. /\ Stored' = Stored /\ ToSet(content)' = T \cup {f}
      /\ f \in T \/ (chSize[f.id] = 0 /\ offset[f.id] = 0)
  <2>1. CASE f \in Live
    <3>1. Stored' = Stored /\ content' = content
      BY <2>1, BittenPlace
    <3>2. f \in T
      BY <1>4, <2>1 DEF Live
    <3>3. QED
      BY <3>1, <3>2 DEF ToSet
  <2>2. CASE f \notin Live
    <3>1. /\ Enters(f, {}) /\ chSize[f.id] = 0
          /\ \A i \in DOMAIN arrived : arrived[i] # f.id
      BY <2>2, BittenPlace
    <3>2. Stored' = Stored
      BY <3>1 DEF Enters
    <3>3. ToSet(content)' = T \cup {f}
      BY <1>0, <3>1, EnterPlace
    <3>4. f.id \notin ToSet(arrived)
      BY <3>1 DEF ToSet
    <3>5. offset[f.id] = 0
      BY <1>0, <1>1, <3>4 DEF ByteInv
    <3>6. QED
      BY <3>1, <3>2, <3>3, <3>5
  <2>3. QED
    BY <2>1, <2>2
<1>6. offset' = offset
  BY DEF Bitten
<1>7. m \in [T -> Nat] /\ IsFiniteSet(T)
  BY <1>0, SumsType, LiveFinite
<1>8. \A x \in T : chSize[x.id] - offset[x.id] \in Nat
  BY <1>7
<1>9. offset[f.id] \in Nat /\ offset[f.id] <= chSize[f.id]
  BY <1>0, <1>1 DEF TypeInv, ByteInv
<1> HIDE DEF c
<1>10. \A x \in T : x # f => c[x.id] = chSize[x.id]
  BY <1>1, <1>3 DEF Live
<1>11. l \in [ToSet(content)' -> Nat] /\ (\A x \in T : x # f => l[x] = m[x])
  <2>1. c[f.id] - offset[f.id] \in Nat
    BY <1>1, <1>9
  <2>2. \A x \in T : x # f => c[x.id] - offset[x.id] \in Nat
    BY <1>8, <1>10
  <2>3. \A x \in ToSet(content)' : c[x.id] - offset[x.id] \in Nat
    BY <1>5, <2>1, <2>2
  <2>4. \A x \in T : x \in ToSet(content)'
    BY <1>5
  <2>5. QED
    BY <1>10, <2>3, <2>4
<1>12. l[f] = k + IF f \in T THEN m[f] ELSE 0
  <2>1. l[f] = c[f.id] - offset[f.id]
    BY <1>5
  <2>2. CASE f \in T
    <3>1. m[f] = chSize[f.id] - offset[f.id]
      BY <2>2
    <3> HIDE DEF l, m
    <3>2. QED
      BY <1>1, <1>9, <2>1, <2>2, <3>1
  <2>3. CASE f \notin T
    <3>1. chSize[f.id] = 0 /\ offset[f.id] = 0
      BY <1>5, <2>3
    <3> HIDE DEF l, m
    <3>2. QED
      BY <1>1, <2>1, <2>3, <3>1
  <2>4. QED
    BY <2>2, <2>3
<1>13. Ready = Total(m) /\ Ready' = Total(l)
  BY <1>6 DEF Ready, c
<1>14. Ready' = Ready + k
  <2> DEFINE U == ToSet(content)'
             D == T
  <2>1. U = D \cup {f} /\ l \in [U -> Nat] /\ m \in [D -> Nat] /\ IsFiniteSet(D)
    BY <1>5, <1>7, <1>11
  <2>2. (\A x \in D : x # f => l[x] = m[x]) /\ l[f] = k + IF f \in D THEN m[f] ELSE 0
    BY <1>11, <1>12
  <2>3. k \in Nat
    BY <1>1
  <2> HIDE DEF U, D, l, m
  <2>4. Total(l) = Total(m) + k
    <3>1. Grown(D, U, m, l, f, k)
      BY <2>1, <2>2, <2>3 DEF Grown
    <3>2. QED
      BY <3>1, TotalGrows
  <2>5. QED
    BY <1>13, <2>4
<1>15. Held' = Held
  <2> DEFINE p == [x \in Stored |-> chSize[x.id]]
             q == [x \in Stored |-> c[x.id]]
  <2>1. \A x \in Stored : c[x.id] = chSize[x.id]
    BY <1>1, <1>3, <1>4 DEF Live
  <2>2. p = q
    BY <2>1
  <2>3. Held = Total(p) /\ Held' = Total(q)
    BY <1>5 DEF Held, c
  <2>4. QED
    BY <2>2, <2>3
<1>16. QED
  BY <1>14, <1>15

\* Writing keeps the invariant.
LEMMA WriteStep ==
  ASSUME IInv, NEW w \in Writer, Write(w)
  PROVE  IInv'
<1>0. TypeInv /\ ShapeInv /\ ApartInv /\ QueueInv /\ PoolInv /\ ByteInv /\ SentInv /\ OccupiedExact
  BY DEF IInv
<1>1. PICK f, k : Bitten(w, f, k)
  BY <1>0, WriteIs
<1>2. /\ f.id \in Id /\ f.size \in Nat /\ k \in Nat \ {0} /\ chSize[f.id] \in Nat
      /\ chSize' \in [Id -> Nat] /\ chSize'[f.id] = chSize[f.id] + k
      /\ \A id \in Id : id # f.id => chSize'[id] = chSize[id]
      /\ ~IsChComplete(f)
      /\ sent' \in [Writer -> Nat]
      /\ chSize'[f.id] = f.size => sent'[w] = sent[w] + 1
      /\ \A v \in Writer : sent'[v] >= sent[v]
  BY <1>0, <1>1, BittenNumbers
<1>3. /\ f \in AllFragments /\ chSize[f.id] + k <= f.size
      /\ UNCHANGED <<offset, updating, toAssemble, dead>>
      /\ occupied' = occupied + k
      /\ pool' \subseteq pool \cup {f}
      /\ Running
      /\ sent[w] \in Nat /\ sent[w] + 1 \in DOMAIN Cargo[w] /\ f = Cargo[w][sent[w] + 1]
  BY <1>1 DEF Bitten
<1>4. /\ ShapeInv' /\ ApartInv' /\ QueueInv'
      /\ Live' = Live \cup {f}
      /\ Seen' \subseteq Seen \cup {f.id}
      /\ ToSet(arrived) \subseteq ToSet(arrived)'
      /\ content' \in Seq(PacketRecord) /\ arrived' \in Seq(Seq(Nat))
  <2>1. CASE /\ f \in Live
             /\ Stored' = Stored /\ content' = content /\ arrived' = arrived
    <3>1. Live' = Live /\ ToSet(content)' = ToSet(content) /\ ToSet(arrived)' = ToSet(arrived)
      BY <2>1 DEF Live, ToSet
    <3>2. Seen' = Seen
      BY <3>1 DEF Seen
    <3>3. ShapeInv'
      BY <1>0, <2>1, <3>1 DEF ShapeInv
    <3>4. ApartInv'
      BY <1>0, <2>1, <3>1 DEF ApartInv
    <3>5. QueueInv'
      BY <1>0, <2>1 DEF QueueInv
    <3>6. QED
      BY <1>0, <2>1, <3>1, <3>2, <3>3, <3>4, <3>5 DEF TypeInv
  <2>2. CASE Enters(f, {})
    <3>1. ShapeInv' /\ ApartInv' /\ QueueInv'
      BY <1>0, <2>2, EnterKeepsShape, EnterKeepsApart, EnterPlace
    <3>2. /\ Live' = (Live \ {}) \cup {f}
          /\ ToSet(arrived)' \subseteq ToSet(arrived) \cup {f.id}
          /\ ToSet(arrived) \subseteq ToSet(arrived)'
          /\ content' \in Seq(PacketRecord) /\ arrived' \in Seq(Seq(Nat))
      BY <1>0, <2>2, EnterPlace
    <3>3. Seen' \subseteq Seen \cup {f.id}
      BY <3>2 DEF Seen
    <3>4. QED
      BY <3>1, <3>2, <3>3
  <2>3. QED
    BY <1>1, <2>1, <2>2, BittenPlace
<1>5. \A g \in AllFragments : g.id \in Id /\ (g # f => g.id # f.id)
  <2>1. \A g \in AllFragments : g.id \in Seq(Nat) /\ Depth(g) \in 0 .. Depth(g)
    BY FragmentType
  <2>2. \A g \in AllFragments : g.id \in Id
    BY <2>1, AddressType, FragmentType
  <2>3. \A g \in AllFragments : g.id = f.id => IsPrefix(g.id, f.id)
    BY <2>1, PrefixSelf
  <2>4. QED
    BY <1>3, <2>2, <2>3, FragmentsApart
<1>6. \A g \in AllFragments : g # f => (IsChComplete(g)' <=> IsChComplete(g)) /\ chSize'[g.id] = chSize[g.id]
  BY <1>2, <1>5 DEF IsChComplete
<1>7. OccupiedExact' /\ occupied' \in Nat
  <2> DEFINE a == Held
             b == Ready
             d == Held'
             e == Ready'
  <2>1. d + e = a + b + k /\ a \in Nat /\ b \in Nat
    <3>1. CASE f.split # <<>>
      <4>1. d = a + k /\ e = b
        BY <1>1, <3>1, BiteHeld
      <4>2. a \in Nat /\ b \in Nat
        BY <1>0, SumsType
      <4> HIDE DEF a, b, d, e
      <4>3. QED
        BY <1>2, <4>1, <4>2
    <3>2. CASE f.split = <<>>
      <4>1. d = a /\ e = b + k
        BY <1>1, <3>2, BiteReady
      <4>2. a \in Nat /\ b \in Nat
        BY <1>0, SumsType
      <4> HIDE DEF a, b, d, e
      <4>3. QED
        BY <1>2, <4>1, <4>2
    <3>3. QED
      BY <3>1, <3>2
  <2>2. occupied = a + b
    BY <1>0, Exact
  <2> HIDE DEF a, b, d, e
  <2>3. occupied' = d + e /\ occupied' \in Nat
    BY <1>2, <1>3, <2>1, <2>2
  <2>4. QED
    BY <2>3, Exact DEF d, e
<1>8. TypeInv'
  <2>1. f \in PacketRecord
    BY <1>3, FragmentType
  <2>2. pool' \subseteq PacketRecord
    BY <1>0, <1>3, <2>1 DEF TypeInv
  <2>3. IsFiniteSet(pool')
    <3>1. IsFiniteSet(pool \cup {f})
      BY <1>0, FS_AddElement DEF TypeInv
    <3>2. QED
      BY <1>3, <3>1, FS_Subset
  <2>4. QED
    BY <1>0, <1>2, <1>3, <1>4, <1>7, <2>2, <2>3 DEF TypeInv
<1>9. PoolInv'
  <2>1. toAssemble' = {}
    BY <1>0, <1>3 DEF PoolInv
  <2>2. QED
    BY <2>1 DEF PoolInv
<1>10. ByteInv'
  <2>1. \A g \in AllFragments : chSize'[g.id] <= g.size
    BY <1>0, <1>2, <1>3, <1>6 DEF ByteInv
  <2>2. \A x \in Live' : x \notin AllFragments => chSize'[x.id] = x.size
    <3> SUFFICES ASSUME NEW x \in Live', x \notin AllFragments
                 PROVE  chSize'[x.id] = x.size
      OBVIOUS
    <3>1. x \in Live
      BY <1>3, <1>4
    <3>2. x.id \in Id /\ x.id # f.id
      BY <1>0, <1>3, <3>1, LiveType DEF ShapeInv
    <3>3. chSize[x.id] = x.size
      BY <1>0, <3>1 DEF ByteInv
    <3>4. QED
      BY <1>2, <3>2, <3>3
  <2>3. \A id \in Id : offset'[id] <= chSize'[id]
    <3>1. \A id \in Id : chSize[id] \in Nat /\ offset[id] \in Nat /\ offset[id] <= chSize[id]
      BY <1>0 DEF ByteInv, TypeInv
    <3>2. \A id \in Id : id = f.id => chSize'[id] = chSize[id] + k
      BY <1>2
    <3>3. \A id \in Id : offset[id] <= chSize'[id]
      BY <1>2, <3>1, <3>2
    <3>4. QED
      BY <1>3, <3>3
  <2>4. \A id \in Id : offset'[id] # 0 => id \in ToSet(arrived)'
    BY <1>0, <1>3, <1>4 DEF ByteInv
  <2>5. \A g \in AllFragments, id \in Seen' :
          IsPrefix(id, g.id) /\ g \notin Live' => IsChComplete(g)'
    <3> SUFFICES ASSUME NEW g \in AllFragments, NEW id \in Seen',
                        IsPrefix(id, g.id), g \notin Live'
                 PROVE  IsChComplete(g)'
      OBVIOUS
    <3>1. g # f /\ g \notin Live
      BY <1>4
    <3>2. id \in Seen
      BY <1>3, <1>4, <3>1, FragmentsApart
    <3>3. IsChComplete(g)
      BY <1>0, <3>1, <3>2 DEF ByteInv
    <3>4. QED
      BY <1>6, <3>1, <3>3
  <2>6. \A g \in AllFragments : chSize'[g.id] # 0 /\ ~IsChComplete(g)' => g \in Live'
    BY <1>0, <1>4, <1>6 DEF ByteInv
  <2>7. QED
    BY <2>1, <2>2, <2>3, <2>4, <2>5, <2>6 DEF ByteInv
<1>11. SentInv'
  <2> SUFFICES ASSUME NEW v \in Writer, NEW i \in DOMAIN Cargo[v], i > sent'[v]
               PROVE  ~IsChComplete(Cargo[v][i])'
    BY DEF SentInv
  <2> DEFINE g == Cargo[v][i]
  <2>1. Cargo[v] \in Seq(AllFragments)
    BY AssembleAssumption
  <2>2. g \in AllFragments /\ i \in Nat
    BY <2>1
  <2>3. sent[v] \in Nat /\ sent'[v] \in Nat /\ sent'[v] >= sent[v]
    BY <1>0, <1>2 DEF TypeInv
  <2>4. i > sent[v]
    BY <2>2, <2>3
  <2>5. CASE g # f
    <3>1. ~IsChComplete(g)
      BY <1>0, <2>4 DEF SentInv
    <3>2. QED
      BY <1>6, <2>2, <2>5, <3>1
  <2>6. CASE g = f
    <3>1. v = w /\ i = sent[w] + 1
      BY <1>3, <2>6, AssembleAssumption
    <3>2. chSize'[f.id] # f.size
      BY <1>2, <2>2, <2>3, <3>1
    <3>3. QED
      BY <2>6, <3>2 DEF IsChComplete
  <2>7. QED
    BY <2>5, <2>6
<1>12. QED
  BY <1>4, <1>7, <1>8, <1>9, <1>10, <1>11 DEF IInv

-----------------------------------------------------------------------------
\* Merge.

\* The merged packet enters, and its pieces leave.
LEMMA MergeEnters ==
  ASSUME IInv, NEW source, Merge(source)
  PROVE  /\ Enters(Merged(source), FacetSet(source))
         /\ FacetSet(source) \subseteq pool
         /\ pool' = pool \ FacetSet(source)
         /\ toAssemble' \subseteq toAssemble \cup {Merged(source)}
<1> DEFINE m == Merged(source)
           FS == FacetSet(source)
<1>0. TypeInv /\ ShapeInv /\ ApartInv /\ PoolInv
  BY DEF IInv
<1>1. Mergeable(source)
  BY DEF Merge
<1>2. PICK f, n : Family(source, f, n)
  BY <1>0, <1>1, FamilyIs
<1>3. m \in PacketRecord /\ m.id = source /\ FS # {}
  BY <1>0, <1>2, MergedFields
<1>4. f \in AllFragments /\ Ancestor(m, f)
  BY <1>0, <1>2, MergedAncestor DEF Family
<1>5. Sums(m)
  BY <1>0, <1>2, MergedSums
<1>6. /\ \A x \in Live : IsPrefix(source, x.id) => x \in FS
      /\ \A x \in Live : ~IsPrefix(x.id, source)
      /\ \A i \in DOMAIN arrived :
           ~IsPrefix(arrived[i], source) /\ ~IsPrefix(source, arrived[i])
      /\ \A g \in AllFragments : ~IsPrefix(g.id, source)
  BY <1>0, <1>2, MergedApart
<1>7. source \in Seq(Nat)
  BY <1>2, FamilyCovers
<1>8. FS \subseteq pool
  BY DEF FacetSet
<1>9. /\ pool' = pool \ FS
      /\ m.split # <<>> =>
           toAssemble' = toAssemble \cup {m} /\ content' = content /\ arrived' = arrived
      /\ m.split = <<>> => PushBack(m) /\ toAssemble' = toAssemble
  BY DEF Merge
<1>10. IsPrefix(source, source)
  BY <1>7, PrefixSelf
<1> HIDE DEF m, FS
<1>11. m \notin ToSet(content)
  BY <1>3, <1>6, <1>10 DEF Live
<1>12. pool' \cup toAssemble = Stored \ FS
  BY <1>0, <1>8, <1>9 DEF Stored, PoolInv
<1>13. \/ /\ m.split # <<>>
          /\ Stored' = (Stored \ FS) \cup {m}
          /\ content' = content /\ arrived' = arrived
       \/ /\ m.split = <<>>
          /\ Stored' = Stored \ FS
          /\ content' = Append(content, m) /\ arrived' = Append(arrived, m.id)
  BY <1>9, <1>11, <1>12 DEF Stored, PushBack
<1>14. \A g \in AllFragments : m.id # g.id
  BY <1>3, <1>6, <1>10
<1>15. FS \subseteq Stored
  BY <1>8 DEF Stored
<1>16. Enters(m, FS)
  BY <1>3, <1>4, <1>5, <1>6, <1>13, <1>14, <1>15 DEF Enters
<1>17. QED
  BY <1>8, <1>9, <1>16 DEF m, FS

\* Merging moves bytes and makes none.
LEMMA MergeSums ==
  ASSUME IInv, NEW source, Merge(source)
  PROVE  Held' + Ready' = Held + Ready
<1> DEFINE m == Merged(source)
           FS == FacetSet(source)
           T == ToSet(content)
           c == chSize'
           R == Stored \ FS
           p == [x \in Stored |-> chSize[x.id]]
           pF == [x \in FS |-> chSize[x.id]]
           pR == [x \in R |-> chSize[x.id]]
           q == [x \in T |-> chSize[x.id] - offset[x.id]]
           s == m.size
<1>0. TypeInv /\ ShapeInv /\ ApartInv /\ QueueInv /\ PoolInv /\ ByteInv
  BY DEF IInv
<1>1. Mergeable(source) /\ chSize' = [chSize EXCEPT ![source] = s] /\ offset' = offset
  BY DEF Merge
<1>2. PICK f, n : Family(source, f, n)
  BY <1>0, <1>1, FamilyIs
<1>3. /\ m \in PacketRecord /\ m.id = source /\ s = Sizes(source) /\ s \in Nat
  <2>1. m \in PacketRecord /\ m.id = source /\ m.size = Sizes(source)
    BY <1>0, <1>2, MergedFields
  <2>2. QED
    BY <2>1 DEF PacketRecord
<1>4. Enters(m, FS)
  BY MergeEnters
<1>5. /\ \A x \in Live : ~IsPrefix(x.id, source)
      /\ \A x \in FS : x.id # source
      /\ \A i \in DOMAIN arrived : ~IsPrefix(arrived[i], source)
  BY <1>0, <1>2, MergedApart
<1>6. source \in Seq(Nat) /\ source \in Id
  BY <1>2, FamilyCovers
<1>7. \A x \in Live : x.id \in Id /\ x.id # source
  BY <1>0, <1>5, <1>6, LiveType, PrefixSelf
<1>8. c \in [Id -> Nat] /\ c[source] = s /\ \A id \in Id : id # source => c[id] = chSize[id]
  BY <1>0, <1>1, <1>3, <1>6 DEF TypeInv
<1>9. offset[source] = 0
  <2>1. source \notin ToSet(arrived)
    BY <1>5, <1>6, PrefixSelf DEF ToSet
  <2>2. QED
    BY <1>0, <1>6, <2>1 DEF ByteInv
<1> HIDE DEF m, c, s
<1>10. /\ p \in [Stored -> Nat] /\ q \in [T -> Nat]
       /\ Held = Total(p) /\ Ready = Total(q) /\ Held \in Nat /\ Ready \in Nat
       /\ IsFiniteSet(Stored) /\ IsFiniteSet(T)
  BY <1>0, SumsType, LiveFinite DEF Held, Ready
<1>11. FS \subseteq Stored
  BY <1>4 DEF Enters
<1>12. IsFiniteSet(FS) /\ IsFiniteSet(R)
  <2> HIDE DEF FS
  <2>1. QED
    BY <1>10, <1>11, FS_Subset
<1>13. Total(pF) = s
  BY <1>0, <1>1, <1>3, MergedBytes
<1>14. pF \in [FS -> Nat] /\ pR \in [R -> Nat]
  <2>1. \A x \in Stored : chSize[x.id] \in Nat
    BY <1>10
  <2> HIDE DEF FS
  <2>2. QED
    BY <1>11, <2>1
<1>15. Total(p) = Total(pF) + Total(pR)
  <2>1. Stored = FS \cup R /\ FS \cap R = {}
    BY <1>11
  <2>2. (\A x \in FS : pF[x] = p[x]) /\ (\A x \in R : pR[x] = p[x])
    BY <1>11
  <2>3. p \in [Stored -> Nat] /\ IsFiniteSet(FS) /\ IsFiniteSet(R)
    BY <1>10, <1>12
  <2> HIDE DEF FS, R, p, pF, pR
  <2>4. QED
    BY <1>14, <2>1, <2>2, <2>3, TotalSplit, SMTT(40)
<1>16. Total(pR) \in Nat
  <2> HIDE DEF FS, R, pR
  <2>1. QED
    BY <1>12, <1>14, TotalType
<1>17. Held = s + Total(pR)
  <2> HIDE DEF p, pF, pR
  <2>1. QED
    BY <1>10, <1>13, <1>15
<1>18. /\ \A x \in R : c[x.id] = chSize[x.id]
       /\ \A x \in T : c[x.id] = chSize[x.id]
  BY <1>7, <1>8 DEF Live
<1>19. m \notin R /\ m \notin T
  BY <1>3, <1>7 DEF Live
<1>20. CASE m.split # <<>>
  <2> DEFINE U == Stored'
             l == [x \in U |-> c[x.id]]
  <2>1. U = R \cup {m} /\ ToSet(content)' = T
    BY <1>4, <1>20 DEF Enters, ToSet
  <2>2. \A x \in R : c[x.id] \in Nat
    BY <1>14, <1>18
  <2>3. \A x \in U : c[x.id] \in Nat
    BY <1>3, <1>8, <2>1, <2>2
  <2>4. l \in [U -> Nat] /\ l[m] = s /\ \A x \in R : pR[x] = l[x]
    BY <1>3, <1>8, <1>18, <2>1, <2>3
  <2>5. Total(l) = Total(pR) + s
    <3> HIDE DEF R, U, l, pR
    <3>1. Total(l) = Total(pR) + l[m]
      BY <1>12, <1>14, <1>19, <2>1, <2>4, TotalMore
    <3>2. QED
      BY <2>4, <3>1
  <2>6. Held' = Total(l)
    BY DEF Held, c
  <2>7. Ready' = Ready
    <3> DEFINE r == [x \in T |-> c[x.id] - offset[x.id]]
    <3>1. r = q
      BY <1>18
    <3>2. Ready' = Total(r)
      BY <1>1, <2>1 DEF Ready, c
    <3>3. QED
      BY <1>10, <3>1, <3>2
  <2> HIDE DEF l, pR
  <2>8. Held' = Held
    BY <1>3, <1>16, <1>17, <2>5, <2>6
  <2>9. QED
    BY <2>7, <2>8
<1>21. CASE m.split = <<>>
  <2> DEFINE U == ToSet(content)'
             l == [x \in U |-> c[x.id] - offset[x.id]]
  <2>1. Stored' = R
    BY <1>4, <1>21 DEF Enters
  <2>2. U = T \cup {m}
    BY <1>0, <1>4, <1>21, EnterPlace
  <2>3. Held' = Total(pR)
    <3> DEFINE r == [x \in R |-> c[x.id]]
    <3>1. r = pR
      BY <1>18
    <3>2. Held' = Total(r)
      BY <2>1 DEF Held, c
    <3>3. QED
      BY <3>1, <3>2
  <2>4. l[m] = s
    <3>1. l[m] = c[source] - offset[source]
      BY <1>3, <2>2
    <3> HIDE DEF l
    <3>2. QED
      BY <1>3, <1>8, <1>9, <3>1
  <2>5. \A x \in T : c[x.id] - offset[x.id] = q[x] /\ q[x] \in Nat
    BY <1>10, <1>18
  <2>6. c[source] - offset[source] \in Nat
    BY <1>3, <1>8, <1>9
  <2>7. \A x \in U : c[x.id] - offset[x.id] \in Nat
    <3> HIDE DEF q
    <3>1. QED
      BY <1>3, <2>2, <2>5, <2>6
  <2>8. l \in [U -> Nat] /\ \A x \in T : q[x] = l[x]
    <3>1. \A x \in T : x \in U
      BY <2>2
    <3> HIDE DEF q, U
    <3>2. QED
      BY <2>5, <2>7, <3>1
  <2>9. Total(l) = Total(q) + s
    <3> HIDE DEF T, U, l, q
    <3>1. Total(l) = Total(q) + l[m]
      BY <1>10, <1>19, <2>2, <2>8, TotalMore
    <3>2. QED
      BY <2>4, <3>1
  <2>10. Ready' = Total(l)
    BY <1>1 DEF Ready, c
  <2> HIDE DEF l, pR, q, U
  <2> DEFINE a == Total(pR)
             b == Total(q)
  <2>11. Held' = a /\ Ready' = b + s /\ Held = s + a /\ Ready = b
    BY <1>10, <1>17, <2>3, <2>9, <2>10
  <2>12. a \in Nat /\ b \in Nat /\ s \in Nat
    BY <1>3, <1>10, <1>16
  <2> HIDE DEF a, b
  <2>13. QED
    BY <2>11, <2>12
<1>22. QED
  BY <1>20, <1>21

\* Merging keeps the invariant.
LEMMA MergeStep ==
  ASSUME IInv, NEW source, Merge(source)
  PROVE  IInv'
<1> DEFINE m == Merged(source)
           FS == FacetSet(source)
           s == m.size
<1>0. TypeInv /\ ShapeInv /\ ApartInv /\ QueueInv /\ PoolInv /\ ByteInv /\ SentInv /\ OccupiedExact
  BY DEF IInv
<1>1. /\ Mergeable(source) /\ updating
      /\ chSize' = [chSize EXCEPT ![source] = s]
      /\ UNCHANGED <<sent, offset, occupied, updating>>
  BY DEF Merge
<1>2. PICK f, n : Family(source, f, n)
  BY <1>0, <1>1, FamilyIs
<1>3. m \in PacketRecord /\ m.id = source /\ s \in Nat
  <2>1. m \in PacketRecord /\ m.id = source
    BY <1>0, <1>2, MergedFields
  <2>2. QED
    BY <2>1 DEF PacketRecord
<1>4. /\ Enters(m, FS) /\ FS \subseteq pool
      /\ pool' = pool \ FS
      /\ toAssemble' \subseteq toAssemble \cup {m}
  BY MergeEnters
<1>5. /\ \A x \in Live : IsPrefix(source, x.id) => x \in FS
      /\ \A x \in Live : ~IsPrefix(x.id, source)
      /\ \A i \in DOMAIN arrived : ~IsPrefix(arrived[i], source)
      /\ \A g \in AllFragments : ~IsPrefix(g.id, source)
      /\ \A x \in FS : x.id # source
  BY <1>0, <1>2, MergedApart
<1>6. /\ source \in Seq(Nat) /\ source \in Id
      /\ \A g \in Below(source) : \E x \in FS : g \in Below(x.id)
  BY <1>2, FamilyCovers
<1>7. IsPrefix(source, source)
  BY <1>6, PrefixSelf
<1>8. \A x \in FS : IsChComplete(x)
  BY <1>1 DEF Mergeable
<1> HIDE DEF m, FS, s
<1>9. /\ ShapeInv' /\ ApartInv' /\ QueueInv'
      /\ Live' = (Live \ FS) \cup {m}
      /\ ToSet(arrived)' \subseteq ToSet(arrived) \cup {source}
      /\ ToSet(arrived) \subseteq ToSet(arrived)'
      /\ content' \in Seq(PacketRecord) /\ arrived' \in Seq(Seq(Nat))
  <2>1. ShapeInv' /\ ApartInv'
    BY <1>0, <1>4, EnterKeepsShape, EnterKeepsApart
  <2>2. QED
    BY <1>0, <1>3, <1>4, <2>1, EnterPlace
<1>10. chSize' \in [Id -> Nat] /\ chSize'[source] = s
       /\ \A id \in Id : id # source => chSize'[id] = chSize[id]
  BY <1>0, <1>1, <1>3, <1>6 DEF TypeInv
<1>11. \A g \in AllFragments : /\ chSize'[g.id] = chSize[g.id]
                               /\ IsChComplete(g)' <=> IsChComplete(g)
  <2>1. \A g \in AllFragments : g.id \in Id
    <3>1. \A g \in AllFragments : Depth(g) \in 0 .. Depth(g)
      BY FragmentType
    <3>2. QED
      BY <3>1, AddressType, FragmentType
  <2>2. \A g \in AllFragments : g.id # source
    BY <1>5, <1>7
  <2>3. QED
    BY <1>10, <2>1, <2>2 DEF IsChComplete
<1>12. OccupiedExact'
  <2>1. Held' + Ready' = Held + Ready
    BY MergeSums
  <2>2. occupied' = Held' + Ready'
    BY <1>0, <1>1, <2>1, Exact
  <2>3. QED
    BY <2>2, Exact
<1>13. TypeInv'
  <2>1. pool' \subseteq PacketRecord /\ toAssemble' \subseteq PacketRecord
    BY <1>0, <1>3, <1>4 DEF TypeInv
  <2>2. IsFiniteSet(pool') /\ IsFiniteSet(toAssemble')
    <3>1. IsFiniteSet(toAssemble \cup {m}) /\ IsFiniteSet(pool)
      BY <1>0, FS_AddElement DEF TypeInv
    <3>2. pool' \subseteq pool
      BY <1>4
    <3>3. QED
      BY <1>4, <3>1, <3>2, FS_Subset
  <2>3. QED
    BY <1>0, <1>1, <1>9, <1>10, <2>1, <2>2 DEF TypeInv
<1>14. PoolInv'
  <2>1. m \notin pool
    BY <1>3, <1>5, <1>7 DEF Live, Stored
  <2>2. pool' \cap toAssemble' = {}
    BY <1>0, <1>4, <2>1 DEF PoolInv
  <2>3. QED
    BY <1>1, <2>2 DEF PoolInv, Running
<1>15. ByteInv'
  <2>1. \A g \in AllFragments : chSize'[g.id] <= g.size
    BY <1>0, <1>11 DEF ByteInv
  <2>2. \A x \in Live' : x \notin AllFragments => chSize'[x.id] = x.size
    <3> SUFFICES ASSUME NEW x \in Live', x \notin AllFragments
                 PROVE  chSize'[x.id] = x.size
      OBVIOUS
    <3>1. CASE x = m
      BY <1>3, <1>10, <3>1 DEF s
    <3>2. CASE x # m
      <4>1. x \in Live
        BY <1>9, <3>2
      <4>2. x.id \in Id /\ x.id # source
        BY <1>0, <1>5, <1>7, <4>1, LiveType
      <4>3. chSize[x.id] = x.size
        BY <1>0, <4>1 DEF ByteInv
      <4>4. QED
        BY <1>10, <4>2, <4>3
    <3>3. QED
      BY <3>1, <3>2
  <2>3. source \notin ToSet(arrived)
    BY <1>5, <1>7 DEF ToSet
  <2>4. \A id \in Id : offset'[id] <= chSize'[id]
    <3>1. offset[source] = 0
      BY <1>0, <1>6, <2>3 DEF ByteInv
    <3>2. \A id \in Id : offset[id] <= chSize[id]
      BY <1>0 DEF ByteInv
    <3>3. offset[source] <= chSize'[source]
      BY <1>3, <1>10, <3>1
    <3>4. QED
      BY <1>1, <1>10, <3>2, <3>3
  <2>5. \A id \in Id : offset'[id] # 0 => id \in ToSet(arrived)'
    BY <1>0, <1>1, <1>9 DEF ByteInv
  <2>6. \A g \in AllFragments, id \in Seen' :
          IsPrefix(id, g.id) /\ g \notin Live' => IsChComplete(g)'
    <3> SUFFICES ASSUME NEW g \in AllFragments, NEW id \in Seen',
                        IsPrefix(id, g.id), g \notin Live'
                 PROVE  IsChComplete(g)
      BY <1>11
    <3>1. CASE g \in Live
      <4>1. g \in FS
        BY <1>9, <3>1
      <4>2. QED
        BY <1>8, <4>1
    <3>2. CASE g \notin Live
      <4>1. \E i \in Seen : IsPrefix(i, g.id)
        <5>1. id \in Seen \/ id = source
          BY <1>3, <1>9 DEF Seen
        <5>2. CASE id = source
          <6>1. g \in Below(source)
            BY <5>2 DEF Below
          <6>2. PICK x \in FS : g \in Below(x.id)
            BY <1>6, <6>1
          <6>3. IsPrefix(x.id, g.id) /\ x.id \in Seen
            BY <1>4, <6>2 DEF Below, Seen, Live, Stored
          <6>4. QED
            BY <6>3
        <5>3. QED
          BY <5>1, <5>2
      <4>2. QED
        BY <1>0, <3>2, <4>1 DEF ByteInv
    <3>3. QED
      BY <3>1, <3>2
  <2>7. \A g \in AllFragments : chSize'[g.id] # 0 /\ ~IsChComplete(g)' => g \in Live'
    <3> SUFFICES ASSUME NEW g \in AllFragments, chSize[g.id] # 0, ~IsChComplete(g)
                 PROVE  g \in Live'
      BY <1>11
    <3>1. g \in Live
      BY <1>0 DEF ByteInv
    <3>2. g \notin FS
      BY <1>8
    <3>3. QED
      BY <1>9, <3>1, <3>2
  <2>8. QED
    BY <2>1, <2>2, <2>4, <2>5, <2>6, <2>7 DEF ByteInv
<1>16. SentInv'
  <2>1. \A w \in Writer : Cargo[w] \in Seq(AllFragments)
    BY AssembleAssumption
  <2>2. \A w \in Writer : \A i \in DOMAIN Cargo[w] : Cargo[w][i] \in AllFragments
    BY <2>1
  <2>3. QED
    BY <1>0, <1>1, <1>11, <2>2 DEF SentInv
<1>17. QED
  BY <1>9, <1>12, <1>13, <1>14, <1>15, <1>16 DEF IInv

-----------------------------------------------------------------------------
\* Every step keeps the invariant.
LEMMA NextIInv ==
  ASSUME IInv, [Next]_vars
  PROVE  IInv'
<1>1. CASE \E w \in Writer : Write(w)
  BY <1>1, WriteStep
<1>2. CASE Reading
  BY <1>2, TakeStep DEF Reading
<1>3. CASE \E source \in Id : Merge(source)
  BY <1>3, MergeStep
<1>4. CASE BeginUpdate \/ EndLoop \/ Die \/ UNCHANGED vars
  BY <1>4, QuietSteps
<1>5. QED
  BY <1>1, <1>2, <1>3, <1>4 DEF Next, Update

\* The inductive invariant holds in every state of Assemble, however many packets,
\* writers and levels of cutting there are.
THEOREM Invariance == Spec => []IInv
<1>1. Init => IInv
  BY InitIInv
<1>2. IInv /\ [Next]_vars => IInv'
  BY NextIInv
<1>3. QED
  BY <1>1, <1>2, PTL DEF Spec

\* _Occupied of an assembling channel is at any time the number of bytes that were
\* written and are not yet read: MergeFacets, which moves the bytes of the facets to
\* the packet that it makes of them, neither loses nor counts any twice.
THEOREM OccupancyExact == Spec => []OccupiedExact
<1>1. IInv => OccupiedExact
  BY DEF IInv
<1>2. QED
  BY <1>1, Invariance, PTL

-----------------------------------------------------------------------------
\* Whole packets.

\* The address of a given packet tells which it is.
LEMMA GivenApart ==
  ASSUME NEW p \in Given, NEW q \in Given, p.id \in Seq(Nat), p.id = q.id
  PROVE  p = q
<1>1. IsPrefix(p.id, q.id)
  BY PrefixSelf
<1>2. QED
  BY <1>1, AssembleAssumption

\* Below a given packet are its pieces.
LEMMA BelowGiven ==
  ASSUME NEW p \in Given, p.id \in Seq(Nat)
  PROVE  Below(p.id) = Fragment(p)
<1>1. ASSUME NEW f \in Fragment(p)
      PROVE  f \in Below(p.id)
  <2>1. f \in AllFragments
    BY DEF AllFragments
  <2>2. Address(f, 0) = p.id
    BY CutAssumption
  <2>3. IsPrefix(Address(f, 0), f.id)
    BY <2>1, FragmentType, AddressType
  <2>4. QED
    BY <2>1, <2>2, <2>3 DEF Below
<1>2. ASSUME NEW f \in Below(p.id)
      PROVE  f \in Fragment(p)
  <2>1. f \in AllFragments /\ IsPrefix(p.id, f.id)
    BY DEF Below
  <2>2. PICK q \in Given : f \in Fragment(q)
    BY <2>1 DEF AllFragments
  <2>3. q.id = Address(f, 0)
    BY <2>2, CutAssumption
  <2>4. q.id \in Seq(Nat) /\ IsPrefix(q.id, f.id) /\ f.id \in Seq(Nat)
    BY <2>1, <2>3, FragmentType, AddressType
  <2>5. Len(p.id) \in Nat /\ Len(q.id) \in Nat
    BY <2>4
  <2>6. IsPrefix(p.id, q.id) \/ IsPrefix(q.id, p.id)
    <3>1. CASE Len(p.id) <= Len(q.id)
      BY <2>1, <2>4, <3>1, PrefixMeet
    <3>2. CASE Len(q.id) <= Len(p.id)
      BY <2>1, <2>4, <3>2, PrefixMeet
    <3>3. QED
      BY <2>5, <3>1, <3>2
  <2>7. p = q
    BY <2>6, AssembleAssumption
  <2>8. QED
    BY <2>2, <2>7
<1>3. QED
  BY <1>1, <1>2

\* What the invariant says of whole packets.
LEMMA WholeWhenArrived ==
  ASSUME IInv
  PROVE  RestoredWhole
<1> SUFFICES ASSUME NEW p \in Given, HasArrived(p), Cuts[p] # <<>>
             PROVE  /\ Written(p)
                    /\ \A f \in pool \cup toAssemble : ~IsPrefix(p.id, f.id)
                    /\ \A f \in ToSet(content) : f.id = p.id =>
                         /\ CutBy(p, "onSIZE") => f.size = p.size
                         /\ CutBy(p, "onLENGTH") => f.length = p.length
  BY DEF RestoredWhole
<1>0. TypeInv /\ ShapeInv /\ ApartInv /\ ByteInv
  BY DEF IInv
<1>1. PICK i \in DOMAIN arrived : arrived[i] = p.id
  BY DEF HasArrived, ToSet
<1>2. p.id \in Seq(Nat)
  BY <1>0, <1>1 DEF TypeInv
<1>3. \A f \in Stored : ~IsPrefix(p.id, f.id)
  BY <1>0, <1>1 DEF ApartInv
<1>4. Below(p.id) = Fragment(p)
  BY <1>2, BelowGiven
<1>5. ASSUME NEW f \in Fragment(p)
      PROVE  IsChComplete(f)
  <2>1. f \in AllFragments /\ IsPrefix(p.id, f.id)
    BY <1>4 DEF Below
  <2>2. f.split # <<>>
    <3>1. Len(f.split) = Len(Cuts[p])
      BY CutAssumption
    <3>2. Len(Cuts[p]) # 0
      BY AssembleAssumption
    <3>3. QED
      BY <3>1, <3>2
  <2>3. f \notin Live
    BY <1>0, <1>3, <2>1, <2>2 DEF Live, ShapeInv
  <2>4. p.id \in Seen
    BY DEF Seen, HasArrived
  <2>5. QED
    BY <1>0, <2>1, <2>3, <2>4 DEF ByteInv
<1>6. ASSUME NEW f \in ToSet(content), f.id = p.id
      PROVE  /\ CutBy(p, "onSIZE") => f.size = p.size
             /\ CutBy(p, "onLENGTH") => f.length = p.length
  <2>1. Sums(f)
    BY <1>0 DEF ShapeInv, Live
  <2>2. /\ f.size = Total([g \in Fragment(p) |-> g.size])
        /\ f.length = Total([g \in Fragment(p) |-> g.length])
    BY <1>4, <1>6, <2>1 DEF Sums
  <2>3. QED
    BY <2>2, CutAssumption
<1>7. QED
  BY <1>3, <1>5, <1>6 DEF Written, Stored

\* A packet that was cut appears to readers only when all of its pieces are complete
\* and gone from _AssemblePool, and with the size, or the length, that it was cut by.
THEOREM PacketsRestored == Spec => []RestoredWhole
<1>1. IInv => RestoredWhole
  BY WholeWhenArrived
<1>2. QED
  BY <1>1, Invariance, PTL

-----------------------------------------------------------------------------
\* The queue.

\* The packet is in the content.
InContent(p) == \E f \in ToSet(content) : f.id = p.id

\* The number of a packet in the queue.
Number(p) == IF HasArrived(p) THEN Place(p) ELSE 0

\* The four stages, before and after a step.
LEMMA StageIs ==
  ASSUME NEW p, InContent(p) => HasArrived(p)
  PROVE  /\ ~HasArrived(p) => StageOf(p) = "absent"
         /\ HasArrived(p) /\ InContent(p) /\ offset[p.id] = 0 => StageOf(p) = "queued"
         /\ HasArrived(p) /\ InContent(p) /\ offset[p.id] # 0 => StageOf(p) = "serving"
         /\ HasArrived(p) /\ ~InContent(p) => StageOf(p) = "served"
BY DEF StageOf, InContent

\* And after a step.
LEMMA StageWillBe ==
  ASSUME NEW p
  PROVE  /\ HasArrived(p)' /\ InContent(p)' /\ offset'[p.id] = 0 => StageOf(p)' = "queued"
         /\ HasArrived(p)' /\ InContent(p)' /\ offset'[p.id] # 0 => StageOf(p)' = "serving"
         /\ HasArrived(p)' /\ ~InContent(p)' => StageOf(p)' = "served"
BY DEF StageOf, InContent

\* A packet whose part of the state stays as it is stays where it is.
LEMMA SameStage ==
  ASSUME NEW p, HasArrived(p)' <=> HasArrived(p), InContent(p)' <=> InContent(p),
         offset'[p.id] = offset[p.id]
  PROVE  StageOf(p)' = StageOf(p)
BY DEF StageOf, InContent

\* The place of a packet that has arrived is where its address stands.
LEMMA PlaceIs ==
  ASSUME TypeInv, ApartInv, NEW p, HasArrived(p)
  PROVE  /\ Place(p) \in 1 .. Len(arrived)
         /\ arrived[Place(p)] = p.id
         /\ \A i \in 1 .. Len(arrived) : arrived[i] = p.id => i = Place(p)
<1>1. arrived \in Seq(Seq(Nat)) /\ DOMAIN arrived = 1 .. Len(arrived)
  BY DEF TypeInv
<1>2. \E i \in DOMAIN arrived : arrived[i] = p.id
  BY DEF HasArrived, ToSet
<1>3. Place(p) \in DOMAIN arrived /\ arrived[Place(p)] = p.id
  BY <1>2 DEF Place
<1>4. \A i \in DOMAIN arrived : arrived[i] = p.id => i = Place(p)
  <2> SUFFICES ASSUME NEW i \in DOMAIN arrived, arrived[i] = p.id
               PROVE  i = Place(p)
    OBVIOUS
  <2>1. arrived[i] \in Seq(Nat)
    BY <1>1
  <2>2. IsPrefix(arrived[i], arrived[Place(p)])
    BY <1>3, <2>1, PrefixSelf
  <2>3. QED
    BY <1>3, <2>2 DEF ApartInv
<1>5. QED
  BY <1>1, <1>3, <1>4

\* What stands in the content was given.
LEMMA ContentGiven ==
  ASSUME NEW x, x.split = <<>>, \E f \in AllFragments : Ancestor(x, f)
  PROVE  \E p \in Given : x.id = p.id
<1>1. PICK f \in AllFragments : Ancestor(x, f)
  OBVIOUS
<1>2. x.id = Address(f, 0)
  BY <1>1 DEF Ancestor
<1>3. PICK p \in Given : f \in Fragment(p)
  BY DEF AllFragments
<1>4. Address(f, 0) = p.id
  BY <1>3, CutAssumption
<1>5. QED
  BY <1>2, <1>4

\* A packet that enters the content is put in the queue.
LEMMA EnterIsPut ==
  ASSUME IInv, NEW x, NEW R, Enters(x, R), x.split = <<>>, offset' = offset
  PROVE  Queue!Next
<1> DEFINE stage == [p \in Given |-> StageOf(p)]
           number == [p \in Given |-> Number(p)]
           q == Len(arrived)
<1>0. TypeInv /\ ShapeInv /\ ApartInv /\ QueueInv /\ ByteInv
  BY DEF IInv
<1>1. /\ content' = Append(content, x) /\ arrived' = Append(arrived, x.id)
      /\ \E f \in AllFragments : Ancestor(x, f)
      /\ \A i \in DOMAIN arrived : ~IsPrefix(x.id, arrived[i])
  BY DEF Enters
<1>2. /\ x.id \in Seq(Nat) /\ x.id \in Id
      /\ ToSet(content)' = ToSet(content) \cup {x}
      /\ ToSet(arrived)' \subseteq ToSet(arrived) \cup {x.id}
      /\ ToSet(arrived) \subseteq ToSet(arrived)'
  BY <1>0, EnterPlace
<1>3. PICK p \in Given : x.id = p.id
  BY <1>1, ContentGiven
<1>4. x.id \notin ToSet(arrived)
  BY <1>1, <1>2, PrefixSelf DEF ToSet
<1>5. /\ arrived \in Seq(Seq(Nat)) /\ q \in Nat /\ Len(arrived') = q + 1
      /\ arrived'[q + 1] = x.id
      /\ \A i \in 1 .. q : arrived'[i] = arrived[i]
      /\ DOMAIN arrived = 1 .. q /\ DOMAIN arrived' = 1 .. q + 1
  BY <1>0, <1>1, <1>2 DEF TypeInv
<1>6. x.id \in ToSet(arrived)'
  BY <1>5 DEF ToSet
<1>7. ~HasArrived(p) /\ HasArrived(p)' /\ InContent(p)' /\ offset[p.id] = 0
  BY <1>0, <1>2, <1>3, <1>4, <1>6 DEF HasArrived, InContent, ByteInv
<1>8. \A r \in Given : r # p => r.id # x.id
  BY <1>2, <1>3, GivenApart
<1>9. ASSUME NEW r \in Given, r # p
      PROVE  /\ HasArrived(r)' <=> HasArrived(r)
             /\ StageOf(r)' = StageOf(r)
  <2>1. HasArrived(r)' <=> HasArrived(r)
    BY <1>2, <1>8, <1>9 DEF HasArrived
  <2>2. InContent(r)' <=> InContent(r)
    BY <1>2, <1>8, <1>9 DEF InContent
  <2>3. QED
    BY <2>1, <2>2, SameStage
<1>10. ApartInv'
  BY <1>0, EnterKeepsApart
<1>11. ASSUME NEW r, HasArrived(r)'
       PROVE  \A i \in 1 .. q + 1 : arrived'[i] = r.id => i = Place(r)'
  <2>1. \E i \in DOMAIN arrived' : arrived'[i] = r.id
    BY <1>11 DEF HasArrived, ToSet
  <2>2. Place(r)' \in DOMAIN arrived' /\ arrived'[Place(r)'] = r.id
    BY <2>1 DEF Place
  <2>3. \A i \in 1 .. q + 1 : arrived'[i] \in Seq(Nat)
    <3>1. arrived' \in Seq(Seq(Nat))
      BY <1>0, EnterPlace
    <3>2. QED
      BY <1>5, <3>1
  <2> SUFFICES ASSUME NEW i \in 1 .. q + 1, arrived'[i] = r.id
               PROVE  i = Place(r)'
    OBVIOUS
  <2>4. IsPrefix(arrived'[i], arrived'[Place(r)'])
    BY <2>2, <2>3, PrefixSelf
  <2>5. QED
    BY <1>5, <1>10, <2>2, <2>4 DEF ApartInv
<1>12. Number(p)' = q + 1
  <2>1. q + 1 \in 1 .. q + 1
    BY <1>5
  <2>2. Place(p)' = q + 1
    BY <1>3, <1>5, <1>7, <1>11, <2>1
  <2>3. QED
    BY <1>7, <2>2 DEF Number
<1>13. \A r \in Given : Number(r) \in 0 .. q
  <2> SUFFICES ASSUME NEW r \in Given
               PROVE  Number(r) \in 0 .. q
    OBVIOUS
  <2>1. CASE HasArrived(r)
    <3>1. Place(r) \in 1 .. q
      BY <1>0, <2>1, PlaceIs
    <3>2. QED
      BY <1>5, <2>1, <3>1 DEF Number
  <2>2. CASE ~HasArrived(r)
    BY <1>5, <2>2 DEF Number
  <2>3. QED
    BY <2>1, <2>2
<1>14. ASSUME NEW r \in Given, r # p
       PROVE  Number(r)' = Number(r)
  <2>1. CASE HasArrived(r)
    <3>1. Place(r) \in 1 .. q /\ arrived[Place(r)] = r.id
      BY <1>0, <2>1, PlaceIs
    <3>2. Place(r) \in 1 .. q + 1 /\ arrived'[Place(r)] = r.id
      BY <1>5, <3>1
    <3>3. HasArrived(r)'
      BY <1>9, <1>14, <2>1
    <3>4. Place(r)' = Place(r)
      BY <1>11, <3>2, <3>3
    <3>5. QED
      BY <2>1, <3>3, <3>4 DEF Number
  <2>2. CASE ~HasArrived(r)
    <3>1. ~HasArrived(r)'
      BY <1>9, <1>14, <2>2
    <3>2. QED
      BY <2>2, <3>1 DEF Number
  <2>3. QED
    BY <2>1, <2>2
<1>15. StageOf(p) = "absent" /\ StageOf(p)' = "queued"
  <2>1. StageOf(p) = "absent"
    <3>1. ~InContent(p)
      BY <1>0, <1>7, ContentArrived DEF InContent, HasArrived
    <3>2. QED
      BY <1>7, <3>1, StageIs
  <2>2. offset'[p.id] = 0
    BY <1>7
  <2>3. QED
    BY <1>7, <2>1, <2>2, StageWillBe
<1>16. stage[p] = "absent" /\ stage' = [stage EXCEPT ![p] = "queued"]
  BY <1>9, <1>15
<1>17. number' = [number EXCEPT ![p] = number'[p]]
  BY <1>14
<1>18. \A r \in Given : number[r] < number'[p]
  <2>1. \A r \in Given : number[r] \in 0 .. q
    BY <1>13
  <2>2. number'[p] = q + 1
    BY <1>12
  <2> HIDE DEF number
  <2>3. QED
    BY <1>5, <2>1, <2>2
<1>19. Queue!Put(p)
  BY <1>16, <1>17, <1>18 DEF Queue!Put, Number
<1>20. QED
  BY <1>19 DEF Queue!Next

\* Reading the packet at the head serves it, or finishes with it.
LEMMA TakeIsServe ==
  ASSUME IInv, NEW f \in ToSet(content), NEW n, Taken(f, n)
  PROVE  [Queue!Next]_(Queue!vars)
<1> DEFINE stage == [p \in Given |-> StageOf(p)]
           number == [p \in Given |-> Number(p)]
           popped == offset[f.id] + n = f.size
           l == Len(content)
           q == Len(arrived)
<1>0. TypeInv /\ ShapeInv /\ ApartInv /\ QueueInv /\ ByteInv
  BY DEF IInv
<1>1. /\ f \in Live /\ f.id \in Id
      /\ offset[f.id] \in Nat /\ n \in Nat \ {0}
      /\ offset'[f.id] = offset[f.id] + n
      /\ \A id \in Id : id # f.id => offset'[id] = offset[id]
  BY <1>0, TakenNumbers
<1>2. /\ ~popped => ToSet(content)' = ToSet(content)
      /\ popped => ToSet(content)' = ToSet(content) \ {f}
  BY <1>0, TakenContent
<1>3. PICK p \in Given : f.id = p.id
  BY <1>0, <1>1, ContentGiven DEF ShapeInv
<1>4. arrived' = arrived
  BY DEF Taken
<1>5. \A r : HasArrived(r)' <=> HasArrived(r)
  BY <1>4 DEF HasArrived, ToSet
<1>6. HasArrived(p) /\ InContent(p)
  BY <1>0, <1>3, ContentArrived DEF HasArrived, InContent
<1>7. \A x \in ToSet(content) : x.id = f.id => x = f
  BY <1>0, <1>1, SameId DEF Live
<1>8. InContent(p)' <=> ~popped
  BY <1>2, <1>3, <1>7 DEF InContent
<1>9. offset'[p.id] # 0
  <2> DEFINE a == offset[f.id]
  <2>1. a \in Nat /\ n \in Nat \ {0} /\ offset'[p.id] = a + n
    BY <1>1, <1>3
  <2> HIDE DEF a
  <2>2. QED
    BY <2>1
<1>10. StageOf(p)' = IF popped THEN "served" ELSE "serving"
  BY <1>5, <1>6, <1>8, <1>9, StageWillBe
<1>11. StageOf(p) = IF offset[f.id] = 0 THEN "queued" ELSE "serving"
  BY <1>3, <1>6, StageIs
<1>12. \A r \in Given : r # p => r.id # f.id
  <2>1. f.id \in Seq(Nat)
    BY <1>0, <1>1, LiveType
  <2>2. QED
    BY <1>3, <2>1, GivenApart
<1>13. ASSUME NEW r \in Given, r # p
       PROVE  StageOf(r)' = StageOf(r)
  <2>1. InContent(r)' <=> InContent(r)
    BY <1>2, <1>12, <1>13 DEF InContent
  <2>2. CASE InContent(r)
    <3>1. PICK x \in ToSet(content) : x.id = r.id
      BY <2>2 DEF InContent
    <3>2. r.id \in Id
      BY <1>0, <3>1, LiveType DEF Live
    <3>3. offset'[r.id] = offset[r.id]
      BY <1>1, <1>12, <1>13, <3>2
    <3>4. QED
      BY <1>5, <2>1, <3>3, SameStage
  <2>3. CASE ~InContent(r)
    <3>1. CASE HasArrived(r)
      BY <1>5, <2>1, <2>3, <3>1, StageIs, StageWillBe
    <3>2. CASE ~HasArrived(r)
      BY <1>5, <2>1, <2>3, <3>2 DEF StageOf, InContent
    <3>3. QED
      BY <3>1, <3>2
  <2>4. QED
    BY <2>2, <2>3
<1>14. number' = number
  BY <1>4, <1>5 DEF Number, Place
<1>15. stage' = [stage EXCEPT ![p] = StageOf(p)']
  BY <1>13
<1>16. CASE offset[f.id] = 0
  <2>1. /\ l \in Nat \ {0} /\ q \in Nat /\ l <= q /\ DOMAIN content = 1 .. l
        /\ DOMAIN arrived = 1 .. q
        /\ \A k \in 1 .. l : content[k].id = arrived[q - l + k]
        /\ f = content[1]
    <3>1. content \in Seq(PacketRecord) /\ arrived \in Seq(Seq(Nat))
      BY <1>0 DEF TypeInv
    <3>2. content # <<>> /\ f = Head(content)
      BY DEF Taken
    <3>3. l \in Nat \ {0} /\ q \in Nat /\ DOMAIN content = 1 .. l /\ DOMAIN arrived = 1 .. q
          /\ f = content[1]
      BY <3>1, <3>2
    <3>4. l <= q /\ \A k \in 1 .. l : content[k].id = arrived[q - l + k]
      BY <1>0, <3>3 DEF QueueInv
    <3>5. QED
      BY <3>3, <3>4
  <2> HIDE DEF l, q
  <2>2. Number(p) = q - l + 1
    <3>1. 1 \in 1 .. l /\ q - l + 1 \in 1 .. q
      BY <2>1
    <3>2. arrived[q - l + 1] = p.id
      BY <1>3, <2>1, <3>1
    <3>3. q - l + 1 = Place(p)
      BY <1>0, <1>6, <3>1, <3>2, PlaceIs DEF q
    <3>4. QED
      BY <1>6, <3>3 DEF Number
  <2>3. ASSUME NEW r \in Given, Number(r) # 0, Number(r) < Number(p)
        PROVE  StageOf(r) = "served"
    <3>1. HasArrived(r) /\ Number(r) = Place(r)
      BY <2>3 DEF Number
    <3>2. ASSUME InContent(r)
          PROVE  FALSE
      <4>1. PICK x \in ToSet(content) : x.id = r.id
        BY <3>2 DEF InContent
      <4>2. PICK k \in 1 .. l : x = content[k]
        BY <2>1, <4>1 DEF ToSet
      <4>3. arrived[q - l + k] = r.id /\ q - l + k \in 1 .. q
        BY <2>1, <4>1, <4>2
      <4>4. q - l + k = Place(r)
        BY <1>0, <3>1, <4>3, PlaceIs DEF q
      <4>5. QED
        BY <2>1, <2>2, <2>3, <3>1, <4>2, <4>4
    <3>3. QED
      BY <3>1, <3>2, StageIs
  <2>4. StageOf(p) = "queued" /\ StageOf(p)' \in {"serving", "served"}
    BY <1>10, <1>11, <1>16
  <2>5. Queue!Serve(p)
    <3>1. stage[p] = "queued"
      BY <2>4
    <3>2. \A r \in Given : number[r] # 0 /\ number[r] < number[p] => stage[r] = "served"
      BY <2>3
    <3>3. QED
      BY <1>14, <1>15, <2>4, <3>1, <3>2 DEF Queue!Serve, Queue!Before, Number
  <2>6. QED
    BY <2>5 DEF Queue!Next
<1>17. CASE offset[f.id] # 0 /\ popped
  <2>1. StageOf(p) = "serving" /\ StageOf(p)' = "served"
    BY <1>10, <1>11, <1>17
  <2>2. Queue!Finish(p)
    BY <1>14, <1>15, <2>1 DEF Queue!Finish, Number
  <2>3. QED
    BY <2>2 DEF Queue!Next
<1>18. CASE offset[f.id] # 0 /\ ~popped
  <2>1. StageOf(p) = "serving" /\ StageOf(p)' = "serving"
    BY <1>10, <1>11, <1>18
  <2>2. stage' = stage
    BY <1>15, <2>1
  <2>3. UNCHANGED Queue!vars
    BY <1>14, <2>2 DEF Queue!vars, Number
  <2>4. QED
    BY <2>3
<1>19. QED
  BY <1>16, <1>17, <1>18

\* The queue does not see a step that keeps the content and its offsets.
LEMMA UnseenByQueue ==
  ASSUME UNCHANGED <<content, arrived, offset>>
  PROVE  UNCHANGED Queue!vars
<1>1. \A p : /\ HasArrived(p)' <=> HasArrived(p)
             /\ InContent(p)' <=> InContent(p)
             /\ Number(p)' = Number(p)
  BY DEF HasArrived, InContent, ToSet, Number, Place
<1>2. \A p : StageOf(p)' = StageOf(p)
  BY <1>1, SameStage
<1>3. QED
  BY <1>1, <1>2 DEF Queue!vars, Number

\* Every step is one of the queue, or none.
LEMMA QueueStep ==
  ASSUME IInv, [Next]_vars
  PROVE  [Queue!Next]_(Queue!vars)
<1>1. CASE \E w \in Writer : Write(w)
  <2>1. PICK w \in Writer : Write(w)
    BY <1>1
  <2>2. PICK f, k : Bitten(w, f, k)
    BY <2>1, WriteIs DEF IInv
  <2>3. offset' = offset
    BY <2>2 DEF Bitten
  <2>4. CASE content' = content /\ arrived' = arrived
    BY <2>3, <2>4, UnseenByQueue
  <2>5. CASE Enters(f, {})
    <3>1. CASE f.split = <<>>
      BY <2>3, <2>5, <3>1, EnterIsPut
    <3>2. CASE f.split # <<>>
      BY <2>3, <2>5, <3>2, UnseenByQueue DEF Enters
    <3>3. QED
      BY <3>1, <3>2
  <2>6. QED
    BY <2>2, <2>4, <2>5, BittenPlace
<1>2. CASE Reading
  <2>1. PICK id \in Id : \E n \in 1 .. chSize[id] : Take(n)
    BY <1>2 DEF Reading
  <2>2. PICK n \in 1 .. chSize[id] : Take(n)
    BY <2>1
  <2>3. Taken(Head(content), n) /\ Head(content) \in ToSet(content)
    BY <2>2, TakeIs DEF IInv
  <2>4. QED
    BY <2>3, TakeIsServe
<1>3. CASE \E source \in Id : Merge(source)
  <2>1. PICK source \in Id : Merge(source)
    BY <1>3
  <2> DEFINE m == Merged(source)
  <2>2. Enters(m, FacetSet(source)) /\ offset' = offset
    BY <2>1, MergeEnters DEF Merge
  <2> HIDE DEF m
  <2>3. CASE m.split = <<>>
    BY <2>2, <2>3, EnterIsPut
  <2>4. CASE m.split # <<>>
    BY <2>2, <2>4, UnseenByQueue DEF Enters
  <2>5. QED
    BY <2>3, <2>4
<1>4. CASE BeginUpdate \/ EndLoop \/ Die \/ UNCHANGED vars
  <2>1. UNCHANGED <<content, arrived, offset>>
    BY <1>4 DEF BeginUpdate, EndLoop, Die, vars, queueVars
  <2>2. QED
    BY <2>1, UnseenByQueue
<1>5. QED
  BY <1>1, <1>2, <1>3, <1>4 DEF Next, Update

\* The empty channel is the empty queue.
LEMMA InitIsQueue ==
  ASSUME Init
  PROVE  Queue!Init
<1>1. content = <<>> /\ arrived = <<>>
  BY DEF Init
<1>2. \A p : ~HasArrived(p) /\ ~InContent(p)
  BY <1>1 DEF HasArrived, InContent, ToSet
<1>3. \A p : StageOf(p) = "absent" /\ Number(p) = 0
  BY <1>2, StageIs DEF Number
<1>4. QED
  BY <1>3 DEF Queue!Init, Number

\* To its readers an assembling channel is an ordered channel of whole packets, in
\* whatever order the pieces were brought and wherever the undefined iteration went.
THEOREM AssemblesToAQueue == Spec => ImplementsQueue
<1>1. Init => Queue!Init
  BY InitIsQueue
<1>2. IInv /\ [Next]_vars => [Queue!Next]_(Queue!vars)
  BY QueueStep
<1>3. Spec => [][Queue!Next]_(Queue!vars)
  BY <1>2, Invariance, PTL DEF Spec
<1>4. QED
  BY <1>1, <1>3 DEF Spec, ImplementsQueue, Queue!Spec
=============================================================================
