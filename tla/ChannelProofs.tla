---------------------------- MODULE ChannelProofs ----------------------------
(***************************************************************************)
(* The safety properties of Channel, for every set of packets, sizes,      *)
(* users, capacity and lock count.  The invariants of the specification    *)
(* are not inductive by themselves; ChannelInv collects what the handlers  *)
(* know of each other's packets.                                           *)
(***************************************************************************)
EXTENDS Channel, FiniteSetTheorems, TLAPS

\* What the reading side knows: a claimed packet is in the channel, has one
\* reader, and a reader that takes whole packets has a whole one.
ReadingInv ==
  /\ \A t \in Reader : reading[t] # None =>
       /\ reading[t] \in content
       /\ reading[t] \in picked
       /\ Mode[t] # "PIPELINE" => IsChComplete(reading[t])
  /\ \A t, u \in Reader : reading[t] # None /\ reading[t] = reading[u] => t = u

\* What the writing side knows: a packet in the making is in the channel, has
\* one writer, and its writer's handler has the lock if the lock is not shared.
WritingInv ==
  /\ \A d \in Writer : writing[d] # None => writing[d] \in Partial
  /\ \A f \in Partial : \E d \in Writer : writing[d] = f
  /\ \A d, e \in Writer : writing[d] # None /\ writing[d] = writing[e] => d = e
  /\ OneDestinationPerTH =>
       \A d \in Writer : writing[d] # None => THOf[d] \in currentWriter

\* A packet that has not arrived is untouched; a resident one has arrived; one
\* that has left was whole and claimed.
LifeInv ==
  /\ \A f \in Facet : arrival[f] = 0 =>
       chSize[f] = 0 /\ f \notin picked /\ f \notin content
  /\ \A f \in Facet : chSize[f] = 0 => arrival[f] = 0
  /\ \A f \in Facet : Popped(f) => IsChComplete(f) /\ f \in picked
  /\ \A f, g \in Facet : arrival[f] # 0 /\ arrival[f] = arrival[g] => f = g

\* In an ordered channel a claimed packet is the head.
HeadInv ==
  Ordered => \A f \in content \cap picked, g \in content : arrival[f] <= arrival[g]

LockInv ==
  /\ IsFiniteSet(currentReader)
  /\ IsFiniteSet(currentWriter)
  /\ Cardinality(currentWriter) <= WriterCount

CountInv == IsFiniteSet(ResidentBytes) /\ OccupiedExact

ChannelInv ==
  /\ TypeOK
  /\ ReadingInv
  /\ WritingInv
  /\ LifeInv
  /\ HeadInv
  /\ LockInv
  /\ CountInv
  /\ ReadLockDiscipline
  /\ NoSilentOverflow

-----------------------------------------------------------------------------
\* Sizes of byte ranges.

\* A range of bytes of one packet has as many members as it has bytes.
LEMMA RangeCount ==
  ASSUME NEW f, NEW a \in Nat, NEW b \in Nat, a <= b
  PROVE  /\ IsFiniteSet({f} \X (a + 1 .. b))
         /\ Cardinality({f} \X (a + 1 .. b)) = b - a
<1>1. /\ IsFiniteSet(a + 1 .. b)
      /\ Cardinality(a + 1 .. b) = b - a
  <2> DEFINE c == a + 1
  <2>1. /\ c \in Int
        /\ b \in Int
        /\ c > b => b - a = 0
        /\ ~(c > b) => b - c + 1 = b - a
    OBVIOUS
  <2> HIDE DEF c
  <2>2. /\ IsFiniteSet(c .. b)
        /\ Cardinality(c .. b) = IF c > b THEN 0 ELSE b - c + 1
    BY <2>1, FS_Interval, Zenon
  <2>3. Cardinality(c .. b) = b - a
    BY <2>1, <2>2
  <2>4. QED
    BY <2>2, <2>3 DEF c
<1>2. /\ IsFiniteSet({f})
      /\ Cardinality({f}) = 1
  BY FS_Singleton
<1>3. /\ IsFiniteSet({f} \X (a + 1 .. b))
      /\ Cardinality({f} \X (a + 1 .. b)) = 1 * (b - a)
  <2> DEFINE S == {f}
             T == a + 1 .. b
  <2>1. /\ IsFiniteSet(S) /\ IsFiniteSet(T)
        /\ Cardinality(S) = 1 /\ Cardinality(T) = b - a
    BY <1>1, <1>2
  <2> HIDE DEF S, T
  <2>2. /\ IsFiniteSet(S \X T)
        /\ Cardinality(S \X T) = Cardinality(S) * Cardinality(T)
    BY <2>1, FS_Product
  <2>3. QED
    BY <2>1, <2>2 DEF S, T
<1>4. QED
  BY <1>3

\* A disjoint union has as many members as its parts together.
LEMMA DisjointCount ==
  ASSUME NEW S, NEW T, IsFiniteSet(S), IsFiniteSet(T), S \cap T = {}
  PROVE  /\ IsFiniteSet(S \cup T)
         /\ Cardinality(S \cup T) = Cardinality(S) + Cardinality(T)
<1>1. /\ Cardinality({}) = 0
      /\ Cardinality(S) \in Nat
      /\ Cardinality(T) \in Nat
  BY FS_EmptySet, FS_CardinalityType
<1>2. /\ IsFiniteSet(S \cup T)
      /\ Cardinality(S \cup T) =
           Cardinality(S) + Cardinality(T) - Cardinality(S \cap T)
  BY FS_Union, Zenon
<1>3. Cardinality(S \cap T) = 0
  BY <1>1
<1>4. QED
  BY <1>1, <1>2, <1>3

\* Exactly the initial state has nothing in the channel.
LEMMA InitInv == Init => ChannelInv
<1> SUFFICES ASSUME Init PROVE ChannelInv
  OBVIOUS
<1> USE DEF Init
<1>1. TypeOK
  <2>1. \A f \in Facet : offset[f] <= chSize[f] /\ chSize[f] <= Size[f]
    BY FacetAssumption
  <2>2. arrival \in [Facet -> 0 .. arrived]
    OBVIOUS
  <2>3. QED
    BY <2>1, <2>2 DEF TypeOK
<1>2. ReadingInv /\ WritingInv /\ LifeInv /\ HeadInv
  BY FacetAssumption DEF ReadingInv, WritingInv, LifeInv, HeadInv, Partial, Popped
<1>3. IsFiniteSet({}) /\ Cardinality({}) = 0
  BY FS_EmptySet
<1>4. LockInv /\ ReadLockDiscipline
  BY <1>3, ShapeAssumption DEF LockInv, ReadLockDiscipline
<1>5. ResidentBytes = {}
  BY DEF ResidentBytes
<1>6. CountInv
  BY <1>3, <1>5 DEF CountInv, OccupiedExact
<1>7. NoSilentOverflow
  BY ShapeAssumption DEF NoSilentOverflow
<1>8. QED
  BY <1>1, <1>2, <1>4, <1>6, <1>7 DEF ChannelInv

-----------------------------------------------------------------------------
\* The back door, before sc_start: the packet is whole when it arrives.
LEMMA BackDoorStep ==
  ASSUME ChannelInv, NEW f \in Facet, BackDoorWrite(f)
  PROVE  ChannelInv'
<1> USE FacetAssumption, UserAssumption, ShapeAssumption
<1>0. /\ TypeOK /\ ReadingInv /\ WritingInv /\ LifeInv /\ HeadInv
      /\ LockInv /\ CountInv /\ ReadLockDiscipline /\ NoSilentOverflow
  BY DEF ChannelInv
<1>f. /\ f \notin content /\ f \notin picked
      /\ chSize[f] = 0 /\ offset[f] = 0 /\ Size[f] \in Nat \ {0}
  BY <1>0 DEF BackDoorWrite, LifeInv, TypeOK
<1>1. TypeOK'
  BY <1>0, <1>f DEF BackDoorWrite, PushBack, TypeOK
<1>2. ReadingInv'
  BY <1>0, <1>f DEF BackDoorWrite, PushBack, TypeOK, ReadingInv, IsChComplete
<1>3. Partial' = Partial
  BY <1>0, <1>f DEF BackDoorWrite, PushBack, TypeOK, Partial
<1>4. WritingInv'
  BY <1>0, <1>3 DEF BackDoorWrite, WritingInv
<1>5. LifeInv'
  BY <1>0, <1>f DEF BackDoorWrite, PushBack, TypeOK, LifeInv, Popped, IsChComplete
<1>6. HeadInv'
  BY <1>0, <1>f DEF BackDoorWrite, PushBack, TypeOK, HeadInv
<1>7. LockInv'
  BY <1>0 DEF BackDoorWrite, LockInv
<1>8. CountInv'
  <2> DEFINE new == {f} \X (0 + 1 .. Size[f])
  <2>1. ResidentBytes' = ResidentBytes \cup new
    BY <1>0, <1>f DEF BackDoorWrite, PushBack, TypeOK, ResidentBytes
  <2>2. ResidentBytes \cap new = {}
    BY <1>f DEF ResidentBytes
  <2>3. IsFiniteSet(new) /\ Cardinality(new) = Size[f]
    <3>1. Size[f] \in Nat /\ 0 \in Nat /\ 0 <= Size[f] /\ Size[f] - 0 = Size[f]
      BY <1>f
    <3>2. IsFiniteSet(new) /\ Cardinality(new) = Size[f] - 0
      BY <3>1, RangeCount, Zenon
    <3>3. QED
      BY <3>1, <3>2
  <2>4. /\ IsFiniteSet(ResidentBytes')
        /\ Cardinality(ResidentBytes') = Cardinality(ResidentBytes) + Size[f]
    BY <1>0, <2>1, <2>2, <2>3, DisjointCount DEF CountInv
  <2>5. QED
    BY <1>0, <2>4 DEF BackDoorWrite, CountInv, OccupiedExact
<1>9. ReadLockDiscipline'
  BY <1>0, <1>f DEF BackDoorWrite, PushBack, TypeOK, ReadLockDiscipline
<1>10. NoSilentOverflow'
  BY <1>0, <1>f DEF BackDoorWrite, TypeOK, NoSilentOverflow, Finite
<1>11. QED
  BY <1>1, <1>2, <1>4, <1>5, <1>6, <1>7, <1>8, <1>9, <1>10 DEF ChannelInv

\* Steps that leave the channel's content alone.
LEMMA StartStep ==
  ASSUME ChannelInv, Start \/ UNCHANGED vars
  PROVE  ChannelInv'
<1>1. TypeOK'
  BY DEF ChannelInv, TypeOK, Start, vars
<1>2. ReadingInv' /\ WritingInv' /\ LifeInv' /\ HeadInv'
  BY DEF ChannelInv, Start, vars, ReadingInv, WritingInv, LifeInv, HeadInv,
         Partial, Popped, IsChComplete
<1>3. LockInv' /\ ReadLockDiscipline' /\ NoSilentOverflow'
  BY DEF ChannelInv, Start, vars, LockInv, ReadLockDiscipline, NoSilentOverflow
<1>4. CountInv'
  BY DEF ChannelInv, Start, vars, CountInv, ResidentBytes, OccupiedExact
<1>5. QED
  BY <1>1, <1>2, <1>3, <1>4 DEF ChannelInv

\* Claiming: the packet was nobody's, and in an ordered channel it is the head.
LEMMA ClaimStep ==
  ASSUME ChannelInv, NEW t \in Reader, NEW f \in Facet, Claim(t, f)
  PROVE  ChannelInv'
<1> USE FacetAssumption, UserAssumption, ShapeAssumption
<1>0. /\ TypeOK /\ ReadingInv /\ WritingInv /\ LifeInv /\ HeadInv
      /\ LockInv /\ CountInv /\ ReadLockDiscipline /\ NoSilentOverflow
  BY DEF ChannelInv
<1>f. /\ f \in content /\ f \notin picked /\ reading[t] = None /\ f # None
      /\ Mode[t] # "PIPELINE" => IsChComplete(f)
      /\ Ordered => \A g \in content : ~(arrival[g] < arrival[f])
  BY <1>0 DEF Claim, PickUpFacet, Condition
<1>1. TypeOK'
  BY <1>0, <1>f DEF Claim, TypeOK
<1>2. ReadingInv'
  BY <1>0, <1>f DEF Claim, TypeOK, ReadingInv, IsChComplete
<1>3. WritingInv'
  BY <1>0 DEF Claim, WritingInv, Partial
<1>4. LifeInv'
  BY <1>0, <1>f DEF Claim, TypeOK, LifeInv, Popped, IsChComplete
<1>5. HeadInv'
  BY <1>0, <1>f DEF Claim, TypeOK, HeadInv
<1>6. LockInv' /\ NoSilentOverflow'
  BY <1>0 DEF Claim, LockInv, NoSilentOverflow
<1>7. CountInv'
  BY <1>0 DEF Claim, CountInv, ResidentBytes, OccupiedExact
<1>8. ReadLockDiscipline'
  BY <1>0, <1>f DEF Claim, TypeOK, ReadLockDiscipline
<1>9. QED
  BY <1>1, <1>2, <1>3, <1>4, <1>5, <1>6, <1>7, <1>8 DEF ChannelInv

\* Granting a lock keeps the number of its holders within the limit.
LEMMA GrantCount ==
  ASSUME NEW S, NEW x, NEW limit \in Nat, IsFiniteSet(S),
         Cardinality(S) <= limit, x \in S \/ Cardinality(S) < limit
  PROVE  IsFiniteSet(S \cup {x}) /\ Cardinality(S \cup {x}) <= limit
<1>1. /\ IsFiniteSet(S \cup {x})
      /\ Cardinality(S \cup {x}) =
           IF x \in S THEN Cardinality(S) ELSE Cardinality(S) + 1
      /\ Cardinality(S) \in Nat
  BY FS_AddElement, FS_CardinalityType, Zenon
<1>2. QED
  BY <1>1

\* Returning it, too.
LEMMA ReturnCount ==
  ASSUME NEW S, NEW x, NEW limit \in Nat, IsFiniteSet(S),
         Cardinality(S) <= limit
  PROVE  IsFiniteSet(S \ {x}) /\ Cardinality(S \ {x}) <= limit
<1>1. /\ IsFiniteSet(S \ {x})
      /\ Cardinality(S \ {x}) =
           IF x \in S THEN Cardinality(S) - 1 ELSE Cardinality(S)
      /\ Cardinality(S) \in Nat
  BY FS_RemoveElement, FS_CardinalityType, Zenon
<1>2. QED
  BY <1>1

\* Waiting for room: only the write lock may change hands.
LEMMA HaltStep ==
  ASSUME ChannelInv, NEW d \in Writer, NEW f \in Facet,
         NEW bite \in 1 .. Size[f], Halt(d, f, bite)
  PROVE  ChannelInv'
<1> USE FacetAssumption, UserAssumption, ShapeAssumption
<1>0. /\ TypeOK /\ ReadingInv /\ WritingInv /\ LifeInv /\ HeadInv
      /\ LockInv /\ CountInv /\ ReadLockDiscipline /\ NoSilentOverflow
  BY DEF ChannelInv
<1>1. TypeOK'
  BY <1>0 DEF Halt, TypeOK
<1>2. ReadingInv' /\ LifeInv' /\ HeadInv'
  BY <1>0 DEF Halt, ReadingInv, LifeInv, HeadInv, Popped, IsChComplete
<1>3. WritingInv'
  BY <1>0 DEF Halt, WritingInv, Partial
<1>4. LockInv'
  <2>1. /\ IsFiniteSet(currentWriter) /\ Cardinality(currentWriter) <= WriterCount
        /\ THOf[d] \in currentWriter \/ Cardinality(currentWriter) < WriterCount
        /\ currentWriter' = currentWriter \cup {THOf[d]}
    BY <1>0 DEF Halt, LockInv, CanLockWr
  <2>2. IsFiniteSet(currentWriter') /\ Cardinality(currentWriter') <= WriterCount
    BY <2>1, GrantCount
  <2>3. QED
    BY <1>0, <2>2 DEF Halt, LockInv
<1>5. ReadLockDiscipline' /\ NoSilentOverflow'
  BY <1>0 DEF Halt, ReadLockDiscipline, NoSilentOverflow
<1>6. CountInv'
  BY <1>0 DEF Halt, CountInv, ResidentBytes, OccupiedExact
<1>7. QED
  BY <1>1, <1>2, <1>3, <1>4, <1>5, <1>6 DEF ChannelInv

\* A bite is written: of a new packet, or of the one its destination has begun.
LEMMA WriteStep ==
  ASSUME ChannelInv, NEW d \in Writer, NEW f \in Facet,
         NEW bite \in 1 .. Size[f], Write(d, f, bite)
  PROVE  ChannelInv'
<1> USE FacetAssumption, UserAssumption, ShapeAssumption
<1>0. /\ TypeOK /\ ReadingInv /\ WritingInv /\ LifeInv /\ HeadInv
      /\ LockInv /\ CountInv /\ ReadLockDiscipline /\ NoSilentOverflow
  BY DEF ChannelInv
<1>a. /\ bite \in Nat \ {0} /\ f # None /\ Size[f] \in Nat \ {0}
      /\ chSize[f] \in Nat /\ offset[f] \in Nat /\ offset[f] <= chSize[f]
      /\ chSize[f] + bite <= Size[f]
  BY <1>0 DEF Write, TopBite, TypeOK
<1>b. \/ f \in content /\ writing[d] = f /\ arrival[f] # 0
      \/ /\ f \notin content /\ arrival[f] = 0 /\ writing[d] = None
         /\ chSize[f] = 0 /\ offset[f] = 0 /\ f \notin picked
  BY <1>0, <1>a DEF Write, TopBite, TypeOK, LifeInv, WritingInv, Partial
<1>c. /\ content' = content \cup {f}
      /\ chSize' = [chSize EXCEPT ![f] = chSize[f] + bite]
      /\ UNCHANGED <<currentReader, offset, picked, reading, overflow>>
  BY <1>b DEF Write, PushBack
<1>1. TypeOK'
  <2>1. arrived' \in Nat /\ arrival' \in [Facet -> 0 .. arrived']
    BY <1>0, <1>b DEF Write, PushBack, TypeOK
  <2>2. currentWriter' \subseteq {THOf[e] : e \in Writer}
    BY <1>0 DEF Write, TypeOK
  <2>3. occupied' \in Nat /\ elaborating' \in BOOLEAN
    BY <1>0, <1>a DEF Write, TypeOK
  <2>4. writing' \in [Writer -> Facet \cup {None}]
    BY <1>0 DEF Write, TypeOK
  <2>5. content' \subseteq Facet /\ chSize' \in [Facet -> Nat]
    BY <1>0, <1>a, <1>c DEF TypeOK
  <2>6. \A g \in Facet : offset'[g] <= chSize'[g] /\ chSize'[g] <= Size[g]
    BY <1>0, <1>a, <1>c DEF TypeOK
  <2>7. QED
    BY <1>0, <1>c, <2>1, <2>2, <2>3, <2>4, <2>5, <2>6 DEF TypeOK
<1>2. ReadingInv'
  BY <1>0, <1>a, <1>c DEF TypeOK, ReadingInv, IsChComplete
<1>3. Partial' = IF chSize[f] + bite = Size[f] THEN Partial \ {f} ELSE Partial \cup {f}
  BY <1>0, <1>a, <1>c DEF TypeOK, Partial
<1>4. WritingInv'
  <2>1. \A e \in Writer : e # d => writing[e] # f /\ writing'[e] = writing[e]
    BY <1>0, <1>a, <1>b DEF Write, TypeOK, WritingInv, Partial
  <2>2. CASE chSize[f] + bite = Size[f]
    BY <1>0, <1>3, <1>b, <2>1, <2>2 DEF Write, TypeOK, WritingInv, OneDestinationPerTH
  <2>3. CASE chSize[f] + bite # Size[f]
    <3>1. /\ Partial' = Partial \cup {f}
          /\ writing' = [writing EXCEPT ![d] = f]
          /\ currentWriter' = currentWriter \cup {THOf[d]}
      BY <1>3, <2>3 DEF Write
    <3>2. writing'[d] = f
      BY <1>0, <3>1 DEF TypeOK
    <3>3. \A e \in Writer : writing'[e] # None => writing'[e] \in Partial'
      BY <1>0, <2>1, <3>1, <3>2 DEF WritingInv
    <3>4. \A g \in Partial' : \E e \in Writer : writing'[e] = g
      <4>1. \A g \in Partial : g # f => \E e \in Writer : e # d /\ writing[e] = g
        BY <1>0, <1>b DEF WritingInv, Partial, TypeOK
      <4>2. QED
        BY <2>1, <3>1, <3>2, <4>1
    <3>5. \A e, g \in Writer :
             writing'[e] # None /\ writing'[e] = writing'[g] => e = g
      BY <1>0, <2>1, <3>2 DEF WritingInv
    <3>6. OneDestinationPerTH =>
            \A e \in Writer : writing'[e] # None => THOf[e] \in currentWriter'
      BY <1>0, <2>1, <3>1 DEF WritingInv
    <3>7. QED
      BY <3>3, <3>4, <3>5, <3>6 DEF WritingInv, OneDestinationPerTH
  <2>4. QED
    BY <2>2, <2>3
<1>5. LifeInv'
  <2>1. CASE f \in content
    <3>1. UNCHANGED <<arrival, content>>
      BY <2>1 DEF Write
    <3>2. QED
      BY <1>0, <1>a, <1>b, <1>c, <2>1, <3>1 DEF TypeOK, LifeInv, Popped, IsChComplete
  <2>2. CASE f \notin content
    <3>1. arrival' = [arrival EXCEPT ![f] = arrived + 1]
      BY <2>2 DEF Write, PushBack
    <3>2. QED
      BY <1>0, <1>a, <1>b, <1>c, <2>2, <3>1 DEF TypeOK, LifeInv, Popped, IsChComplete
  <2>3. QED
    BY <2>1, <2>2
<1>6. HeadInv'
  BY <1>0, <1>b DEF Write, PushBack, TypeOK, HeadInv
<1>7. LockInv'
  <2>1. /\ IsFiniteSet(currentWriter) /\ Cardinality(currentWriter) <= WriterCount
        /\ THOf[d] \in currentWriter \/ Cardinality(currentWriter) < WriterCount
    BY <1>0 DEF Write, LockInv, CanLockWr
  <2>2. currentWriter' \in {currentWriter \cup {THOf[d]}, currentWriter \ {THOf[d]}}
    BY DEF Write
  <2>3. IsFiniteSet(currentWriter') /\ Cardinality(currentWriter') <= WriterCount
    <3>1. CASE currentWriter' = currentWriter \cup {THOf[d]}
      BY <2>1, <3>1, GrantCount
    <3>2. CASE currentWriter' = currentWriter \ {THOf[d]}
      BY <2>1, <3>2, ReturnCount
    <3>3. QED
      BY <2>2, <3>1, <3>2
  <2>4. QED
    BY <1>0, <1>c, <2>3 DEF LockInv
<1>8. CountInv'
  <2> DEFINE new == {f} \X (chSize[f] + 1 .. chSize[f] + bite)
  <2>1. ResidentBytes' = ResidentBytes \cup new
    <3>1. \A g \in content : g # f => chSize'[g] = chSize[g] /\ offset'[g] = offset[g]
      BY <1>0, <1>c DEF TypeOK
    <3>2. /\ chSize'[f] = chSize[f] + bite /\ offset'[f] = offset[f]
          /\ (offset[f] + 1 .. chSize[f] + bite) =
              (offset[f] + 1 .. chSize[f]) \cup (chSize[f] + 1 .. chSize[f] + bite)
      BY <1>0, <1>a, <1>c DEF TypeOK
    <3>3. f \notin content => (offset[f] + 1 .. chSize[f]) = {}
      BY <1>b
    <3>4. QED
      BY <1>c, <3>1, <3>2, <3>3 DEF ResidentBytes
  <2>2. ResidentBytes \cap new = {}
    BY <1>a DEF ResidentBytes
  <2>3. IsFiniteSet(new) /\ Cardinality(new) = bite
    <3>1. /\ chSize[f] + bite \in Nat /\ chSize[f] <= chSize[f] + bite
          /\ (chSize[f] + bite) - chSize[f] = bite
      BY <1>a
    <3>2. IsFiniteSet(new) /\ Cardinality(new) = (chSize[f] + bite) - chSize[f]
      BY <1>a, <3>1, RangeCount, Zenon
    <3>3. QED
      BY <3>1, <3>2
  <2>4. /\ IsFiniteSet(ResidentBytes')
        /\ Cardinality(ResidentBytes') = Cardinality(ResidentBytes) + bite
    BY <1>0, <2>1, <2>2, <2>3, DisjointCount DEF CountInv
  <2>5. QED
    BY <1>0, <2>4 DEF Write, CountInv, OccupiedExact
<1>9. ReadLockDiscipline'
  BY <1>0, <1>b, <1>c DEF ReadLockDiscipline
<1>10. NoSilentOverflow'
  BY <1>0, <1>a DEF Write, TypeOK, NoSilentOverflow, Finite, SpaceAvailable, Minus
<1>11. QED
  BY <1>1, <1>2, <1>4, <1>5, <1>6, <1>7, <1>8, <1>9, <1>10 DEF ChannelInv

\* A reader makes progress.  A packet that it finishes is whole, so the bytes
\* that Read and Pop subtract are all in the channel.
LEMMA UpdateStep ==
  ASSUME ChannelInv, NEW t \in Reader, NEW f \in Facet,
         NEW new \in offset[f] .. Size[f], NEW dst_done \in BOOLEAN,
         Update(t, f, new, dst_done)
  PROVE  ChannelInv'
<1> USE FacetAssumption, UserAssumption, ShapeAssumption
<1> DEFINE read == IF Mode[t] = "PIPELINE" THEN ReadOffset(f, new) ELSE offset[f]
           done == SourceDone(t, f, new, dst_done)
           rest == IF done THEN Size[f] ELSE read
<1>0. /\ TypeOK /\ ReadingInv /\ WritingInv /\ LifeInv /\ HeadInv
      /\ LockInv /\ CountInv /\ ReadLockDiscipline /\ NoSilentOverflow
  BY DEF ChannelInv
<1>a. /\ f \in content /\ f # None
      /\ Mode[t] # "PIPELINE" => IsChComplete(f)
      /\ \A u \in Reader : u # t => reading[u] # f
      /\ reading[t] \in {f, None}
      /\ Ordered => \A g \in content : arrival[f] <= arrival[g]
  <2>1. CASE reading[t] = f
    BY <1>0, <2>1 DEF ReadingInv, HeadInv
  <2>2. CASE reading[t] = None /\ PickUpFacet(t, f)
    BY <1>0, <2>2 DEF ReadingInv, PickUpFacet, Condition, TypeOK
  <2>3. QED
    BY <2>1, <2>2 DEF Update, CurrentFacet
<1>b. /\ Size[f] \in Nat \ {0} /\ chSize[f] \in Nat /\ offset[f] \in Nat
      /\ new \in Nat /\ offset[f] <= new
      /\ offset[f] <= chSize[f] /\ chSize[f] <= Size[f]
  BY <1>0 DEF TypeOK
<1>c. /\ read \in Nat /\ offset[f] <= read /\ read <= chSize[f]
  BY <1>b DEF ReadOffset
<1>d. done => IsChComplete(f)
  BY <1>a, <1>b DEF SourceDone, ReadOffset, OpMode, IsChComplete
<1>e. /\ offset' = [offset EXCEPT ![f] = read]
      /\ picked' = picked \cup {f}
      /\ content' = IF done THEN content \ {f} ELSE content
      /\ reading' = [reading EXCEPT ![t] = IF done THEN None ELSE f]
      /\ currentReader' = IF done THEN currentReader \ {t} ELSE currentReader \cup {t}
      /\ CanLockRd(t)
      /\ UNCHANGED <<elaborating, arrival, arrived, currentWriter, chSize, writing, overflow>>
  BY DEF Update
<1>g. /\ rest \in Nat /\ offset[f] <= rest /\ rest <= chSize[f] /\ read <= rest
      /\ ~done => rest = read
      /\ done => rest = chSize[f]
  BY <1>b, <1>c, <1>d DEF IsChComplete
<1>h. occupied' = IF done
                  THEN Minus(Minus(occupied, read - offset[f]), Size[f] - read)
                  ELSE Minus(occupied, read - offset[f])
  BY DEF Update
<1> HIDE DEF read, done, rest
<1>1. CountInv' /\ occupied' \in Nat /\ occupied' <= occupied
  <2> DEFINE old == {f} \X (offset[f] + 1 .. rest)
  <2>1. ResidentBytes = ResidentBytes' \cup old
    <3>1. \A g \in content : g # f => chSize'[g] = chSize[g] /\ offset'[g] = offset[g]
      BY <1>0, <1>e DEF TypeOK
    <3>2. offset'[f] = read /\ chSize'[f] = chSize[f]
      BY <1>0, <1>e DEF TypeOK
    <3>3. (offset[f] + 1 .. chSize[f]) = (offset[f] + 1 .. rest) \cup (rest + 1 .. chSize[f])
      BY <1>b, <1>g
    <3>4. CASE done
      BY <1>a, <1>e, <1>g, <3>1, <3>4 DEF ResidentBytes
    <3>5. CASE ~done
      BY <1>a, <1>e, <1>g, <3>1, <3>2, <3>3, <3>5 DEF ResidentBytes
    <3>6. QED
      BY <3>4, <3>5
  <2>2. ResidentBytes' \cap old = {}
    <3>1. offset'[f] = read
      BY <1>0, <1>e DEF TypeOK
    <3>2. CASE done
      BY <1>e, <3>2 DEF ResidentBytes
    <3>3. CASE ~done
      BY <1>b, <1>e, <1>g, <3>1, <3>3 DEF ResidentBytes
    <3>4. QED
      BY <3>2, <3>3
  <2>3. IsFiniteSet(old) /\ Cardinality(old) = rest - offset[f]
    BY <1>b, <1>g, RangeCount
  <2>4. IsFiniteSet(ResidentBytes')
    BY <1>0, <2>1, FS_Subset DEF CountInv
  <2>5. Cardinality(ResidentBytes) = Cardinality(ResidentBytes') + (rest - offset[f])
    BY <2>1, <2>2, <2>3, <2>4, DisjointCount
  <2>6. Cardinality(ResidentBytes') \in Nat
    BY <2>4, FS_CardinalityType
  <2>7. occupied = Cardinality(ResidentBytes') + (rest - offset[f])
    BY <1>0, <2>5 DEF CountInv, OccupiedExact
  <2>8. occupied' = Cardinality(ResidentBytes')
    <3>1. CASE done
      <4>1. rest = Size[f]
        BY <3>1 DEF rest
      <4>2. QED
        BY <1>b, <1>c, <1>g, <1>h, <2>6, <2>7, <3>1, <4>1 DEF Minus
    <3>2. CASE ~done
      BY <1>b, <1>c, <1>g, <1>h, <2>6, <2>7, <3>2 DEF Minus
    <3>3. QED
      BY <3>1, <3>2
  <2>9. occupied' \in Nat /\ occupied' <= occupied
    BY <1>b, <1>g, <2>6, <2>7, <2>8
  <2>10. QED
    BY <2>4, <2>8, <2>9 DEF CountInv, OccupiedExact
<1>2. TypeOK'
  BY <1>0, <1>1, <1>b, <1>c, <1>e DEF TypeOK
<1>3. ReadingInv'
  BY <1>0, <1>a, <1>e DEF TypeOK, ReadingInv, IsChComplete
<1>4. Partial' = Partial
  BY <1>0, <1>d, <1>e DEF TypeOK, Partial, IsChComplete
<1>5. WritingInv'
  BY <1>0, <1>4, <1>e DEF WritingInv
<1>6. LifeInv'
  BY <1>0, <1>a, <1>d, <1>e DEF TypeOK, LifeInv, Popped, IsChComplete
<1>7. HeadInv'
  BY <1>0, <1>a, <1>e DEF HeadInv
<1>8. LockInv' /\ Cardinality(currentReader') <= ReaderCount
  <2>1. /\ IsFiniteSet(currentReader) /\ Cardinality(currentReader) <= ReaderCount
        /\ t \in currentReader \/ Cardinality(currentReader) < ReaderCount
    BY <1>0, <1>e DEF LockInv, ReadLockDiscipline, CanLockRd
  <2>2. IsFiniteSet(currentReader') /\ Cardinality(currentReader') <= ReaderCount
    <3>1. CASE done
      BY <1>e, <2>1, <3>1, ReturnCount
    <3>2. CASE ~done
      BY <1>e, <2>1, <3>2, GrantCount
    <3>3. QED
      BY <3>1, <3>2
  <2>3. QED
    BY <1>0, <1>e, <2>2 DEF LockInv
<1>9. ReadLockDiscipline'
  <2>1. \A u \in currentReader' : reading'[u] # None
    BY <1>0, <1>a, <1>e DEF TypeOK, ReadLockDiscipline
  <2>2. \A g \in content' :
          offset'[g] > 0 => \E u \in currentReader' : reading'[u] = g
    <3>1. \A g \in content : g # f /\ offset[g] > 0 =>
             \E u \in currentReader : u # t /\ reading[u] = g
      BY <1>0, <1>a DEF ReadLockDiscipline
    <3>2. QED
      BY <1>0, <1>e, <3>1 DEF TypeOK
  <2>3. QED
    BY <1>8, <2>1, <2>2 DEF ReadLockDiscipline
<1>10. NoSilentOverflow'
  BY <1>0, <1>1, <1>e DEF NoSilentOverflow, TypeOK
<1>11. QED
  BY <1>1, <1>2, <1>3, <1>5, <1>6, <1>7, <1>8, <1>9, <1>10 DEF ChannelInv

-----------------------------------------------------------------------------
\* The theorems.

\* Every handler, in every order, keeps ChannelInv.
LEMMA StepInv == ChannelInv /\ [Next]_vars => ChannelInv'
<1> SUFFICES ASSUME ChannelInv, [Next]_vars PROVE ChannelInv'
  OBVIOUS
<1>1. CASE \E f \in Facet : BackDoorWrite(f)
  BY <1>1, BackDoorStep
<1>2. CASE Start \/ UNCHANGED vars
  BY <1>2, StartStep
<1>3. CASE \E t \in Reader : ReaderNext(t)
  <2>1. PICK t \in Reader, f \in Facet :
           \/ Claim(t, f)
           \/ \E new \in offset[f] .. Size[f], dst_done \in BOOLEAN :
                Update(t, f, new, dst_done)
    BY <1>3 DEF ReaderNext
  <2>2. CASE Claim(t, f)
    BY <2>2, ClaimStep
  <2>3. CASE \E new \in offset[f] .. Size[f], dst_done \in BOOLEAN :
               Update(t, f, new, dst_done)
    BY <2>3, UpdateStep
  <2>4. QED
    BY <2>1, <2>2, <2>3
<1>4. CASE \E d \in Writer : WriterNext(d)
  <2>1. PICK d \in Writer, f \in Facet : \E bite \in 1 .. Size[f] :
           Halt(d, f, bite) \/ Write(d, f, bite)
    BY <1>4 DEF WriterNext
  <2>2. QED
    BY <2>1, HaltStep, WriteStep
<1>5. QED
  BY <1>1, <1>2, <1>3, <1>4 DEF Next

\* The inductive invariant holds throughout every run of the simulator.
THEOREM ChannelSafe == Spec => []ChannelInv
BY InitInv, StepInv, PTL DEF Spec

\* The variables keep their types; nothing is read before it is transferred,
\* and no packet is transferred beyond its size.
THEOREM TypeCorrect == Spec => []TypeOK
<1>1. ChannelInv => TypeOK
  BY DEF ChannelInv
<1>2. QED
  BY <1>1, ChannelSafe, PTL

\* _Occupied is the number of bytes in the channel, so the unsigned
\* subtractions of Read and Pop never wrap.
THEOREM OccupancyExact == Spec => []OccupiedExact
<1>1. ChannelInv => OccupiedExact
  BY DEF ChannelInv, CountInv
<1>2. QED
  BY <1>1, ChannelSafe, PTL

\* Only the back door, and never without a warning, overfills a channel.
THEOREM WritersRespectCapacity == Spec => []NoSilentOverflow
<1>1. ChannelInv => NoSilentOverflow
  BY DEF ChannelInv
<1>2. QED
  BY <1>1, ChannelSafe, PTL

\* LockRd and UnlockRd keep the number of readers within _ReaderCount; an idle
\* handler holds nothing and a partly read packet is locked by its reader.
THEOREM ReadersAreLocked == Spec => []ReadLockDiscipline
<1>1. ChannelInv => ReadLockDiscipline
  BY DEF ChannelInv
<1>2. QED
  BY <1>1, ChannelSafe, PTL

\* An ordered channel serves one packet at a time for every _ReaderCount.
THEOREM OneAtATime == Spec => []OrderedSerialises
<1>1. ASSUME ChannelInv PROVE OrderedSerialises
  <2>1. SUFFICES ASSUME Ordered, NEW f \in content \cap picked,
                        NEW g \in content \cap picked
                 PROVE  f = g
    BY DEF OrderedSerialises
  <2>2. arrival[f] <= arrival[g] /\ arrival[g] <= arrival[f]
    BY <1>1, <2>1 DEF ChannelInv, HeadInv
  <2>3. /\ f \in Facet /\ g \in Facet
        /\ arrival[f] \in Nat /\ arrival[g] \in Nat
    BY <1>1 DEF ChannelInv, TypeOK
  <2>4. arrival[f] # 0 /\ arrival[f] = arrival[g]
    BY <1>1, <2>2, <2>3 DEF ChannelInv, LifeInv
  <2>5. QED
    BY <1>1, <2>3, <2>4 DEF ChannelInv, LifeInv
<1>2. QED
  BY <1>1, ChannelSafe, PTL

\* The packets in the making are in the hands of different lock holders, so at
\* most _WriterCount packets are interleaved in the channel.
THEOREM WritersDoNotInterleave == Spec => []PacketsNotInterleaved
<1>1. ASSUME ChannelInv PROVE PacketsNotInterleaved
  <2>1. SUFFICES ASSUME OneDestinationPerTH
                 PROVE  Cardinality(Partial) <= WriterCount
    BY DEF PacketsNotInterleaved
  <2> DEFINE writerOf == [f \in Partial |-> CHOOSE d \in Writer : writing[d] = f]
             holder == [f \in Partial |-> THOf[writerOf[f]]]
  <2>2. \A f \in Partial : writerOf[f] \in Writer /\ writing[writerOf[f]] = f
    BY <1>1 DEF ChannelInv, WritingInv
  <2>3. \A f \in Partial : f # None
    BY <1>1, FacetAssumption DEF ChannelInv, TypeOK, Partial
  <2> HIDE DEF writerOf
  <2>4. \A f \in Partial : holder[f] \in currentWriter
    BY <1>1, <2>1, <2>2, <2>3 DEF ChannelInv, WritingInv
  <2>5. \A f, g \in Partial : holder[f] = holder[g] => f = g
    BY <2>1, <2>2 DEF OneDestinationPerTH
  <2>6. holder \in Injection(Partial, currentWriter)
    <3>1. holder \in [Partial -> currentWriter]
      BY <2>4
    <3>2. QED
      BY <3>1, <2>5 DEF Injection, IsInjective
  <2> HIDE DEF holder
  <2>7. /\ IsFiniteSet(currentWriter)
        /\ Cardinality(currentWriter) <= WriterCount
    BY <1>1 DEF ChannelInv, LockInv
  <2>8. /\ IsFiniteSet(Partial)
        /\ Cardinality(Partial) <= Cardinality(currentWriter)
    BY <2>6, <2>7, FS_Injection
  <2>9. QED
    BY <2>7, <2>8, FS_CardinalityType, ShapeAssumption
<1>2. QED
  BY <1>1, ChannelSafe, PTL

\* A packet that has left the channel was whole and claimed, and is nobody's.
THEOREM PacketsLeaveWhole == Spec => []LeavesWhole
<1>1. ASSUME ChannelInv PROVE LeavesWhole
  <2>1. SUFFICES ASSUME NEW f \in Facet, Popped(f)
                 PROVE  /\ IsChComplete(f) /\ f \in picked
                        /\ \A t \in Reader : reading[t] # f
                        /\ \A d \in Writer : writing[d] # f
    BY DEF LeavesWhole
  <2>2. f \notin content /\ f # None
    BY <2>1, FacetAssumption DEF Popped
  <2>3. IsChComplete(f) /\ f \in picked
    BY <1>1, <2>1 DEF ChannelInv, LifeInv
  <2>4. \A t \in Reader : reading[t] # f
    BY <1>1, <2>2 DEF ChannelInv, ReadingInv
  <2>5. \A d \in Writer : writing[d] # f
    BY <1>1, <2>2 DEF ChannelInv, WritingInv, Partial
  <2>6. QED
    BY <2>3, <2>4, <2>5
<1>2. QED
  BY <1>1, ChannelSafe, PTL

\* The number a packet gets when it arrives is its own for good: only a packet
\* that never arrived is pushed back.
THEOREM PacketsArriveOnce == Spec => ArrivesOnce
<1> DEFINE Keeps == \A f \in Facet : arrival[f] # 0 => arrival'[f] = arrival[f]
<1>1. ASSUME ChannelInv, [Next]_vars PROVE Keeps \/ UNCHANGED vars
  <2>0. /\ arrival \in [Facet -> Nat] /\ content \subseteq Facet
        /\ \A f \in Facet : arrival[f] = 0 => f \notin content
        /\ \A d \in Writer : writing[d] # None => writing[d] \in content
    BY <1>1 DEF ChannelInv, TypeOK, LifeInv, WritingInv, Partial
  <2>1. CASE \E f \in Facet : BackDoorWrite(f)
    BY <2>0, <2>1 DEF BackDoorWrite, PushBack
  <2>2. CASE \E d \in Writer : WriterNext(d)
    <3>1. PICK d \in Writer, f \in Facet : \E bite \in 1 .. Size[f] :
             Halt(d, f, bite) \/ Write(d, f, bite)
      BY <2>2 DEF WriterNext
    <3>2. f # None
      BY FacetAssumption
    <3>3. CASE \E bite \in 1 .. Size[f] : Halt(d, f, bite)
      BY <3>3 DEF Halt
    <3>4. CASE \E bite \in 1 .. Size[f] : Write(d, f, bite)
      BY <2>0, <3>2, <3>4 DEF Write, TopBite, PushBack
    <3>5. QED
      BY <3>1, <3>3, <3>4
  <2>3. CASE (\E t \in Reader : ReaderNext(t)) \/ Start
    BY <2>3 DEF ReaderNext, Claim, Update, Start
  <2>4. QED
    BY <1>1, <2>1, <2>2, <2>3 DEF Next
<1>2. ChannelInv /\ [Next]_vars => [Keeps]_vars
  BY <1>1
<1>3. Spec => [][Keeps]_vars
  BY <1>2, ChannelSafe, PTL DEF Spec
<1>4. QED
  BY <1>3 DEF ArrivesOnce

-----------------------------------------------------------------------------
\* The channel implements the packet queue.

\* What Claim and Update pick up may be served: it waits, and in an ordered
\* channel all that came before it has left.
LEMMA PickedUpIsNext ==
  ASSUME ChannelInv, NEW t \in Reader, NEW f \in Facet, PickUpFacet(t, f)
  PROVE  /\ StageOf(f) = "queued"
         /\ Ordered => \A g \in Facet :
              arrival[g] # 0 /\ arrival[g] < arrival[f] => StageOf(g) = "served"
<1>1. f \in content /\ f \notin picked /\ arrival[f] # 0
  BY DEF PickUpFacet, Condition, ChannelInv, LifeInv
<1>2. ASSUME Ordered, NEW g \in Facet, arrival[g] # 0, arrival[g] < arrival[f]
      PROVE  g \notin content
  BY <1>2 DEF PickUpFacet
<1>3. QED
  BY <1>1, <1>2 DEF StageOf

\* Every handler is one step of the queue, or none.
LEMMA QueueStep ==
  ASSUME ChannelInv, [Next]_vars
  PROVE  [Queue!Next]_(Queue!vars)
<1> DEFINE stage == [f \in Facet |-> StageOf(f)]
<1> USE FacetAssumption
<1>0. /\ TypeOK /\ LifeInv /\ ReadingInv /\ WritingInv
  BY DEF ChannelInv
<1>1. ASSUME NEW f \in Facet, arrival[f] = 0, PushBack(f), picked' = picked
      PROVE  Queue!Put(f)
  <2>1. /\ f \notin content /\ f \notin picked
        /\ arrival' = [arrival EXCEPT ![f] = arrived + 1]
        /\ content' = content \cup {f}
    BY <1>0, <1>1 DEF LifeInv, PushBack
  <2>2. arrival'[f] = arrived + 1 /\ \A g \in Facet : arrival[g] < arrival'[f]
    BY <1>0, <2>1 DEF TypeOK
  <2>3. StageOf(f) = "absent" /\ StageOf(f)' = "queued"
    BY <1>0, <1>1, <2>1, <2>2 DEF StageOf, TypeOK
  <2>4. \A g \in Facet : g # f => StageOf(g)' = StageOf(g)
    BY <1>0, <1>1, <2>1 DEF StageOf, TypeOK
  <2>5. stage' = [stage EXCEPT ![f] = "queued"]
    BY <2>3, <2>4
  <2>6. arrival' = [arrival EXCEPT ![f] = arrival'[f]]
    BY <1>0, <2>1, <2>2 DEF TypeOK
  <2>7. QED
    BY <2>2, <2>3, <2>5, <2>6 DEF Queue!Put
<1>2. ASSUME UNCHANGED <<arrival, content, picked>>
      PROVE  UNCHANGED Queue!vars
  BY <1>2 DEF Queue!vars, StageOf
<1>3. ASSUME NEW t \in Reader, NEW f \in Facet, CurrentFacet(t, f),
             picked' = picked \cup {f}, content' \in {content, content \ {f}},
             UNCHANGED arrival
      PROVE  [Queue!Next]_(Queue!vars)
  <2>1. f \in content /\ arrival[f] # 0
    BY <1>0, <1>3 DEF CurrentFacet, PickUpFacet, LifeInv, ReadingInv
  <2>2. \A g \in Facet : g # f => StageOf(g)' = StageOf(g)
    BY <1>3 DEF StageOf
  <2>3. StageOf(f)' = IF content' = content THEN "serving" ELSE "served"
    BY <1>3, <2>1 DEF StageOf
  <2>4. stage' = [stage EXCEPT ![f] = StageOf(f)']
    BY <2>2
  <2>5. CASE reading[t] = f
    <3>1. StageOf(f) = "serving"
      BY <1>0, <2>1, <2>5 DEF StageOf, ReadingInv
    <3>2. CASE content' = content
      <4>1. stage' = stage
        BY <2>3, <2>4, <3>1, <3>2
      <4>2. QED
        BY <1>3, <4>1 DEF Queue!vars
    <3>3. CASE content' # content
      <4>1. Queue!Finish(f)
        BY <1>3, <2>3, <2>4, <3>1, <3>3 DEF Queue!Finish
      <4>2. QED
        BY <4>1 DEF Queue!Next
    <3>4. QED
      BY <3>2, <3>3
  <2>6. CASE reading[t] = None /\ PickUpFacet(t, f)
    <3>1. /\ StageOf(f) = "queued"
          /\ Ordered => \A g \in Facet :
               arrival[g] # 0 /\ arrival[g] < arrival[f] => StageOf(g) = "served"
      BY <2>6, PickedUpIsNext
    <3>2. StageOf(f)' \in {"serving", "served"}
      BY <2>3
    <3>3. Queue!Serve(f)
      BY <1>3, <2>4, <3>1, <3>2 DEF Queue!Serve, Queue!Before
    <3>4. QED
      BY <3>3 DEF Queue!Next
  <2>7. QED
    BY <1>3, <2>5, <2>6 DEF CurrentFacet
<1>4. CASE \E f \in Facet : BackDoorWrite(f)
  BY <1>1, <1>4 DEF BackDoorWrite, Queue!Next
<1>5. CASE Start \/ UNCHANGED vars
  BY <1>2, <1>5 DEF Start, vars
<1>6. CASE \E t \in Reader : ReaderNext(t)
  <2>1. PICK t \in Reader, f \in Facet :
           \/ Claim(t, f)
           \/ \E new \in offset[f] .. Size[f], dst_done \in BOOLEAN :
                Update(t, f, new, dst_done)
    BY <1>6 DEF ReaderNext
  <2>2. CASE Claim(t, f)
    BY <1>3, <2>2 DEF Claim, CurrentFacet
  <2>3. CASE \E new \in offset[f] .. Size[f], dst_done \in BOOLEAN :
               Update(t, f, new, dst_done)
    <3>1. /\ CurrentFacet(t, f) /\ picked' = picked \cup {f}
          /\ content' \in {content, content \ {f}} /\ UNCHANGED arrival
      BY <2>3 DEF Update
    <3>2. QED
      BY <1>3, <3>1
  <2>4. QED
    BY <2>1, <2>2, <2>3
<1>7. CASE \E d \in Writer : WriterNext(d)
  <2>0. PICK d \in Writer, f \in Facet : \E bite \in 1 .. Size[f] :
           Halt(d, f, bite) \/ Write(d, f, bite)
    BY <1>7 DEF WriterNext
  <2>1. PICK bite \in 1 .. Size[f] : Halt(d, f, bite) \/ Write(d, f, bite)
    BY <2>0
  <2>2. CASE Halt(d, f, bite)
    BY <1>2, <2>2 DEF Halt
  <2>3. CASE Write(d, f, bite) /\ f \in content
    BY <1>2, <2>3 DEF Write
  <2>4. CASE Write(d, f, bite) /\ f \notin content
    <3>1. arrival[f] = 0
      BY <1>0, <2>4 DEF Write, TopBite, WritingInv, Partial
    <3>2. QED
      BY <1>1, <2>4, <3>1 DEF Write, Queue!Next
  <2>5. QED
    BY <2>1, <2>2, <2>3, <2>4
<1>8. QED
  BY <1>4, <1>5, <1>6, <1>7 DEF Next

\* The channel, with its locks, bites and modes, is a packet queue: every packet
\* is put in once, served to one handler and leaves once, in order if ordered.
THEOREM ChannelIsAQueue == Spec => ImplementsQueue
<1>1. Init => Queue!Init
  BY DEF Init, Queue!Init, StageOf
<1>2. Spec => [][Queue!Next]_(Queue!vars)
  BY ChannelSafe, QueueStep, PTL DEF Spec
<1>3. QED
  BY <1>1, <1>2 DEF Spec, ImplementsQueue, Queue!Spec
=============================================================================
