------------------------------ MODULE Assemble ------------------------------
(***************************************************************************)
(* CAssembleChannel (src/CChannel.cc): writers bring the pieces of packets *)
(* that split transforms have cut, in any order; the channel keeps them in *)
(* _AssemblePool and, in the update phase of the simulator, makes them     *)
(* whole again and appends the whole packets to _Content, where readers    *)
(* find them as in any channel.                                            *)
(*                                                                         *)
(* Packets are the records of Transform.tla.  A merged packet takes the id *)
(* of the packet whose pieces it merges.  _AssemblePool is the set of all  *)
(* facets in it: the key of a facet is the source of its top SplitStatus.  *)
(*                                                                         *)
(* Assemble() erases an entry of the map that it iterates over and goes on *)
(* from the erased iterator, which is undefined: it may visit the other    *)
(* entries or miss some, and the program may die.                          *)
(***************************************************************************)
EXTENDS Transform, FiniteSetsExt

CONSTANTS
  Given,      \* the packets, before they are cut
  Cuts,       \* Cuts[p]: the split transforms that have cut p, in order
  Writer,     \* the destinations that write to the channel
  Cargo,      \* Cargo[w]: the pieces that w writes, in order
  BiteSize,   \* BiteSize[w]: the largest bite of w
  Capacity    \* _Capacitance; 0 makes the channel infinite

\* p itself if it is not cut.
CutUp(p) == FoldLeft(LAMBDA list, x : Split(x, list), <<p>>, Cuts[p])

Fragment(p) == ToSet(CutUp(p))

AllFragments == UNION {Fragment(p) : p \in Given}

\* The address of f when its SplitStack has n entries: f itself, and what it is a
\* piece of.
Address(f, n) == SubSeq(f.id, 1, Len(f.id) - Len(f.split) + n)

\* The packets that may be seen in the channel: pieces and what they were cut from.
Id == UNION {{Address(f, n) : n \in 0 .. Len(f.split)} : f \in AllFragments}

Below(id) == {f \in AllFragments : IsPrefix(id, f.id)}

Children(id) == {SubSeq(f.id, 1, Len(id) + 1) : f \in Below(id)}

CutBy(p, method) == \A i \in DOMAIN Cuts[p] : Cuts[p][i].method = method

\* The sum of the values of m: the pairs of an argument and a number up to its value.
Total(m) == Cardinality(UNION {{x} \X (1 .. m[x]) : x \in DOMAIN m})

SplitStatus == [source : Seq(Nat), total : Nat]

PacketRecord == [name : {p.name : p \in Given}, size : Nat, length : Nat,
                 id : Seq(Nat), split : Seq(SplitStatus)]

\* Every piece is brought once, and none is empty.
ASSUME AssembleAssumption ==
  /\ \A p \in Given : p.split = <<>> /\ Cuts[p] \in Seq([kind : {"Split"},
                        method : {"onSIZE", "onLENGTH"}, chunk : Nat \ {0}])
  /\ \A p, q \in Given : p # q => ~IsPrefix(p.id, q.id)
  /\ \A w \in Writer : Cargo[w] \in Seq(AllFragments) /\ BiteSize[w] \in Nat \ {0}
  /\ \A v, w \in Writer : \A i \in DOMAIN Cargo[v], j \in DOMAIN Cargo[w] :
       Cargo[v][i] = Cargo[w][j] => v = w /\ i = j
  /\ AllFragments \subseteq UNION {ToSet(Cargo[w]) : w \in Writer}
  /\ Capacity \in Nat

\* What Split makes of a packet, level by level: the pieces lie below it, every
\* SplitStatus counts them, and they add up to it (in Transform the invariant
\* CountsMatch and the property NothingLost).
ASSUME CutAssumption ==
  /\ IsFiniteSet(AllFragments)
  /\ AllFragments \subseteq PacketRecord
  /\ \A f \in AllFragments :
       /\ f.size # 0
       /\ Len(f.split) <= Len(f.id)
       /\ Below(f.id) = {f}
       /\ \A n \in DOMAIN f.split :
            LET status == f.split[n] IN
            /\ status.source = Address(f, n - 1)
            /\ status.total = Cardinality(Children(status.source))
            /\ \A g \in Below(status.source) :
                 Len(g.split) >= n /\ SubSeq(g.split, 1, n) = SubSeq(f.split, 1, n)
  /\ \A p \in Given :
       /\ \A f \in Fragment(p) : Address(f, 0) = p.id /\ Len(f.split) = Len(Cuts[p])
       /\ CutBy(p, "onSIZE") => p.size = Total([f \in Fragment(p) |-> f.size])
       /\ CutBy(p, "onLENGTH") => p.length = Total([f \in Fragment(p) |-> f.length])

VARIABLES
  sent,        \* sent[w]: the number of pieces that w has written
  chSize,      \* CPacket::ChTransferredSize
  offset,      \* CPacket::Offset
  pool,        \* _AssemblePool
  content,     \* _Content
  arrived,     \* history: all that was ever appended to it
  occupied,    \* _Occupied
  requested,   \* request_update has been called since the last update
  updating,    \* in the update phase, in Assemble()
  toAssemble,  \* to_assemble
  erased,      \* this call of Assemble() has erased an entry
  missed,      \* the undefined iteration has left out a complete packet
  dead         \* ... has killed the program

vars == <<sent, chSize, offset, pool, content, arrived, occupied, requested, updating,
          toAssemble, erased, missed, dead>>

queueVars == <<content, arrived, offset, occupied>>
poolVars == <<pool, toAssemble, erased, missed, dead>>

Running == ~updating /\ ~dead

-----------------------------------------------------------------------------
\* The evaluation phase: writes, reads and pops.

SpaceAvailable(bite) == Capacity = 0 \/ Capacity - occupied >= bite

Init ==
  /\ sent = [w \in Writer |-> 0]
  /\ chSize = [id \in Id |-> 0]
  /\ offset = [id \in Id |-> 0]
  /\ pool = {}
  /\ content = <<>>
  /\ arrived = <<>>
  /\ occupied = 0
  /\ requested = FALSE
  /\ updating = FALSE
  /\ toAssemble = {}
  /\ erased = FALSE
  /\ missed = FALSE
  /\ dead = FALSE

PushBackAgain(f) ==
  /\ content' = Append(content, f)
  /\ arrived' = Append(arrived, f.id)

\* CSimpleChannel::Write appends a facet that is not in _Content.
PushBack(f) ==
  IF f \in ToSet(content) THEN UNCHANGED <<content, arrived>>
  ELSE /\ content' = Append(content, f)
       /\ arrived' = Append(arrived, f.id)

\* The next bite of writer w: a piece goes to the pool, a packet that was not cut
\* to the end of the content.
Write(w) ==
  LET f == Cargo[w][sent[w] + 1]
      bite == Min({BiteSize[w], f.size - chSize[f.id]})
  IN /\ Running
     /\ sent[w] < Len(Cargo[w])
     /\ SpaceAvailable(bite)
     /\ chSize' = [chSize EXCEPT ![f.id] = @ + bite]
     /\ occupied' = occupied + bite
     /\ IF f.split # <<>>
        THEN pool' = pool \cup {f} /\ UNCHANGED <<content, arrived>>
        ELSE PushBack(f) /\ UNCHANGED pool
     /\ sent' = IF chSize[f.id] + bite = f.size THEN [sent EXCEPT ![w] = @ + 1] ELSE sent
     /\ requested' = TRUE
     /\ UNCHANGED <<offset, updating, toAssemble, erased, missed, dead>>

\* A reader of the ordered channel takes n bytes of the packet at the head, all of
\* them if it is not pipelined; a packet that is read is popped.
Take(n) ==
  LET f == Head(content)
  IN /\ Running
     /\ content # <<>>
     /\ n \in 1 .. chSize[f.id] - offset[f.id]
     /\ offset' = [offset EXCEPT ![f.id] = @ + n]
     /\ occupied' = occupied - n
     /\ content' = IF offset[f.id] + n = f.size THEN Tail(content) ELSE content
     /\ requested' = TRUE
     /\ UNCHANGED <<sent, chSize, arrived, updating, poolVars>>

-----------------------------------------------------------------------------
\* The update phase: Assemble().

Top(f) == Last(f.split)

FacetSet(source) == {f \in pool : Top(f).source = source}

IsChComplete(f) == chSize[f.id] = f.size

MergeableInPart(source) ==
  /\ FacetSet(source) # {}
  /\ \A f \in FacetSet(source) : IsChComplete(f)

\* MergeFacets merges an entry that has all pieces, all of them complete.
Mergeable(source) ==
  /\ FacetSet(source) # {}
  /\ \A f \in FacetSet(source) :
       Top(f).total = Cardinality(FacetSet(source)) /\ IsChComplete(f)

\* A copy of one of the pieces, with the sums, and the stack that is left.
MergedAs(source, size, length, stack) ==
  LET first == CHOOSE f \in FacetSet(source) : TRUE
  IN [CopyOf(first, source) EXCEPT !.size = size, !.length = length, !.split = stack]

Sizes(source) == Total([f \in FacetSet(source) |-> f.size])
Lengths(source) == Total([f \in FacetSet(source) |-> f.length])
Stack(source) == (CHOOSE f \in FacetSet(source) : TRUE).split

MergedSizeOfOne(source) ==
  MergedAs(source, (CHOOSE f \in FacetSet(source) : TRUE).size, Lengths(source), Front(Stack(source)))

MergedKeepsStack(source) ==
  MergedAs(source, Sizes(source), Lengths(source), Stack(source))

\* The packet that MergeFacets makes.
Merged(source) ==
  MergedAs(source, Sizes(source), Lengths(source), Front(Stack(source)))

BeginUpdate ==
  /\ Running
  /\ requested
  /\ requested' = FALSE
  /\ updating' = TRUE
  /\ erased' = FALSE
  /\ UNCHANGED <<sent, chSize, queueVars, pool, toAssemble, missed, dead>>

\* The loop comes to an entry that can be merged; a packet that was a piece itself
\* is put back to the pool after the loop.
Merge(source) ==
  LET m == Merged(source)
  IN /\ updating
     /\ Mergeable(source)
     /\ pool' = pool \ FacetSet(source)
     /\ chSize' = [chSize EXCEPT ![source] = m.size]
     /\ IF m.split # <<>>
        THEN toAssemble' = toAssemble \cup {m} /\ UNCHANGED <<content, arrived>>
        ELSE PushBack(m) /\ UNCHANGED toAssemble
     /\ erased' = TRUE
     /\ UNCHANGED <<sent, offset, occupied, requested, updating, missed, dead>>

\* The loop ends, having visited all entries or gone astray after an erase; then
\* Assemble() calls itself or returns.
EndLoop ==
  LET left == \E source \in Id : Mergeable(source)
  IN /\ updating
     /\ left => erased
     /\ missed' = (missed \/ left)
     /\ pool' = pool \cup toAssemble
     /\ toAssemble' = {}
     /\ erased' = FALSE
     /\ updating' = (toAssemble # {})
     /\ UNCHANGED <<sent, chSize, queueVars, requested, dead>>

\* It may die as well.
Die ==
  /\ updating
  /\ erased
  /\ dead' = TRUE
  /\ updating' = FALSE
  /\ UNCHANGED <<sent, chSize, queueVars, requested, pool, toAssemble, erased, missed>>

Reading == \E id \in Id : \E n \in 1 .. chSize[id] : Take(n)

Update == BeginUpdate \/ (\E source \in Id : Merge(source)) \/ EndLoop

Next ==
  \/ \E w \in Writer : Write(w)
  \/ Reading
  \/ Update
  \/ Die

Spec == Init /\ [][Next]_vars

\* The scheduler calls every handler and every destination in each period, and the
\* simulator ends the period with the update phase.
FairSpec ==
  /\ Spec
  /\ \A w \in Writer : WF_vars(Write(w))
  /\ WF_vars(Reading)
  /\ WF_vars(Update)

-----------------------------------------------------------------------------
\* What must hold.

BytesHeld ==
  Total([f \in pool \cup toAssemble |-> chSize[f.id]])
  + Total([f \in ToSet(content) |-> chSize[f.id] - offset[f.id]])

\* Merging moves bytes from the pool to the content and nothing else: _Occupied
\* stays the number of bytes that were written and are not yet read.
OccupiedExact == occupied = BytesHeld

HasArrived(p) == p.id \in ToSet(arrived)

Written(p) == \A f \in Fragment(p) : IsChComplete(f)

\* A packet is whole when it appears: all of its pieces are complete and gone from
\* the pool, and what they were cut by, size or length, is what it was before.
RestoredWhole ==
  \A p \in Given : HasArrived(p) /\ Cuts[p] # <<>> =>
    /\ Written(p)
    /\ \A f \in pool \cup toAssemble : ~IsPrefix(p.id, f.id)
    /\ \A f \in ToSet(content) : f.id = p.id =>
         /\ CutBy(p, "onSIZE") => f.size = p.size
         /\ CutBy(p, "onLENGTH") => f.length = p.length

Place(p) == CHOOSE i \in DOMAIN arrived : arrived[i] = p.id

StageOf(p) ==
  CASE ~HasArrived(p) -> "absent"
    [] \E f \in ToSet(content) : f.id = p.id ->
         IF offset[p.id] = 0 THEN "queued" ELSE "serving"
    [] OTHER -> "served"

Queue == INSTANCE PacketQueue WITH
  Facet <- Given,
  Ordered <- TRUE,
  stage <- [p \in Given |-> StageOf(p)],
  number <- [p \in Given |-> IF HasArrived(p) THEN Place(p) ELSE 0]

\* To its readers an assembling channel is an ordered channel of whole packets:
\* each arrives once and is read in the order of arrival.
ImplementsQueue == Queue!Spec

AllTaken == content = <<>> /\ \A p \in Given : HasArrived(p)

\* If the channel has room for what its writers may leave unfinished in it, they
\* never wait for each other: every packet comes out.
EverythingTaken == <>(AllTaken \/ missed \/ dead)
=============================================================================
