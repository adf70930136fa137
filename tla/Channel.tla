------------------------------- MODULE Channel -------------------------------
(***************************************************************************)
(* One CSimpleChannel (src/CChannel.cc) and the calls that its users make  *)
(* on it: BackDoorWrite while the design is elaborated, then the handlers  *)
(* that the scheduler runs, CTransHandler::Execute on the reading side     *)
(* (through CSource) and CDestination::UpdatePipeline on the writing side. *)
(* The simulator is one SystemC thread, so a handler is one action.        *)
(*                                                                         *)
(* What a handler does apart from the channel (delays, transforms, other   *)
(* channels) is left open here: a reader may report any progress and a     *)
(* writer may bring bites of any size.  Flow.tla supplies the detail.      *)
(*                                                                         *)
(* _Content is a list that is only appended to and removed from, so it is  *)
(* kept as a set of facets with the number of their arrival.               *)
(***************************************************************************)
EXTENDS Integers, FiniteSets

CONSTANTS
  Facet,        \* the packets (as facets of the packet flow graph)
  Size,         \* Size[f]: CPacket::Size
  Reader,       \* transaction handlers with a source on this channel
  Mode,         \* Mode[t]: the OPMODE of reader t's facet condition
  Matches,      \* Matches[t]: the facets reader t's condition expression accepts
  Writer,       \* destinations that write to this channel
  THOf,         \* THOf[d]: the transaction handler destination d belongs to
  Capacity,     \* _Capacitance; 0 makes the channel infinite
  ReaderCount,  \* _ReaderCount
  WriterCount,  \* _WriterCount
  Ordered,      \* _Ordered
  UInt,         \* the modulus of uint64
  None          \* no facet

OpMode == {"SERIAL_AHEAD", "SERIAL_POST", "PIPELINE"}

ASSUME FacetAssumption ==
  /\ None \notin Facet
  /\ Size \in [Facet -> Nat \ {0}]

ASSUME UserAssumption ==
  /\ Mode \in [Reader -> OpMode]
  /\ Matches \in [Reader -> SUBSET Facet]
  /\ DOMAIN THOf = Writer

ASSUME ShapeAssumption ==
  /\ Capacity \in Nat
  /\ ReaderCount \in Nat
  /\ WriterCount \in Nat
  /\ Ordered \in BOOLEAN
  /\ UInt \in Nat

VARIABLES
  elaborating,    \* TRUE until sc_start
  content,        \* _Content, as a set
  arrival,        \* arrival[f]: f was the arrival[f]-th facet put in; 0: not yet
  arrived,        \* number of facets put in so far
  occupied,       \* _Occupied
  currentReader,  \* _CurrentReader
  currentWriter,  \* _CurrentWriter
  chSize,         \* CPacket::ChTransferredSize
  offset,         \* CPacket::Offset
  picked,         \* CPacket::Picked, as the set of picked facets
  reading,        \* reading[t]: CSource::CurrentFacet of t while it is not Done
  writing,        \* writing[d]: the facet whose bites d is writing
  overflow        \* the warning "overflow via back door write" was given

vars == <<elaborating, content, arrival, arrived, occupied, currentReader,
          currentWriter, chSize, offset, picked, reading, writing, overflow>>

-----------------------------------------------------------------------------
\* The methods of the channel.

Finite == Capacity # 0

\* uint64 subtraction.
Minus(a, b) == IF b <= a THEN a - b ELSE a + UInt - b

\* (Names with NoBite, Late and the like are mistakes a maintainer could make in
\* the definition that follows; no specification uses them.)
SpaceAvailableNoBite(bite) == ~Finite \/ Capacity > occupied

SpaceAvailable(bite) == ~Finite \/ Minus(Capacity, occupied) >= bite

CanLockRdLate(t) == t \in currentReader \/ Cardinality(currentReader) <= ReaderCount

CanLockRd(t) == t \in currentReader \/ Cardinality(currentReader) < ReaderCount

CanLockWrLate(t) == t \in currentWriter \/ Cardinality(currentWriter) <= WriterCount

CanLockWr(t) == t \in currentWriter \/ Cardinality(currentWriter) < WriterCount

IsChCompleteBegun(f) == chSize[f] > 0

IsChComplete(f) == chSize[f] = Size[f]

\* The facet condition of reader t, with the precheck of CFacetCondition.
Condition(t, f) ==
  /\ f \in Matches[t]
  /\ Mode[t] # "PIPELINE" => IsChComplete(f)
  /\ f \notin picked

PickUpFacetAnywhere(t, f) ==
  /\ f \in content
  /\ Condition(t, f)
  /\ \A g \in content : arrival[g] < arrival[f] => ~Condition(t, g)

\* The facet that PickUpFacet returns: the first that satisfies the condition,
\* and in an ordered channel only the head may be picked up.
PickUpFacet(t, f) ==
  /\ f \in content
  /\ Condition(t, f)
  /\ \A g \in content :
       arrival[g] < arrival[f] => ~Ordered /\ ~Condition(t, g)

\* _Content.push_back.
PushBack(f) ==
  /\ content' = content \cup {f}
  /\ arrival' = [arrival EXCEPT ![f] = arrived + 1]
  /\ arrived' = arrived + 1

ReadOffsetUnclipped(f, new) == new

\* The offset that Read leaves: never beyond what has been transferred.
ReadOffset(f, new) == IF new >= chSize[f] THEN chSize[f] ELSE new

-----------------------------------------------------------------------------
\* The handlers.

Init ==
  /\ elaborating = TRUE
  /\ content = {}
  /\ arrival = [f \in Facet |-> 0]
  /\ arrived = 0
  /\ occupied = 0
  /\ currentReader = {}
  /\ currentWriter = {}
  /\ chSize = [f \in Facet |-> 0]
  /\ offset = [f \in Facet |-> 0]
  /\ picked = {}
  /\ reading = [t \in Reader |-> None]
  /\ writing = [d \in Writer |-> None]
  /\ overflow = FALSE

\* CSource::BackDoorWrite and CSimpleChannel::Fill for one generated packet.
BackDoorWrite(f) ==
  /\ elaborating
  /\ arrival[f] = 0
  /\ chSize' = [chSize EXCEPT ![f] = Size[f]]
  /\ PushBack(f)
  /\ occupied' = occupied + Size[f]
  /\ overflow' = (overflow \/ (Finite /\ occupied + Size[f] > Capacity))
  /\ UNCHANGED <<elaborating, currentReader, currentWriter, offset, picked,
                 reading, writing>>

\* main calls sc_start.
Start ==
  /\ elaborating
  /\ elaborating' = FALSE
  /\ UNCHANGED <<content, arrival, arrived, occupied, currentReader,
                 currentWriter, chSize, offset, picked, reading, writing,
                 overflow>>

\* The facet that reader t works on: the one it has, or one it picks up now.
CurrentFacet(t, f) ==
  \/ reading[t] = f
  \/ reading[t] = None /\ PickUpFacet(t, f)

\* CSource::ClaimFacet, without a turn at the read lock yet.
Claim(t, f) ==
  /\ ~elaborating
  /\ reading[t] = None
  /\ PickUpFacet(t, f)
  /\ picked' = picked \cup {f}
  /\ reading' = [reading EXCEPT ![t] = f]
  /\ UNCHANGED <<elaborating, content, arrival, arrived, occupied,
                 currentReader, currentWriter, chSize, offset, writing,
                 overflow>>

SourceDoneCaughtUp(t, f, new, dst_done) ==
  CASE Mode[t] = "SERIAL_AHEAD" -> new > 0 \/ dst_done
    [] Mode[t] = "SERIAL_POST"  -> new >= Size[f] \/ dst_done
    [] Mode[t] = "PIPELINE"     -> ReadOffset(f, new) = chSize[f]

\* Whether CSource::Update(new, dst_done) finishes the source.
SourceDone(t, f, new, dst_done) ==
  CASE Mode[t] = "SERIAL_AHEAD" -> new > 0 \/ dst_done
    [] Mode[t] = "SERIAL_POST"  -> new >= Size[f] \/ dst_done
    [] Mode[t] = "PIPELINE"     -> ReadOffset(f, new) = Size[f]

\* Execute (or Prepare, or Resume) of reader t once it holds the read lock:
\* CSource::Update reads or pops, and a source that is done is unlocked.
Update(t, f, new, dst_done) ==
  LET read == IF Mode[t] = "PIPELINE" THEN ReadOffset(f, new) ELSE offset[f]
      left == Minus(occupied, read - offset[f])
  IN /\ ~elaborating
     /\ CurrentFacet(t, f)
     /\ CanLockRd(t)
     /\ picked' = picked \cup {f}
     /\ offset' = [offset EXCEPT ![f] = read]
     /\ IF SourceDone(t, f, new, dst_done)
        THEN /\ occupied' = Minus(left, Size[f] - read)
             /\ content' = content \ {f}
             /\ reading' = [reading EXCEPT ![t] = None]
             /\ currentReader' = currentReader \ {t}
        ELSE /\ occupied' = left
             /\ reading' = [reading EXCEPT ![t] = f]
             /\ currentReader' = currentReader \cup {t}
             /\ UNCHANGED content
     /\ UNCHANGED <<elaborating, arrival, arrived, currentWriter, chSize,
                    writing, overflow>>

\* The next bite of d: of the facet it is writing, or the first of a new one.
TopBite(d, f, bite) ==
  /\ writing[d] = f \/ (writing[d] = None /\ arrival[f] = 0)
  /\ bite \in 1 .. Size[f] - chSize[f]

\* UpdatePipeline with a bite at the top: the write lock is granted but the
\* channel has no room.  The lock is kept.
Halt(d, f, bite) ==
  /\ ~elaborating
  /\ TopBite(d, f, bite)
  /\ CanLockWr(THOf[d])
  /\ ~SpaceAvailable(bite)
  /\ currentWriter' = currentWriter \cup {THOf[d]}
  /\ UNCHANGED <<elaborating, content, arrival, arrived, occupied,
                 currentReader, chSize, offset, picked, reading, writing,
                 overflow>>

\* UpdatePipeline with a bite at the top that is written; the last bite of a
\* packet gives the lock back.
Write(d, f, bite) ==
  /\ ~elaborating
  /\ TopBite(d, f, bite)
  /\ CanLockWr(THOf[d])
  /\ SpaceAvailable(bite)
  /\ IF f \in content THEN UNCHANGED <<content, arrival, arrived>>
                      ELSE PushBack(f)
  /\ chSize' = [chSize EXCEPT ![f] = @ + bite]
  /\ occupied' = occupied + bite
  /\ IF chSize[f] + bite = Size[f]
     THEN /\ writing' = [writing EXCEPT ![d] = None]
          /\ currentWriter' = currentWriter \ {THOf[d]}
     ELSE /\ writing' = [writing EXCEPT ![d] = f]
          /\ currentWriter' = currentWriter \cup {THOf[d]}
  /\ UNCHANGED <<elaborating, currentReader, offset, picked, reading, overflow>>

ReaderNext(t) ==
  \E f \in Facet :
    \/ Claim(t, f)
    \/ \E new \in offset[f] .. Size[f], dst_done \in BOOLEAN :
         Update(t, f, new, dst_done)

WriterNext(d) ==
  \E f \in Facet : \E bite \in 1 .. Size[f] : Halt(d, f, bite) \/ Write(d, f, bite)

Next ==
  \/ \E f \in Facet : BackDoorWrite(f)
  \/ Start
  \/ \E t \in Reader : ReaderNext(t)
  \/ \E d \in Writer : WriterNext(d)

Spec == Init /\ [][Next]_vars

-----------------------------------------------------------------------------
\* What must hold.

\* The variables have their types; every resident facet has arrived, what has
\* been read has been transferred, and nothing is transferred twice.
TypeOK ==
  /\ elaborating \in BOOLEAN
  /\ content \subseteq Facet
  /\ arrival \in [Facet -> 0 .. arrived]
  /\ arrived \in Nat
  /\ occupied \in Nat
  /\ currentReader \subseteq Reader
  /\ currentWriter \subseteq {THOf[d] : d \in Writer}
  /\ chSize \in [Facet -> Nat]
  /\ offset \in [Facet -> Nat]
  /\ picked \subseteq Facet
  /\ reading \in [Reader -> Facet \cup {None}]
  /\ writing \in [Writer -> Facet \cup {None}]
  /\ overflow \in BOOLEAN
  /\ \A f \in Facet : offset[f] <= chSize[f] /\ chSize[f] <= Size[f]

\* The bytes that lie in the channel: transferred and not yet read.
ResidentBytes ==
  UNION {{f} \X (offset[f] + 1 .. chSize[f]) : f \in content}

\* _Occupied, kept by increments in Fill, Write, Read and Pop, is the number of
\* bytes in the channel: no byte is counted twice, dropped, or subtracted below
\* zero by the unsigned arithmetic.
OccupiedExact == occupied = Cardinality(ResidentBytes)

\* A finite channel holds more than its capacity only after Fill has warned
\* that the back door overfilled it: SpaceAvailable lets no writer do that.
NoSilentOverflow == Finite /\ occupied > Capacity => overflow

Partial == {f \in content : chSize[f] < Size[f]}

\* The lock is held in the name of the handler, so it separates destinations
\* only when a handler has one destination on the channel.
OneDestinationPerTH == \A d, e \in Writer : THOf[d] = THOf[e] => d = e

\* Under the write lock at most _WriterCount packets are partly written at any
\* time: bites of more packets are never interleaved in the channel.
PacketsNotInterleaved ==
  OneDestinationPerTH => Cardinality(Partial) <= WriterCount

\* The read lock: never more than _ReaderCount holders, an idle handler holds
\* nothing, and a packet that is partly read is under the lock of its reader.
ReadLockDiscipline ==
  /\ Cardinality(currentReader) <= ReaderCount
  /\ \A t \in currentReader : reading[t] # None
  /\ \A f \in content :
       offset[f] > 0 => \E t \in currentReader : reading[t] = f

\* A claimed packet at the head of an ordered channel hides all the others:
\* whatever _ReaderCount is, one packet is read at a time.
OrderedSerialises ==
  Ordered => \A f, g \in content \cap picked : f = g

Popped(f) == arrival[f] # 0 /\ f \notin content

\* A packet leaves the channel whole: every byte had arrived, one handler had
\* claimed it, and nobody still reads or writes it.
LeavesWhole ==
  \A f \in Facet : Popped(f) =>
    /\ IsChComplete(f)
    /\ f \in picked
    /\ \A t \in Reader : reading[t] # f
    /\ \A d \in Writer : writing[d] # f

\* Write appends a facet that is not in _Content.  It never brings back one
\* that has left: a facet arrives once.
ArrivesOnce ==
  [][\A f \in Facet : arrival[f] # 0 => arrival'[f] = arrival[f]]_vars

StageOf(f) ==
  CASE arrival[f] = 0                      -> "absent"
    [] f \in content /\ f \notin picked     -> "queued"
    [] f \in content /\ f \in picked        -> "serving"
    [] OTHER                               -> "served"

Queue == INSTANCE PacketQueue
  WITH stage <- [f \in Facet |-> StageOf(f)], number <- arrival

\* The channel with its locks, bites and modes implements the packet queue.
ImplementsQueue == Queue!Spec

\* "insufficient space for ... Bytes in channel ..., halted." says the warning
\* of UpdatePipeline (src/CDestination.cc:354-358): a bite is written only when
\* the channel has room for it.  Stated for an overfilled channel, too.
HaltsWithoutRoom ==
  [][\A d \in Writer, f \in Facet : \A bite \in 1 .. Size[f] :
       Write(d, f, bite) => (Finite => occupied' <= Capacity)]_vars
=============================================================================
