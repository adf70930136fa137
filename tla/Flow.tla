-------------------------------- MODULE Flow --------------------------------
(***************************************************************************)
(* The packet flows of a design: sources, transforms and destinations in   *)
(* the logic cones of transaction handlers (src/CTransHandler.cc), the     *)
(* group handlers that take turns (round robin, arbiter, dispatch), the    *)
(* channels that the cones read and write (Channel.tla), and the scheduler *)
(* that runs them once per clock period (src/CTopScheduler.hh).            *)
(*                                                                         *)
(* There is one SystemC thread.  agenda holds the calls it has still to    *)
(* make in this period; a call of a simple handler or of UpdatePipeline is *)
(* one action, and a group handler puts the calls on its children in front *)
(* of the agenda.  The orders of registration and the random delays and    *)
(* transforms are left open.                                               *)
(*                                                                         *)
(* A facet is the record [of, by, idx, size]: the packet it was made of,   *)
(* the destination (or, at the back door, the source) it was made for, its *)
(* place among the products of one transform, and CPacket::Size.           *)
(***************************************************************************)
EXTENDS Destination, FiniteSetsExt, SequencesExt

CONSTANTS
  Chan, Capacity, ReaderCount, WriterCount, Ordered,   \* the channels, see Channel
  Src,        \* the sources
  SrcCh,      \* SrcCh[s]: the channel that s reads
  Mode,       \* Mode[s]: the OPMODE of its facet condition
  Accepts,    \* Accepts[s]: whose facets its condition expression accepts
  DstCh,      \* DstCh[d]: the channel that d writes
  SrcOf,      \* SrcOf[d]: the source of the logic cone of d
  Yield,      \* Yield[d][n]: the sizes the cone's transform may make of a packet of n bytes
  TH,         \* the simple handlers
  Cones,      \* Cones[t]: the destinations of its logic cones, in order
  Group,      \* the group handlers
  Kind,       \* Kind[g]: "RoundRobin", "Arbiter" or "Dispatch"
  Children,   \* Children[g]: the simple handlers of g, in order
  Weight,     \* Weight[g]: the weights given to AddTH
  HandlerOrders,   \* the orders in which the handlers may have been registered
  DstOrders,  \* the orders in which the destinations may have been constructed
  Facet,      \* all facets that can be made
  UInt,       \* the modulus of uint64
  None        \* NULL

Seed == {f \in Facet : f.by \in Src}

ConesOf(t) == ToSet(Cones[t])
SourcesOf(t) == {SrcOf[d] : d \in ConesOf(t)}
Members(g) == ToSet(Children[g])
Owner(t) == {g \in Group : t \in Members(g)}
Top == Group \cup {t \in TH : Owner(t) = {}}

\* A destination belongs to one cone; a handler is in one group; the sources of
\* a handler read different channels (two on one channel would pick up the same
\* packet).  A design has finitely many handlers, groups and destinations.
ASSUME FlowAssumption ==
  /\ SrcCh \in [Src -> Chan] /\ DstCh \in [Dst -> Chan] /\ SrcOf \in [Dst -> Src]
  /\ Mode \in [Src -> {"SERIAL_AHEAD", "SERIAL_POST", "PIPELINE"}]
  /\ \A t \in TH : Cones[t] \in Seq(Dst) /\ Cones[t] # <<>>
  /\ \A d \in Dst : \E t \in TH : d \in ConesOf(t)
  /\ \A t, u \in TH : t # u => ConesOf(t) \cap ConesOf(u) = {}
  /\ \A t \in TH : Cardinality(ConesOf(t)) = Len(Cones[t])
  /\ \A t \in TH : \A s, r \in SourcesOf(t) : SrcCh[s] = SrcCh[r] => s = r
  /\ \A t, u \in TH : t # u => SourcesOf(t) \cap SourcesOf(u) = {}
  /\ \A t \in TH : Cardinality(Owner(t)) <= 1
  /\ \A g \in Group : Children[g] \in Seq(TH) /\ Children[g] # <<>>
  /\ \A g \in Group : Weight[g] \in [1 .. Len(Children[g]) -> Nat]
  /\ Src \cap Dst = {}
  /\ IsFiniteSet(TH) /\ IsFiniteSet(Group) /\ IsFiniteSet(Dst)
  /\ UInt \in Nat
  /\ HandlerOrders \subseteq SetToSeqs(Top)
  /\ DstOrders \subseteq SetToSeqs(Dst)

VARIABLES
  elaborating, content, arrival, arrived, occupied, currentReader,
  currentWriter, chSize, offset, picked, overflow,   \* as in Channel, by channel
  agenda,         \* the calls the scheduler has still to make in this period
  order,          \* the calls it makes in every period
  addresses,      \* the order of the children in set<CTransHandler*>
  thState,        \* _THState
  srcSet,         \* _SrcSet
  source,         \* source[s]: CurrentFacet and Done
  cone,           \* cone[d]: the _LogicConeState of d's cone
  dst,            \* dst[d]: the object, see Destination
  position,       \* position[g]: _RRposition or _ArbRecord, counted from 0
  selector,       \* selector[g]: _Selector
  readyTHs,       \* readyTHs[g]: _ReadyTHs
  internalError   \* STOP() or exit(1) was called

chanVars == <<content, arrival, arrived, occupied, currentReader, currentWriter,
              chSize, offset, picked, overflow>>
thVars == <<thState, srcSet, source, cone>>
groupVars == <<position, selector, readyTHs>>
designVars == <<elaborating, order, addresses>>
vars == <<chanVars, thVars, groupVars, designVars, dst, agenda, internalError>>

-----------------------------------------------------------------------------
\* The channels.

Home(f) == IF f.by \in Dst THEN DstCh[f.by] ELSE SrcCh[f.by]
FacetsOf(c) == {f \in Facet : Home(f) = c}
ReadersOf(c) == {t \in TH : \E s \in SourcesOf(t) : SrcCh[s] = c}
WritersOf(c) == {d \in Dst : DstCh[d] = c}
HandlerOf(d) == CHOOSE t \in TH : d \in ConesOf(t)
SourceOn(t, c) == CHOOSE s \in SourcesOf(t) : SrcCh[s] = c

\* The facet that handler t reads from channel c.
ReadingOn(t, c) ==
  LET s == SourceOn(t, c)
  IN IF thState[t] # "IDLE" /\ ~source[s].done THEN source[s].facet ELSE None

\* The facet of which d has written a part.
WritingOf(d) ==
  LET begun == {f \in Facet : f.by = d /\ 0 < chSize[f] /\ chSize[f] < f.size}
  IN IF begun = {} THEN None ELSE CHOOSE f \in begun : TRUE

Ch(c) == INSTANCE Channel WITH
  Facet <- FacetsOf(c),
  Size <- [f \in FacetsOf(c) |-> f.size],
  Reader <- ReadersOf(c),
  Mode <- [t \in ReadersOf(c) |-> Mode[SourceOn(t, c)]],
  Matches <- [t \in ReadersOf(c) |->
                {f \in FacetsOf(c) : f.by \in Accepts[SourceOn(t, c)]}],
  Writer <- WritersOf(c),
  THOf <- [d \in WritersOf(c) |-> HandlerOf(d)],
  Capacity <- Capacity[c],
  ReaderCount <- ReaderCount[c],
  WriterCount <- WriterCount[c],
  Ordered <- Ordered[c],
  content <- content[c],
  arrival <- [f \in FacetsOf(c) |-> arrival[f]],
  arrived <- arrived[c],
  occupied <- occupied[c],
  currentReader <- currentReader[c],
  currentWriter <- currentWriter[c],
  chSize <- [f \in FacetsOf(c) |-> chSize[f]],
  offset <- [f \in FacetsOf(c) |-> offset[f]],
  picked <- picked \cap FacetsOf(c),
  reading <- [t \in ReadersOf(c) |-> ReadingOn(t, c)],
  writing <- [d \in WritersOf(c) |-> WritingOf(d)],
  overflow <- overflow[c]

-----------------------------------------------------------------------------
\* Elaboration.

Job(op, x) == [op |-> op, of |-> x]

Jobs(op, seq) == [i \in DOMAIN seq |-> Job(op, seq[i])]

Init ==
  /\ elaborating = TRUE
  /\ content = [c \in Chan |-> {}]
  /\ arrival = [f \in Facet |-> 0]
  /\ arrived = [c \in Chan |-> 0]
  /\ occupied = [c \in Chan |-> 0]
  /\ currentReader = [c \in Chan |-> {}]
  /\ currentWriter = [c \in Chan |-> {}]
  /\ chSize = [f \in Facet |-> 0]
  /\ offset = [f \in Facet |-> 0]
  /\ picked = {}
  /\ overflow = [c \in Chan |-> FALSE]
  /\ agenda = <<>>
  /\ order = <<>>
  /\ addresses = <<>>
  /\ thState = [t \in TH |-> "IDLE"]
  /\ srcSet = [t \in TH |-> {}]
  /\ source = [s \in Src |-> [facet |-> None, done |-> FALSE]]
  /\ cone = [d \in Dst |-> "IDLE"]
  /\ dst = [d \in Dst |-> NewDestination(d)]
  /\ position = [g \in Group |-> 0]
  /\ selector = [g \in Group |-> 0]
  /\ readyTHs = [g \in Group |-> {}]
  /\ internalError = FALSE

\* _Content.push_back in channel c.
PushBack(c, f) ==
  /\ content' = [content EXCEPT ![c] = @ \cup {f}]
  /\ arrival' = [arrival EXCEPT ![f] = arrived[c] + 1]
  /\ arrived' = [arrived EXCEPT ![c] = @ + 1]

BackDoorWrite(f) ==
  LET c == Home(f) IN
  /\ elaborating
  /\ arrival[f] = 0
  /\ PushBack(c, f)
  /\ chSize' = [chSize EXCEPT ![f] = f.size]
  /\ occupied' = [occupied EXCEPT ![c] = @ + f.size]
  /\ overflow' = [overflow EXCEPT ![c] =
                    @ \/ (Ch(c)!Finite /\ occupied[c] + f.size > Capacity[c])]
  /\ UNCHANGED <<currentReader, currentWriter, offset, picked, thVars, groupVars,
                 designVars, dst, agenda, internalError>>

\* sc_start: the scheduler calls the handlers in the order of AddMod and AddTH,
\* then UpdatePipeline in the order of G_DST_LIST.
Start ==
  /\ elaborating
  /\ elaborating' = FALSE
  /\ \E handlers \in HandlerOrders, dsts \in DstOrders :
       order' = Jobs("Execute", handlers) \o Jobs("UpdatePipeline", dsts)
  /\ addresses' \in SetToSeqs(UNION {Members(g) : g \in {h \in Group : Kind[h] = "Dispatch"}})
  /\ agenda' = order'
  /\ UNCHANGED <<chanVars, thVars, groupVars, dst, internalError>>

\* wait() for the next clock edge.
Tick ==
  /\ ~elaborating
  /\ ~internalError
  /\ agenda = <<>>
  /\ agenda' = order
  /\ dst' = [d \in Dst |-> Elapse(d, dst[d])]
  /\ UNCHANGED <<chanVars, thVars, groupVars, designVars, internalError>>

Called(op, x) == ~internalError /\ agenda # <<>> /\ Head(agenda) = Job(op, x)

-----------------------------------------------------------------------------
\* Simple handlers: readiness.

\* (Names like PickUpLatest are mistakes a maintainer could make in the definition
\* that follows; no specification uses them.)
PickUpLatest(t, s) ==
  LET found == {f \in content[SrcCh[s]] : Ch(SrcCh[s])!Condition(t, f)}
  IN IF found = {} THEN None
     ELSE CHOOSE f \in found : \A g \in found : arrival[g] <= arrival[f]

\* CSource::PickUpFacet
PickUp(t, s) ==
  LET found == {f \in content[SrcCh[s]] : Ch(SrcCh[s])!PickUpFacet(t, f)}
  IN IF found = {} THEN None ELSE CHOOSE f \in found : TRUE

\* The cones whose source has no packet.
Missing(t) == {i \in DOMAIN Cones[t] : PickUp(t, SrcOf[Cones[t][i]]) = None}

\* The sources that IsReady asks for a packet: up to the first that has none.
Asked(t) == {SrcOf[Cones[t][i]] : i \in {j \in DOMAIN Cones[t] :
                                           \A k \in Missing(t) : j <= k}}

Has(t, s) == [facet |-> PickUp(t, s), done |-> FALSE]

\* IsReady of an idle handler, up to its answer: Init, then the sources.
Poll(t) ==
  /\ srcSet' = [srcSet EXCEPT ![t] = {s \in Asked(t) : PickUp(t, s) # None}]
  /\ source' = [s \in Src |-> IF s \in Asked(t) THEN Has(t, s) ELSE source[s]]
  /\ cone' = [d \in Dst |-> IF d \in ConesOf(t) THEN "IDLE" ELSE cone[d]]
  /\ dst' = [d \in Dst |-> IF d \in ConesOf(t) THEN ResetOffset(dst[d]) ELSE dst[d]]

ClaimNone(t) == UNCHANGED picked

\* ClaimFacet on all sources of the handler.
ClaimAll(t) == picked' = picked \cup {PickUp(t, s) : s \in SourcesOf(t)}

-----------------------------------------------------------------------------
\* Simple handlers: the logic cones.

Product(f, d, sizes) ==
  [k \in DOMAIN sizes |-> [of |-> f, by |-> d, idx |-> k, size |-> sizes[k]]]

\* No facet is empty or longer than a uint64 counts; a transform yields at least one
\* facet, and Facet has what it yields.
ASSUME FacetAssumption ==
  /\ None \notin Facet
  /\ NoBite \notin [facet : Facet, size : Nat, last : BOOLEAN]
  /\ \A f \in Facet : f.by \in Src \cup Dst /\ f.size \in Nat \ {0} /\ f.size < UInt
  /\ \A d \in Dst, f \in Facet :
       Home(f) = SrcCh[SrcOf[d]] /\ f.by \in Accepts[SrcOf[d]] =>
         \A sizes \in Yield[d][f.size] :
           /\ sizes \in Seq(Nat) /\ sizes # <<>>
           /\ Product(f, d, sizes) \in Seq(Facet)

\* What chance decides in one call for the cone of d with source packet f.
Draw(d, f) ==
  [packet : PacketDelay[d], bite : BiteDelay[d],
   sizes : IF f = None THEN {<<>>} ELSE Yield[d][f.size]]

Draws(t, f) ==
  {draw \in [ConesOf(t) -> UNION {Draw(d, f[SrcOf[d]]) : d \in ConesOf(t)}] :
     \A d \in ConesOf(t) : draw[d] \in Draw(d, f[SrcOf[d]])}

DataAvailableOneShort(src, n) ==
  src.done \/ chSize[src.facet] = src.facet.size \/ chSize[src.facet] + 1 >= n

\* CSource::DataAvailable
DataAvailable(src, n) ==
  \/ src.done
  \/ chSize[src.facet] = src.facet.size
  \/ chSize[src.facet] >= n

SetTo(mode, r) ==
  CASE mode = "Execute" -> SetToTransfer(r)
    [] mode = "Prepare" -> SetToPrepare(r)
    [] mode = "Resume"  -> SetToResume(r)

\* Transfer-, Prepare- or ResumeLogicCone on d: the state of the cone and the
\* destination afterwards.  A cone starts by locking its source and filling the
\* destination with the products of the transform.
ProcessLogicCone(t, d, mode, state, r, src, draw) ==
  LET called == SetTo(mode, r)
      starting == state \in {"IDLE", "LOCK_SRC"}
      filled == IF starting THEN Fill(called, Product(src.facet, d, draw.sizes)) ELSE called
      moved == Transfer(d, filled,
                        DataAvailable(src, Needs(d, filled)),
                        draw.packet, draw.bite)
  IN CASE state = "DONE" \/ (state = "IDLE" /\ mode = "Resume") ->
            [state |-> state, dst |-> called]
       [] starting /\ ~(state = "IDLE" /\ mode = "Resume")
          /\ ~Ch(SrcCh[SrcOf[d]])!CanLockRd(t) ->
            [state |-> "LOCK_SRC", dst |-> called]
       [] OTHER ->
            [state |-> IF moved.pending = <<>> THEN "DONE" ELSE "STREAMING",
             dst |-> moved]

\* CSimpleTH::Update on one source that the cones have read up to new: its
\* offset and whether it is done.  If all cones are done and the source is not,
\* FlushSRC updates it once more, up to all that it has.
SourceAfter(t, s, src, new, dst_done) ==
  LET f == src.facet
      till == IF dst_done THEN chSize[f] ELSE new
  IN [offset |-> IF Mode[s] = "PIPELINE" THEN Ch(SrcCh[s])!ReadOffset(f, till)
                                         ELSE offset[f],
      done |-> Ch(SrcCh[s])!SourceDone(t, f, till, dst_done)]

-----------------------------------------------------------------------------
\* Simple handlers: the calls.

ReadByOneCone(t, s, src, after) ==
  Min({chSize[src.facet],
       Max({after[d].dst.offset : d \in {e \in ConesOf(t) : SrcOf[e] = s}})})

\* How far the cones have read the packet of source s.
ReadByCones(t, s, src, after) ==
  Min({chSize[src.facet]} \cup {after[d].dst.offset : d \in {e \in ConesOf(t) : SrcOf[e] = s}})

\* A call of Execute, Prepare or Resume that takes a packet of every source.
Takes(t, mode) == thState[t] = "IDLE" /\ mode # "Resume"

\* The sources it works on, with their packets, ...
Working(t, mode) == IF Takes(t, mode) THEN SourcesOf(t) ELSE srcSet[t]

Now(t, mode, s) == IF Takes(t, mode) THEN Has(t, s) ELSE source[s]

\* ... and the cone of d, before and after it.
Was(t, mode, d) == IF Takes(t, mode) THEN "IDLE" ELSE cone[d]

After(t, mode, d, draw) ==
  ProcessLogicCone(t, d, mode, Was(t, mode, d),
                   IF Takes(t, mode) THEN ResetOffset(dst[d]) ELSE dst[d],
                   Now(t, mode, SrcOf[d]), draw)

AllDone(t, after) == \A d \in ConesOf(t) : after[d].state = "DONE"

RunCones(t, mode, after) ==
  /\ dst' = [d \in Dst |-> IF d \in ConesOf(t) THEN after[d].dst ELSE dst[d]]
  /\ cone' = [d \in Dst |-> IF d \in ConesOf(t) THEN after[d].state ELSE cone[d]]
  /\ thState' = [thState EXCEPT ![t] = IF AllDone(t, after) THEN "IDLE"
                                       ELSE IF mode = "Resume" THEN @ ELSE "BUSY"]

Updated(t, mode) == {s \in Working(t, mode) : ~Now(t, mode, s).done}

\* CSimpleTH::Update and FlushSRC.
Left(t, mode, after, s) ==
  SourceAfter(t, s, Now(t, mode, s), ReadByCones(t, s, Now(t, mode, s), after),
              AllDone(t, after))

RunSources(t, mode, after) ==
  LET left == [s \in Updated(t, mode) |-> Left(t, mode, after, s)]
      facet(s) == Now(t, mode, s).facet
      on(c) == SourceOn(t, c)
      chans == {SrcCh[s] : s \in SourcesOf(t)}
      updated(c) == c \in chans /\ on(c) \in Updated(t, mode)
      finished(c) == updated(c) /\ left[on(c)].done
      locked == {SrcCh[SrcOf[d]] : d \in {e \in ConesOf(t) :
                   Was(t, mode, e) \in {"IDLE", "LOCK_SRC"}
                   /\ after[e].state \in {"STREAMING", "DONE"}}}
      readers(c) == IF c \in locked THEN currentReader[c] \cup {t} ELSE currentReader[c]
  IN /\ srcSet' = [srcSet EXCEPT ![t] = Working(t, mode)]
     /\ source' = [s \in Src |->
          IF s \in Updated(t, mode) THEN [Now(t, mode, s) EXCEPT !.done = left[s].done]
          ELSE IF s \in SourcesOf(t) THEN Now(t, mode, s) ELSE source[s]]
     /\ IF Takes(t, mode) THEN ClaimAll(t) ELSE UNCHANGED picked
     /\ offset' = [f \in Facet |->
          IF \E s \in Updated(t, mode) : facet(s) = f
          THEN left[CHOOSE s \in Updated(t, mode) : facet(s) = f].offset ELSE offset[f]]
     /\ occupied' = [c \in Chan |->
          IF updated(c)
          THEN LET f == facet(on(c))
                   read == Ch(c)!Minus(occupied[c], left[on(c)].offset - offset[f])
               IN IF finished(c) THEN Ch(c)!Minus(read, f.size - left[on(c)].offset)
                                 ELSE read
          ELSE occupied[c]]
     /\ content' = [c \in Chan |->
          IF finished(c) THEN content[c] \ {facet(on(c))} ELSE content[c]]
     /\ currentReader' = [c \in Chan |->
          IF finished(c) THEN readers(c) \ {t} ELSE readers(c)]
     /\ internalError' = \/ \E c \in chans : finished(c) /\ t \notin readers(c)
                         \/ /\ AllDone(t, after)
                            /\ \E s \in Updated(t, mode) : ~left[s].done

\* A call of Execute, Prepare or Resume with a packet to work on: every cone,
\* then the sources; next is the agenda that is left if all cones are done.
Run(t, mode, next) ==
  \E draw \in Draws(t, [s \in SourcesOf(t) |-> Now(t, mode, s).facet]) :
    LET after == [d \in ConesOf(t) |-> After(t, mode, d, draw[d])]
    IN /\ RunCones(t, mode, after)
       /\ RunSources(t, mode, after)
       /\ IF AllDone(t, after) THEN next ELSE agenda' = Tail(agenda) /\ UNCHANGED readyTHs
       /\ UNCHANGED <<arrival, arrived, currentWriter, chSize, overflow, position,
                      selector, designVars>>

\* ... and without one.
Starve(t) ==
  /\ thState[t] = "IDLE"
  /\ Missing(t) # {}
  /\ Poll(t)
  /\ agenda' = Tail(agenda)
  /\ UNCHANGED <<chanVars, thState, groupVars, designVars, internalError>>

Runs(t, mode) == thState[t] = "IDLE" /\ mode # "Resume" => Missing(t) = {}

\* CDispatchTH::Execute erases a child that is done from the set it iterates
\* over and then increments the erased iterator: it may visit the others, the last
\* of them only, or none.
Erase(t) ==
  \E g \in Owner(t) :
    /\ Kind[g] = "Dispatch"
    /\ readyTHs' = [readyTHs EXCEPT ![g] = @ \ {t}]
    /\ \E k \in DOMAIN agenda :
         /\ \A i \in 2 .. k : agenda[i].of \in Members(g)
         /\ agenda' = SubSeq(agenda, k + 1, Len(agenda))

Execute(t) ==
  /\ Called("Execute", t)
  /\ \/ Starve(t)
     \/ /\ Runs(t, "Execute")
        /\ Run(t, "Execute", IF \E g \in Owner(t) : Kind[g] = "Dispatch"
                             THEN Erase(t)
                             ELSE agenda' = Tail(agenda) /\ UNCHANGED readyTHs)

Prepare(t) ==
  /\ Called("Prepare", t)
  /\ \/ Starve(t)
     \/ Runs(t, "Prepare") /\ Run(t, "Prepare", agenda' = Tail(agenda) /\ UNCHANGED readyTHs)

Resume(t) ==
  /\ Called("Resume", t)
  /\ Run(t, "Resume", agenda' = Tail(agenda) /\ UNCHANGED readyTHs)

-----------------------------------------------------------------------------
\* Group handlers.

Size(g) == Len(Children[g])

\* The child at a position counted from 0.
Child(g, i) == Children[g][(i % Size(g)) + 1]

Current(g) == Child(g, position[g])

\* IsPrepared of a child.
AllPrepared(t) == \A d \in ConesOf(t) : IsPrepared(dst[d])

TakesTurns(g) == Kind[g] \in {"RoundRobin", "Arbiter"}

\* CRoundRobinTH::Execute, CArbiterTH::Execute: the other children are prepared
\* first, starting behind the current one.
PrepareOthers(g) ==
  /\ Called("Execute", g)
  /\ TakesTurns(g)
  /\ agenda' = [i \in 1 .. Size(g) - 1 |-> Job("Prepare", Child(g, position[g] + i))]
               \o <<Job("Turn", g)>> \o Tail(agenda)
  /\ UNCHANGED <<chanVars, thVars, groupVars, designVars, dst, internalError>>

\* The shares of the first i children, as pairs of a child and a number up to its
\* weight: each weight counts once.
Shares(g, i) == UNION {{k} \X (1 .. Weight[g][k]) : k \in 1 .. i}

\* What AddTH keeps in _Weight: the weights, added up.
WeightSum(g) ==
  [i \in 1 .. Size(g) |-> Cardinality(Shares(g, i))]

PassesLate(g) ==
  Kind[g] = "RoundRobin" \/ selector[g] + 1 > WeightSum(g)[position[g] + 1]

\* Whether the turn passes on: the arbiter counts up to the end of a share.
Passes(g) ==
  Kind[g] = "RoundRobin" \/ selector[g] + 1 >= WeightSum(g)[position[g] + 1]

\* Then the current one: it is resumed, or prepared and the turn passes on.
Turn(g) ==
  LET t == Current(g)
  IN /\ Called("Turn", g)
     /\ IF AllPrepared(t)
        THEN /\ agenda' = <<Job("Resume", t)>> \o Tail(agenda)
             /\ UNCHANGED <<position, selector>>
        ELSE /\ agenda' = <<Job("Prepare", t)>> \o Tail(agenda)
             /\ position' = IF Passes(g) THEN [position EXCEPT ![g] = (@ + 1) % Size(g)]
                                        ELSE position
             /\ selector' = IF Kind[g] = "Arbiter"
                            THEN [selector EXCEPT ![g] = (@ + 1) % WeightSum(g)[Size(g)]]
                            ELSE selector
     /\ UNCHANGED <<chanVars, thVars, readyTHs, designVars, dst, internalError>>

\* The members of S in the order in which seq lists them.
Lined(S, seq) ==
  {run \in SetToSeqs(S) : \A i, j \in DOMAIN run : i < j =>
     \E k, m \in DOMAIN seq : k < m /\ seq[k] = run[i] /\ seq[m] = run[j]}

\* CDispatchTH::Execute: SelectTH asks the children that are not ready ...
SelectTH(g) ==
  /\ Called("Execute", g)
  /\ Kind[g] = "Dispatch"
  /\ \E asked \in Lined(Members(g) \ readyTHs[g], Children[g]) :
       agenda' = Jobs("IsReady", asked) \o <<Job("Dispatch", g)>> \o Tail(agenda)
  /\ UNCHANGED <<chanVars, thVars, groupVars, designVars, dst, internalError>>

IsReady(t) ==
  /\ Called("IsReady", t)
  /\ agenda' = Tail(agenda)
  /\ IF thState[t] = "IDLE" THEN Poll(t) ELSE UNCHANGED <<srcSet, source, cone, dst>>
  /\ IF thState[t] = "IDLE" /\ Missing(t) = {}
     THEN ClaimAll(t) /\ thState' = [thState EXCEPT ![t] = "READY"]
     ELSE UNCHANGED <<picked, thState>>
  /\ readyTHs' = [g \in Group |->
       IF g \in Owner(t) /\ (thState[t] = "READY" \/ (thState[t] = "IDLE" /\ Missing(t) = {}))
       THEN readyTHs[g] \cup {t} ELSE readyTHs[g]]
  /\ UNCHANGED <<content, arrival, arrived, occupied, currentReader, currentWriter,
                 chSize, offset, overflow, position, selector, designVars, internalError>>

\* ... then those that are ready run, in the order of their addresses.
Dispatch(g) ==
  /\ Called("Dispatch", g)
  /\ \E run \in Lined(readyTHs[g], addresses) :
       agenda' = Jobs("Execute", run) \o Tail(agenda)
  /\ UNCHANGED <<chanVars, thVars, groupVars, designVars, dst, internalError>>

-----------------------------------------------------------------------------
\* CDestination::UpdatePipeline.

\* The pipeline is halted, not due, or its top stage is empty.
Advance(d) ==
  LET r == dst[d] IN
  /\ ~Due(r) \/ TopBite(d, r) = NoBite
  /\ dst' = [dst EXCEPT ![d] = IF Due(r) THEN Shift(d, Polled(d, r)) ELSE r]
  /\ UNCHANGED chanVars

\* The top bite has no write lock, or no room.  The lock is kept.
Halt(d) ==
  LET r == dst[d]
      c == DstCh[d]
      t == HandlerOf(d)
  IN /\ Due(r)
     /\ TopBite(d, r) # NoBite
     /\ ~(Ch(c)!CanLockWr(t) /\ Ch(c)!SpaceAvailable(TopBite(d, r).size))
     /\ currentWriter' = [currentWriter EXCEPT ![c] =
                            IF Ch(c)!CanLockWr(t) THEN @ \cup {t} ELSE @]
     /\ dst' = [dst EXCEPT ![d] = Polled(d, r)]
     /\ UNCHANGED <<content, arrival, arrived, occupied, currentReader, chSize, offset,
                    picked, overflow>>

LockAfterAnyBite(c, t, bite) ==
  currentWriter' = [currentWriter EXCEPT ![c] = @ \ {t}]

LockKept(c, t, bite) ==
  currentWriter' = [currentWriter EXCEPT ![c] = @ \cup {t}]

\* The write lock after a bite was written.
LockAfter(c, t, bite) ==
  currentWriter' = [currentWriter EXCEPT ![c] = IF bite.last THEN @ \ {t} ELSE @ \cup {t}]

\* It is written; the last bite of a packet gives the lock back.
Write(d) ==
  LET r == dst[d]
      c == DstCh[d]
      t == HandlerOf(d)
      top == TopBite(d, r)
  IN /\ Due(r)
     /\ top # NoBite
     /\ Ch(c)!CanLockWr(t)
     /\ Ch(c)!SpaceAvailable(top.size)
     /\ IF top.facet \in content[c] THEN UNCHANGED <<content, arrival, arrived>>
                                    ELSE PushBack(c, top.facet)
     /\ chSize' = [chSize EXCEPT ![top.facet] = @ + top.size]
     /\ occupied' = [occupied EXCEPT ![c] = @ + top.size]
     /\ LockAfter(c, t, top)
     /\ dst' = [dst EXCEPT ![d] = Shift(d, Polled(d, r))]
     /\ UNCHANGED <<currentReader, offset, picked, overflow>>

UpdatePipeline(d) ==
  /\ Called("UpdatePipeline", d)
  /\ Advance(d) \/ Halt(d) \/ Write(d)
  /\ agenda' = Tail(agenda)
  /\ UNCHANGED <<thVars, groupVars, designVars, internalError>>

-----------------------------------------------------------------------------
HandlerNext(t) == Execute(t) \/ Prepare(t) \/ Resume(t) \/ IsReady(t)

GroupNext(g) == PrepareOthers(g) \/ Turn(g) \/ SelectTH(g) \/ Dispatch(g)

Next ==
  \/ \E f \in Seed : BackDoorWrite(f)
  \/ Start
  \/ Tick
  \/ \E t \in TH : HandlerNext(t)
  \/ \E g \in Group : GroupNext(g)
  \/ \E d \in Dst : UpdatePipeline(d)

Spec == Init /\ [][Next]_vars

\* sc_start runs the thread as long as there is simulation time: elaboration comes
\* to its end and the agenda is worked off for ever.  Every step but BackDoorWrite
\* changes the agenda, so this is weak fairness of Next wherever Next is never
\* disabled, which the runs check.
FairSpec == Spec /\ []<><<TRUE>>_agenda

-----------------------------------------------------------------------------
\* What must hold.

\* The places in destination r where a bite of facet f is that was sent and is not
\* yet written: _CurrentBite is place 0.
BiteAt(r, i) == IF i = 0 THEN r.bite ELSE r.unit[i]

Places(d, r, f) ==
  {i \in 0 .. Stages[d] : BiteAt(r, i) # NoBite /\ BiteAt(r, i).facet = f}

\* The bytes of these bites, counted as pairs of a place and a number.
BytesIn(d, r, f) == UNION {{i} \X (1 .. BiteAt(r, i).size) : i \in Places(d, r, f)}

InPipeline(d, f) == Places(d, dst[d], f)

PipelineBytes(d, f) == Cardinality(BytesIn(d, dst[d], f))

IsPending(f) == \E d \in Dst : f \in ToSet(dst[d].pending)

\* Whether a transform has made f.
Made(f) == f.by \in Dst /\ (IsPending(f) \/ InPipeline(f.by, f) # {} \/ arrival[f] # 0)

\* CPacket::DstTransferredSize
Sent(f) ==
  LET r == dst[f.by]
  IN IF ~Made(f) THEN 0
     ELSE IF ~IsPending(f) THEN f.size
     ELSE IF Head(r.pending) = f THEN r.sent ELSE 0

BiteType == [facet : Facet, size : Nat \ {0}, last : BOOLEAN] \cup {NoBite}

\* The variables have their types.
TypeOK ==
  /\ elaborating \in BOOLEAN
  /\ \A c \in Chan : Ch(c)!TypeOK
  /\ agenda \in Seq([op : {"Execute", "Prepare", "Resume", "Turn", "IsReady", "Dispatch",
                           "UpdatePipeline"},
                     of : TH \cup Group \cup Dst])
  /\ thState \in [TH -> {"IDLE", "READY", "BUSY"}]
  /\ \A t \in TH : srcSet[t] \subseteq SourcesOf(t)
  /\ source \in [Src -> [facet : Facet \cup {None}, done : BOOLEAN]]
  /\ cone \in [Dst -> {"IDLE", "LOCK_SRC", "STREAMING", "DONE"}]
  /\ \A d \in Dst : LET r == dst[d] IN
       /\ r.pending \in Seq(Facet)
       /\ r.sent \in Nat
       /\ r.bite \in BiteType
       /\ r.unit \in [1 .. Stages[d] -> BiteType]
       /\ r.offset \in Nat
       /\ r.stream \in StreamState
       /\ r.pipeline \in PipelineState
       /\ r.active \in 1 - Cycle[d] .. Cycle[d]
       /\ r.update \in 1 - Cycle[d] .. Cycle[d]
       /\ r.point \in Nat
  /\ \A g \in Group : position[g] \in 0 .. Size(g) - 1 /\ readyTHs[g] \subseteq Members(g)
  /\ selector \in [Group -> Nat]
  /\ internalError \in BOOLEAN

\* No handler calls STOP() or exit(1): every lock that is given back was held, and
\* no cone set finishes before a pipelined source packet is complete.
NoInternalError == ~internalError

\* Between the transform and the channel no byte is lost or doubled: what the
\* destination has sent of a packet is in its pipeline or in the channel, and a
\* partly sent packet stays in front of _PendingQueue.
BytesConserved ==
  \A f \in Facet : f.by \in Dst => chSize[f] + PipelineBytes(f.by, f) = Sent(f)

\* A cone never sends bytes that its source packet has not received yet.
NotAheadOfSource ==
  \A t \in TH : thState[t] = "BUSY" =>
    \A d \in ConesOf(t) : LET src == source[SrcOf[d]] IN
      ~src.done => DataAvailable(src, dst[d].offset)

\* The room of a pipelined source packet is freed only when every cone that
\* reads it has taken the bytes.
FreedAfterAllCones ==
  \A t \in TH : thState[t] = "BUSY" =>
    \A d \in ConesOf(t) : LET src == source[SrcOf[d]] IN
      ~src.done => offset[src.facet] <= dst[d].offset

\* Two handlers never work on the same packet: it is claimed in the same call in
\* which it is picked up, before any other handler asks.
NoSharedPacket ==
  \A t, u \in TH : t # u /\ thState[t] # "IDLE" /\ thState[u] # "IDLE" =>
    \A s \in srcSet[t], r \in srcSet[u] :
      ~source[s].done /\ ~source[r].done => source[s].facet # source[r].facet

\* On a path through ordered channels the products arrive in the order of the
\* packets they were made of, and those of one packet in the transform's order.
OrderKept ==
  \A f, g \in Facet :
    /\ f.by = g.by /\ f.by \in Dst /\ arrival[f] # 0 /\ arrival[g] # 0
    /\ \/ f.of = g.of /\ f.idx < g.idx
       \/ /\ f.of # g.of /\ Ordered[Home(f.of)]
          /\ arrival[f.of] < arrival[g.of]
    => arrival[f] < arrival[g]

\* The arbiter's turn is with the child in whose share of the added-up weights the
\* selector lies: _Selector and _ArbRecord are kept apart and never drift.
SharesKept ==
  \A g \in Group : Kind[g] = "Arbiter" =>
    LET now == position[g] + 1
    IN /\ selector[g] < WeightSum(g)[now]
       /\ now > 1 => selector[g] >= WeightSum(g)[now - 1]

\* Every child gets its turn again and again: none that is to be resumed stays so.
TurnsGoRound ==
  \A g \in Group : TakesTurns(g) =>
    \A i \in 0 .. Size(g) - 1 : []<>(position[g] = i)

\* Each channel, in the midst of the handlers, behaves as Channel.tla says.
\* (This is Ch(c)!Spec for all c, with the quantifiers inside.)
ImplementsChannel ==
  /\ \A c \in Chan : Ch(c)!Init
  /\ [][\A c \in Chan : UNCHANGED Ch(c)!vars \/ Ch(c)!Next]_vars

\* "All DST are done, but some SRC are not done. ... Now begin SRC flushing..." warns
\* Execute: a handler that has sent its products is done with its sources.
FlushCompletes ==
  \A t \in TH :
    thState[t] = "IDLE" /\ (\A d \in ConesOf(t) : cone[d] = "DONE")
    => \A s \in srcSet[t] : source[s].done

\* A packet that some handler reads.
Wanted(f) == \E s \in Src : SrcCh[s] = Home(f) /\ f.by \in Accepts[s]

\* Nothing is under way: the destinations are empty, and what is in the channels
\* is there for nobody.
Drained ==
  /\ \A d \in Dst : LET r == dst[d] IN
       r.pending = <<>> /\ r.bite = NoBite /\ \A i \in 1 .. Stages[d] : r.unit[i] = NoBite
  /\ \A c \in Chan : \A f \in content[c] : ~Wanted(f)

\* Every packet reaches the end of its path: no lock, no full channel, no turn
\* and no halted pipeline keeps it for ever.
EverythingArrives == ~elaborating ~> Drained
=============================================================================
