------------------------------ MODULE DmaProofs ------------------------------
(***************************************************************************)
(* Proofs about the DMA loopback design, for any number of controllers and *)
(* blocks: the names, conditions and tags of its handlers fit together,    *)
(* the host gets the descriptors of a controller in order, and each step   *)
(* is one that the promise of Loopback allows.                             *)
(***************************************************************************)
EXTENDS Dma, SequenceTheorems, TLAPS

\* Names of the packets that are about a block; all others are about one command.
BlockNames ==
  {"CPR.fetch.req", "CPR.fetch", "PCIE.CPR.fetch", "PCIE.CPR.cpl", "CPR.cpl", "CPP.cmd"}

\* What NoOrphan needs of a packet p in channel c, strengthened to be kept by every
\* handler: where the conditions look at the requester, it must be there before.
Belongs(c, p) ==
  /\ c = At("Host_mem") \/ \E h \in Handlers : h.from = c /\ Accepts(h, p)
  /\ p.name \in {"PCIE.Data.fetch", "PCIE.Data.cpl"} => p.requester # None
  /\ c.name \in {"IDC_out", "IDC_in", "IDC_cpl"} => p.requester = c.of
  /\ p.name \in BlockNames => p.requester = None
  /\ Len(p.id) >= IF p.name \in BlockNames THEN 1 ELSE 2

\* What RoutedBack needs: a tagged packet, and one in the queue of a controller, was
\* asked for.
Asked(c, p) ==
  /\ p.requester # None => [idc |-> p.requester, id |-> Command(p)] \in ToSet(issued)
  /\ c.name = "IDC_req" => [idc |-> c.of, id |-> Command(p)] \in ToSet(issued)

AllBelong ==
  /\ \A c \in Channels : \A n \in DOMAIN channel[c] : Belongs(c, channel[c][n])
  /\ \A h \in Handlers : \A c \in h.cones : \A n \in DOMAIN pending[h][c] :
       Belongs(c.to, pending[h][c][n])

\* A packet that waits in a cone is not in the queue yet.
AllAsked ==
  /\ \A c \in Channels : \A n \in DOMAIN channel[c] : Asked(c, channel[c][n])
  /\ \A h \in Handlers : \A c \in h.cones : \A n \in DOMAIN pending[h][c] :
       pending[h][c][n].requester # None =>
         [idc |-> pending[h][c][n].requester, id |-> Command(pending[h][c][n])]
           \in ToSet(issued)

IInv == TypeOK /\ AllBelong /\ AllAsked

-----------------------------------------------------------------------------
\* The table of handlers.

\* A packet that a cone of handler h makes of a packet that h accepts belongs where
\* the cone puts it.
Passes(h, c) ==
  \A p, q \in Packet :
    /\ Belongs(h.from, p) /\ Accepts(h, p)
    /\ q.name = c.as
    /\ q.requester = IF c.tag = None THEN p.requester ELSE c.tag
    /\ Len(q.id) >= Len(p.id)
    /\ c.chunks # {} => Len(q.id) > Len(p.id)
    => Belongs(c.to, q)

\* Two names of packets about the same, neither of which tells that there is a requester.
Agree(name, as) ==
  /\ as \in Names
  /\ as \notin {"PCIE.Data.fetch", "PCIE.Data.cpl"}
  /\ as \in BlockNames <=> name \in BlockNames

\* A channel that is not one of those where every packet has a requester.
Target(to) ==
  /\ to \in Channels
  /\ to.name \notin {"IDC_out", "IDC_in", "IDC_cpl"}
  /\ to.name = "IDC_req" => to.of \in IDC

ConeOK(h, c) ==
  /\ c.to \in Channels /\ c.as \in Names /\ c.size \in Nat
  /\ c.tag \in IDC \cup {None} /\ c.chunks \subseteq Nat \ {0}
  /\ c.tag # None => h.from = Of("IDC_req", c.tag) /\ h.name = "Data.fetch.req"
  /\ c.to.name = "IDC_req" => c.to.of \in IDC
  /\ Passes(h, c)

HandlerOK(h) == h.from \in Channels /\ \A c \in h.cones : ConeOK(h, c)

\* That every packet of a name that is put into a channel is accepted there.
Read(to, as) ==
  \E g \in Handlers : g.from = to /\ g.name = as /\ g.requester = IDC \cup {None}

LEMMA HandlerReads ==
  ASSUME NEW from, NEW name, NEW cones, Handler(from, name, cones) \in Handlers
  PROVE  Read(from, name)
BY DEF Read, Handler

\* Cones that do not tag, and whose packets do not have to have a requester.
LEMMA Plain ==
  ASSUME NEW h, NEW c, Read(c.to, c.as), c.tag = None,
         c.as \notin {"PCIE.Data.fetch", "PCIE.Data.cpl"},
         c.to.name \notin {"IDC_out", "IDC_in", "IDC_cpl"},
         c.as \in BlockNames => h.name \in BlockNames,
         h.name \in BlockNames => c.as \in BlockNames \/ c.chunks # {}
  PROVE  Passes(h, c)
<1> SUFFICES ASSUME NEW p \in Packet, NEW q \in Packet,
                    Belongs(h.from, p), Accepts(h, p), q.name = c.as,
                    q.requester = p.requester, Len(q.id) >= Len(p.id),
                    c.chunks # {} => Len(q.id) > Len(p.id)
             PROVE  Belongs(c.to, q)
  BY DEF Passes
<1>1. \E g \in Handlers : g.from = c.to /\ Accepts(g, q)
  BY DEF Read, Accepts, Packet
<1>2. Len(p.id) \in Nat /\ Len(q.id) \in Nat
  BY DEF Packet
<1>3. p.name = h.name
  BY DEF Accepts
<1>4. Len(q.id) >= IF q.name \in BlockNames THEN 1 ELSE 2
  BY <1>2, <1>3 DEF Belongs
<1> QED
  BY <1>1, <1>3, <1>4 DEF Belongs

LEMMA ChannelNames ==
  /\ \A n \in {"PCIE_Egress", "PCIE_Ingress", "Host_mem", "CPLS_req", "CPLS_wr",
             "CMD_req", "CMD_fetch", "CMD_cpl", "CMD_fwd", "CPR_req", "CPR_fwd",
             "Mem_Data_in", "Mem_Data_out", "Mem_CTL"} : At(n) \in Channels /\ At(n).name = n
  /\ \A n \in {"IDC_req", "IDC_cpl", "IDC_out", "IDC_in"}, i \in IDC :
       Of(n, i) \in Channels /\ Of(n, i).name = n /\ Of(n, i).of = i
  /\ \A n \in {"ODC_req", "ODC_wr"}, o \in ODC : Of(n, o) \in Channels /\ Of(n, o).name = n
<1>1. \A n : At(n).name = n
  BY DEF At
<1>2. \A n, i : Of(n, i).name = n /\ Of(n, i).of = i
  BY DEF Of
<1> QED
  BY <1>1, <1>2 DEF Channels

LEMMA Targets ==
  /\ \A n \in {"PCIE_Egress", "PCIE_Ingress", "CPLS_req", "CPLS_wr", "CMD_req", "CMD_fetch",
             "CMD_cpl", "CMD_fwd", "CPR_fwd", "Mem_Data_in", "Mem_Data_out", "Mem_CTL"} :
       Target(At(n))
  /\ \A i \in IDC : Target(Of("IDC_req", i))
  /\ \A n \in {"ODC_req", "ODC_wr"}, o \in ODC : Target(Of(n, o))
BY ChannelNames DEF Target

\* Cones that rename, and cones that size as well.
LEMMA PlainCone ==
  ASSUME NEW h, NEW c, Target(c.to), Agree(h.name, c.as), Read(c.to, c.as),
         c.size \in Nat, c.tag = None, c.chunks = {}
  PROVE  ConeOK(h, c)
<1>1. Passes(h, c)
  BY Plain DEF Target, Agree
<1> QED
  BY <1>1 DEF ConeOK, Target, Agree

LEMMA Renames ==
  ASSUME NEW from \in Channels, NEW name, NEW to, NEW as,
         Target(to), Agree(name, as), Read(to, as)
  PROVE  HandlerOK(Handler(from, name, {Cone(to, as)}))
<1> DEFINE h == Handler(from, name, {Cone(to, as)})
           c == Cone(to, as)
<1>1. h.from = from /\ h.name = name /\ h.cones = {c}
  BY DEF Handler
<1>2. c.to = to /\ c.as = as /\ c.size \in Nat /\ c.tag = None /\ c.chunks = {}
  BY DEF Cone
<1> HIDE DEF h, c
<1>3. ConeOK(h, c)
  BY <1>1, <1>2, PlainCone
<1>4. HandlerOK(h)
  BY <1>1, <1>3 DEF HandlerOK
<1> QED
  BY <1>4 DEF h, c

LEMMA Sizes ==
  ASSUME NEW from \in Channels, NEW name, NEW to, NEW as, NEW size \in Nat,
         Target(to), Agree(name, as), Read(to, as)
  PROVE  HandlerOK(Handler(from, name, {Sized(to, as, size)}))
<1> DEFINE h == Handler(from, name, {Sized(to, as, size)})
           c == Sized(to, as, size)
<1>1. h.from = from /\ h.name = name /\ h.cones = {c}
  BY DEF Handler
<1>2. c.to = to /\ c.as = as /\ c.size \in Nat /\ c.tag = None /\ c.chunks = {}
  BY DEF Cone, Sized
<1> HIDE DEF h, c
<1>3. ConeOK(h, c)
  BY <1>1, <1>2, PlainCone
<1>4. HandlerOK(h)
  BY <1>1, <1>3 DEF HandlerOK
<1> QED
  BY <1>4 DEF h, c

\* The cones for which that is not enough.
LEMMA StoreOK ==
  ASSUME NEW name, NEW as \in Names, Agree(name, as), name \notin BlockNames
  PROVE  HandlerOK(Keep(name, as))
<1> DEFINE h == Keep(name, as)
           c == Cone(At("Host_mem"), as)
<1>1. h.from = At("PCIE_Egress") /\ h.name = name /\ h.cones = {c}
  BY DEF Handler, Keep
<1>2. c.to = At("Host_mem") /\ c.as = as /\ c.size \in Nat /\ c.tag = None /\ c.chunks = {}
  BY DEF Cone
<1> HIDE DEF h, c
<1>3. c.to \in Channels /\ c.to.name = "Host_mem" /\ h.from \in Channels
  BY <1>1, <1>2, ChannelNames
<1>4. Passes(h, c)
  <2> SUFFICES ASSUME NEW p \in Packet, NEW q \in Packet,
                      Belongs(h.from, p), Accepts(h, p), q.name = c.as,
                      q.requester = p.requester, Len(q.id) >= Len(p.id)
               PROVE  Belongs(c.to, q)
    BY <1>2 DEF Passes
  <2>1. Len(p.id) \in Nat /\ Len(q.id) \in Nat
    BY DEF Packet
  <2>2. p.name = name
    BY <1>1 DEF Accepts
  <2>3. Len(p.id) >= 2
    BY <2>2 DEF Belongs
  <2>4. q.name \notin {"PCIE.Data.fetch", "PCIE.Data.cpl"}
    BY <1>2 DEF Agree
  <2>5. q.name \notin BlockNames
    BY <1>2 DEF Agree
  <2>6. Len(q.id) >= 2
    BY <2>1, <2>3
  <2>7. Len(q.id) >= IF q.name \in BlockNames THEN 1 ELSE 2
    BY <2>5, <2>6
  <2>8. c.to.name \notin {"IDC_out", "IDC_in", "IDC_cpl"}
    BY <1>3
  <2> QED
    BY <1>2, <2>4, <2>5, <2>7, <2>8 DEF Belongs
<1>5. HandlerOK(h)
  BY <1>1, <1>2, <1>3, <1>4 DEF HandlerOK, ConeOK
<1> QED
  BY <1>5 DEF h

\* Where the packets have a requester, or have to have one.
Requested(h, c) ==
  \A p \in Packet : Belongs(h.from, p) /\ Accepts(h, p) =>
    /\ p.requester # None
    /\ c.to.name \in {"IDC_out", "IDC_in", "IDC_cpl"} => p.requester = c.to.of
    /\ \E g \in Handlers : g.from = c.to /\ g.name = c.as /\ p.requester \in g.requester

LEMMA WithRequester ==
  ASSUME NEW h, NEW c, Requested(h, c), c.tag = None, c.to \in Channels, c.as \in Names,
         c.size \in Nat, c.chunks = {}, c.to.name # "IDC_req",
         h.name \notin BlockNames, c.as \notin BlockNames
  PROVE  ConeOK(h, c)
<1>1. Passes(h, c)
  <2> SUFFICES ASSUME NEW p \in Packet, NEW q \in Packet,
                      Belongs(h.from, p), Accepts(h, p), q.name = c.as,
                      q.requester = p.requester, Len(q.id) >= Len(p.id)
               PROVE  Belongs(c.to, q)
    BY DEF Passes
  <2>1. Len(p.id) \in Nat /\ Len(q.id) \in Nat
    BY DEF Packet
  <2>2. p.name = h.name
    BY DEF Accepts
  <2>3. PICK g \in Handlers : /\ g.from = c.to /\ g.name = c.as /\ p.requester \in g.requester
    BY DEF Requested
  <2>4. Accepts(g, q)
    BY <2>3 DEF Accepts
  <2>5. Len(q.id) >= IF q.name \in BlockNames THEN 1 ELSE 2
    BY <2>1, <2>2 DEF Belongs
  <2>6. /\ p.requester # None
        /\ c.to.name \in {"IDC_out", "IDC_in", "IDC_cpl"} => p.requester = c.to.of
    BY DEF Requested
  <2> QED
    BY <2>3, <2>4, <2>5, <2>6 DEF Belongs
<1> QED
  BY <1>1 DEF ConeOK

LEMMA AnswerDataOK == HandlerOK(Answer("PCIE.Data.fetch", "PCIE.Data.cpl", 88))
<1> DEFINE h == Answer("PCIE.Data.fetch", "PCIE.Data.cpl", 88)
           c == Sized(At("PCIE_Ingress"), "PCIE.Data.cpl", 88)
           reader(i) == ForRequester(At("PCIE_Ingress"), "PCIE.Data.cpl", i,
                                     {Sized(Of("IDC_in", i), "Data.cpl", 64)})
<1>1. h.from = At("PCIE_Egress") /\ h.name = "PCIE.Data.fetch" /\ h.cones = {c}
  BY DEF Handler, Answer
<1>2. /\ c.to = At("PCIE_Ingress") /\ c.as = "PCIE.Data.cpl" /\ c.size \in Nat
      /\ c.tag = None /\ c.chunks = {}
  BY DEF Cone, Sized
<1>3. c.to \in Channels /\ c.to.name = "PCIE_Ingress" /\ h.from \in Channels
  BY <1>1, <1>2, ChannelNames
<1>4. h.name \notin BlockNames /\ c.as \notin BlockNames /\ c.as \in Names
  BY <1>1, <1>2 DEF BlockNames, Names
<1>5. \A i \in IDC : /\ reader(i) \in Handlers /\ reader(i).from = c.to
                    /\ reader(i).name = c.as /\ i \in reader(i).requester
  <2> TAKE i \in IDC
  <2>1. reader(i) \in Handlers
    BY DEF Handlers, CC
  <2> QED
    BY <1>2, <2>1 DEF ForRequester, Handler
<1> HIDE DEF h, c, reader
<1>6. ASSUME NEW p \in Packet, Belongs(h.from, p), Accepts(h, p)
      PROVE  /\ p.requester # None
             /\ \E g \in Handlers : g.from = c.to /\ g.name = c.as /\ p.requester \in g.requester
  <2>1. p.requester # None
    BY <1>1, <1>6 DEF Belongs, Accepts
  <2>2. p.requester \in IDC
    BY <2>1 DEF Packet
  <2> QED
    BY <1>5, <2>1, <2>2
<1>7. Requested(h, c)
  BY <1>3, <1>6 DEF Requested
<1>8. ConeOK(h, c)
  BY <1>2, <1>3, <1>4, <1>7, WithRequester
<1>9. HandlerOK(h)
  BY <1>1, <1>3, <1>8 DEF HandlerOK
<1> QED
  BY <1>9 DEF h

LEMMA HostOK == \A h \in Host : HandlerOK(h)
<1>1. Read(At("PCIE_Ingress"), "PCIE.CMD.cpl") /\ Read(At("PCIE_Ingress"), "PCIE.CPR.cpl")
  BY HandlerReads DEF Handlers, CC
<1>2. Agree("PCIE.CMD.fetch", "PCIE.CMD.cpl") /\ Agree("PCIE.CPR.fetch", "PCIE.CPR.cpl")
  BY DEF Agree, Names, BlockNames
<1>3. HandlerOK(Answer("PCIE.CMD.fetch", "PCIE.CMD.cpl", 56))
  BY <1>1, <1>2, Sizes, Targets, ChannelNames DEF Answer
<1>4. HandlerOK(Answer("PCIE.CPR.fetch", "PCIE.CPR.cpl", 88))
  BY <1>1, <1>2, Sizes, Targets, ChannelNames DEF Answer
<1>5. /\ Agree("PCIE.WR.Data", "Host.Data") /\ Agree("PCIE.WR.Desc", "Host.Desc")
      /\ "PCIE.WR.Data" \notin BlockNames /\ "PCIE.WR.Desc" \notin BlockNames
      /\ "Host.Data" \in Names /\ "Host.Desc" \in Names
  BY DEF Agree, Names, BlockNames
<1>6. HandlerOK(Keep("PCIE.WR.Data", "Host.Data")) /\ HandlerOK(Keep("PCIE.WR.Desc", "Host.Desc"))
  BY <1>5, StoreOK
<1> QED
  BY <1>3, <1>4, <1>6, AnswerDataOK DEF Host

LEMMA CPPOK == \A h \in CPP : HandlerOK(h)
<1>1. /\ Read(At("CMD_fetch"), "CPR.fetch") /\ Read(At("CMD_fetch"), "CMD.fetch")
      /\ Read(At("CPR_fwd"), "CPP.cmd")
  BY HandlerReads DEF Handlers, RRC, CMD_TRANS
<1>2. Read(At("CMD_fwd"), "EU.cmd")
  <2>1. PICK i \in IDC : TRUE
    BY DmaAssumption
  <2>2. Handler(At("CMD_fwd"), "EU.cmd", {Sized(Of("IDC_req", i), "Data.fetch.req", 16)}) \in Handlers
    BY DEF Handlers, XBAR_REQ
  <2> QED
    BY <2>2, HandlerReads
<1>3. /\ Agree("CPR.fetch.req", "CPR.fetch") /\ Agree("CMD.fetch.req", "CMD.fetch")
      /\ Agree("CMD.cpl", "EU.cmd") /\ Agree("CPR.cpl", "CPP.cmd")
  BY DEF Agree, Names, BlockNames
<1>4. HandlerOK(Handler(At("CPR_req"), "CPR.fetch.req", {Cone(At("CMD_fetch"), "CPR.fetch")}))
  BY <1>1, <1>3, Renames, Targets, ChannelNames
<1>5. HandlerOK(Handler(At("CMD_req"), "CMD.fetch.req", {Sized(At("CMD_fetch"), "CMD.fetch", 16)}))
  BY <1>1, <1>3, Sizes, Targets, ChannelNames
<1>6. HandlerOK(Handler(At("CMD_cpl"), "CMD.cpl", {Cone(At("CMD_fwd"), "EU.cmd")}))
  BY <1>2, <1>3, Renames, Targets, ChannelNames
<1>7. HandlerOK(Handler(At("CMD_cpl"), "CPR.cpl", {Cone(At("CPR_fwd"), "CPP.cmd")}))
  BY <1>1, <1>3, Renames, Targets, ChannelNames
<1> QED
  BY <1>4, <1>5, <1>6, <1>7 DEF CPP

\* A request of controller i gets its tag; what comes back has it.
LEMMA DataRequestOK == \A i \in IDC : HandlerOK(DataRequest(i))
<1> TAKE i \in IDC
<1> DEFINE h == DataRequest(i)
           c == [Cone(Of("IDC_out", i), "Data.fetch") EXCEPT
                   !.method = "onLENGTH", !.chunks = {64, 128, 256}, !.tag = i]
<1>1. h.from = Of("IDC_req", i) /\ h.name = "Data.fetch.req" /\ h.cones = {c}
  BY DEF Handler, DataRequest
<1>2. /\ c.to = Of("IDC_out", i) /\ c.as = "Data.fetch" /\ c.size \in Nat
      /\ c.tag = i /\ c.chunks = {64, 128, 256}
  BY DEF Cone
<1>3. i # None
  BY DmaAssumption
<1>4. Read(Of("IDC_out", i), "Data.fetch")
  <2>1. Handler(Of("IDC_out", i), "Data.fetch", {Cone(At("PCIE_Egress"), "PCIE.Data.fetch")}) \in Handlers
    BY DEF Handlers, RRC
  <2> QED
    BY <2>1, HandlerReads
<1> HIDE DEF h, c
<1>5. /\ c.to \in Channels /\ c.to.name = "IDC_out" /\ c.to.of = i /\ h.from \in Channels
  BY <1>1, <1>2, ChannelNames
<1>6. "Data.fetch.req" \notin BlockNames /\ "Data.fetch" \notin BlockNames /\ "Data.fetch" \in Names
  BY DEF BlockNames, Names
<1>7. Passes(h, c)
  <2> SUFFICES ASSUME NEW p \in Packet, NEW q \in Packet,
                      Belongs(h.from, p), Accepts(h, p), q.name = c.as,
                      q.requester = i, Len(q.id) >= Len(p.id)
               PROVE  Belongs(c.to, q)
    BY <1>2, <1>3 DEF Passes
  <2>1. Len(p.id) \in Nat /\ Len(q.id) \in Nat
    BY DEF Packet
  <2>2. p.name \notin BlockNames
    BY <1>1, <1>6 DEF Accepts
  <2>3. Len(p.id) >= 2
    BY <2>2 DEF Belongs
  <2>4. \E g \in Handlers : g.from = c.to /\ Accepts(g, q)
    BY <1>2, <1>4 DEF Read, Accepts
  <2> QED
    BY <1>2, <1>3, <1>5, <1>6, <2>1, <2>3, <2>4 DEF Belongs
<1>8. c.chunks \subseteq Nat \ {0}
  BY <1>2
<1>9. ConeOK(h, c)
  BY <1>1, <1>2, <1>5, <1>6, <1>7, <1>8 DEF ConeOK
<1>10. HandlerOK(h)
  BY <1>1, <1>5, <1>9 DEF HandlerOK
<1> QED
  BY <1>10 DEF h

LEMMA DataReplyOK == \A i \in IDC : HandlerOK(DataReply(i))
<1> TAKE i \in IDC
<1> DEFINE h == DataReply(i)
           c == Cone(Of("IDC_cpl", i), "EU.data")
<1>1. h.from = Of("IDC_in", i) /\ h.name = "Data.cpl" /\ h.cones = {c}
  BY DEF Handler, ForRequester, DataReply
<1>2. /\ c.to = Of("IDC_cpl", i) /\ c.as = "EU.data" /\ c.size \in Nat
      /\ c.tag = None /\ c.chunks = {}
  BY DEF Cone
<1>3. Read(Of("IDC_cpl", i), "EU.data")
  <2>1. Handler(Of("IDC_cpl", i), "EU.data", {Cone(At("Mem_Data_in"), "Mem.Data")}) \in Handlers
    BY DEF Handlers, XBAR_CPL
  <2> QED
    BY <2>1, HandlerReads
<1> HIDE DEF h, c
<1>4. /\ c.to \in Channels /\ c.to.name = "IDC_cpl" /\ c.to.of = i
      /\ h.from \in Channels /\ h.from.name = "IDC_in" /\ h.from.of = i
  BY <1>1, <1>2, ChannelNames
<1>5. h.name \notin BlockNames /\ c.as \notin BlockNames /\ c.as \in Names
  BY <1>1, <1>2 DEF BlockNames, Names
<1>6. Requested(h, c)
  <2> SUFFICES ASSUME NEW p \in Packet, Belongs(h.from, p)
               PROVE  /\ p.requester = i
                      /\ \E g \in Handlers : /\ g.from = c.to /\ g.name = c.as
                                            /\ p.requester \in g.requester
    BY <1>4, DmaAssumption DEF Requested
  <2>1. p.requester = i
    BY <1>4 DEF Belongs
  <2> QED
    BY <1>2, <1>3, <2>1 DEF Read
<1>7. ConeOK(h, c)
  BY <1>2, <1>4, <1>5, <1>6, WithRequester
<1>8. HandlerOK(h)
  BY <1>1, <1>4, <1>7 DEF HandlerOK
<1> QED
  BY <1>8 DEF h

LEMMA InputControllersOK == \A h \in InputControllers : HandlerOK(h)
BY DataRequestOK, DataReplyOK DEF InputControllers

\* The data of controller i goes to the host, and what comes back to controller i.
LEMMA RequestOK ==
  \A i \in IDC :
    HandlerOK(Handler(Of("IDC_out", i), "Data.fetch", {Cone(At("PCIE_Egress"), "PCIE.Data.fetch")}))
<1> TAKE i \in IDC
<1> DEFINE c == Cone(At("PCIE_Egress"), "PCIE.Data.fetch")
           h == Handler(Of("IDC_out", i), "Data.fetch", {c})
<1>1. h.from = Of("IDC_out", i) /\ h.name = "Data.fetch" /\ h.cones = {c}
  BY DEF Handler
<1>2. /\ c.to = At("PCIE_Egress") /\ c.as = "PCIE.Data.fetch" /\ c.size \in Nat
      /\ c.tag = None /\ c.chunks = {}
  BY DEF Cone
<1>3. Read(At("PCIE_Egress"), "PCIE.Data.fetch")
  <2>1. Handler(At("PCIE_Egress"), "PCIE.Data.fetch",
                {Sized(At("PCIE_Ingress"), "PCIE.Data.cpl", 88)}) \in Handlers
    BY DEF Handlers, Host, Answer
  <2> QED
    BY <2>1, HandlerReads
<1> HIDE DEF h, c
<1>4. /\ c.to \in Channels /\ c.to.name = "PCIE_Egress"
      /\ h.from \in Channels /\ h.from.name = "IDC_out" /\ h.from.of = i
  BY <1>1, <1>2, ChannelNames
<1>5. h.name \notin BlockNames /\ c.as \notin BlockNames /\ c.as \in Names
  BY <1>1, <1>2 DEF BlockNames, Names
<1>6. Requested(h, c)
  <2> SUFFICES ASSUME NEW p \in Packet, Belongs(h.from, p)
               PROVE  /\ p.requester = i
                      /\ \E g \in Handlers : /\ g.from = c.to /\ g.name = c.as
                                            /\ p.requester \in g.requester
    BY <1>4, DmaAssumption DEF Requested
  <2>1. p.requester = i
    BY <1>4 DEF Belongs
  <2> QED
    BY <1>2, <1>3, <2>1 DEF Read
<1>7. ConeOK(h, c)
  BY <1>2, <1>4, <1>5, <1>6, WithRequester
<1>8. HandlerOK(h)
  BY <1>1, <1>4, <1>7 DEF HandlerOK
<1> QED
  BY <1>8 DEF h, c

LEMMA CompletionOK ==
  \A i \in IDC :
    HandlerOK(ForRequester(At("PCIE_Ingress"), "PCIE.Data.cpl", i,
                           {Sized(Of("IDC_in", i), "Data.cpl", 64)}))
<1> TAKE i \in IDC
<1> DEFINE c == Sized(Of("IDC_in", i), "Data.cpl", 64)
           h == ForRequester(At("PCIE_Ingress"), "PCIE.Data.cpl", i, {c})
           g == DataReply(i)
<1>1. /\ h.from = At("PCIE_Ingress") /\ h.name = "PCIE.Data.cpl" /\ h.cones = {c}
      /\ h.requester = {i}
  BY DEF Handler, ForRequester
<1>2. /\ c.to = Of("IDC_in", i) /\ c.as = "Data.cpl" /\ c.size \in Nat
      /\ c.tag = None /\ c.chunks = {}
  BY DEF Cone, Sized
<1>3. g \in Handlers /\ g.from = c.to /\ g.name = c.as /\ i \in g.requester
  <2>1. g \in Handlers
    BY DEF Handlers, InputControllers
  <2> QED
    BY <1>2, <2>1 DEF DataReply, ForRequester, Handler
<1> HIDE DEF h, c, g
<1>4. /\ c.to \in Channels /\ c.to.name = "IDC_in" /\ c.to.of = i /\ h.from \in Channels
  BY <1>1, <1>2, ChannelNames
<1>5. h.name \notin BlockNames /\ c.as \notin BlockNames /\ c.as \in Names
  BY <1>1, <1>2 DEF BlockNames, Names
<1>6. Requested(h, c)
  <2> SUFFICES ASSUME NEW p \in Packet, Accepts(h, p)
               PROVE  /\ p.requester = i
                      /\ \E r \in Handlers : /\ r.from = c.to /\ r.name = c.as
                                            /\ p.requester \in r.requester
    BY <1>4, DmaAssumption DEF Requested
  <2>1. p.requester = i
    BY <1>1 DEF Accepts
  <2> QED
    BY <1>3, <2>1
<1>7. ConeOK(h, c)
  BY <1>2, <1>4, <1>5, <1>6, WithRequester
<1>8. HandlerOK(h)
  BY <1>1, <1>4, <1>7 DEF HandlerOK
<1> QED
  BY <1>8 DEF h, c

LEMMA RRCOK == \A h \in RRC : HandlerOK(h)
<1>1. Read(At("PCIE_Egress"), "PCIE.CMD.fetch") /\ Read(At("PCIE_Egress"), "PCIE.CPR.fetch")
  BY HandlerReads DEF Handlers, Host, Answer
<1>2. Agree("CMD.fetch", "PCIE.CMD.fetch") /\ Agree("CPR.fetch", "PCIE.CPR.fetch")
  BY DEF Agree, Names, BlockNames
<1>3. HandlerOK(Handler(At("CMD_fetch"), "CMD.fetch", {Cone(At("PCIE_Egress"), "PCIE.CMD.fetch")}))
  BY <1>1, <1>2, Renames, Targets, ChannelNames
<1>4. HandlerOK(Handler(At("CMD_fetch"), "CPR.fetch", {Cone(At("PCIE_Egress"), "PCIE.CPR.fetch")}))
  BY <1>1, <1>2, Renames, Targets, ChannelNames
<1> QED
  BY <1>3, <1>4, RequestOK DEF RRC

LEMMA CCOK == \A h \in CC : HandlerOK(h)
<1>1. Read(At("CMD_cpl"), "CMD.cpl") /\ Read(At("CMD_cpl"), "CPR.cpl")
  BY HandlerReads DEF Handlers, CPP
<1>2. Agree("PCIE.CMD.cpl", "CMD.cpl") /\ Agree("PCIE.CPR.cpl", "CPR.cpl")
  BY DEF Agree, Names, BlockNames
<1>3. HandlerOK(Handler(At("PCIE_Ingress"), "PCIE.CMD.cpl", {Sized(At("CMD_cpl"), "CMD.cpl", 32)}))
  BY <1>1, <1>2, Sizes, Targets, ChannelNames
<1>4. HandlerOK(Handler(At("PCIE_Ingress"), "PCIE.CPR.cpl",
                        {Sized(At("CMD_cpl"), "CPR.cpl", BlockSize)}))
  BY <1>1, <1>2, Sizes, Targets, ChannelNames, DmaAssumption
<1> QED
  BY <1>3, <1>4, CompletionOK DEF CC

\* Handlers that cut packets up: the pieces have longer identifiers.
LEMMA Splits ==
  ASSUME NEW h, NEW c, h.cones = {c}, h.from \in Channels,
         Target(c.to), Read(c.to, c.as), c.size \in Nat, c.tag = None,
         c.chunks # {}, c.chunks \subseteq Nat \ {0}, c.as \in Names, c.as \notin BlockNames,
         c.as \notin {"PCIE.Data.fetch", "PCIE.Data.cpl"}
  PROVE  HandlerOK(h)
<1>1. Passes(h, c)
  BY Plain DEF Target
<1>2. ConeOK(h, c)
  BY <1>1 DEF ConeOK, Target
<1> QED
  BY <1>2 DEF HandlerOK

LEMMA CMD_TRANSOK == \A h \in CMD_TRANS : HandlerOK(h)
<1> DEFINE c == [Cone(At("CMD_req"), "CMD.fetch.req") EXCEPT !.chunks = {2}]
           h == Handler(At("CPR_fwd"), "CPP.cmd", {c})
<1>1. h.cones = {c} /\ h.from = At("CPR_fwd")
  BY DEF Handler
<1>2. /\ c.to = At("CMD_req") /\ c.as = "CMD.fetch.req" /\ c.size \in Nat
      /\ c.tag = None /\ c.chunks = {2}
  BY DEF Cone
<1>3. Read(At("CMD_req"), "CMD.fetch.req")
  BY HandlerReads DEF Handlers, CPP
<1>4. CMD_TRANS = {h}
  BY DEF CMD_TRANS
<1>5. /\ "CMD.fetch.req" \in Names /\ "CMD.fetch.req" \notin BlockNames
  BY DEF Names, BlockNames
<1> HIDE DEF h, c
<1>6. HandlerOK(h)
  BY <1>1, <1>2, <1>3, <1>5, Splits, Targets, ChannelNames
<1> QED
  BY <1>4, <1>6

LEMMA CPLSOK == \A h \in CPLS : HandlerOK(h)
<1> DEFINE c == [Cone(At("CPLS_wr"), "WR.Desc") EXCEPT !.chunks = {128}]
           h == Handler(At("CPLS_req"), "Result.Desc", {c})
<1>1. h.cones = {c} /\ h.from = At("CPLS_req")
  BY DEF Handler
<1>2. /\ c.to = At("CPLS_wr") /\ c.as = "WR.Desc" /\ c.size \in Nat
      /\ c.tag = None /\ c.chunks = {128}
  BY DEF Cone
<1>3. Read(At("CPLS_wr"), "WR.Desc")
  BY HandlerReads DEF Handlers, WRC
<1>4. CPLS = {h}
  BY DEF CPLS
<1>5. /\ "WR.Desc" \in Names /\ "WR.Desc" \notin BlockNames
  BY DEF Names, BlockNames
<1> HIDE DEF h, c
<1>6. HandlerOK(h)
  BY <1>1, <1>2, <1>3, <1>5, Splits, Targets, ChannelNames
<1> QED
  BY <1>4, <1>6

LEMMA XBAR_CPLOK == \A h \in XBAR_CPL : HandlerOK(h)
<1>1. Read(At("Mem_Data_in"), "Mem.Data")
  BY HandlerReads DEF Handlers, EUx
<1>2. Agree("EU.data", "Mem.Data")
  BY DEF Agree, Names, BlockNames
<1> QED
  BY <1>1, <1>2, Renames, Targets, ChannelNames DEF XBAR_CPL

LEMMA OutputControllersOK == \A h \in OutputControllers : HandlerOK(h)
<1>1. \A o \in ODC : Read(Of("ODC_wr", o), "WR.Data")
  <2> TAKE o \in ODC
  <2>1. Handler(Of("ODC_wr", o), "WR.Data", {Cone(At("PCIE_Egress"), "PCIE.WR.Data")}) \in Handlers
    BY DEF Handlers, WRC
  <2> QED
    BY <2>1, HandlerReads
<1>2. Agree("Result.Data", "WR.Data")
  BY DEF Agree, Names, BlockNames
<1>3. \A o \in ODC : HandlerOK(Handler(Of("ODC_req", o), "Result.Data",
                                      {Cone(Of("ODC_wr", o), "WR.Data")}))
  BY <1>1, <1>2, Renames, Targets, ChannelNames
<1> QED
  BY <1>3 DEF OutputControllers

LEMMA WRCOK == \A h \in WRC : HandlerOK(h)
<1>1. Read(At("PCIE_Egress"), "PCIE.WR.Data") /\ Read(At("PCIE_Egress"), "PCIE.WR.Desc")
  BY HandlerReads DEF Handlers, Host, Keep
<1>2. Agree("WR.Data", "PCIE.WR.Data") /\ Agree("WR.Desc", "PCIE.WR.Desc")
  BY DEF Agree, Names, BlockNames
<1>3. \A o \in ODC : HandlerOK(Handler(Of("ODC_wr", o), "WR.Data",
                                      {Cone(At("PCIE_Egress"), "PCIE.WR.Data")}))
  BY <1>1, <1>2, Renames, Targets, ChannelNames
<1>4. HandlerOK(Handler(At("CPLS_wr"), "WR.Desc", {Cone(At("PCIE_Egress"), "PCIE.WR.Desc")}))
  BY <1>1, <1>2, Renames, Targets, ChannelNames
<1> QED
  BY <1>3, <1>4 DEF WRC

LEMMA XBAR_REQOK == \A h \in XBAR_REQ : HandlerOK(h)
<1>1. \A i \in IDC : Read(Of("IDC_req", i), "Data.fetch.req")
  <2> TAKE i \in IDC
  <2>1. DataRequest(i) \in Handlers
    BY DEF Handlers, InputControllers
  <2> QED
    BY <2>1, HandlerReads DEF DataRequest
<1>2. Agree("EU.cmd", "Data.fetch.req")
  BY DEF Agree, Names, BlockNames
<1>3. \A i \in IDC : HandlerOK(Handler(At("CMD_fwd"), "EU.cmd",
                                      {Sized(Of("IDC_req", i), "Data.fetch.req", 16)}))
  BY <1>1, <1>2, Sizes, Targets, ChannelNames
<1> QED
  BY <1>3 DEF XBAR_REQ

LEMMA EUxOK == \A h \in EUx : HandlerOK(h)
<1> DEFINE result == Cone(At("Mem_Data_out"), "Mem.Data.Out")
           descriptor == Sized(At("Mem_CTL"), "Mem.Desc", 16)
           h == Handler(At("Mem_Data_in"), "Mem.Data", {result, descriptor})
<1>1. h.from = At("Mem_Data_in") /\ h.name = "Mem.Data" /\ h.cones = {result, descriptor}
  BY DEF Handler
<1>2. /\ result.to = At("Mem_Data_out") /\ result.as = "Mem.Data.Out" /\ result.size \in Nat
      /\ result.tag = None /\ result.chunks = {}
  BY DEF Cone
<1>3. /\ descriptor.to = At("Mem_CTL") /\ descriptor.as = "Mem.Desc" /\ descriptor.size \in Nat
      /\ descriptor.tag = None /\ descriptor.chunks = {}
  BY DEF Cone, Sized
<1>4. Read(At("Mem_Data_out"), "Mem.Data.Out")
  <2>1. PICK o \in ODC : TRUE
    BY DmaAssumption
  <2>2. Handler(At("Mem_Data_out"), "Mem.Data.Out", {Cone(Of("ODC_req", o), "Result.Data")}) \in Handlers
    BY DEF Handlers, XBAR_WR
  <2> QED
    BY <2>2, HandlerReads
<1>5. Read(At("Mem_CTL"), "Mem.Desc")
  BY HandlerReads DEF Handlers, Descriptors
<1>6. Agree("Mem.Data", "Mem.Data.Out") /\ Agree("Mem.Data", "Mem.Desc")
  BY DEF Agree, Names, BlockNames
<1>7. EUx = {h}
  BY DEF EUx
<1> HIDE DEF h, result, descriptor
<1>8. ConeOK(h, result)
  BY <1>1, <1>2, <1>4, <1>6, PlainCone, Targets
<1>9. ConeOK(h, descriptor)
  BY <1>1, <1>3, <1>5, <1>6, PlainCone, Targets
<1> QED
  BY <1>1, <1>7, <1>8, <1>9, ChannelNames DEF HandlerOK

LEMMA XBAR_WROK == \A h \in XBAR_WR : HandlerOK(h)
<1>1. \A o \in ODC : Read(Of("ODC_req", o), "Result.Data")
  <2> TAKE o \in ODC
  <2>1. Handler(Of("ODC_req", o), "Result.Data", {Cone(Of("ODC_wr", o), "WR.Data")}) \in Handlers
    BY DEF Handlers, OutputControllers
  <2> QED
    BY <2>1, HandlerReads
<1>2. Agree("Mem.Data.Out", "Result.Data")
  BY DEF Agree, Names, BlockNames
<1>3. \A o \in ODC : HandlerOK(Handler(At("Mem_Data_out"), "Mem.Data.Out",
                                      {Cone(Of("ODC_req", o), "Result.Data")}))
  BY <1>1, <1>2, Renames, Targets, ChannelNames
<1> QED
  BY <1>3 DEF XBAR_WR

LEMMA DescriptorsOK == \A h \in Descriptors : HandlerOK(h)
<1>1. Read(At("CPLS_req"), "Result.Desc")
  BY HandlerReads DEF Handlers, CPLS
<1>2. Agree("Mem.Desc", "Result.Desc")
  BY DEF Agree, Names, BlockNames
<1> QED
  BY <1>1, <1>2, Renames, Targets, ChannelNames DEF Descriptors

\* The names, conditions and tags of all handlers fit together.
LEMMA AllHandlersOK == \A h \in Handlers : HandlerOK(h)
BY HostOK, CPPOK, InputControllersOK, RRCOK, CCOK, CMD_TRANSOK, XBAR_CPLOK,
   OutputControllersOK, CPLSOK, WRCOK, XBAR_REQOK, EUxOK, XBAR_WROK, DescriptorsOK
   DEF Handlers

-----------------------------------------------------------------------------
\* What a cone makes of a packet.

LEMMA LongerCommand ==
  ASSUME NEW p \in Packet, NEW q \in Packet, NEW j \in Nat,
         Len(p.id) >= 2, q.id = Append(p.id, j)
  PROVE  Command(q) = Command(p)
<1>1. p.id \in Seq(Nat)
  BY DEF Packet
<1>2. Len(p.id) \in Nat /\ Len(q.id) = Len(p.id) + 1
  BY <1>1
<1>3. q.id[1] = p.id[1] /\ q.id[2] = p.id[2]
  BY <1>1, <1>2
<1> QED
  BY <1>1, <1>2, <1>3 DEF Command

LEMMA RoundsNat ==
  ASSUME NEW n \in Nat, NEW chunk \in Nat \ {0}
  PROVE  Rounds(n, chunk) \in Nat
<1>1. n \div chunk \in Nat /\ n % chunk \in Nat
  OBVIOUS
<1> QED
  BY <1>1 DEF Rounds

LEMMA DressedOK ==
  ASSUME NEW h, NEW c, ConeOK(h, c), NEW p \in Packet
  PROVE  /\ Dressed(c, p) \in Packet
         /\ Dressed(c, p).name = c.as /\ Dressed(c, p).id = p.id
         /\ Dressed(c, p).requester = IF c.tag = None THEN p.requester ELSE c.tag
BY DEF Dressed, ConeOK, Packet

LEMMA PieceOK ==
  ASSUME NEW p \in Packet, NEW x, x.chunk \in Nat \ {0}, NEW rounds \in Nat,
         NEW j \in 1 .. rounds
  PROVE  /\ Piece(x, p, j, rounds) \in Packet
         /\ Piece(x, p, j, rounds).name = p.name
         /\ Piece(x, p, j, rounds).requester = p.requester
         /\ Piece(x, p, j, rounds).id = Append(p.id, j)
<1> DEFINE part(n) == IF j = rounds THEN LastPiece(n, x.chunk) ELSE x.chunk
<1>1. \A n \in Nat : part(n) \in Nat
  <2> TAKE n \in Nat
  <2>1. n % x.chunk \in Nat
    OBVIOUS
  <2> QED
    BY <2>1 DEF LastPiece
<1>2. part(p.length) \in Nat /\ part(p.size) \in Nat
  BY <1>1 DEF Packet
<1>3. Append(p.id, j) \in Seq(Nat)
  BY DEF Packet
<1>4. Append(p.split, [source |-> p.id, total |-> rounds])
        \in Seq([source : Seq(Nat), total : Nat])
  BY DEF Packet
<1> HIDE DEF part
<1> QED
  BY <1>2, <1>3, <1>4 DEF Piece, CopyOf, Packet, part

\* From the packet that it takes, a cone makes packets of its own name; each has the
\* requester that the tag says, is about the same command, and has a longer
\* identifier if the cone splits.
Made(c, p, q) ==
  /\ q.name = c.as
  /\ q.requester = IF c.tag = None THEN p.requester ELSE c.tag
  /\ Len(q.id) >= Len(p.id)
  /\ c.chunks # {} => Len(q.id) > Len(p.id)
  /\ Len(p.id) >= 2 => Command(q) = Command(p)

LEMMA ResultsOK ==
  ASSUME NEW h, NEW c, ConeOK(h, c), NEW p \in Packet, NEW made \in Results(c, p)
  PROVE  made \in Seq(Packet) /\ \A n \in DOMAIN made : Made(c, p, made[n])
<1> DEFINE d == Dressed(c, p)
<1>1. /\ d \in Packet /\ d.name = c.as /\ d.id = p.id
      /\ d.requester = IF c.tag = None THEN p.requester ELSE c.tag
  BY DressedOK
<1> HIDE DEF d
<1>2. CASE c.chunks = {}
  <2>1. made = <<d>>
    BY <1>2 DEF Results, d
  <2>2. Made(c, p, d)
    BY <1>1, <1>2 DEF Made, Command, Packet
  <2> QED
    BY <1>1, <2>1, <2>2
<1>3. CASE c.chunks # {}
  <2>1. PICK k \in c.chunks : made = Pieces([method |-> c.method, chunk |-> k], d)
    BY <1>3 DEF Results, d
  <2> DEFINE x == [method |-> c.method, chunk |-> k]
             rounds == Rounds(IF x.method = "onLENGTH" THEN d.length ELSE d.size, x.chunk)
  <2>2. x.chunk \in Nat \ {0}
    BY DEF ConeOK
  <2>3. rounds \in Nat
    BY <1>1, <2>2, RoundsNat DEF Packet
  <2>4. made = [j \in 1 .. rounds |-> Piece(x, d, j, rounds)]
    BY <2>1 DEF Pieces
  <2> HIDE DEF x, rounds
  <2>5. \A j \in 1 .. rounds : /\ made[j] \in Packet /\ made[j].name = d.name
                              /\ made[j].requester = d.requester
                              /\ made[j].id = Append(d.id, j)
    <3> TAKE j \in 1 .. rounds
    <3>1. made[j] = Piece(x, d, j, rounds)
      BY <2>4
    <3>2. /\ Piece(x, d, j, rounds) \in Packet
          /\ Piece(x, d, j, rounds).name = d.name
          /\ Piece(x, d, j, rounds).requester = d.requester
          /\ Piece(x, d, j, rounds).id = Append(d.id, j)
      BY <1>1, <2>2, <2>3, PieceOK
    <3> QED
      BY <3>1, <3>2
  <2>6. made \in Seq(Packet) /\ DOMAIN made = 1 .. rounds
    BY <2>3, <2>4, <2>5
  <2>7. ASSUME NEW j \in 1 .. rounds
        PROVE  Made(c, p, made[j])
    <3>1. j \in Nat /\ p.id \in Seq(Nat) /\ made[j].id = Append(p.id, j)
      BY <1>1, <2>5 DEF Packet
    <3>2. Len(p.id) \in Nat /\ Len(made[j].id) = Len(p.id) + 1
      BY <3>1
    <3>3. Len(p.id) >= 2 => Command(made[j]) = Command(p)
      BY <2>5, <3>1, LongerCommand
    <3> QED
      BY <1>1, <2>5, <3>2, <3>3 DEF Made
  <2> QED
    BY <2>6, <2>7
<1> QED
  BY <1>2, <1>3

\* ... and so they belong where they go, and were asked for if they have a requester.
LEMMA MadeOK ==
  ASSUME NEW h, NEW c, ConeOK(h, c), NEW p \in Packet, NEW q \in Packet,
         Belongs(h.from, p), Asked(h.from, p), Accepts(h, p), Made(c, p, q)
  PROVE  /\ Belongs(c.to, q)
         /\ q.requester # None =>
              [idc |-> q.requester, id |-> Command(q)] \in ToSet(issued)
<1>1. Belongs(c.to, q)
  BY DEF ConeOK, Passes, Made
<1>2. ASSUME q.requester # None
      PROVE  [idc |-> q.requester, id |-> Command(q)] \in ToSet(issued)
  <2>1. CASE c.tag = None
    <3>1. q.requester = p.requester
      BY <2>1 DEF Made
    <3>2. Len(p.id) >= 2
      BY <1>2, <3>1 DEF Belongs
    <3> QED
      BY <1>2, <3>1, <3>2 DEF Asked, Made
  <2>2. CASE c.tag # None
    <3>1. q.requester = c.tag /\ h.from = Of("IDC_req", c.tag) /\ p.name = "Data.fetch.req"
      BY <2>2 DEF Made, ConeOK, Accepts
    <3>2. "Data.fetch.req" \notin BlockNames
      BY DEF BlockNames
    <3>3. Len(p.id) >= 2
      BY <3>1, <3>2 DEF Belongs
    <3>4. h.from.name = "IDC_req" /\ h.from.of = c.tag
      BY <3>1 DEF Of
    <3> QED
      BY <3>1, <3>3, <3>4 DEF Asked, Made
  <2> QED
    BY <2>1, <2>2
<1> QED
  BY <1>1, <1>2

\* Only requests for data are put into the queue of a controller.
LEMMA QueueNames ==
  \A h \in Handlers : h.from.name = "IDC_req" => h.name = "Data.fetch.req"
<1> DEFINE Fine(S) == \A h \in S : h.from.name = "IDC_req" => h.name = "Data.fetch.req"
<1>1. \A from, name, cones : /\ Handler(from, name, cones).from = from
                             /\ Handler(from, name, cones).name = name
  BY DEF Handler
<1>2. \A from, name, i, cones : /\ ForRequester(from, name, i, cones).from = from
                                /\ ForRequester(from, name, i, cones).name = name
  BY DEF Handler, ForRequester
<1>3. \A n, u : At(n).name = n /\ Of(n, u).name = n
  BY DEF At, Of
<1>4. Fine(Host) /\ Fine(CPP)
  BY <1>1, <1>3 DEF Host, CPP, Answer, Keep
<1>5. Fine(InputControllers)
  <2>1. \A i \in IDC : DataRequest(i).name = "Data.fetch.req"
    BY <1>1 DEF DataRequest
  <2>2. \A i \in IDC : DataReply(i).from.name = "IDC_in"
    BY <1>2, <1>3 DEF DataReply
  <2> QED
    BY <2>1, <2>2 DEF InputControllers
<1>6. Fine(RRC) /\ Fine(WRC)
  BY <1>1, <1>3 DEF RRC, WRC
<1>7. ASSUME NEW h \in CC PROVE h.from = At("PCIE_Ingress")
  <2>1. CASE \E i \in IDC : h = ForRequester(At("PCIE_Ingress"), "PCIE.Data.cpl", i,
                                             {Sized(Of("IDC_in", i), "Data.cpl", 64)})
    <3>1. PICK i \in IDC : h = ForRequester(At("PCIE_Ingress"), "PCIE.Data.cpl", i,
                                            {Sized(Of("IDC_in", i), "Data.cpl", 64)})
      BY <2>1
    <3> QED
      BY <1>2, <3>1
  <2>2. CASE h = Handler(At("PCIE_Ingress"), "PCIE.CMD.cpl",
                         {Sized(At("CMD_cpl"), "CMD.cpl", 32)})
    BY <1>1, <2>2
  <2>3. CASE h = Handler(At("PCIE_Ingress"), "PCIE.CPR.cpl",
                         {Sized(At("CMD_cpl"), "CPR.cpl", BlockSize)})
    BY <1>1, <2>3
  <2> QED
    BY <2>1, <2>2, <2>3 DEF CC
<1>8. Fine(CMD_TRANS)
  BY <1>1, <1>3 DEF CMD_TRANS
<1>9. Fine(XBAR_CPL)
  BY <1>1, <1>3 DEF XBAR_CPL
<1>10. Fine(OutputControllers)
  <2> TAKE h \in OutputControllers
  <2>1. PICK o \in ODC : h = Handler(Of("ODC_req", o), "Result.Data", {Cone(Of("ODC_wr", o), "WR.Data")})
    BY DEF OutputControllers
  <2> QED
    BY <1>1, <1>3, <2>1
<1>11. Fine(CPLS)
  BY <1>1, <1>3 DEF CPLS
<1>12. Fine(XBAR_REQ)
  <2> TAKE h \in XBAR_REQ
  <2>1. PICK i \in IDC : h = Handler(At("CMD_fwd"), "EU.cmd",
                             {Sized(Of("IDC_req", i), "Data.fetch.req", 16)})
    BY DEF XBAR_REQ
  <2> QED
    BY <1>1, <1>3, <2>1
<1>13. Fine(EUx)
  BY <1>1, <1>3 DEF EUx
<1>14. Fine(XBAR_WR)
  <2> TAKE h \in XBAR_WR
  <2>1. PICK o \in ODC : h = Handler(At("Mem_Data_out"), "Mem.Data.Out", {Cone(Of("ODC_req", o), "Result.Data")})
    BY DEF XBAR_WR
  <2> QED
    BY <1>1, <1>3, <2>1
<1>15. Fine(Descriptors)
  BY <1>1, <1>3 DEF Descriptors
<1> QED
  BY <1>3, <1>4, <1>5, <1>6, <1>7, <1>8, <1>9, <1>10, <1>11, <1>12, <1>13, <1>14, <1>15
     DEF Handlers

-----------------------------------------------------------------------------
\* The invariant is inductive.

\* Requests that were made stay made.
LEMMA IssuedGrows ==
  ASSUME TypeOK, NEW e
  PROVE  ToSet(issued) \subseteq ToSet(Append(issued, e)) /\ e \in ToSet(Append(issued, e))
<1>1. issued \in Seq([idc : IDC, id : Seq(Nat)])
  BY DEF TypeOK
<1>2. Len(issued) \in Nat
  BY <1>1
<1>3. Append(issued, e)[Len(issued) + 1] = e
  BY <1>1, <1>2
<1>4. \A n \in 1 .. Len(issued) : Append(issued, e)[n] = issued[n]
  BY <1>1, <1>2
<1>5. DOMAIN issued = 1 .. Len(issued) /\ DOMAIN Append(issued, e) = 1 .. Len(issued) + 1
  BY <1>1, <1>2
<1> QED
  BY <1>2, <1>3, <1>4, <1>5 DEF ToSet

\* The members of a concatenation are those of its parts.
LEMMA OfConcat ==
  ASSUME NEW S, NEW s \in Seq(S), NEW t \in Seq(S), NEW n \in DOMAIN (s \o t)
  PROVE  \/ \E m \in DOMAIN s : (s \o t)[n] = s[m]
         \/ \E m \in DOMAIN t : (s \o t)[n] = t[m]
<1>1. Len(s) \in Nat /\ Len(t) \in Nat /\ DOMAIN s = 1 .. Len(s) /\ DOMAIN t = 1 .. Len(t)
  OBVIOUS
<1>2. n \in 1 .. Len(s) + Len(t)
  OBVIOUS
<1>3. CASE n <= Len(s)
  <2>1. n \in DOMAIN s
    BY <1>1, <1>2, <1>3
  <2>2. (s \o t)[n] = s[n]
    BY <1>1, <1>2, <1>3
  <2> QED
    BY <2>1, <2>2
<1>4. CASE n > Len(s)
  <2>1. n - Len(s) \in DOMAIN t
    BY <1>1, <1>2, <1>4
  <2>2. (s \o t)[n] = t[n - Len(s)]
    BY <1>1, <1>2, <1>4
  <2> QED
    BY <2>1, <2>2
<1> QED
  BY <1>1, <1>2, <1>3, <1>4

LEMMA InitIInv == Init => IInv
<1> SUFFICES ASSUME Init PROVE IInv
  OBVIOUS
<1>1. \A k \in Nat : Stimulus(k) \in Packet
  <2> TAKE k \in Nat
  <2>1. "CPR.fetch.req" \in Names /\ <<k>> \in Seq(Nat)
    BY DEF Names
  <2> QED
    BY <2>1 DEF Stimulus, Packet
<1>2. TypeOK
  <2> DEFINE stimuli == [k \in 1 .. Count |-> Stimulus(k)]
  <2>1. stimuli \in Seq(Packet) /\ <<>> \in Seq(Packet)
    BY <1>1, DmaAssumption
  <2>2. channel = [c \in Channels |-> IF c = At("CPR_req") THEN stimuli ELSE <<>>]
    BY DEF Init
  <2> HIDE DEF stimuli
  <2>3. channel \in [Channels -> Seq(Packet)]
    BY <2>1, <2>2
  <2>4. \A h \in Handlers : pending[h] \in [h.cones -> Seq(Packet)]
    BY <2>1 DEF Init
  <2> QED
    BY <2>3, <2>4 DEF Init, TypeOK
<1>3. \A h \in Handlers : \A c \in h.cones : DOMAIN pending[h][c] = {}
  BY DEF Init
<1>4. \A c \in Channels \ {At("CPR_req")} : DOMAIN channel[c] = {}
  BY DEF Init
<1>5. ASSUME NEW n \in DOMAIN channel[At("CPR_req")]
      PROVE  /\ Belongs(At("CPR_req"), channel[At("CPR_req")][n])
             /\ Asked(At("CPR_req"), channel[At("CPR_req")][n])
  <2>1. At("CPR_req") \in Channels /\ At("CPR_req").name = "CPR_req"
    BY ChannelNames
  <2>2. PICK k \in Nat : channel[At("CPR_req")][n] = Stimulus(k)
    BY <2>1, DmaAssumption DEF Init
  <2> DEFINE p == channel[At("CPR_req")][n]
  <2>3. p.name = "CPR.fetch.req" /\ p.requester = None /\ Len(p.id) = 1
    BY <2>2 DEF Stimulus
  <2> HIDE DEF p
  <2>4. \E h \in Handlers : h.from = At("CPR_req") /\ Accepts(h, p)
    <3>1. Read(At("CPR_req"), "CPR.fetch.req")
      BY HandlerReads DEF Handlers, CPP
    <3> QED
      BY <2>3, <3>1 DEF Read, Accepts
  <2>5. "CPR.fetch.req" \in BlockNames
    BY DEF BlockNames
  <2>6. Belongs(At("CPR_req"), p)
    BY <2>1, <2>3, <2>4, <2>5 DEF Belongs
  <2>7. Asked(At("CPR_req"), p)
    BY <2>1, <2>3 DEF Asked
  <2> QED
    BY <2>6, <2>7 DEF p
<1>6. AllBelong
  BY <1>3, <1>4, <1>5 DEF AllBelong
<1>7. AllAsked
  BY <1>3, <1>4, <1>5 DEF AllAsked
<1> QED
  BY <1>2, <1>6, <1>7 DEF IInv

LEMMA TakeIInv ==
  ASSUME IInv, NEW h \in Handlers, Take(h)
  PROVE  IInv'
<1> DEFINE p == Head(channel[h.from])
<1>1. HandlerOK(h) /\ h.from \in Channels /\ \A c \in h.cones : ConeOK(h, c)
  BY AllHandlersOK DEF HandlerOK
<1>2. channel[h.from] \in Seq(Packet) /\ channel[h.from] # <<>> /\ Accepts(h, p)
  BY <1>1 DEF IInv, TypeOK, Take
<1>3. p = channel[h.from][1] /\ 1 \in DOMAIN channel[h.from] /\ p \in Packet
  BY <1>2
<1>4. Belongs(h.from, p) /\ Asked(h.from, p)
  BY <1>1, <1>3 DEF IInv, AllBelong, AllAsked
<1>5. PICK made \in [h.cones -> UNION {Results(c, p) : c \in h.cones}] :
        /\ \A c \in h.cones : made[c] \in Results(c, p)
        /\ pending' = [pending EXCEPT ![h] = [c \in h.cones |-> @[c] \o made[c]]]
  BY DEF Take
<1>6. channel' = [channel EXCEPT ![h.from] = Tail(@)] /\ issued' = issued
  BY DEF Take
<1> HIDE DEF p
<1>7. \A c \in h.cones :
        made[c] \in Seq(Packet) /\ \A n \in DOMAIN made[c] : Made(c, p, made[c][n])
  BY <1>1, <1>3, <1>5, ResultsOK
<1>8. ASSUME NEW c \in h.cones, NEW n \in DOMAIN made[c]
      PROVE  /\ Belongs(c.to, made[c][n])
             /\ made[c][n].requester # None =>
                  [idc |-> made[c][n].requester, id |-> Command(made[c][n])] \in ToSet(issued)
  <2>1. made[c][n] \in Packet
    BY <1>7
  <2> QED
    BY <1>1, <1>2, <1>3, <1>4, <1>7, <2>1, MadeOK
<1>9. TypeOK'
  <2>1. channel' \in [Channels -> Seq(Packet)]
    BY <1>1, <1>2, <1>6 DEF IInv, TypeOK
  <2>2. DOMAIN pending' = Handlers
    BY <1>5 DEF IInv, TypeOK
  <2>3. ASSUME NEW g \in Handlers
        PROVE  pending'[g] \in [g.cones -> Seq(Packet)]
    BY <1>5, <1>7 DEF IInv, TypeOK
  <2> QED
    BY <1>6, <2>1, <2>2, <2>3 DEF IInv, TypeOK
\* What is left in the channels was there before.
<1>10. ASSUME NEW c \in Channels, NEW n \in DOMAIN channel'[c]
       PROVE  \E m \in DOMAIN channel[c] : channel'[c][n] = channel[c][m]
  <2>1. CASE c = h.from
    <3>1. channel'[c] = Tail(channel[c])
      BY <1>6, <2>1 DEF IInv, TypeOK
    <3>2. n \in 1 .. Len(channel[c]) - 1 /\ channel'[c][n] = channel[c][n + 1]
      BY <1>2, <2>1, <3>1
    <3>3. n + 1 \in DOMAIN channel[c]
      BY <1>2, <2>1, <3>2
    <3> QED
      BY <3>2, <3>3
  <2>2. CASE c # h.from
    BY <1>6, <2>2 DEF IInv, TypeOK
  <2> QED
    BY <2>1, <2>2
\* What is pending was so before, or has been made.
<1>11. ASSUME NEW g \in Handlers, NEW c \in g.cones, NEW n \in DOMAIN pending'[g][c]
       PROVE  \/ \E m \in DOMAIN pending[g][c] : pending'[g][c][n] = pending[g][c][m]
              \/ g = h /\ \E m \in DOMAIN made[c] : pending'[g][c][n] = made[c][m]
  <2>1. CASE g # h
    BY <1>5, <2>1 DEF IInv, TypeOK
  <2>2. CASE g = h
    <3> DEFINE before == pending[g][c]
               new == made[c]
    <3>1. pending'[g][c] = before \o new
      BY <1>5, <2>2 DEF IInv, TypeOK
    <3>2. before \in Seq(Packet) /\ new \in Seq(Packet)
      BY <1>7, <2>2 DEF IInv, TypeOK
    <3> HIDE DEF before, new
    <3>3. n \in DOMAIN (before \o new)
      BY <3>1
    <3>4. \/ \E m \in DOMAIN before : (before \o new)[n] = before[m]
          \/ \E m \in DOMAIN new : (before \o new)[n] = new[m]
      BY <3>2, <3>3, OfConcat
    <3> QED
      BY <2>2, <3>1, <3>4 DEF before, new
  <2> QED
    BY <2>1, <2>2
<1>12. AllBelong'
  <2>1. \A c \in Channels : \A n \in DOMAIN channel'[c] : Belongs(c, channel'[c][n])
    BY <1>10 DEF IInv, AllBelong
  <2>2. \A g \in Handlers : \A c \in g.cones : \A n \in DOMAIN pending'[g][c] :
          Belongs(c.to, pending'[g][c][n])
    <3> TAKE g \in Handlers
    <3> TAKE c \in g.cones
    <3> TAKE n \in DOMAIN pending'[g][c]
    <3>1. \A m \in DOMAIN pending[g][c] : Belongs(c.to, pending[g][c][m])
      BY DEF IInv, AllBelong
    <3>2. CASE \E m \in DOMAIN pending[g][c] : pending'[g][c][n] = pending[g][c][m]
      BY <3>1, <3>2
    <3>3. CASE g = h /\ \E m \in DOMAIN made[c] : pending'[g][c][n] = made[c][m]
      BY <1>8, <3>3
    <3> QED
      BY <1>11, <3>2, <3>3
  <2> QED
    BY <2>1, <2>2 DEF AllBelong, Belongs
<1>13. AllAsked'
  <2>1. \A c \in Channels : \A n \in DOMAIN channel'[c] : Asked(c, channel'[c][n])
    BY <1>10 DEF IInv, AllAsked
  <2>2. \A g \in Handlers : \A c \in g.cones : \A n \in DOMAIN pending'[g][c] :
          pending'[g][c][n].requester # None =>
            [idc |-> pending'[g][c][n].requester, id |-> Command(pending'[g][c][n])]
              \in ToSet(issued)
    <3> TAKE g \in Handlers
    <3> TAKE c \in g.cones
    <3> TAKE n \in DOMAIN pending'[g][c]
    <3>1. \A m \in DOMAIN pending[g][c] : pending[g][c][m].requester # None =>
            [idc |-> pending[g][c][m].requester, id |-> Command(pending[g][c][m])]
              \in ToSet(issued)
      BY DEF IInv, AllAsked
    <3>2. CASE \E m \in DOMAIN pending[g][c] : pending'[g][c][n] = pending[g][c][m]
      BY <3>1, <3>2
    <3>3. CASE g = h /\ \E m \in DOMAIN made[c] : pending'[g][c][n] = made[c][m]
      BY <1>8, <3>3
    <3> QED
      BY <1>11, <3>2, <3>3
  <2> QED
    BY <1>6, <2>1, <2>2 DEF AllAsked, Asked
<1> QED
  BY <1>9, <1>12, <1>13 DEF IInv

LEMMA PutIInv ==
  ASSUME IInv, NEW h \in Handlers, NEW c \in h.cones, Put(h, c)
  PROVE  IInv'
<1> DEFINE p == Head(pending[h][c])
           request == [idc |-> c.to.of, id |-> Command(p)]
<1>1. c.to \in Channels /\ (c.to.name = "IDC_req" => c.to.of \in IDC)
  BY AllHandlersOK DEF HandlerOK, ConeOK
<1>2. pending[h][c] \in Seq(Packet) /\ pending[h][c] # <<>>
  BY DEF IInv, TypeOK, Put
<1>3. p = pending[h][c][1] /\ 1 \in DOMAIN pending[h][c] /\ p \in Packet
  BY <1>2
<1>4. Belongs(c.to, p)
  BY <1>3 DEF IInv, AllBelong
<1>5. p.requester # None => [idc |-> p.requester, id |-> Command(p)] \in ToSet(issued)
  BY <1>3 DEF IInv, AllAsked
<1>6. /\ channel' = [channel EXCEPT ![c.to] = Append(@, p)]
      /\ pending' = [pending EXCEPT ![h][c] = Tail(@)]
      /\ issued' = IF c.to.name = "IDC_req" THEN Append(issued, request) ELSE issued
  BY DEF Put
<1> HIDE DEF p
<1>7. c.to.name = "IDC_req" => request \in [idc : IDC, id : Seq(Nat)]
  <2> SUFFICES ASSUME c.to.name = "IDC_req"
               PROVE  request \in [idc : IDC, id : Seq(Nat)]
    OBVIOUS
  <2>1. c.to # At("Host_mem")
    BY DEF At
  <2>2. p.name = "Data.fetch.req"
    BY <1>4, <2>1, QueueNames DEF Belongs, Accepts
  <2>3. "Data.fetch.req" \notin BlockNames
    BY DEF BlockNames
  <2>4. Len(p.id) >= 2
    BY <1>4, <2>2, <2>3 DEF Belongs
  <2>5. p.id \in Seq(Nat)
    BY <1>3 DEF Packet
  <2>6. \A n \in 1 .. 2 : p.id[n] \in Nat
    <3>1. Len(p.id) \in Nat /\ \A n \in 1 .. Len(p.id) : p.id[n] \in Nat
      BY <2>5
    <3> QED
      BY <2>4, <3>1
  <2>7. Command(p) \in Seq(Nat)
    BY <2>6, SubSeqProperties DEF Command
  <2> QED
    BY <1>1, <2>7 DEF request
<1> HIDE DEF request
<1>8. ToSet(issued) \subseteq ToSet(issued')
  BY <1>6, IssuedGrows DEF IInv
<1>9. c.to.name = "IDC_req" => request \in ToSet(issued')
  BY <1>6, IssuedGrows DEF IInv
<1>10. TypeOK'
  <2>1. channel' \in [Channels -> Seq(Packet)]
    <3>1. Append(channel[c.to], p) \in Seq(Packet)
      BY <1>1, <1>3 DEF IInv, TypeOK
    <3> QED
      BY <1>6, <3>1 DEF IInv, TypeOK
  <2>2. DOMAIN pending' = Handlers
    BY <1>6 DEF IInv, TypeOK
  <2>3. ASSUME NEW g \in Handlers
        PROVE  pending'[g] \in [g.cones -> Seq(Packet)]
    <3>1. Tail(pending[h][c]) \in Seq(Packet)
      BY <1>2
    <3> QED
      BY <1>6, <3>1 DEF IInv, TypeOK
  <2>4. issued' \in Seq([idc : IDC, id : Seq(Nat)])
    <3> DEFINE R == [idc : IDC, id : Seq(Nat)]
    <3>1. issued \in Seq(R) /\ (c.to.name = "IDC_req" => request \in R)
      BY <1>7 DEF IInv, TypeOK
    <3> HIDE DEF R
    <3>2. issued' \in Seq(R)
      BY <1>6, <3>1
    <3> QED
      BY <3>2 DEF R
  <2> QED
    BY <2>1, <2>2, <2>3, <2>4 DEF TypeOK
\* Of the channels only one has a packet more.
<1>11. ASSUME NEW d \in Channels, NEW n \in DOMAIN channel'[d]
       PROVE  \/ \E m \in DOMAIN channel[d] : channel'[d][n] = channel[d][m]
              \/ d = c.to /\ channel'[d][n] = p
  <2>1. CASE d = c.to
    <3>1. channel'[d] = Append(channel[d], p)
      BY <1>6, <2>1 DEF IInv, TypeOK
    <3>2. channel[d] \in Seq(Packet)
      BY DEF IInv, TypeOK
    <3>3. Len(channel[d]) \in Nat /\ n \in 1 .. Len(channel[d]) + 1
      BY <3>1, <3>2
    <3>4. CASE n = Len(channel[d]) + 1
      BY <2>1, <3>1, <3>2, <3>4
    <3>5. CASE n \in 1 .. Len(channel[d])
      <4>1. n \in DOMAIN channel[d]
        BY <3>2, <3>5
      <4>2. channel'[d][n] = channel[d][n]
        BY <3>1, <3>2, <3>5
      <4> QED
        BY <4>1, <4>2
    <3> QED
      BY <3>3, <3>4, <3>5
  <2>2. CASE d # c.to
    BY <1>6, <2>2 DEF IInv, TypeOK
  <2> QED
    BY <2>1, <2>2
<1>12. ASSUME NEW g \in Handlers, NEW d \in g.cones, NEW n \in DOMAIN pending'[g][d]
       PROVE  \E m \in DOMAIN pending[g][d] : pending'[g][d][n] = pending[g][d][m]
  <2>1. CASE g = h /\ d = c
    <3>1. pending'[g][d] = Tail(pending[g][d])
      BY <1>6, <2>1 DEF IInv, TypeOK
    <3>2. n \in 1 .. Len(pending[g][d]) - 1 /\ pending'[g][d][n] = pending[g][d][n + 1]
      BY <1>2, <2>1, <3>1
    <3>3. n + 1 \in DOMAIN pending[g][d]
      BY <1>2, <2>1, <3>2
    <3> QED
      BY <3>2, <3>3
  <2>2. CASE ~(g = h /\ d = c)
    <3>1. pending'[g][d] = pending[g][d]
      BY <1>6, <2>2 DEF IInv, TypeOK
    <3> QED
      BY <3>1
  <2> QED
    BY <2>1, <2>2
<1>13. AllBelong'
  <2>1. \A d \in Channels : \A n \in DOMAIN channel'[d] : Belongs(d, channel'[d][n])
    BY <1>4, <1>11 DEF IInv, AllBelong
  <2>2. \A g \in Handlers : \A d \in g.cones : \A n \in DOMAIN pending'[g][d] :
          Belongs(d.to, pending'[g][d][n])
    <3> TAKE g \in Handlers
    <3> TAKE d \in g.cones
    <3> TAKE n \in DOMAIN pending'[g][d]
    <3>1. \A m \in DOMAIN pending[g][d] : Belongs(d.to, pending[g][d][m])
      BY DEF IInv, AllBelong
    <3> QED
      BY <1>12, <3>1
  <2> QED
    BY <2>1, <2>2 DEF AllBelong, Belongs
<1>14. AllAsked'
  <2>1. /\ p.requester # None => [idc |-> p.requester, id |-> Command(p)] \in ToSet(issued')
        /\ c.to.name = "IDC_req" => [idc |-> c.to.of, id |-> Command(p)] \in ToSet(issued')
    BY <1>5, <1>8, <1>9 DEF request
  <2>2. (\A d \in Channels : \A n \in DOMAIN channel[d] : Asked(d, channel[d][n]))'
    <3>1. \A d \in Channels : \A n \in DOMAIN channel[d] : Asked(d, channel[d][n])
      BY DEF IInv, AllAsked
    <3> QED
      BY <1>8, <1>11, <2>1, <3>1 DEF Asked
  <2>3. \A g \in Handlers : \A d \in g.cones : \A n \in DOMAIN pending'[g][d] :
          pending'[g][d][n].requester # None =>
            [idc |-> pending'[g][d][n].requester, id |-> Command(pending'[g][d][n])]
              \in ToSet(issued')
    <3> TAKE g \in Handlers
    <3> TAKE d \in g.cones
    <3> TAKE n \in DOMAIN pending'[g][d]
    <3>1. \A m \in DOMAIN pending[g][d] : pending[g][d][m].requester # None =>
            [idc |-> pending[g][d][m].requester, id |-> Command(pending[g][d][m])]
              \in ToSet(issued)
      BY DEF IInv, AllAsked
    <3> QED
      BY <1>8, <1>12, <3>1
  <2> QED
    BY <2>2, <2>3 DEF AllAsked
<1> QED
  BY <1>10, <1>13, <1>14 DEF IInv

LEMMA NextIInv == IInv /\ [Next]_vars => IInv'
<1> SUFFICES ASSUME IInv, [Next]_vars PROVE IInv'
  OBVIOUS
<1>1. ASSUME NEW h \in Handlers, Take(h) PROVE IInv'
  BY <1>1, TakeIInv
<1>2. ASSUME NEW h \in Handlers, NEW c \in h.cones, Put(h, c) PROVE IInv'
  BY <1>2, PutIInv
<1>3. CASE UNCHANGED vars
  BY <1>3 DEF vars, IInv, TypeOK, AllBelong, AllAsked, Belongs, Asked
<1> QED
  BY <1>1, <1>2, <1>3 DEF Next

LEMMA AlwaysIInv == Spec => []IInv
BY InitIInv, NextIInv, PTL DEF Spec

\* In the design for any number of controllers, blocks and pointers, the state has
\* the type that the declarations say.
THEOREM Typed == Spec => []TypeOK
<1>1. IInv => TypeOK
  BY DEF IInv
<1> QED
  BY <1>1, AlwaysIInv, PTL

\* No packet of the design (src/dma/flow.h) is ever in a channel where no handler
\* accepts it, however many controllers, blocks and commands there are.
THEOREM NoOrphans == Spec => []NoOrphan
<1>1. IInv => NoOrphan
  <2> SUFFICES ASSUME IInv PROVE NoOrphan
    OBVIOUS
  <2>1. \A c \in Channels : \A n \in DOMAIN channel[c] : Belongs(c, channel[c][n])
    BY DEF IInv, AllBelong
  <2> QED
    BY <2>1 DEF NoOrphan, Belongs
<1> QED
  BY <1>1, AlwaysIInv, PTL

\* Data only ever comes back to the controller that asked for it: the tag that the
\* controller writes and the conditions of CC and of the controllers agree.
THEOREM DataRoutedBack == Spec => []RoutedBack
<1>1. IInv => RoutedBack
  <2> SUFFICES ASSUME IInv, NEW i \in IDC, NEW c \in {Of("IDC_in", i), Of("IDC_cpl", i)},
                      NEW n \in DOMAIN channel[c]
               PROVE  [idc |-> i, id |-> Command(channel[c][n])] \in ToSet(issued)
    BY DEF RoutedBack
  <2>1. c \in Channels /\ c.name \in {"IDC_in", "IDC_cpl"} /\ c.of = i
    BY ChannelNames
  <2>2. Belongs(c, channel[c][n]) /\ Asked(c, channel[c][n])
    BY <2>1 DEF IInv, AllBelong, AllAsked
  <2>3. channel[c][n].requester = i
    BY <2>1, <2>2 DEF Belongs
  <2> QED
    BY <2>2, <2>3, DmaAssumption DEF Asked
<1> QED
  BY <1>1, AlwaysIInv, PTL

-----------------------------------------------------------------------------
\* The order of the descriptors.  From the request for its data on, what belongs to a
\* command goes through the channels and cones of its controller one after the other; the
\* names it has there tell how far it has come.

\* No cone holds what is in a channel.
NoHandler == Handler(At("none"), "none", {})

Shelf(c) == <<NoHandler, c>>

Lanes == {Shelf(c) : c \in Channels} \cup UNION {{<<h, c>> : c \in h.cones} : h \in Handlers}

\* What is in channel c, or in cone c of handler h.
held == [l \in Lanes |-> IF l[1] = NoHandler THEN channel[l[2]] ELSE pending[l[1]][l[2]]]

\* The place of a name on the way from a request to its descriptor.
Rank(name) ==
  IF name = "Data.fetch.req" THEN 1
  ELSE IF name = "Data.fetch" THEN 2
  ELSE IF name = "PCIE.Data.fetch" THEN 3
  ELSE IF name = "PCIE.Data.cpl" THEN 4
  ELSE IF name = "Data.cpl" THEN 5
  ELSE IF name = "EU.data" THEN 6
  ELSE IF name = "Mem.Data" THEN 7
  ELSE IF name = "Mem.Desc" THEN 8
  ELSE IF name = "Result.Desc" THEN 9
  ELSE IF name = "WR.Desc" THEN 10
  ELSE IF name = "PCIE.WR.Desc" THEN 11
  ELSE IF name = "Host.Desc" THEN 12
  ELSE 0

\* The channel where packets of that name are, if they are about a request of i.
Post(i, name) ==
  IF name = "Data.fetch.req" THEN Of("IDC_req", i)
  ELSE IF name = "Data.fetch" THEN Of("IDC_out", i)
  ELSE IF name = "PCIE.Data.fetch" THEN At("PCIE_Egress")
  ELSE IF name = "PCIE.Data.cpl" THEN At("PCIE_Ingress")
  ELSE IF name = "Data.cpl" THEN Of("IDC_in", i)
  ELSE IF name = "EU.data" THEN Of("IDC_cpl", i)
  ELSE IF name = "Mem.Data" THEN At("Mem_Data_in")
  ELSE IF name = "Mem.Desc" THEN At("Mem_CTL")
  ELSE IF name = "Result.Desc" THEN At("CPLS_req")
  ELSE IF name = "WR.Desc" THEN At("CPLS_wr")
  ELSE IF name = "PCIE.WR.Desc" THEN At("PCIE_Egress")
  ELSE At("Host_mem")

\* A handler with one cone, and the cone.
Single(from, name, c) == <<Handler(from, name, {c}), c>>

\* The cone that gives them their name.
Maker(i, name) ==
  IF name = "Data.fetch" THEN
    LET c == [Cone(Of("IDC_out", i), "Data.fetch") EXCEPT
                !.method = "onLENGTH", !.chunks = {64, 128, 256}, !.tag = i]
    IN <<DataRequest(i), c>>
  ELSE IF name = "PCIE.Data.fetch" THEN
    Single(Of("IDC_out", i), "Data.fetch", Cone(At("PCIE_Egress"), "PCIE.Data.fetch"))
  ELSE IF name = "PCIE.Data.cpl" THEN
    Single(At("PCIE_Egress"), "PCIE.Data.fetch", Sized(At("PCIE_Ingress"), "PCIE.Data.cpl", 88))
  ELSE IF name = "Data.cpl" THEN
    LET c == Sized(Of("IDC_in", i), "Data.cpl", 64)
    IN <<ForRequester(At("PCIE_Ingress"), "PCIE.Data.cpl", i, {c}), c>>
  ELSE IF name = "EU.data" THEN
    <<DataReply(i), Cone(Of("IDC_cpl", i), "EU.data")>>
  ELSE IF name = "Mem.Data" THEN
    Single(Of("IDC_cpl", i), "EU.data", Cone(At("Mem_Data_in"), "Mem.Data"))
  ELSE IF name = "Mem.Desc" THEN
    LET c == Sized(At("Mem_CTL"), "Mem.Desc", 16)
    IN <<Handler(At("Mem_Data_in"), "Mem.Data",
                 {Cone(At("Mem_Data_out"), "Mem.Data.Out"), c}), c>>
  ELSE IF name = "Result.Desc" THEN
    Single(At("Mem_CTL"), "Mem.Desc", Cone(At("CPLS_req"), "Result.Desc"))
  ELSE IF name = "WR.Desc" THEN
    Single(At("CPLS_req"), "Result.Desc", [Cone(At("CPLS_wr"), "WR.Desc") EXCEPT !.chunks = {128}])
  ELSE IF name = "PCIE.WR.Desc" THEN
    Single(At("CPLS_wr"), "WR.Desc", Cone(At("PCIE_Egress"), "PCIE.WR.Desc"))
  ELSE
    Single(At("PCIE_Egress"), "PCIE.WR.Desc", Cone(At("Host_mem"), "Host.Desc"))

\* Packet p, which lane l holds, is the k-th stage of the way of a request of i: at an
\* even stage in a channel, at an odd one in the cone before it.
Stage(i, k, l, p) ==
  LET r == Rank(p.name) IN
  /\ r >= 1
  /\ r >= 2 => p.requester = i
  /\ \/ k = 2 * r /\ l = Shelf(Post(i, p.name))
     \/ k = 2 * r - 1 /\ r >= 2 /\ l = Maker(i, p.name)

\* Channels of which each controller has one, read by handlers of its own.
Own == {"IDC_out", "IDC_cpl"}

\* In the list I of requests, that of p is before that of q.
Earlier(I, p, q) ==
  \A m, n \in DOMAIN I : I[m].id = Command(p) /\ I[n].id = Command(q) => m < n

\* Of the packets that lanes H hold for one controller, the further on its way, and on
\* the same stage the further in front, the earlier it was asked for.
InTurn(H, I) ==
  \A i \in IDC, k1, k2 \in 2 .. 24, l1, l2 \in Lanes :
    \A n1 \in DOMAIN H[l1], n2 \in DOMAIN H[l2] :
      /\ Stage(i, k1, l1, H[l1][n1])
      /\ Stage(i, k2, l2, H[l2][n2])
      /\ k1 > k2 \/ (k1 = k2 /\ n1 < n2)
      => Earlier(I, H[l1][n1], H[l2][n2])

\* Names of packets about a block, and about a command that no controller has got yet.
NewNames ==
  BlockNames \cup {"CMD.fetch.req", "CMD.fetch", "PCIE.CMD.fetch", "PCIE.CMD.cpl",
                   "CMD.cpl", "EU.cmd"}

\* For p, in lane l, nothing was asked yet.
Unissued(l, p) ==
  p.name \in NewNames \/ (p.name = "Data.fetch.req" /\ l[1] # NoHandler)

\* Of a block and the commands in it, and of a command.
Overlap(a, b) == a[1] = b[1] /\ (Len(a) = 1 \/ Len(b) = 1 \/ a[2] = b[2])

\* There are no two packets of the same new command, nor one of a command for which was
\* asked, and for none was asked twice.
Once(H, I) ==
  /\ \A l1, l2 \in Lanes : \A n1 \in DOMAIN H[l1], n2 \in DOMAIN H[l2] :
       /\ Unissued(l1, H[l1][n1]) /\ Unissued(l2, H[l2][n2])
       /\ l1 = l2 => n1 # n2
       => ~Overlap(H[l1][n1].id, H[l2][n2].id)
  /\ \A l \in Lanes : \A n \in DOMAIN H[l], m \in DOMAIN I :
       Unissued(l, H[l][n]) => ~Overlap(H[l][n].id, I[m].id)
  /\ \A m, n \in DOMAIN I : I[m].id = I[n].id => m = n

\* What the name of a packet says about it: its requester, how long its id is, and that
\* those that are split are too small to make two pieces.
Kind(p) ==
  /\ Rank(p.name) >= 2 => p.requester # None
  /\ p.name = "Data.fetch.req" => p.length = 16
  /\ p.name \in {"Mem.Desc", "Result.Desc"} => p.size = 16
  /\ p.name \in BlockNames => Len(p.id) = 1
  /\ p.name \in (NewNames \ BlockNames) \cup {"Data.fetch.req"} => Len(p.id) = 2

\* ... and a packet in a cone has the name that the cone gives, and the controller whose
\* channel it comes from.
KindAt(l, p) ==
  /\ Kind(p)
  /\ l[1] # NoHandler => /\ p.name = l[2].as
                         /\ l[1].from.name \in Own => p.requester = l[1].from.of

Kinds(H) == \A l \in Lanes : \A n \in DOMAIN H[l] : KindAt(l, H[l][n])

OrderInv == Kinds(held) /\ Once(held, issued) /\ InTurn(held, issued)

-----------------------------------------------------------------------------
\* What the table of handlers must keep to, for these invariants.

\* The cones that give a new name or issue a request: each is the only one of its handler.
NewCone(h, c) ==
  /\ h.cones = {c}
  /\ h.name \in NewNames
  /\ IF c.chunks = {} THEN c.as \in BlockNames <=> h.name \in BlockNames
     ELSE h.name \in BlockNames /\ c.as \notin BlockNames

Suits(h, c) ==
  /\ c.as = "Data.fetch.req" <=> c.to.name = "IDC_req"
  /\ c.as \in {"Data.fetch.req", "Mem.Desc"} => c.size = 16 /\ c.chunks = {}
  /\ c.as = "Result.Desc" => c.size = 0 /\ c.chunks = {} /\ h.name = "Mem.Desc"
  /\ h.from.name \in Own => c.tag = None
  /\ Rank(c.as) >= 2 => c.tag # None \/ Rank(h.name) >= 2
  /\ c.as \in NewNames \cup {"Data.fetch.req"} => NewCone(h, c)
  /\ \A i \in IDC :
       Rank(c.as) >= 2 /\ c.to = Post(i, c.as) /\ (h.from.name \in Own => h.from.of = i)
       => <<h, c>> = Maker(i, c.as)

\* The numbers of the names.
LEMMA RankIs ==
  /\ Rank("Data.fetch.req") = 1
  /\ Rank("Data.fetch") = 2
  /\ Rank("PCIE.Data.fetch") = 3
  /\ Rank("PCIE.Data.cpl") = 4
  /\ Rank("Data.cpl") = 5
  /\ Rank("EU.data") = 6
  /\ Rank("Mem.Data") = 7
  /\ Rank("Mem.Desc") = 8
  /\ Rank("Result.Desc") = 9
  /\ Rank("WR.Desc") = 10
  /\ Rank("PCIE.WR.Desc") = 11
  /\ Rank("Host.Desc") = 12
BY DEF Rank

\* No two names have the same number.
LEMMA RankOnce ==
  \A a, b \in Names : /\ Rank(a) \in 0 .. 12
                      /\ Rank(a) = Rank(b) /\ Rank(a) >= 1 => a = b
                      /\ Rank(a) = 1 => a = "Data.fetch.req"
BY DEF Rank, Names

\* The names before the first have none.
LEMMA NewRank ==
  \A a \in NewNames : Rank(a) = 0 /\ a \in Names /\ a # "Data.fetch.req"
BY DEF Rank, NewNames, BlockNames, Names

\* Cones of the ways on which data go, and all others that are neither new nor on the way.
LEMMA AsideSuits ==
  ASSUME NEW h, NEW c, c.as \in {"Mem.Data.Out", "Result.Data", "WR.Data", "PCIE.WR.Data", "Host.Data"},
         c.to.name # "IDC_req", c.tag = None
  PROVE  Suits(h, c)
<1>1. Rank(c.as) = 0 /\ c.as \notin NewNames /\ c.as \notin {"Data.fetch.req", "Mem.Desc", "Result.Desc"}
  BY DEF Rank, NewNames, BlockNames
<1>2. QED
  BY <1>1 DEF Suits

\* Cones that rename and size new packets.
LEMMA NewSuits ==
  ASSUME NEW h, NEW c, NewCone(h, c), c.as \in NewNames, c.to.name # "IDC_req", c.tag = None
  PROVE  Suits(h, c)
<1>1. /\ Rank(c.as) = 0
      /\ c.as \notin {"Data.fetch.req", "Mem.Desc", "Result.Desc"}
  BY DEF Rank, NewNames, BlockNames
<1>2. QED
  BY <1>1 DEF Suits

-----------------------------------------------------------------------------
\* The cones on the way of a descriptor.

\* How many packets a cone makes of one: it splits a length or a size of 16 in one piece.
Whole(c, name) ==
  IF name = "Data.fetch"
  THEN c.size = 0 /\ c.tag # None /\ c.method = "onLENGTH" /\ c.chunks = {64, 128, 256}
  ELSE /\ c.tag = None
       /\ IF name = "WR.Desc" THEN c.size = 0 /\ c.method = "onSIZE" /\ c.chunks = {128}
          ELSE c.chunks = {}

\* Handler h takes packets of a request of i, and its cone c gives them their next name.
Carries(i, h, c) ==
  /\ h \in Handlers
  /\ c \in h.cones
  /\ Maker(i, c.as) = <<h, c>>
  /\ Rank(c.as) >= 2
  /\ Rank(h.name) = Rank(c.as) - 1
  /\ h.from = Post(i, h.name)
  /\ c.tag \in {i, None}
  /\ Whole(c, c.as)
  /\ Suits(h, c)

\* The names from the first fetch for the data on.
WayNames ==
  {"Data.fetch", "PCIE.Data.fetch", "PCIE.Data.cpl", "Data.cpl", "EU.data", "Mem.Data",
   "Mem.Desc", "Result.Desc", "WR.Desc", "PCIE.WR.Desc", "Host.Desc"}

\* They have a number from 2 on.
LEMMA WayNameRank == \A a \in Names : Rank(a) >= 2 <=> a \in WayNames
BY DEF Rank, Names, WayNames

\* None of them is new.
LEMMA WayNamesNew == \A a \in WayNames : a \in Names /\ a \notin NewNames \cup {"Data.fetch.req"}
BY DEF WayNames, Names, NewNames, BlockNames

\* What makes a cone the one that carries on: in particular, of the cones that give that
\* name, it alone takes from a channel of the controller and puts into one.
LEMMA Carried ==
  ASSUME NEW i \in IDC, NEW h \in Handlers, NEW c \in h.cones, c.as \in WayNames,
         Maker(i, c.as) = <<h, c>>, Rank(h.name) = Rank(c.as) - 1, h.from = Post(i, h.name),
         c.tag \in {i, None}, Whole(c, c.as), c.to.name # "IDC_req",
         c.as = "Mem.Desc" => c.size = 16,
         c.as = "Result.Desc" => c.size = 0 /\ h.name = "Mem.Desc",
         h.from.name \in Own => c.as # "Data.fetch",
         \A j \in IDC : c.to = Post(j, c.as) /\ (h.from.name \in Own => h.from.of = j)
                       => <<h, c>> = Maker(j, c.as)
  PROVE  Carries(i, h, c)
<1>1. Rank(c.as) >= 2 /\ c.as \in Names /\ c.as \notin NewNames \cup {"Data.fetch.req"}
  BY WayNameRank, WayNamesNew
<1>2. Rank(c.as) \in 0 .. 12
  BY <1>1, RankOnce
<1>3. c.tag # None \/ Rank(h.name) >= 2
  <2>1. CASE c.as = "Data.fetch"
    BY <2>1 DEF Whole
  <2>2. CASE c.as # "Data.fetch"
    <3>1. Rank(c.as) # 2
      BY <1>1, <2>2, RankIs, RankOnce DEF Names
    <3> QED
      BY <1>1, <1>2, <3>1
  <2> QED
    BY <2>1, <2>2
<1>4. h.from.name \in Own => c.tag = None
  BY DEF Whole
<1>5. c.as \in {"Mem.Desc", "Result.Desc"} => c.chunks = {}
  BY DEF Whole
<1>6. Suits(h, c)
  BY <1>1, <1>3, <1>4, <1>5 DEF Suits
<1> QED
  BY <1>1, <1>6 DEF Carries

\* For every controller and every name on the way, a cone of the design carries on. A
\* controller asks for data, in one packet that it tags ...
LEMMA CarriesDatafetch ==
  ASSUME NEW i \in IDC
  PROVE  \E h, c : c.as = "Data.fetch" /\ Carries(i, h, c)
<1> DEFINE c == [Cone(Of("IDC_out", i), "Data.fetch") EXCEPT
                   !.method = "onLENGTH", !.chunks = {64, 128, 256}, !.tag = i]
           h == DataRequest(i)
<1>1. /\ c.to = Of("IDC_out", i) /\ c.as = "Data.fetch" /\ c.size = 0
      /\ c.tag = i /\ c.method = "onLENGTH" /\ c.chunks = {64, 128, 256}
  BY DEF Cone
<1>2. /\ h.from = Of("IDC_req", i) /\ h.name = "Data.fetch.req"
      /\ h.cones = {c}
  BY DEF Handler, DataRequest
<1>3. h \in Handlers
  BY DEF Handlers, InputControllers
<1>4. Maker(i, "Data.fetch") = <<h, c>>
  BY DEF Maker
<1>5. c.to.name # "IDC_req" /\ h.from.name = "IDC_req"
  BY <1>1, <1>2 DEF At, Of
<1> HIDE DEF h, c
<1>6. \A j \in IDC : c.to = Post(j, c.as) /\ (h.from.name \in Own => h.from.of = j) => j = i
  BY <1>1 DEF Post, Of
<1>7. h.from = Post(i, h.name) /\ Whole(c, c.as)
  BY <1>1, <1>2, DmaAssumption DEF Post, Whole
<1>8. c.as \in WayNames /\ Rank(h.name) = Rank(c.as) - 1
  BY <1>1, <1>2, RankIs DEF WayNames
<1>9. Carries(i, h, c)
  BY <1>1, <1>2, <1>3, <1>4, <1>6, <1>5, <1>7, <1>8, Carried DEF Own
<1> QED
  BY <1>1, <1>9

\* ... its request goes to the host ...
LEMMA CarriesPCIEDatafetch ==
  ASSUME NEW i \in IDC
  PROVE  \E h, c : c.as = "PCIE.Data.fetch" /\ Carries(i, h, c)
<1> DEFINE c == Cone(At("PCIE_Egress"), "PCIE.Data.fetch")
           h == Handler(Of("IDC_out", i), "Data.fetch", {c})
<1>1. /\ c.to = At("PCIE_Egress") /\ c.as = "PCIE.Data.fetch" /\ c.size = 0
      /\ c.tag = None /\ c.method = "onSIZE" /\ c.chunks = {}
  BY DEF Cone
<1>2. /\ h.from = Of("IDC_out", i) /\ h.name = "Data.fetch"
      /\ h.cones = {c}
  BY DEF Handler
<1>3. h \in Handlers
  BY DEF Handlers, RRC
<1>4. Maker(i, "PCIE.Data.fetch") = <<h, c>>
  BY DEF Maker, Single
<1>5. c.to.name # "IDC_req" /\ h.from.name = "IDC_out"
  BY <1>1, <1>2 DEF At, Of
<1> HIDE DEF h, c
<1>6. \A j \in IDC : c.to = Post(j, c.as) /\ (h.from.name \in Own => h.from.of = j) => j = i
  BY <1>2, <1>5 DEF Own, Of
<1>7. h.from = Post(i, h.name) /\ Whole(c, c.as)
  BY <1>1, <1>2 DEF Post, Whole
<1>8. c.as \in WayNames /\ Rank(h.name) = Rank(c.as) - 1
  BY <1>1, <1>2, RankIs DEF WayNames
<1>9. Carries(i, h, c)
  BY <1>1, <1>2, <1>3, <1>4, <1>6, <1>5, <1>7, <1>8, Carried DEF Own
<1> QED
  BY <1>1, <1>9

\* ... which answers ...
LEMMA CarriesPCIEDatacpl ==
  ASSUME NEW i \in IDC
  PROVE  \E h, c : c.as = "PCIE.Data.cpl" /\ Carries(i, h, c)
<1> DEFINE c == Sized(At("PCIE_Ingress"), "PCIE.Data.cpl", 88)
           h == Handler(At("PCIE_Egress"), "PCIE.Data.fetch", {c})
<1>1. /\ c.to = At("PCIE_Ingress") /\ c.as = "PCIE.Data.cpl" /\ c.size = 88
      /\ c.tag = None /\ c.method = "onSIZE" /\ c.chunks = {}
  BY DEF Cone, Sized
<1>2. /\ h.from = At("PCIE_Egress") /\ h.name = "PCIE.Data.fetch"
      /\ h.cones = {c}
  BY DEF Handler
<1>3. h \in Handlers
  BY DEF Handlers, Host, Answer
<1>4. \A j \in IDC : Maker(j, "PCIE.Data.cpl") = <<h, c>>
  BY DEF Maker, Single
<1>5. c.to.name # "IDC_req" /\ h.from.name = "PCIE_Egress"
  BY <1>1, <1>2 DEF At, Of
<1> HIDE DEF h, c
<1>6. h.from = Post(i, h.name) /\ Whole(c, c.as)
  BY <1>1, <1>2 DEF Post, Whole
<1>7. c.as \in WayNames /\ Rank(h.name) = Rank(c.as) - 1
  BY <1>1, <1>2, RankIs DEF WayNames
<1>8. Carries(i, h, c)
  BY <1>1, <1>2, <1>3, <1>4, <1>5, <1>6, <1>7, Carried DEF Own
<1> QED
  BY <1>1, <1>8

\* ... to the controller that asked ...
LEMMA CarriesDatacpl ==
  ASSUME NEW i \in IDC
  PROVE  \E h, c : c.as = "Data.cpl" /\ Carries(i, h, c)
<1> DEFINE c == Sized(Of("IDC_in", i), "Data.cpl", 64)
           h == ForRequester(At("PCIE_Ingress"), "PCIE.Data.cpl", i, {c})
<1>1. /\ c.to = Of("IDC_in", i) /\ c.as = "Data.cpl" /\ c.size = 64
      /\ c.tag = None /\ c.method = "onSIZE" /\ c.chunks = {}
  BY DEF Cone, Sized
<1>2. /\ h.from = At("PCIE_Ingress") /\ h.name = "PCIE.Data.cpl"
      /\ h.cones = {c}
  BY DEF Handler, ForRequester
<1>3. h \in Handlers
  BY DEF Handlers, CC
<1>4. Maker(i, "Data.cpl") = <<h, c>>
  BY DEF Maker
<1>5. c.to.name # "IDC_req" /\ h.from.name = "PCIE_Ingress"
  BY <1>1, <1>2 DEF At, Of
<1> HIDE DEF h, c
<1>6. \A j \in IDC : c.to = Post(j, c.as) /\ (h.from.name \in Own => h.from.of = j) => j = i
  BY <1>1 DEF Post, Of
<1>7. h.from = Post(i, h.name) /\ Whole(c, c.as)
  BY <1>1, <1>2 DEF Post, Whole
<1>8. c.as \in WayNames /\ Rank(h.name) = Rank(c.as) - 1
  BY <1>1, <1>2, RankIs DEF WayNames
<1>9. Carries(i, h, c)
  BY <1>1, <1>2, <1>3, <1>4, <1>6, <1>5, <1>7, <1>8, Carried DEF Own
<1> QED
  BY <1>1, <1>9

\* ... which passes the data on to the execution unit ...
LEMMA CarriesEUdata ==
  ASSUME NEW i \in IDC
  PROVE  \E h, c : c.as = "EU.data" /\ Carries(i, h, c)
<1> DEFINE c == Cone(Of("IDC_cpl", i), "EU.data")
           h == DataReply(i)
<1>1. /\ c.to = Of("IDC_cpl", i) /\ c.as = "EU.data" /\ c.size = 0
      /\ c.tag = None /\ c.method = "onSIZE" /\ c.chunks = {}
  BY DEF Cone
<1>2. /\ h.from = Of("IDC_in", i) /\ h.name = "Data.cpl"
      /\ h.cones = {c}
  BY DEF Handler, ForRequester, DataReply
<1>3. h \in Handlers
  BY DEF Handlers, InputControllers
<1>4. Maker(i, "EU.data") = <<h, c>>
  BY DEF Maker
<1>5. c.to.name # "IDC_req" /\ h.from.name = "IDC_in"
  BY <1>1, <1>2 DEF At, Of
<1> HIDE DEF h, c
<1>6. \A j \in IDC : c.to = Post(j, c.as) /\ (h.from.name \in Own => h.from.of = j) => j = i
  BY <1>1 DEF Post, Of
<1>7. h.from = Post(i, h.name) /\ Whole(c, c.as)
  BY <1>1, <1>2 DEF Post, Whole
<1>8. c.as \in WayNames /\ Rank(h.name) = Rank(c.as) - 1
  BY <1>1, <1>2, RankIs DEF WayNames
<1>9. Carries(i, h, c)
  BY <1>1, <1>2, <1>3, <1>4, <1>6, <1>5, <1>7, <1>8, Carried DEF Own
<1> QED
  BY <1>1, <1>9

\* ... and this to the memory ...
LEMMA CarriesMemData ==
  ASSUME NEW i \in IDC
  PROVE  \E h, c : c.as = "Mem.Data" /\ Carries(i, h, c)
<1> DEFINE c == Cone(At("Mem_Data_in"), "Mem.Data")
           h == Handler(Of("IDC_cpl", i), "EU.data", {c})
<1>1. /\ c.to = At("Mem_Data_in") /\ c.as = "Mem.Data" /\ c.size = 0
      /\ c.tag = None /\ c.method = "onSIZE" /\ c.chunks = {}
  BY DEF Cone
<1>2. /\ h.from = Of("IDC_cpl", i) /\ h.name = "EU.data"
      /\ h.cones = {c}
  BY DEF Handler
<1>3. h \in Handlers
  BY DEF Handlers, XBAR_CPL
<1>4. Maker(i, "Mem.Data") = <<h, c>>
  BY DEF Maker, Single
<1>5. c.to.name # "IDC_req" /\ h.from.name = "IDC_cpl"
  BY <1>1, <1>2 DEF At, Of
<1> HIDE DEF h, c
<1>6. \A j \in IDC : c.to = Post(j, c.as) /\ (h.from.name \in Own => h.from.of = j) => j = i
  BY <1>2, <1>5 DEF Own, Of
<1>7. h.from = Post(i, h.name) /\ Whole(c, c.as)
  BY <1>1, <1>2 DEF Post, Whole
<1>8. c.as \in WayNames /\ Rank(h.name) = Rank(c.as) - 1
  BY <1>1, <1>2, RankIs DEF WayNames
<1>9. Carries(i, h, c)
  BY <1>1, <1>2, <1>3, <1>4, <1>6, <1>5, <1>7, <1>8, Carried DEF Own
<1> QED
  BY <1>1, <1>9

\* ... which makes the descriptor ...
LEMMA CarriesMemDesc ==
  ASSUME NEW i \in IDC
  PROVE  \E h, c : c.as = "Mem.Desc" /\ Carries(i, h, c)
<1> DEFINE c == Sized(At("Mem_CTL"), "Mem.Desc", 16)
           h == Handler(At("Mem_Data_in"), "Mem.Data",
                        {Cone(At("Mem_Data_out"), "Mem.Data.Out"), c})
<1>1. /\ c.to = At("Mem_CTL") /\ c.as = "Mem.Desc" /\ c.size = 16
      /\ c.tag = None /\ c.method = "onSIZE" /\ c.chunks = {}
  BY DEF Cone, Sized
<1>2. /\ h.from = At("Mem_Data_in") /\ h.name = "Mem.Data"
      /\ h.cones = {Cone(At("Mem_Data_out"), "Mem.Data.Out"), c}
  BY DEF Handler
<1>3. h \in Handlers
  BY DEF Handlers, EUx
<1>4. \A j \in IDC : Maker(j, "Mem.Desc") = <<h, c>>
  BY DEF Maker
<1>5. c.to.name # "IDC_req" /\ h.from.name = "Mem_Data_in"
  BY <1>1, <1>2 DEF At, Of
<1> HIDE DEF h, c
<1>6. h.from = Post(i, h.name) /\ Whole(c, c.as)
  BY <1>1, <1>2 DEF Post, Whole
<1>7. c.as \in WayNames /\ Rank(h.name) = Rank(c.as) - 1
  BY <1>1, <1>2, RankIs DEF WayNames
<1>8. Carries(i, h, c)
  BY <1>1, <1>2, <1>3, <1>4, <1>5, <1>6, <1>7, Carried DEF Own
<1> QED
  BY <1>1, <1>8

\* ... that the completion controller fetches ...
LEMMA CarriesResultDesc ==
  ASSUME NEW i \in IDC
  PROVE  \E h, c : c.as = "Result.Desc" /\ Carries(i, h, c)
<1> DEFINE c == Cone(At("CPLS_req"), "Result.Desc")
           h == Handler(At("Mem_CTL"), "Mem.Desc", {c})
<1>1. /\ c.to = At("CPLS_req") /\ c.as = "Result.Desc" /\ c.size = 0
      /\ c.tag = None /\ c.method = "onSIZE" /\ c.chunks = {}
  BY DEF Cone
<1>2. /\ h.from = At("Mem_CTL") /\ h.name = "Mem.Desc"
      /\ h.cones = {c}
  BY DEF Handler
<1>3. h \in Handlers
  BY DEF Handlers, Descriptors
<1>4. \A j \in IDC : Maker(j, "Result.Desc") = <<h, c>>
  BY DEF Maker, Single
<1>5. c.to.name # "IDC_req" /\ h.from.name = "Mem_CTL"
  BY <1>1, <1>2 DEF At, Of
<1> HIDE DEF h, c
<1>6. h.from = Post(i, h.name) /\ Whole(c, c.as)
  BY <1>1, <1>2 DEF Post, Whole
<1>7. c.as \in WayNames /\ Rank(h.name) = Rank(c.as) - 1
  BY <1>1, <1>2, RankIs DEF WayNames
<1>8. Carries(i, h, c)
  BY <1>1, <1>2, <1>3, <1>4, <1>5, <1>6, <1>7, Carried DEF Own
<1> QED
  BY <1>1, <1>8

\* ... and gives to the write controller ...
LEMMA CarriesWRDesc ==
  ASSUME NEW i \in IDC
  PROVE  \E h, c : c.as = "WR.Desc" /\ Carries(i, h, c)
<1> DEFINE c == [Cone(At("CPLS_wr"), "WR.Desc") EXCEPT !.chunks = {128}]
           h == Handler(At("CPLS_req"), "Result.Desc", {c})
<1>1. /\ c.to = At("CPLS_wr") /\ c.as = "WR.Desc" /\ c.size = 0
      /\ c.tag = None /\ c.method = "onSIZE" /\ c.chunks = {128}
  BY DEF Cone
<1>2. /\ h.from = At("CPLS_req") /\ h.name = "Result.Desc"
      /\ h.cones = {c}
  BY DEF Handler
<1>3. h \in Handlers
  BY DEF Handlers, CPLS
<1>4. \A j \in IDC : Maker(j, "WR.Desc") = <<h, c>>
  BY DEF Maker, Single
<1>5. c.to.name # "IDC_req" /\ h.from.name = "CPLS_req"
  BY <1>1, <1>2 DEF At, Of
<1> HIDE DEF h, c
<1>6. h.from = Post(i, h.name) /\ Whole(c, c.as)
  BY <1>1, <1>2 DEF Post, Whole
<1>7. c.as \in WayNames /\ Rank(h.name) = Rank(c.as) - 1
  BY <1>1, <1>2, RankIs DEF WayNames
<1>8. Carries(i, h, c)
  BY <1>1, <1>2, <1>3, <1>4, <1>5, <1>6, <1>7, Carried DEF Own
<1> QED
  BY <1>1, <1>8

\* ... in one packet, for the host ...
LEMMA CarriesPCIEWRDesc ==
  ASSUME NEW i \in IDC
  PROVE  \E h, c : c.as = "PCIE.WR.Desc" /\ Carries(i, h, c)
<1> DEFINE c == Cone(At("PCIE_Egress"), "PCIE.WR.Desc")
           h == Handler(At("CPLS_wr"), "WR.Desc", {c})
<1>1. /\ c.to = At("PCIE_Egress") /\ c.as = "PCIE.WR.Desc" /\ c.size = 0
      /\ c.tag = None /\ c.method = "onSIZE" /\ c.chunks = {}
  BY DEF Cone
<1>2. /\ h.from = At("CPLS_wr") /\ h.name = "WR.Desc"
      /\ h.cones = {c}
  BY DEF Handler
<1>3. h \in Handlers
  BY DEF Handlers, WRC
<1>4. \A j \in IDC : Maker(j, "PCIE.WR.Desc") = <<h, c>>
  BY DEF Maker, Single
<1>5. c.to.name # "IDC_req" /\ h.from.name = "CPLS_wr"
  BY <1>1, <1>2 DEF At, Of
<1> HIDE DEF h, c
<1>6. h.from = Post(i, h.name) /\ Whole(c, c.as)
  BY <1>1, <1>2 DEF Post, Whole
<1>7. c.as \in WayNames /\ Rank(h.name) = Rank(c.as) - 1
  BY <1>1, <1>2, RankIs DEF WayNames
<1>8. Carries(i, h, c)
  BY <1>1, <1>2, <1>3, <1>4, <1>5, <1>6, <1>7, Carried DEF Own
<1> QED
  BY <1>1, <1>8

\* ... in whose memory it arrives.
LEMMA CarriesHostDesc ==
  ASSUME NEW i \in IDC
  PROVE  \E h, c : c.as = "Host.Desc" /\ Carries(i, h, c)
<1> DEFINE c == Cone(At("Host_mem"), "Host.Desc")
           h == Handler(At("PCIE_Egress"), "PCIE.WR.Desc", {c})
<1>1. /\ c.to = At("Host_mem") /\ c.as = "Host.Desc" /\ c.size = 0
      /\ c.tag = None /\ c.method = "onSIZE" /\ c.chunks = {}
  BY DEF Cone
<1>2. /\ h.from = At("PCIE_Egress") /\ h.name = "PCIE.WR.Desc"
      /\ h.cones = {c}
  BY DEF Handler
<1>3. h \in Handlers
  BY DEF Handlers, Host, Keep
<1>4. \A j \in IDC : Maker(j, "Host.Desc") = <<h, c>>
  BY DEF Maker, Single
<1>5. c.to.name # "IDC_req" /\ h.from.name = "PCIE_Egress"
  BY <1>1, <1>2 DEF At, Of
<1> HIDE DEF h, c
<1>6. h.from = Post(i, h.name) /\ Whole(c, c.as)
  BY <1>1, <1>2 DEF Post, Whole
<1>7. c.as \in WayNames /\ Rank(h.name) = Rank(c.as) - 1
  BY <1>1, <1>2, RankIs DEF WayNames
<1>8. Carries(i, h, c)
  BY <1>1, <1>2, <1>3, <1>4, <1>5, <1>6, <1>7, Carried DEF Own
<1> QED
  BY <1>1, <1>8

-----------------------------------------------------------------------------
\* The cones of all handlers suit.

\* The eleven together.
LEMMA EachCarries ==
  \A i \in IDC, name \in WayNames :
    Carries(i, Maker(i, name)[1], Maker(i, name)[2]) /\ Maker(i, name)[2].as = name
<1> SUFFICES ASSUME NEW i \in IDC, NEW name \in WayNames
             PROVE  Carries(i, Maker(i, name)[1], Maker(i, name)[2]) /\ Maker(i, name)[2].as = name
  OBVIOUS
<1>1. \E h, c : c.as = name /\ Carries(i, h, c)
  <2>1. CASE name \in {"Data.fetch", "PCIE.Data.fetch", "PCIE.Data.cpl", "Data.cpl"}
    BY <2>1, CarriesDatafetch, CarriesPCIEDatafetch, CarriesPCIEDatacpl, CarriesDatacpl
  <2>2. CASE name \in {"EU.data", "Mem.Data", "Mem.Desc", "Result.Desc"}
    BY <2>2, CarriesEUdata, CarriesMemData, CarriesMemDesc, CarriesResultDesc
  <2>3. CASE name \in {"WR.Desc", "PCIE.WR.Desc", "Host.Desc"}
    BY <2>3, CarriesWRDesc, CarriesPCIEWRDesc, CarriesHostDesc
  <2> QED
    BY <2>1, <2>2, <2>3 DEF WayNames
<1>2. PICK h, c : c.as = name /\ Carries(i, h, c)
  BY <1>1
<1>3. Maker(i, name) = <<h, c>>
  BY <1>2 DEF Carries
<1> QED
  BY <1>2, <1>3

AllSuit(h) == \A c \in h.cones : Suits(h, c)

\* A cone that carries on suits.
LEMMA MakersSuit ==
  \A i \in IDC, name \in WayNames : Suits(Maker(i, name)[1], Maker(i, name)[2])
BY EachCarries DEF Carries

\* Of a handler with one cone, that one has to suit.
LEMMA OneCone ==
  ASSUME NEW from, NEW name, NEW c, Suits(Handler(from, name, {c}), c)
  PROVE  AllSuit(Handler(from, name, {c}))
<1>1. Handler(from, name, {c}).cones = {c}
  BY DEF Handler
<1> QED
  BY <1>1 DEF AllSuit

\* Both of a block, or both of a command.
Both(name, as) == name \in NewNames /\ as \in NewNames /\ (as \in BlockNames <=> name \in BlockNames)

\* A cone that gives a new packet its next name, of its block or its command, suits ...
LEMMA NewRenames ==
  ASSUME NEW from, NEW name, NEW to, NEW as, Both(name, as), to.name # "IDC_req"
  PROVE  AllSuit(Handler(from, name, {Cone(to, as)}))
<1> DEFINE c == Cone(to, as)
           h == Handler(from, name, {c})
<1>1. h.name = name /\ h.cones = {c}
  BY DEF Handler
<1>2. c.to = to /\ c.as = as /\ c.tag = None /\ c.chunks = {}
  BY DEF Cone
<1> HIDE DEF c, h
<1>3. NewCone(h, c)
  BY <1>1, <1>2 DEF NewCone, Both
<1>4. Suits(h, c)
  BY <1>2, <1>3, NewSuits DEF Both
<1>5. AllSuit(h)
  BY <1>1, <1>4 DEF AllSuit
<1> QED
  BY <1>5 DEF h, c

\* ... if it sizes the packet, too.
LEMMA NewSizes ==
  ASSUME NEW from, NEW name, NEW to, NEW as, NEW size, Both(name, as), to.name # "IDC_req"
  PROVE  AllSuit(Handler(from, name, {Sized(to, as, size)}))
<1> DEFINE c == Sized(to, as, size)
           h == Handler(from, name, {c})
<1>1. h.name = name /\ h.cones = {c}
  BY DEF Handler
<1>2. c.to = to /\ c.as = as /\ c.tag = None /\ c.chunks = {}
  BY DEF Cone, Sized
<1> HIDE DEF c, h
<1>3. NewCone(h, c)
  BY <1>1, <1>2 DEF NewCone, Both
<1>4. Suits(h, c)
  BY <1>2, <1>3, NewSuits DEF Both
<1>5. AllSuit(h)
  BY <1>1, <1>4 DEF AllSuit
<1> QED
  BY <1>5 DEF h, c

\* A plain cone of the ways on which data go suits.
LEMMA AsideCone ==
  ASSUME NEW h, NEW to, to.name # "IDC_req",
         NEW name \in {"Mem.Data.Out", "Result.Data", "WR.Data", "PCIE.WR.Data", "Host.Data"}
  PROVE  Suits(h, Cone(to, name))
<1>1. PICK c : c = Cone(to, name)
  OBVIOUS
<1>2. c.to = to /\ c.as = name /\ c.tag = None
  BY <1>1 DEF Cone
<1>3. Suits(h, c)
  BY <1>2, AsideSuits
<1> QED
  BY <1>1, <1>3

\* The channel that a handler reads.
LEMMA FromName ==
  /\ \A n : At(n).name = n
  /\ \A n, u : Of(n, u).name = n
BY DEF At, Of

\* Which of the renamings are both of a block or both of a command.
LEMMA BothNames ==
  /\ Both("PCIE.CMD.fetch", "PCIE.CMD.cpl") /\ Both("PCIE.CPR.fetch", "PCIE.CPR.cpl")
  /\ Both("CPR.fetch.req", "CPR.fetch") /\ Both("CMD.fetch.req", "CMD.fetch")
  /\ Both("CMD.cpl", "EU.cmd") /\ Both("CPR.cpl", "CPP.cmd")
  /\ Both("CMD.fetch", "PCIE.CMD.fetch") /\ Both("CPR.fetch", "PCIE.CPR.fetch")
  /\ Both("PCIE.CMD.cpl", "CMD.cpl") /\ Both("PCIE.CPR.cpl", "CPR.cpl")
BY DEF Both, NewNames, BlockNames

\* Then the handlers, one part of the design after the other.
LEMMA HostSuits == \A h \in Host : AllSuit(h)
<1>0. PICK i \in IDC : TRUE
  BY DmaAssumption
<1>1. AllSuit(Answer("PCIE.CMD.fetch", "PCIE.CMD.cpl", 56))
  BY NewSizes, BothNames, FromName DEF Answer
<1>2. AllSuit(Answer("PCIE.CPR.fetch", "PCIE.CPR.cpl", 88))
  BY NewSizes, BothNames, FromName DEF Answer
<1>3. AllSuit(Answer("PCIE.Data.fetch", "PCIE.Data.cpl", 88))
  <2>1. Suits(Maker(i, "PCIE.Data.cpl")[1], Maker(i, "PCIE.Data.cpl")[2])
    BY MakersSuit DEF WayNames
  <2> QED
    BY <2>1, OneCone DEF Answer, Maker, Single
<1>4. AllSuit(Keep("PCIE.WR.Data", "Host.Data"))
  BY AsideCone, OneCone, FromName DEF Keep
<1>5. AllSuit(Keep("PCIE.WR.Desc", "Host.Desc"))
  <2>1. Suits(Maker(i, "Host.Desc")[1], Maker(i, "Host.Desc")[2])
    BY MakersSuit DEF WayNames
  <2> QED
    BY <2>1, OneCone DEF Keep, Maker, Single
<1> QED
  BY <1>1, <1>2, <1>3, <1>4, <1>5 DEF Host

LEMMA CPPSuits == \A h \in CPP : AllSuit(h)
<1>1. AllSuit(Handler(At("CPR_req"), "CPR.fetch.req", {Cone(At("CMD_fetch"), "CPR.fetch")}))
  BY NewRenames, BothNames, FromName
<1>2. AllSuit(Handler(At("CMD_req"), "CMD.fetch.req", {Sized(At("CMD_fetch"), "CMD.fetch", 16)}))
  BY NewSizes, BothNames, FromName
<1>3. AllSuit(Handler(At("CMD_cpl"), "CMD.cpl", {Cone(At("CMD_fwd"), "EU.cmd")}))
  BY NewRenames, BothNames, FromName
<1>4. AllSuit(Handler(At("CMD_cpl"), "CPR.cpl", {Cone(At("CPR_fwd"), "CPP.cmd")}))
  BY NewRenames, BothNames, FromName
<1> QED
  BY <1>1, <1>2, <1>3, <1>4 DEF CPP

LEMMA InputControllersSuit == \A h \in InputControllers : AllSuit(h)
<1>1. ASSUME NEW i \in IDC PROVE AllSuit(DataRequest(i))
  <2>1. Suits(Maker(i, "Data.fetch")[1], Maker(i, "Data.fetch")[2])
    BY MakersSuit DEF WayNames
  <2> QED
    BY <2>1, OneCone DEF DataRequest, Maker
<1>2. ASSUME NEW i \in IDC PROVE AllSuit(DataReply(i))
  <2>1. Suits(Maker(i, "EU.data")[1], Maker(i, "EU.data")[2])
    BY MakersSuit DEF WayNames
  <2>2. Maker(i, "EU.data") = <<DataReply(i), Cone(Of("IDC_cpl", i), "EU.data")>>
    BY DEF Maker
  <2>3. DataReply(i).cones = {Cone(Of("IDC_cpl", i), "EU.data")}
    BY DEF DataReply, ForRequester, Handler
  <2> QED
    BY <2>1, <2>2, <2>3 DEF AllSuit
<1> QED
  BY <1>1, <1>2 DEF InputControllers

LEMMA RRCSuits == \A h \in RRC : AllSuit(h)
<1>1. ASSUME NEW i \in IDC
      PROVE AllSuit(Handler(Of("IDC_out", i), "Data.fetch", {Cone(At("PCIE_Egress"), "PCIE.Data.fetch")}))
  <2>1. Suits(Maker(i, "PCIE.Data.fetch")[1], Maker(i, "PCIE.Data.fetch")[2])
    BY MakersSuit DEF WayNames
  <2> QED
    BY <2>1, OneCone DEF Maker, Single
<1>2. AllSuit(Handler(At("CMD_fetch"), "CMD.fetch", {Cone(At("PCIE_Egress"), "PCIE.CMD.fetch")}))
  BY NewRenames, BothNames, FromName
<1>3. AllSuit(Handler(At("CMD_fetch"), "CPR.fetch", {Cone(At("PCIE_Egress"), "PCIE.CPR.fetch")}))
  BY NewRenames, BothNames, FromName
<1> QED
  BY <1>1, <1>2, <1>3 DEF RRC

LEMMA CCSuits == \A h \in CC : AllSuit(h)
<1>1. ASSUME NEW i \in IDC
      PROVE AllSuit(ForRequester(At("PCIE_Ingress"), "PCIE.Data.cpl", i,
                                 {Sized(Of("IDC_in", i), "Data.cpl", 64)}))
  <2> DEFINE c == Sized(Of("IDC_in", i), "Data.cpl", 64)
             h == ForRequester(At("PCIE_Ingress"), "PCIE.Data.cpl", i, {c})
  <2>1. Suits(Maker(i, "Data.cpl")[1], Maker(i, "Data.cpl")[2])
    BY MakersSuit DEF WayNames
  <2>2. Maker(i, "Data.cpl") = <<h, c>>
    BY DEF Maker
  <2>3. h.cones = {c}
    BY DEF ForRequester, Handler
  <2> HIDE DEF h, c
  <2>4. AllSuit(h)
    BY <2>1, <2>2, <2>3 DEF AllSuit
  <2> QED
    BY <2>4 DEF h, c
<1>2. AllSuit(Handler(At("PCIE_Ingress"), "PCIE.CMD.cpl", {Sized(At("CMD_cpl"), "CMD.cpl", 32)}))
  BY NewSizes, BothNames, FromName
<1>3. AllSuit(Handler(At("PCIE_Ingress"), "PCIE.CPR.cpl", {Sized(At("CMD_cpl"), "CPR.cpl", BlockSize)}))
  BY NewSizes, BothNames, FromName
<1> QED
  BY <1>1, <1>2, <1>3 DEF CC

LEMMA CMD_TRANSSuits == \A h \in CMD_TRANS : AllSuit(h)
<1> DEFINE c == [Cone(At("CMD_req"), "CMD.fetch.req") EXCEPT !.chunks = {2}]
           h == Handler(At("CPR_fwd"), "CPP.cmd", {c})
<1>1. h.name = "CPP.cmd" /\ h.cones = {c}
  BY DEF Handler
<1>2. c.to.name = "CMD_req" /\ c.as = "CMD.fetch.req" /\ c.tag = None /\ c.chunks # {}
  BY DEF Cone, At
<1> HIDE DEF c, h
<1>3. NewCone(h, c) /\ c.as \in NewNames
  BY <1>1, <1>2 DEF NewCone, NewNames, BlockNames
<1>4. Suits(h, c)
  BY <1>2, <1>3, NewSuits
<1>5. AllSuit(h)
  BY <1>1, <1>4 DEF AllSuit
<1> QED
  BY <1>5 DEF h, c, CMD_TRANS

LEMMA XBAR_REQSuits == \A h \in XBAR_REQ : AllSuit(h)
<1> SUFFICES ASSUME NEW i \in IDC
             PROVE  AllSuit(Handler(At("CMD_fwd"), "EU.cmd", {Sized(Of("IDC_req", i), "Data.fetch.req", 16)}))
  BY DEF XBAR_REQ
<1> DEFINE c == Sized(Of("IDC_req", i), "Data.fetch.req", 16)
           h == Handler(At("CMD_fwd"), "EU.cmd", {c})
<1>1. h.from = At("CMD_fwd") /\ h.name = "EU.cmd" /\ h.cones = {c}
  BY DEF Handler
<1>2. /\ c.to.name = "IDC_req" /\ c.as = "Data.fetch.req" /\ c.tag = None /\ c.chunks = {}
      /\ c.size = 16
  BY DEF Cone, Of, Sized
<1> HIDE DEF c, h
<1>3. NewCone(h, c)
  BY <1>1, <1>2 DEF NewCone, NewNames, BlockNames
<1>4. Rank(c.as) = 1
  BY <1>2, RankIs
<1>5. Suits(h, c)
  BY <1>2, <1>3, <1>4 DEF Suits
<1>6. AllSuit(h)
  BY <1>1, <1>5 DEF AllSuit
<1> QED
  BY <1>6 DEF h, c

LEMMA EUxSuits == \A h \in EUx : AllSuit(h)
<1> DEFINE c == Cone(At("Mem_Data_out"), "Mem.Data.Out")
           d == Sized(At("Mem_CTL"), "Mem.Desc", 16)
           h == Handler(At("Mem_Data_in"), "Mem.Data", {c, d})
<1>0. PICK i \in IDC : TRUE
  BY DmaAssumption
<1>1. h.cones = {c, d}
  BY DEF Handler
<1>2. Suits(Maker(i, "Mem.Desc")[1], Maker(i, "Mem.Desc")[2])
  BY MakersSuit DEF WayNames
<1>3. Maker(i, "Mem.Desc") = <<h, d>>
  BY DEF Maker
<1>4. Suits(h, c)
  BY AsideCone, FromName
<1> HIDE DEF c, d, h
<1>5. AllSuit(h)
  BY <1>1, <1>2, <1>3, <1>4 DEF AllSuit
<1> QED
  BY <1>5 DEF h, c, d, EUx

LEMMA SinglesSuit ==
  /\ \A h \in XBAR_CPL : AllSuit(h)
  /\ \A h \in OutputControllers : AllSuit(h)
  /\ \A h \in CPLS : AllSuit(h)
  /\ \A h \in WRC : AllSuit(h)
  /\ \A h \in XBAR_WR : AllSuit(h)
  /\ \A h \in Descriptors : AllSuit(h)
<1>0. PICK j \in IDC : TRUE
  BY DmaAssumption
<1>1. ASSUME NEW i \in IDC
      PROVE  AllSuit(Handler(Of("IDC_cpl", i), "EU.data", {Cone(At("Mem_Data_in"), "Mem.Data")}))
  <2>1. Suits(Maker(i, "Mem.Data")[1], Maker(i, "Mem.Data")[2])
    BY MakersSuit DEF WayNames
  <2> QED
    BY <2>1, OneCone DEF Maker, Single
<1>2. ASSUME NEW o \in ODC
      PROVE  AllSuit(Handler(Of("ODC_req", o), "Result.Data", {Cone(Of("ODC_wr", o), "WR.Data")}))
  BY AsideCone, OneCone, FromName
<1>3. AllSuit(Handler(At("CPLS_req"), "Result.Desc", {[Cone(At("CPLS_wr"), "WR.Desc") EXCEPT !.chunks = {128}]}))
  <2>1. Suits(Maker(j, "WR.Desc")[1], Maker(j, "WR.Desc")[2])
    BY MakersSuit DEF WayNames
  <2> QED
    BY <2>1, OneCone DEF Maker, Single
<1>4. ASSUME NEW o \in ODC
      PROVE  AllSuit(Handler(Of("ODC_wr", o), "WR.Data", {Cone(At("PCIE_Egress"), "PCIE.WR.Data")}))
  BY AsideCone, OneCone, FromName
<1>5. AllSuit(Handler(At("CPLS_wr"), "WR.Desc", {Cone(At("PCIE_Egress"), "PCIE.WR.Desc")}))
  <2>1. Suits(Maker(j, "PCIE.WR.Desc")[1], Maker(j, "PCIE.WR.Desc")[2])
    BY MakersSuit DEF WayNames
  <2> QED
    BY <2>1, OneCone DEF Maker, Single
<1>6. ASSUME NEW o \in ODC
      PROVE  AllSuit(Handler(At("Mem_Data_out"), "Mem.Data.Out", {Cone(Of("ODC_req", o), "Result.Data")}))
  BY AsideCone, OneCone, FromName
<1>7. AllSuit(Handler(At("Mem_CTL"), "Mem.Desc", {Cone(At("CPLS_req"), "Result.Desc")}))
  <2>1. Suits(Maker(j, "Result.Desc")[1], Maker(j, "Result.Desc")[2])
    BY MakersSuit DEF WayNames
  <2> QED
    BY <2>1, OneCone DEF Maker, Single
<1> QED
  BY <1>1, <1>2, <1>3, <1>4, <1>5, <1>6, <1>7
     DEF XBAR_CPL, OutputControllers, CPLS, WRC, XBAR_WR, Descriptors

LEMMA HandlersSuit == \A h \in Handlers : \A c \in h.cones : Suits(h, c)
<1>1. \A h \in Handlers : AllSuit(h)
  BY HostSuits, CPPSuits, InputControllersSuit, RRCSuits, CCSuits, CMD_TRANSSuits,
     XBAR_REQSuits, EUxSuits, SinglesSuit DEF Handlers
<1> QED
  BY <1>1 DEF AllSuit

-----------------------------------------------------------------------------
\* Lanes, and the step that moves the first packet of one.

\* The first of a channel's lane is no handler.
LEMMA NoHandlerOut == NoHandler \notin Handlers
<1>1. At("none") \notin Channels
  <2>1. At("none").name = "none"
    BY DEF At
  <2>2. \A c \in Channels : c.name # "none"
    BY DEF Channels, At, Of
  <2> QED
    BY <2>1, <2>2
<1>2. NoHandler.from = At("none")
  BY DEF NoHandler, Handler
<1>3. \A h \in Handlers : h.from \in Channels
  BY AllHandlersOK DEF HandlerOK
<1> QED
  BY <1>1, <1>2, <1>3

\* The cone that carries on is a lane.
LEMMA MakerLane ==
  ASSUME NEW i \in IDC, NEW name \in Names, Rank(name) >= 2
  PROVE  Maker(i, name) \in Lanes /\ Maker(i, name)[1] \in Handlers
<1>1. name \in WayNames
  BY WayNameRank
<1>2. PICK h, c : c.as = name /\ Carries(i, h, c)
  BY <1>1, EachCarries
<1>3. h \in Handlers /\ c \in h.cones /\ Maker(i, name) = <<h, c>>
  BY <1>2 DEF Carries
<1> QED
  BY <1>3 DEF Lanes

\* One packet, in one lane, is on one stage of its way only ...
LEMMA StageOnce ==
  ASSUME NEW i \in IDC, NEW l, NEW p \in Packet, NEW k1 \in Nat, NEW k2 \in Nat,
         Stage(i, k1, l, p), Stage(i, k2, l, p)
  PROVE  k1 = k2
<1> DEFINE r == Rank(p.name)
<1>1. p.name \in Names /\ r \in 0 .. 12
  BY RankOnce DEF Packet
<1>2. ASSUME l = Shelf(Post(i, p.name)), r >= 2, l = Maker(i, p.name)
      PROVE  FALSE
  <2>1. l[1] = NoHandler
    BY <1>2 DEF Shelf
  <2>2. l[1] \in Handlers
    BY <1>1, <1>2, MakerLane
  <2> QED
    BY <2>1, <2>2, NoHandlerOut
<1> QED
  BY <1>1, <1>2 DEF Stage

\* ... and on each stage there is one lane.
LEMMA StageLane ==
  ASSUME NEW i \in IDC, NEW k \in Nat, NEW l1, NEW l2, NEW p \in Packet, NEW q \in Packet,
         Stage(i, k, l1, p), Stage(i, k, l2, q)
  PROVE  l1 = l2
<1> DEFINE r == Rank(p.name)
           s == Rank(q.name)
<1>1. p.name \in Names /\ q.name \in Names /\ r \in 0 .. 12 /\ s \in 0 .. 12
  BY RankOnce DEF Packet
<1>2. r >= 1 /\ s >= 1
  BY DEF Stage
<1>3. \/ k = 2 * r /\ l1 = Shelf(Post(i, p.name))
      \/ k = 2 * r - 1 /\ l1 = Maker(i, p.name)
  BY DEF Stage
<1>4. \/ k = 2 * s /\ l2 = Shelf(Post(i, q.name))
      \/ k = 2 * s - 1 /\ l2 = Maker(i, q.name)
  BY DEF Stage
<1> HIDE DEF r, s
<1>5. r = s
  BY <1>1, <1>3, <1>4
<1>6. p.name = q.name
  BY <1>1, <1>2, <1>5, RankOnce DEF r, s
<1>7. ~(2 * r = 2 * r - 1)
  BY <1>1
<1> QED
  BY <1>1, <1>3, <1>4, <1>5, <1>6, <1>7

Contents == [Lanes -> Seq(Packet)]

\* The first packet of lane A goes; add is put behind what the lanes hold.
Moves(H, G, A, add) ==
  /\ A \in Lanes
  /\ H[A] # <<>>
  /\ add \in Contents
  /\ add[A] = <<>>
  /\ G = [l \in Lanes |-> (IF l = A THEN Tail(H[l]) ELSE H[l]) \o add[l]]

\* The n-th packet of lane l was there before, as its m-th ...
Stayed(H, G, A, l, n, m) ==
  /\ m \in DOMAIN H[l]
  /\ m = IF l = A THEN n + 1 ELSE n
  /\ G[l][n] = H[l][m]

\* ... or is the m-th that is put there, behind all the others.
Came(H, G, A, add, l, n, m) ==
  /\ l # A
  /\ m \in DOMAIN add[l]
  /\ n = Len(H[l]) + m
  /\ G[l][n] = add[l][m]

\* What a lane holds after the step was there, or came.
LEMMA Where ==
  ASSUME NEW H \in Contents, NEW G, NEW A, NEW add, Moves(H, G, A, add),
         NEW l \in Lanes, NEW n \in DOMAIN G[l]
  PROVE  \E m \in Nat : Stayed(H, G, A, l, n, m) \/ Came(H, G, A, add, l, n, m)
<1>1. H[l] \in Seq(Packet) /\ add[l] \in Seq(Packet)
  BY DEF Moves, Contents
<1>2. CASE l = A
  <2>1. H[l] # <<>> /\ G[l] = Tail(H[l]) \o <<>>
    BY <1>2 DEF Moves
  <2>2. Tail(H[l]) \in Seq(Packet) /\ Len(Tail(H[l])) = Len(H[l]) - 1 /\ Len(H[l]) \in Nat
    BY <1>1, <2>1
  <2>3. G[l] = Tail(H[l])
    BY <2>1, <2>2
  <2>4. n \in 1 .. Len(H[l]) - 1 /\ G[l][n] = H[l][n + 1]
    BY <1>1, <2>1, <2>2, <2>3
  <2>5. n + 1 \in DOMAIN H[l]
    BY <1>1, <2>2, <2>4
  <2>6. Stayed(H, G, A, l, n, n + 1)
    BY <1>2, <2>4, <2>5 DEF Stayed
  <2> QED
    BY <2>2, <2>4, <2>6
<1>3. CASE l # A
  <2> DEFINE s == H[l]
             t == add[l]
  <2>1. G[l] = s \o t
    BY <1>3 DEF Moves
  <2>2. Len(s) \in Nat /\ Len(t) \in Nat /\ DOMAIN s = 1 .. Len(s) /\ DOMAIN t = 1 .. Len(t)
    BY <1>1
  <2> HIDE DEF s, t
  <2>3. s \in Seq(Packet) /\ t \in Seq(Packet)
    BY <1>1 DEF s, t
  <2>4. n \in 1 .. Len(s) + Len(t)
    BY <2>1, <2>3
  <2>5. CASE n <= Len(s)
    <3>1. n \in DOMAIN s /\ G[l][n] = s[n]
      BY <2>1, <2>2, <2>3, <2>4, <2>5
    <3>2. Stayed(H, G, A, l, n, n)
      BY <1>3, <3>1 DEF Stayed, s
    <3> QED
      BY <2>4, <3>2
  <2>6. CASE n > Len(s)
    <3>1. n - Len(s) \in DOMAIN t /\ G[l][n] = t[n - Len(s)] /\ n = Len(s) + (n - Len(s))
      BY <2>1, <2>2, <2>3, <2>4, <2>6
    <3>2. Came(H, G, A, add, l, n, n - Len(s))
      BY <1>3, <3>1 DEF Came, s, t
    <3> QED
      BY <2>2, <2>4, <2>6, <3>2
  <2> QED
    BY <2>2, <2>4, <2>5, <2>6
<1> QED
  BY <1>2, <1>3

\* Lanes hold packets, also after the step.
LEMMA MovesTyped ==
  ASSUME NEW H \in Contents, NEW G, NEW A, NEW add, Moves(H, G, A, add)
  PROVE  /\ G \in Contents
         /\ Head(H[A]) = H[A][1] /\ 1 \in DOMAIN H[A] /\ H[A][1] \in Packet
<1>1. \A l \in Lanes : H[l] \in Seq(Packet) /\ add[l] \in Seq(Packet)
  BY DEF Moves, Contents
<1>2. ASSUME NEW l \in Lanes
      PROVE  (IF l = A THEN Tail(H[l]) ELSE H[l]) \o add[l] \in Seq(Packet)
  <2>1. l = A => Tail(H[l]) \in Seq(Packet)
    BY <1>1 DEF Moves
  <2> QED
    BY <1>1, <2>1
<1>3. A \in Lanes /\ H[A] # <<>>
  BY DEF Moves
<1>4. G \in Contents
  BY <1>2 DEF Moves, Contents
<1>5. H[A] \in Seq(Packet) /\ H[A] # <<>>
  BY <1>1, <1>3
<1> QED
  BY <1>4, <1>5

-----------------------------------------------------------------------------
\* A step keeps the packets of each controller in turn.

\* What comes to a lane on the way of a request of i is the packet that went, alone there,
\* one stage further ...
Follows(A, add, p) ==
  \A i \in IDC, l \in Lanes, k \in 2 .. 24 : \A m \in DOMAIN add[l] :
    Stage(i, k, l, add[l][m]) =>
      /\ \E j \in 2 .. 24 : k = j + 1 /\ Stage(i, j, A, p)
      /\ Len(add[l]) = 1
      /\ Command(add[l][m]) = Command(p)

\* ... or it is asked for, and so gets on the first stage.
Asks(add, p) ==
  \A i \in IDC, l \in Lanes, k \in 2 .. 24 : \A m \in DOMAIN add[l] :
    Stage(i, k, l, add[l][m]) =>
      /\ k = 2
      /\ Len(add[l]) = 1
      /\ Command(add[l][m]) = Command(p)

Requests == [idc : IDC, id : Seq(Nat)]

\* Packets on their way were asked for.
Known(H, I) ==
  \A i \in IDC, l \in Lanes, k \in 2 .. 24 : \A n \in DOMAIN H[l] :
    Stage(i, k, l, H[l][n]) => \E m \in DOMAIN I : I[m].id = Command(H[l][n])

\* What the list of requests is after the step.
Recorded(I, J, A, add, p) ==
  \/ J = I /\ Follows(A, add, p)
  \/ \E e \in Requests : /\ J = Append(I, e) /\ e.id = Command(p) /\ Asks(add, p)
                         /\ \A m \in DOMAIN I : I[m].id # e.id

\* The order of those that were asked for before is kept.
LEMMA EarlierKept ==
  ASSUME NEW I \in Seq(Requests), NEW e \in Requests, NEW p, NEW q, Earlier(I, p, q),
         \A m \in DOMAIN I : I[m].id # e.id,
         \E m \in DOMAIN I : I[m].id = Command(p)
  PROVE  Earlier(Append(I, e), p, q)
<1> DEFINE J == Append(I, e)
<1>1. Len(I) \in Nat /\ DOMAIN I = 1 .. Len(I) /\ DOMAIN J = 1 .. Len(I) + 1
  OBVIOUS
<1>2. J[Len(I) + 1] = e /\ \A m \in 1 .. Len(I) : J[m] = I[m]
  BY <1>1
<1> HIDE DEF J
<1>3. ASSUME NEW m \in DOMAIN J, NEW n \in DOMAIN J, J[m].id = Command(p), J[n].id = Command(q)
      PROVE  m < n
  <2>1. m \in 1 .. Len(I)
    BY <1>1, <1>2, <1>3
  <2>2. CASE n \in 1 .. Len(I)
    BY <1>1, <1>2, <1>3, <2>1, <2>2 DEF Earlier
  <2>3. CASE n = Len(I) + 1
    BY <1>1, <2>1, <2>3
  <2> QED
    BY <1>1, <2>2, <2>3
<1> QED
  BY <1>3 DEF Earlier, J

\* The one that is asked for last is behind all the others.
LEMMA EarlierThanLast ==
  ASSUME NEW I \in Seq(Requests), NEW e \in Requests, NEW p, NEW q,
         \A m \in DOMAIN I : I[m].id # e.id,
         \E m \in DOMAIN I : I[m].id = Command(p),
         e.id = Command(q)
  PROVE  Earlier(Append(I, e), p, q)
<1> DEFINE J == Append(I, e)
<1>1. Len(I) \in Nat /\ DOMAIN I = 1 .. Len(I) /\ DOMAIN J = 1 .. Len(I) + 1
  OBVIOUS
<1>2. J[Len(I) + 1] = e /\ \A m \in 1 .. Len(I) : J[m] = I[m]
  BY <1>1
<1> HIDE DEF J
<1>3. ASSUME NEW m \in DOMAIN J, NEW n \in DOMAIN J, J[m].id = Command(p), J[n].id = Command(q)
      PROVE  m < n
  <2>1. m \in 1 .. Len(I)
    BY <1>1, <1>2, <1>3
  <2>2. n \notin 1 .. Len(I)
    BY <1>1, <1>2, <1>3
  <2> QED
    BY <1>1, <2>1, <2>2
<1> QED
  BY <1>3 DEF Earlier, J

\* What is one before a greater number is not before the smaller.
LEMMA OneBefore == \A a, b, c \in Int : a >= b /\ a # b /\ a = c + 1 => c > b \/ c = b
OBVIOUS

\* Such a step keeps those on their way in turn.
LEMMA MovesInTurn ==
  ASSUME NEW H \in Contents, NEW G, NEW A, NEW add, Moves(H, G, A, add),
         NEW I \in Seq(Requests), NEW J, Recorded(I, J, A, add, Head(H[A])),
         InTurn(H, I), Known(H, I)
  PROVE  InTurn(G, J)
<1> DEFINE p == H[A][1]
<1>0. A \in Lanes
  BY DEF Moves
<1>1. /\ 1 \in DOMAIN H[A] /\ p \in Packet
      /\ Head(H[A]) = p /\ G \in Contents
  BY MovesTyped
<1> HIDE DEF p
<1>2. \A l \in Lanes : /\ H[l] \in Seq(Packet) /\ Len(H[l]) \in Nat /\ DOMAIN H[l] = 1 .. Len(H[l])
                       /\ add[l] \in Seq(Packet)
                       /\ \A m \in DOMAIN add[l] : add[l][m] \in Packet
                       /\ \A m \in DOMAIN H[l] : H[l][m] \in Packet
  BY DEF Contents, Moves
<1> SUFFICES ASSUME NEW i \in IDC, NEW k1 \in 2 .. 24, NEW k2 \in 2 .. 24,
                    NEW l1 \in Lanes, NEW l2 \in Lanes
             PROVE  \A n1 \in DOMAIN G[l1], n2 \in DOMAIN G[l2] :
                      /\ Stage(i, k1, l1, G[l1][n1])
                      /\ Stage(i, k2, l2, G[l2][n2])
                      /\ k1 > k2 \/ (k1 = k2 /\ n1 < n2)
                      => Earlier(J, G[l1][n1], G[l2][n2])
  BY DEF InTurn
<1> SUFFICES ASSUME NEW n1 \in DOMAIN G[l1], NEW n2 \in DOMAIN G[l2],
                    Stage(i, k1, l1, G[l1][n1]), Stage(i, k2, l2, G[l2][n2]),
                    k1 > k2 \/ (k1 = k2 /\ n1 < n2)
             PROVE  Earlier(J, G[l1][n1], G[l2][n2])
  OBVIOUS
<1> DEFINE p1 == G[l1][n1]
           p2 == G[l2][n2]
<1>3. PICK m1 \in Nat : Stayed(H, G, A, l1, n1, m1) \/ Came(H, G, A, add, l1, n1, m1)
  BY Where
<1>4. PICK m2 \in Nat : Stayed(H, G, A, l2, n2, m2) \/ Came(H, G, A, add, l2, n2, m2)
  BY Where
<1>5. n1 \in Nat \ {0} /\ n2 \in Nat \ {0} /\ p1 \in Packet /\ p2 \in Packet
  BY <1>1 DEF Contents
<1>6. k1 = k2 => l1 = l2
  BY <1>5, StageLane
<1>61. k1 \in Int /\ k2 \in Int /\ k1 >= k2
  <2>1. CASE k1 > k2
    BY <2>1
  <2>2. CASE k1 = k2
    BY <2>2
  <2> QED
    BY <2>1, <2>2
<1> HIDE DEF p1, p2
\* The packet that went, on its stage, is the first there.
<1>7. ASSUME Stayed(H, G, A, l1, n1, m1), Stayed(H, G, A, l2, n2, m2)
      PROVE  Earlier(I, p1, p2)
  <2>1. /\ m1 \in DOMAIN H[l1] /\ m2 \in DOMAIN H[l2]
        /\ p1 = H[l1][m1] /\ p2 = H[l2][m2]
        /\ l1 = l2 /\ n1 < n2 => m1 < m2
    BY <1>5, <1>7 DEF Stayed, p1, p2
  <2>2. k1 > k2 \/ (k1 = k2 /\ m1 < m2)
    BY <1>6, <2>1
  <2>3. Stage(i, k1, l1, H[l1][m1]) /\ Stage(i, k2, l2, H[l2][m2])
    BY <2>1 DEF p1, p2
  <2> QED
    BY <2>1, <2>2, <2>3 DEF InTurn
<1>8. ASSUME Stayed(H, G, A, l1, n1, m1)
      PROVE  \E m \in DOMAIN I : I[m].id = Command(p1)
  <2>1. m1 \in DOMAIN H[l1] /\ p1 = H[l1][m1] /\ Stage(i, k1, l1, H[l1][m1])
    BY <1>8 DEF Stayed, p1
  <2> QED
    BY <2>1 DEF Known
<1>9. CASE J = I /\ Follows(A, add, p)
  <2>1. ASSUME Came(H, G, A, add, l1, n1, m1)
        PROVE  /\ \E j \in 2 .. 24 : k1 = j + 1 /\ Stage(i, j, A, p)
               /\ Command(p1) = Command(p) /\ Len(add[l1]) = 1 /\ m1 = 1
    <3>1. m1 \in DOMAIN add[l1] /\ p1 = add[l1][m1] /\ Stage(i, k1, l1, add[l1][m1])
      BY <2>1 DEF Came, p1
    <3>2. /\ \E j \in 2 .. 24 : k1 = j + 1 /\ Stage(i, j, A, p)
          /\ Command(p1) = Command(p) /\ Len(add[l1]) = 1
      BY <1>9, <3>1 DEF Follows
    <3>3. m1 = 1
      BY <1>2, <3>1, <3>2
    <3> QED
      BY <3>2, <3>3
  <2>2. ASSUME Came(H, G, A, add, l2, n2, m2)
        PROVE  /\ \E j \in 2 .. 24 : k2 = j + 1 /\ Stage(i, j, A, p)
               /\ Command(p2) = Command(p) /\ Len(add[l2]) = 1 /\ m2 = 1
    <3>1. m2 \in DOMAIN add[l2] /\ p2 = add[l2][m2] /\ Stage(i, k2, l2, add[l2][m2])
      BY <2>2 DEF Came, p2
    <3>2. /\ \E j \in 2 .. 24 : k2 = j + 1 /\ Stage(i, j, A, p)
          /\ Command(p2) = Command(p) /\ Len(add[l2]) = 1
      BY <1>9, <3>1 DEF Follows
    <3>3. m2 = 1
      BY <1>2, <3>1, <3>2
    <3> QED
      BY <3>2, <3>3
  <2>3. CASE Stayed(H, G, A, l1, n1, m1) /\ Stayed(H, G, A, l2, n2, m2)
    BY <1>7, <1>9, <2>3 DEF p1, p2
  <2>4. CASE Came(H, G, A, add, l1, n1, m1) /\ Stayed(H, G, A, l2, n2, m2)
    <3>1. m2 \in DOMAIN H[l2] /\ p2 = H[l2][m2] /\ Stage(i, k2, l2, H[l2][m2])
      BY <2>4 DEF Stayed, p2
    <3>2. k1 # k2
      <4> SUFFICES ASSUME k1 = k2 PROVE FALSE
        OBVIOUS
      <4>1. l1 = l2 /\ n1 < n2
        BY <1>6
      <4>2. n1 > Len(H[l1])
        BY <1>2, <2>1, <2>4 DEF Came
      <4>3. n2 = m2 /\ n2 \in 1 .. Len(H[l1])
        BY <1>2, <2>4, <4>1 DEF Stayed, Came
      <4> QED
        BY <1>2, <1>5, <4>1, <4>2, <4>3
    <3>3. PICK j \in 2 .. 24 : k1 = j + 1 /\ Stage(i, j, A, p)
      BY <2>1, <2>4
    <3>4. j = k2 => 1 < m2
      <4> SUFFICES ASSUME j = k2 PROVE 1 < m2
        OBVIOUS
      <4>1. A = l2
        <5>1. Stage(i, k2, A, p) /\ Stage(i, k2, l2, H[l2][m2]) /\ H[l2][m2] \in Packet
          BY <1>2, <3>3, <3>1
        <5> QED
          BY <1>1, <5>1, StageLane
      <4>2. m2 = n2 + 1
        BY <2>4, <4>1 DEF Stayed
      <4> QED
        BY <1>5, <4>2
    <3>5. Earlier(I, H[A][1], H[l2][m2])
      <4>1. Stage(i, j, A, H[A][1])
        BY <3>3 DEF p
      <4>2. j > k2 \/ j = k2
        <5>1. j \in Int /\ k1 = j + 1
          BY <3>3
        <5> QED
          BY <1>61, <3>2, <5>1, OneBefore
      <4>3. j > k2 \/ (j = k2 /\ 1 < m2)
        BY <3>4, <4>2
      <4> QED
        BY <1>0, <1>1, <3>1, <4>1, <4>3 DEF InTurn
    <3>6. Command(p1) = Command(H[A][1])
      BY <2>1, <2>4 DEF p
    <3> QED
      BY <1>9, <3>1, <3>5, <3>6 DEF Earlier, p1, p2
  <2>5. CASE Stayed(H, G, A, l1, n1, m1) /\ Came(H, G, A, add, l2, n2, m2)
    <3>1. m1 \in DOMAIN H[l1] /\ p1 = H[l1][m1] /\ Stage(i, k1, l1, H[l1][m1])
      BY <2>5 DEF Stayed, p1
    <3>2. PICK j \in 2 .. 24 : k2 = j + 1 /\ Stage(i, j, A, p)
      BY <2>2, <2>5
    <3>3. Earlier(I, H[l1][m1], H[A][1])
      <4>1. Stage(i, j, A, H[A][1]) /\ k1 > j
        BY <1>61, <3>2 DEF p
      <4> QED
        BY <1>0, <1>1, <3>1, <4>1 DEF InTurn
    <3>4. Command(p2) = Command(H[A][1])
      BY <2>2, <2>5 DEF p
    <3> QED
      BY <1>9, <3>1, <3>3, <3>4 DEF Earlier, p1, p2
  <2>6. CASE Came(H, G, A, add, l1, n1, m1) /\ Came(H, G, A, add, l2, n2, m2)
    <3>1. k1 = k2
      <4>1. PICK a \in 2 .. 24 : k1 = a + 1 /\ Stage(i, a, A, p)
        BY <2>1, <2>6
      <4>2. PICK b \in 2 .. 24 : k2 = b + 1 /\ Stage(i, b, A, p)
        BY <2>2, <2>6
      <4>3. a = b
        BY <1>1, <4>1, <4>2, StageOnce
      <4> QED
        BY <4>1, <4>2, <4>3
    <3>2. l1 = l2 /\ n1 < n2
      BY <1>6, <3>1
    <3>3. n1 = n2
      BY <2>1, <2>2, <2>6, <3>2 DEF Came
    <3> QED
      BY <1>5, <3>2, <3>3
  <2> QED
    BY <1>3, <1>4, <2>3, <2>4, <2>5, <2>6
<1>10. ASSUME NEW e \in Requests, J = Append(I, e), e.id = Command(p), Asks(add, p),
              \A m \in DOMAIN I : I[m].id # e.id
       PROVE  Earlier(J, p1, p2)
  <2>1. ASSUME Came(H, G, A, add, l1, n1, m1)
        PROVE  k1 = 2 /\ Command(p1) = Command(p) /\ Len(add[l1]) = 1 /\ m1 = 1
    <3>1. m1 \in DOMAIN add[l1] /\ p1 = add[l1][m1] /\ Stage(i, k1, l1, add[l1][m1])
      BY <2>1 DEF Came, p1
    <3>2. k1 = 2 /\ Command(p1) = Command(p) /\ Len(add[l1]) = 1
      BY <1>10, <3>1 DEF Asks
    <3> QED
      BY <1>2, <3>1, <3>2
  <2>2. ASSUME Came(H, G, A, add, l2, n2, m2)
        PROVE  k2 = 2 /\ Command(p2) = Command(p) /\ Len(add[l2]) = 1 /\ m2 = 1
    <3>1. m2 \in DOMAIN add[l2] /\ p2 = add[l2][m2] /\ Stage(i, k2, l2, add[l2][m2])
      BY <2>2 DEF Came, p2
    <3>2. k2 = 2 /\ Command(p2) = Command(p) /\ Len(add[l2]) = 1
      BY <1>10, <3>1 DEF Asks
    <3> QED
      BY <1>2, <3>1, <3>2
  <2>3. CASE Stayed(H, G, A, l1, n1, m1) /\ Stayed(H, G, A, l2, n2, m2)
    BY <1>7, <1>8, <1>10, <2>3, EarlierKept
  <2>4. CASE Came(H, G, A, add, l1, n1, m1)
    <3>1. k1 = k2 /\ l1 = l2 /\ n1 < n2
      BY <1>6, <2>1, <2>4
    <3>2. n1 > Len(H[l1]) /\ n1 = Len(H[l1]) + 1
      BY <1>2, <2>1, <2>4 DEF Came
    <3>3. CASE Stayed(H, G, A, l2, n2, m2)
      <4>1. n2 \in 1 .. Len(H[l1])
        BY <1>2, <2>4, <3>1, <3>3 DEF Stayed, Came
      <4> QED
        BY <1>2, <3>1, <3>2, <4>1
    <3>4. CASE Came(H, G, A, add, l2, n2, m2)
      <4>1. n2 = Len(H[l1]) + 1
        BY <2>2, <3>1, <3>4 DEF Came
      <4> QED
        BY <1>2, <3>1, <3>2, <4>1
    <3> QED
      BY <1>4, <3>3, <3>4
  <2>5. CASE Stayed(H, G, A, l1, n1, m1) /\ Came(H, G, A, add, l2, n2, m2)
    BY <1>8, <1>10, <2>2, <2>5, EarlierThanLast
  <2> QED
    BY <1>3, <1>4, <2>3, <2>4, <2>5
<1> QED
  BY <1>1, <1>9, <1>10 DEF Recorded, p1, p2

-----------------------------------------------------------------------------
\* A step leaves each new command with one packet.

\* What comes to a lane and is new is the packet that went, or a piece of it if it is
\* about a block, and nothing comes to another lane.
Brings(A, add, p) ==
  \A l \in Lanes : \A m \in DOMAIN add[l] :
    Unissued(l, add[l][m]) =>
      /\ Unissued(A, p)
      /\ \A g \in Lanes : g # l => add[g] = <<>>
      /\ \/ Len(add[l]) = 1 /\ add[l][m].id = p.id
         \/ Len(p.id) = 1 /\ add[l][m].id = Append(p.id, m)

\* What is asked for was new, and is so no more.
Notes(I, J, A, add, p) ==
  \/ J = I
  \/ \E e \in Requests :
       /\ J = Append(I, e) /\ e.id = p.id /\ Len(p.id) = 2 /\ Unissued(A, p)
       /\ \A l \in Lanes : \A m \in DOMAIN add[l] : ~Unissued(l, add[l][m])

LEMMA OverlapSym == \A a, b : Overlap(a, b) <=> Overlap(b, a)
BY DEF Overlap

\* What does not overlap with the whole overlaps with no part of it.
LEMMA OverlapPiece ==
  ASSUME NEW a \in Seq(Nat), Len(a) >= 1, NEW b, NEW q, NEW m \in Nat,
         q = a \/ (Len(a) = 1 /\ q = Append(a, m)), ~Overlap(a, b)
  PROVE  ~Overlap(q, b)
<1>1. CASE q = a
  BY <1>1
<1>2. CASE Len(a) = 1 /\ q = Append(a, m)
  <2>1. q[1] = a[1]
    BY <1>2
  <2>2. a[1] # b[1]
    BY <1>2 DEF Overlap
  <2> QED
    BY <2>1, <2>2 DEF Overlap
<1> QED
  BY <1>1, <1>2

\* Such a step leaves new commands with one packet each.
LEMMA MovesOnce ==
  ASSUME NEW H \in Contents, NEW G, NEW A, NEW add, Moves(H, G, A, add),
         NEW I \in Seq(Requests), NEW J, Len(Head(H[A]).id) >= 1,
         Brings(A, add, Head(H[A])), Notes(I, J, A, add, Head(H[A])),
         Once(H, I)
  PROVE  Once(G, J)
<1> DEFINE p == H[A][1]
<1>0. A \in Lanes
  BY DEF Moves
<1>1. /\ 1 \in DOMAIN H[A] /\ p \in Packet
      /\ Head(H[A]) = p /\ G \in Contents
  BY MovesTyped
<1>2. \A l \in Lanes : /\ H[l] \in Seq(Packet) /\ Len(H[l]) \in Nat /\ DOMAIN H[l] = 1 .. Len(H[l])
                       /\ add[l] \in Seq(Packet)
                       /\ \A m \in DOMAIN add[l] : add[l][m] \in Packet /\ m \in Nat
                       /\ G[l] \in Seq(Packet)
  BY <1>1 DEF Contents, Moves
<1>3. p.id \in Seq(Nat) /\ Len(p.id) >= 1
  BY <1>1 DEF Packet
<1> HIDE DEF p
\* A new packet that came is a part of p.
<1>4. ASSUME NEW l \in Lanes, NEW n \in DOMAIN G[l], NEW m \in Nat,
             Came(H, G, A, add, l, n, m), Unissued(l, G[l][n])
      PROVE  /\ Unissued(A, p)
             /\ \A g \in Lanes : g # l => add[g] = <<>>
             /\ \/ Len(add[l]) = 1 /\ G[l][n].id = p.id
                \/ Len(p.id) = 1 /\ G[l][n].id = Append(p.id, m)
  <2>1. m \in DOMAIN add[l] /\ G[l][n] = add[l][m]
    BY <1>4 DEF Came
  <2> QED
    BY <1>1, <1>4, <2>1 DEF Brings
<1>5. ASSUME NEW l \in Lanes, NEW n \in DOMAIN G[l], NEW m \in Nat,
             Came(H, G, A, add, l, n, m), Unissued(l, G[l][n]),
             NEW b, ~Overlap(p.id, b)
      PROVE  ~Overlap(G[l][n].id, b)
  <2>1. G[l][n].id = p.id \/ (Len(p.id) = 1 /\ G[l][n].id = Append(p.id, m))
    BY <1>4, <1>5
  <2> QED
    BY <1>3, <1>5, <2>1, OverlapPiece
\* p is none of those that stayed.
<1>6. ASSUME NEW l \in Lanes, NEW n \in DOMAIN G[l], NEW m \in Nat,
             Stayed(H, G, A, l, n, m), Unissued(l, G[l][n])
      PROVE  Unissued(A, p) => ~Overlap(p.id, G[l][n].id)
  <2>1. m \in DOMAIN H[l] /\ G[l][n] = H[l][m] /\ (l = A => m = n + 1)
    BY <1>6 DEF Stayed
  <2>2. n \in Nat \ {0}
    BY <1>2
  <2>3. A = l => 1 # m
    BY <2>1, <2>2
  <2> QED
    BY <1>0, <1>1, <1>6, <2>1, <2>3 DEF Once, p
<1>7. ASSUME NEW l1 \in Lanes, NEW l2 \in Lanes, NEW n1 \in DOMAIN G[l1], NEW n2 \in DOMAIN G[l2],
             Unissued(l1, G[l1][n1]), Unissued(l2, G[l2][n2]),
             l1 = l2 => n1 # n2
      PROVE  ~Overlap(G[l1][n1].id, G[l2][n2].id)
  <2>1. PICK m1 \in Nat : Stayed(H, G, A, l1, n1, m1) \/ Came(H, G, A, add, l1, n1, m1)
    BY Where
  <2>2. PICK m2 \in Nat : Stayed(H, G, A, l2, n2, m2) \/ Came(H, G, A, add, l2, n2, m2)
    BY Where
  <2>3. CASE Stayed(H, G, A, l1, n1, m1) /\ Stayed(H, G, A, l2, n2, m2)
    <3>1. /\ m1 \in DOMAIN H[l1] /\ G[l1][n1] = H[l1][m1]
          /\ m2 \in DOMAIN H[l2] /\ G[l2][n2] = H[l2][m2]
      BY <2>3 DEF Stayed
    <3>2. l1 = l2 => m1 # m2
      <4>1. n1 \in Nat /\ n2 \in Nat
        BY <1>2
      <4> QED
        BY <1>7, <2>3, <4>1 DEF Stayed
    <3>3. Unissued(l1, H[l1][m1]) /\ Unissued(l2, H[l2][m2])
      BY <1>7, <3>1
    <3> QED
      BY <3>1, <3>2, <3>3 DEF Once
  <2>4. CASE Came(H, G, A, add, l1, n1, m1) /\ Stayed(H, G, A, l2, n2, m2)
    <3>1. Unissued(A, p)
      BY <1>4, <1>7, <2>4
    <3>2. ~Overlap(p.id, G[l2][n2].id)
      BY <1>6, <1>7, <2>4, <3>1
    <3> QED
      BY <1>5, <1>7, <2>4, <3>2
  <2>5. CASE Stayed(H, G, A, l1, n1, m1) /\ Came(H, G, A, add, l2, n2, m2)
    <3>1. Unissued(A, p)
      BY <1>4, <1>7, <2>5
    <3>2. ~Overlap(p.id, G[l1][n1].id)
      BY <1>6, <1>7, <2>5, <3>1
    <3>3. ~Overlap(G[l2][n2].id, G[l1][n1].id)
      BY <1>5, <1>7, <2>5, <3>2
    <3> QED
      BY <3>3, OverlapSym
  <2>6. CASE Came(H, G, A, add, l1, n1, m1) /\ Came(H, G, A, add, l2, n2, m2)
    <3>1. m1 \in DOMAIN add[l1] /\ m2 \in DOMAIN add[l2]
      BY <2>6 DEF Came
    <3>2. l1 = l2
      <4>1. l2 # l1 => add[l2] = <<>>
        BY <1>4, <1>7, <2>6
      <4>2. DOMAIN <<>> = {}
        OBVIOUS
      <4> QED
        BY <3>1, <4>1, <4>2
    <3>3. m1 # m2
      BY <1>7, <2>6, <3>2 DEF Came
    <3>4. Len(add[l1]) # 1
      <4> SUFFICES ASSUME Len(add[l1]) = 1 PROVE FALSE
        OBVIOUS
      <4>1. DOMAIN add[l1] = 1 .. 1
        BY <1>2
      <4>2. m1 = 1 /\ m2 = 1
        BY <3>1, <3>2, <4>1
      <4> QED
        BY <3>3, <4>2
    <3>5. /\ Len(p.id) = 1 /\ G[l1][n1].id = Append(p.id, m1)
          /\ G[l2][n2].id = Append(p.id, m2)
      <4>1. Len(p.id) = 1 /\ G[l1][n1].id = Append(p.id, m1)
        BY <1>4, <1>7, <2>6, <3>4
      <4>2. G[l2][n2].id = Append(p.id, m2)
        BY <1>4, <1>7, <2>6, <3>2, <3>4
      <4> QED
        BY <4>1, <4>2
    <3> DEFINE a == Append(p.id, m1)
               b == Append(p.id, m2)
    <3>6. Len(a) = 2 /\ Len(b) = 2 /\ a[2] = m1 /\ b[2] = m2
      <4>1. PICK s \in Seq(Nat) : s = p.id
        BY <1>3
      <4>2. Len(s) = 1
        BY <3>5, <4>1
      <4>3. ASSUME NEW m \in Nat PROVE Len(Append(s, m)) = 2 /\ Append(s, m)[2] = m
        <5>1. Append(s, m) \in Seq(Nat) /\ Len(Append(s, m)) = Len(s) + 1
          BY <4>1
        <5>2. Append(s, m)[Len(s) + 1] = m
          BY <4>1
        <5>3. Len(s) + 1 = 2
          BY <4>2
        <5> QED
          BY <5>1, <5>2, <5>3
      <4> QED
        BY <4>1, <4>3
    <3> HIDE DEF a, b
    <3>7. ~Overlap(a, b)
      BY <3>3, <3>6 DEF Overlap
    <3> QED
      BY <3>5, <3>7 DEF a, b
  <2> QED
    BY <2>1, <2>2, <2>3, <2>4, <2>5, <2>6
\* The requests of before.
<1>8. ASSUME NEW l \in Lanes, NEW n \in DOMAIN G[l], Unissued(l, G[l][n]), NEW m \in DOMAIN I
      PROVE  ~Overlap(G[l][n].id, I[m].id)
  <2>1. PICK o \in Nat : Stayed(H, G, A, l, n, o) \/ Came(H, G, A, add, l, n, o)
    BY Where
  <2>2. CASE Stayed(H, G, A, l, n, o)
    <3>1. o \in DOMAIN H[l] /\ G[l][n] = H[l][o]
      BY <2>2 DEF Stayed
    <3> QED
      BY <1>8, <3>1 DEF Once
  <2>3. CASE Came(H, G, A, add, l, n, o)
    <3>1. Unissued(A, p)
      BY <1>4, <1>8, <2>3
    <3>2. ~Overlap(p.id, I[m].id)
      BY <1>0, <1>1, <3>1 DEF Once, p
    <3> QED
      BY <1>5, <1>8, <2>3, <3>2
  <2> QED
    BY <2>1, <2>2, <2>3
<1>9. CASE J = I
  <2>1. \A m, n \in DOMAIN I : I[m].id = I[n].id => m = n
    BY DEF Once
  <2> QED
    BY <1>7, <1>8, <1>9, <2>1 DEF Once
<1>10. ASSUME NEW e \in Requests, J = Append(I, e), e.id = p.id, Len(p.id) = 2, Unissued(A, p),
              \A l \in Lanes : \A m \in DOMAIN add[l] : ~Unissued(l, add[l][m])
       PROVE  Once(G, J)
  <2>1. Len(I) \in Nat /\ DOMAIN I = 1 .. Len(I) /\ DOMAIN J = 1 .. Len(I) + 1
    BY <1>10
  <2>2. J[Len(I) + 1] = e /\ \A m \in 1 .. Len(I) : J[m] = I[m]
    BY <1>10, <2>1
  <2>3. ASSUME NEW l \in Lanes, NEW n \in DOMAIN G[l], Unissued(l, G[l][n])
        PROVE  ~Overlap(G[l][n].id, p.id)
    <3>1. PICK o \in Nat : Stayed(H, G, A, l, n, o) \/ Came(H, G, A, add, l, n, o)
      BY Where
    <3>2. ~Came(H, G, A, add, l, n, o)
      BY <1>10, <2>3 DEF Came
    <3>3. ~Overlap(p.id, G[l][n].id)
      BY <1>6, <1>10, <2>3, <3>1, <3>2
    <3> QED
      BY <3>3, OverlapSym
  <2>4. ASSUME NEW l \in Lanes, NEW n \in DOMAIN G[l], NEW m \in DOMAIN J, Unissued(l, G[l][n])
        PROVE  ~Overlap(G[l][n].id, J[m].id)
    <3>1. CASE m \in 1 .. Len(I)
      BY <1>8, <2>1, <2>2, <2>4, <3>1
    <3>2. CASE m = Len(I) + 1
      BY <1>10, <2>2, <2>3, <2>4, <3>2
    <3> QED
      BY <2>1, <3>1, <3>2
  \* p was not asked for before.
  <2>5. ASSUME NEW m \in DOMAIN I PROVE I[m].id # p.id
    <3>1. ~Overlap(p.id, I[m].id)
      BY <1>0, <1>1, <1>10 DEF Once, p
    <3>2. Overlap(p.id, p.id)
      BY DEF Overlap
    <3> QED
      BY <3>1, <3>2
  <2>6. ASSUME NEW m \in DOMAIN J, NEW n \in DOMAIN J, J[m].id = J[n].id
        PROVE  m = n
    <3>1. CASE m \in 1 .. Len(I) /\ n \in 1 .. Len(I)
      BY <2>1, <2>2, <2>6, <3>1 DEF Once
    <3>2. CASE m \in 1 .. Len(I) /\ n = Len(I) + 1
      BY <1>10, <2>1, <2>2, <2>5, <2>6, <3>2
    <3>3. CASE n \in 1 .. Len(I) /\ m = Len(I) + 1
      BY <1>10, <2>1, <2>2, <2>5, <2>6, <3>3
    <3> QED
      BY <2>1, <3>1, <3>2, <3>3
  <2> QED
    BY <1>7, <2>4, <2>6 DEF Once
<1> QED
  BY <1>1, <1>9, <1>10 DEF Notes

-----------------------------------------------------------------------------
\* What the cones make of a packet of a kind.

\* Name, tag, id and length of what a cone makes of a packet.
LEMMA ResultShape ==
  ASSUME NEW h, NEW c, ConeOK(h, c), NEW p \in Packet, NEW made \in Results(c, p)
  PROVE  /\ c.chunks = {} => made = <<Dressed(c, p)>>
         /\ c.chunks # {} => \A j \in DOMAIN made : made[j].id = Append(p.id, j)
<1> DEFINE d == Dressed(c, p)
<1>1. d \in Packet /\ d.id = p.id
  BY DressedOK
<1> HIDE DEF d
<1>2. c.chunks = {} => made = <<Dressed(c, p)>>
  BY DEF Results
<1>3. ASSUME c.chunks # {}
      PROVE  \A j \in DOMAIN made : made[j].id = Append(p.id, j)
  <2>1. PICK k \in c.chunks : made = Pieces([method |-> c.method, chunk |-> k], d)
    BY <1>3 DEF Results, d
  <2> DEFINE x == [method |-> c.method, chunk |-> k]
             rounds == Rounds(IF x.method = "onLENGTH" THEN d.length ELSE d.size, x.chunk)
  <2>2. x.chunk \in Nat \ {0}
    BY DEF ConeOK
  <2>3. rounds \in Nat
    BY <1>1, <2>2, RoundsNat DEF Packet
  <2>4. made = [j \in 1 .. rounds |-> Piece(x, d, j, rounds)]
    BY <2>1 DEF Pieces
  <2> HIDE DEF x, rounds
  <2>5. ASSUME NEW j \in 1 .. rounds PROVE made[j].id = Append(p.id, j)
    <3>1. made[j] = Piece(x, d, j, rounds)
      BY <2>4
    <3>2. Piece(x, d, j, rounds).id = Append(d.id, j)
      BY <1>1, <2>2, <2>3, PieceOK
    <3> QED
      BY <1>1, <3>1, <3>2
  <2>6. DOMAIN made = 1 .. rounds
    BY <2>4
  <2> QED
    BY <2>5, <2>6
<1> QED
  BY <1>2, <1>3

\* A length of 16 takes one bite of every size the code chooses from.
LEMMA RoundsOne == \A k \in {64, 128, 256} : Rounds(16, k) = 1
<1>1. /\ 16 \div 64 = 0 /\ 16 % 64 = 16
      /\ 16 \div 128 = 0 /\ 16 % 128 = 16
      /\ 16 \div 256 = 0 /\ 16 % 256 = 16
  OBVIOUS
<1> QED
  BY <1>1 DEF Rounds

\* The size that a cone gives a packet before it splits it.
LEMMA DressedSize ==
  ASSUME NEW c, NEW p \in Packet
  PROVE  /\ Dressed(c, p).size = IF c.size = 0 THEN p.size ELSE c.size
         /\ Dressed(c, p).length = IF c.size = 0 THEN p.length ELSE c.size
BY DEF Dressed, Packet

\* What fits in one chunk is one piece.
LEMMA OnePiece ==
  ASSUME NEW h, NEW c, ConeOK(h, c), NEW p \in Packet, NEW made \in Results(c, p),
         c.chunks # {} => c.chunks \subseteq {64, 128, 256} /\ c.size = 0,
         c.chunks # {} => IF c.method = "onLENGTH" THEN p.length = 16 ELSE p.size = 16
  PROVE  Len(made) = 1
<1>1. CASE c.chunks = {}
  <2>1. made = <<Dressed(c, p)>>
    BY <1>1, ResultShape
  <2> QED
    BY <2>1
<1>2. CASE c.chunks # {}
  <2> DEFINE d == Dressed(c, p)
  <2>1. d.size = p.size /\ d.length = p.length
    BY <1>2 DEF Dressed, Packet
  <2>2. PICK k \in c.chunks : made = Pieces([method |-> c.method, chunk |-> k], d)
    BY <1>2 DEF Results
  <2> HIDE DEF d
  <2> DEFINE x == [method |-> c.method, chunk |-> k]
             rounds == Rounds(IF x.method = "onLENGTH" THEN d.length ELSE d.size, x.chunk)
  <2>3. rounds = 1
    BY <1>2, <2>1, RoundsOne
  <2>4. made = [j \in 1 .. rounds |-> Piece(x, d, j, rounds)]
    BY <2>2 DEF Pieces
  <2> HIDE DEF x, rounds
  <2> QED
    BY <2>3, <2>4
<1> QED
  BY <1>1, <1>2

\* A cone that carries on makes one packet of one.
LEMMA CarriesOne ==
  ASSUME NEW i \in IDC, NEW h, NEW c, ConeOK(h, c), Carries(i, h, c), NEW p \in Packet,
         p.name = h.name, Kind(p), NEW made \in Results(c, p)
  PROVE  Len(made) = 1
<1>1. h.name \in Names /\ c.as \in Names
  BY DEF Packet, ConeOK
<1>2. Rank(h.name) = Rank(c.as) - 1 /\ Whole(c, c.as)
  BY DEF Carries
<1>3. CASE c.as = "Data.fetch"
  <2>1. h.name = "Data.fetch.req"
    BY <1>1, <1>2, <1>3, RankIs, RankOnce
  <2> QED
    BY <1>2, <1>3, <2>1, OnePiece DEF Whole, Kind
<1>4. CASE c.as = "WR.Desc"
  <2>1. Rank(h.name) = 9 /\ Rank("Result.Desc") = 9 /\ "Result.Desc" \in Names
    BY <1>2, <1>4, RankIs DEF Names
  <2>2. h.name = "Result.Desc"
    BY <1>1, <2>1, RankOnce
  <2>3. p.size = 16
    BY <2>2 DEF Kind
  <2> QED
    BY <1>2, <1>4, <2>3, OnePiece DEF Whole
<1>5. CASE c.as \notin {"Data.fetch", "WR.Desc"}
  <2>1. c.chunks = {}
    BY <1>2, <1>5 DEF Whole
  <2> QED
    BY <2>1, OnePiece
<1> QED
  BY <1>3, <1>4, <1>5

\* A packet that handler h has taken, and what its cone c made of it.
Took(h, c, p, made) ==
  /\ h \in Handlers /\ c \in h.cones
  /\ p \in Packet /\ Accepts(h, p) /\ Belongs(h.from, p) /\ Kind(p)
  /\ made \in Results(c, p)

\* What there is to know about it, by the type invariant.
LEMMA TookFacts ==
  ASSUME NEW h, NEW c, NEW p, NEW made, Took(h, c, p, made)
  PROVE  /\ ConeOK(h, c) /\ Suits(h, c) /\ p.name = h.name
         /\ made \in Seq(Packet) /\ \A n \in DOMAIN made : Made(c, p, made[n]) /\ made[n] \in Packet
<1>1. ConeOK(h, c)
  BY AllHandlersOK DEF Took, HandlerOK
<1>2. Suits(h, c)
  BY HandlersSuit DEF Took
<1>3. made \in Seq(Packet) /\ \A n \in DOMAIN made : Made(c, p, made[n])
  BY <1>1, ResultsOK DEF Took
<1>4. \A n \in DOMAIN made : made[n] \in Packet
  BY <1>3
<1> QED
  BY <1>1, <1>2, <1>3, <1>4 DEF Took, Accepts

\* It is of the kind that its new name says.
LEMMA MadeKind ==
  ASSUME NEW h, NEW c, NEW p, NEW made, Took(h, c, p, made), NEW n \in DOMAIN made
  PROVE  KindAt(<<h, c>>, made[n])
<1> DEFINE q == made[n]
<1>1. /\ ConeOK(h, c) /\ Suits(h, c) /\ p.name = h.name /\ p \in Packet /\ Kind(p)
      /\ q \in Packet /\ Made(c, p, q) /\ Belongs(h.from, p)
  BY TookFacts DEF Took
<1>2. q.name = c.as /\ q.requester = IF c.tag = None THEN p.requester ELSE c.tag
  BY <1>1 DEF Made
<1>3. c.chunks = {} => q = Dressed(c, p) /\ n = 1
  <2> SUFFICES ASSUME c.chunks = {} PROVE q = Dressed(c, p) /\ n = 1
    OBVIOUS
  <2>1. made = <<Dressed(c, p)>>
    BY <1>1, ResultShape DEF Took
  <2> QED
    BY <2>1
<1>4. c.chunks # {} => q.id = Append(p.id, n)
  BY <1>1, ResultShape DEF Took
<1> HIDE DEF q
<1>5. c.chunks = {} => q.id = p.id
  BY <1>1, <1>3, DressedOK
<1>6. c.chunks # {} => Len(q.id) = Len(p.id) + 1
  <2>1. p.id \in Seq(Nat)
    BY <1>1 DEF Packet
  <2> QED
    BY <1>4, <2>1
<1>7. h.from.name \in Own => q.requester = h.from.of
  BY <1>1, <1>2 DEF Suits, Belongs, Own
<1>8. Rank(q.name) >= 2 => q.requester # None
  BY <1>1, <1>2 DEF Suits, Kind
<1>9. q.name = "Data.fetch.req" => q.length = 16
  <2> SUFFICES ASSUME c.as = "Data.fetch.req" PROVE q.length = 16
    BY <1>2
  <2>1. c.size = 16 /\ c.chunks = {}
    BY <1>1 DEF Suits
  <2> QED
    BY <1>1, <1>3, <2>1, DressedSize
<1>10. q.name \in {"Mem.Desc", "Result.Desc"} => q.size = 16
  <2>1. CASE c.as = "Mem.Desc"
    <3>1. c.size = 16 /\ c.chunks = {}
      BY <1>1, <2>1 DEF Suits
    <3> QED
      BY <1>1, <1>3, <3>1, DressedSize
  <2>2. CASE c.as = "Result.Desc"
    <3>1. c.size = 0 /\ c.chunks = {} /\ p.name = "Mem.Desc"
      BY <1>1, <2>2 DEF Suits
    <3>2. p.size = 16
      BY <1>1, <3>1 DEF Kind
    <3> QED
      BY <1>1, <1>3, <3>1, <3>2, DressedSize
  <2> QED
    BY <1>2, <2>1, <2>2
<1>11. /\ q.name \in BlockNames => Len(q.id) = 1
       /\ q.name \in (NewNames \ BlockNames) \cup {"Data.fetch.req"} => Len(q.id) = 2
  <2> SUFFICES ASSUME c.as \in NewNames \cup {"Data.fetch.req"}
               PROVE  Len(q.id) = IF c.as \in BlockNames THEN 1 ELSE 2
    BY <1>2 DEF NewNames, BlockNames
  <2>1. NewCone(h, c)
    BY <1>1 DEF Suits
  <2>2. CASE c.chunks = {}
    BY <1>1, <1>5, <2>1, <2>2 DEF NewCone, Kind
  <2>3. CASE c.chunks # {}
    <3>1. p.name \in BlockNames /\ c.as \notin BlockNames
      BY <1>1, <2>1, <2>3 DEF NewCone
    <3>2. Len(p.id) = 1
      BY <1>1, <3>1 DEF Kind
    <3> QED
      BY <1>6, <2>3, <3>1, <3>2
  <2> QED
    BY <2>2, <2>3
<1>12. Kind(q)
  BY <1>8, <1>9, <1>10, <1>11 DEF Kind
<1> QED
  BY <1>2, <1>7, <1>12 DEF KindAt, q

\* If it is new, so was the packet.
LEMMA MadeNew ==
  ASSUME NEW h, NEW c, NEW p, NEW made, Took(h, c, p, made), NEW n \in DOMAIN made,
         Unissued(<<h, c>>, made[n])
  PROVE  /\ p.name \in NewNames
         /\ h.cones = {c}
         /\ \/ Len(made) = 1 /\ made[n].id = p.id
            \/ Len(p.id) = 1 /\ made[n].id = Append(p.id, n)
<1>1. /\ ConeOK(h, c) /\ Suits(h, c) /\ p.name = h.name /\ p \in Packet /\ Kind(p)
      /\ Made(c, p, made[n])
  BY TookFacts DEF Took
<1>2. c.as \in NewNames \cup {"Data.fetch.req"}
  BY <1>1 DEF Unissued, Made
<1>3. NewCone(h, c)
  BY <1>1, <1>2 DEF Suits
<1>4. CASE c.chunks = {}
  <2>1. made = <<Dressed(c, p)>>
    BY <1>1, <1>4, ResultShape DEF Took
  <2>2. Len(made) = 1 /\ made[n] = Dressed(c, p)
    BY <2>1
  <2>3. Dressed(c, p).id = p.id
    BY <1>1, DressedOK
  <2> QED
    BY <1>1, <1>3, <2>2, <2>3 DEF NewCone
<1>5. CASE c.chunks # {}
  <2>1. made[n].id = Append(p.id, n)
    BY <1>1, <1>5, ResultShape DEF Took
  <2>2. h.name \in BlockNames
    BY <1>3, <1>5 DEF NewCone
  <2>3. Len(p.id) = 1
    BY <1>1, <2>2 DEF Kind
  <2> QED
    BY <1>1, <1>3, <2>1, <2>3 DEF NewCone
<1> QED
  BY <1>4, <1>5

\* If it is on its way, the packet was one stage before.
LEMMA MadeStage ==
  ASSUME NEW h, NEW c, NEW p, NEW made, Took(h, c, p, made), NEW n \in DOMAIN made,
         NEW i \in IDC, NEW k \in 2 .. 24, Stage(i, k, <<h, c>>, made[n])
  PROVE  /\ \E j \in 2 .. 24 : k = j + 1 /\ Stage(i, j, Shelf(h.from), p)
         /\ Len(made) = 1
         /\ Command(made[n]) = Command(p)
<1> DEFINE q == made[n]
           r == Rank(q.name)
<1>1. /\ ConeOK(h, c) /\ Suits(h, c) /\ p.name = h.name /\ p \in Packet /\ Kind(p)
      /\ Made(c, p, q) /\ q \in Packet /\ Belongs(h.from, p) /\ h \in Handlers
  BY TookFacts DEF Took
<1>2. q.name = c.as /\ q.requester = IF c.tag = None THEN p.requester ELSE c.tag
  BY <1>1 DEF Made
<1>3. q.name \in Names /\ r \in 0 .. 12
  BY <1>1, RankOnce DEF Packet
<1>4. <<h, c>> # Shelf(Post(i, q.name))
  BY <1>1, NoHandlerOut DEF Shelf
<1>5. /\ r >= 2 /\ q.requester = i /\ k = 2 * r - 1 /\ Maker(i, q.name) = <<h, c>>
  BY <1>4 DEF Stage
<1> HIDE DEF q
<1>6. Carries(i, h, c)
  <2>1. q.name \in WayNames
    BY <1>3, <1>5, WayNameRank
  <2>2. Carries(i, Maker(i, q.name)[1], Maker(i, q.name)[2])
    BY <2>1, EachCarries
  <2> QED
    BY <1>5, <2>2
<1>7. Rank(p.name) = r - 1 /\ h.from = Post(i, p.name) /\ Whole(c, c.as)
  BY <1>1, <1>2, <1>6 DEF Carries
<1>8. Rank(p.name) >= 2 => p.requester = i
  <2> SUFFICES ASSUME Rank(p.name) >= 2 PROVE p.requester = i
    OBVIOUS
  <2>1. c.as # "Data.fetch"
    BY <1>2, <1>3, <1>7, RankIs
  <2>2. c.tag = None
    BY <1>7, <2>1 DEF Whole
  <2> QED
    BY <1>2, <1>5, <2>2
<1>9. Stage(i, 2 * (r - 1), Shelf(h.from), p)
  BY <1>3, <1>5, <1>7, <1>8 DEF Stage
<1>10. 2 * (r - 1) \in 2 .. 24 /\ k = 2 * (r - 1) + 1
  BY <1>3, <1>5
<1>11. Len(made) = 1
  BY <1>1, <1>6, CarriesOne DEF Took
<1>12. Command(q) = Command(p)
  <2>1. p.name \notin BlockNames
    <3>1. Rank(p.name) >= 1
      BY <1>3, <1>5, <1>7
    <3>2. \A a \in BlockNames : Rank(a) = 0
      BY DEF BlockNames, Rank
    <3> QED
      BY <3>1, <3>2
  <2>2. Len(p.id) >= 2
    BY <1>1, <2>1 DEF Belongs
  <2> QED
    BY <1>1, <2>2 DEF Made
<1> QED
  BY <1>9, <1>10, <1>11, <1>12 DEF q

-----------------------------------------------------------------------------
\* The order is kept by every step of the design.

\* A lane is that of a channel or of a cone ...
LEMMA LaneForms ==
  /\ \A c \in Channels : Shelf(c) \in Lanes /\ Shelf(c)[1] = NoHandler /\ Shelf(c)[2] = c
  /\ \A h \in Handlers : \A c \in h.cones : <<h, c>> \in Lanes /\ h # NoHandler
  /\ \A l \in Lanes :
       \/ l[1] = NoHandler /\ l[2] \in Channels /\ l = Shelf(l[2])
       \/ l[1] # NoHandler /\ l[1] \in Handlers /\ l[2] \in l[1].cones /\ l = <<l[1], l[2]>>
<1>1. NoHandler \notin Handlers
  BY NoHandlerOut
<1>2. \A l \in Lanes : \/ \E c \in Channels : l = Shelf(c)
                       \/ \E h \in Handlers : \E c \in h.cones : l = <<h, c>>
  BY DEF Lanes
<1>3. \A c \in Channels : Shelf(c) \in Lanes /\ Shelf(c)[1] = NoHandler /\ Shelf(c)[2] = c
  BY DEF Lanes, Shelf
<1>4. \A h \in Handlers : \A c \in h.cones : <<h, c>> \in Lanes /\ h # NoHandler
  BY <1>1 DEF Lanes
<1> QED
  BY <1>1, <1>2, <1>3, <1>4

\* ... and holds what is in the channel or in the cone.
LEMMA HeldForms ==
  /\ \A c \in Channels : held[Shelf(c)] = channel[c]
  /\ \A h \in Handlers : \A c \in h.cones : held[<<h, c>>] = pending[h][c]
BY LaneForms DEF held

\* Lanes hold sequences of packets.
LEMMA HeldTyped == TypeOK => held \in Contents
<1> SUFFICES ASSUME TypeOK PROVE held \in Contents
  OBVIOUS
<1>1. ASSUME NEW l \in Lanes PROVE held[l] \in Seq(Packet)
  <2>1. CASE l[1] = NoHandler
    BY <2>1, LaneForms DEF held, TypeOK
  <2>2. CASE l[1] # NoHandler
    <3>1. l[1] \in Handlers /\ l[2] \in l[1].cones
      BY <2>2, LaneForms
    <3>2. pending[l[1]] \in [l[1].cones -> Seq(Packet)]
      BY <3>1 DEF TypeOK
    <3>3. held[l] = pending[l[1]][l[2]]
      BY <2>2 DEF held
    <3> QED
      BY <3>1, <3>2, <3>3
  <2> QED
    BY <2>1, <2>2
<1> QED
  BY <1>1 DEF held, Contents

\* By RoutedBack, which IInv includes, packets on their way were asked for.
LEMMA OnTheWayKnown == IInv => Known(held, issued)
<1> SUFFICES ASSUME IInv, NEW i \in IDC, NEW l \in Lanes, NEW k \in 2 .. 24,
                    NEW n \in DOMAIN held[l], Stage(i, k, l, held[l][n])
             PROVE  \E m \in DOMAIN issued : issued[m].id = Command(held[l][n])
  BY DEF Known
<1> DEFINE q == held[l][n]
           r == Rank(q.name)
<1>1. q \in Packet
  <2>1. held[l] \in Seq(Packet)
    BY HeldTyped DEF IInv, Contents
  <2> QED
    BY <2>1
<1>2. q.name \in Names /\ r \in 0 .. 12 /\ (r = 1 => q.name = "Data.fetch.req")
  BY <1>1, RankOnce DEF Packet
<1>3. /\ r >= 1
      /\ r >= 2 => q.requester = i
      /\ r < 2 => l = Shelf(Post(i, q.name))
  BY <1>2 DEF Stage
<1>4. i # None
  BY DmaAssumption
<1> HIDE DEF q, r
<1>5. \E u : [idc |-> u, id |-> Command(q)] \in ToSet(issued)
  <2>1. CASE r >= 2 /\ l[1] = NoHandler
    <3>1. l[2] \in Channels /\ l = Shelf(l[2])
      BY <2>1, LaneForms
    <3>2. held[l] = channel[l[2]]
      BY <3>1, HeldForms
    <3>3. Asked(l[2], q)
      BY <3>1, <3>2 DEF IInv, AllAsked, q
    <3> QED
      BY <1>3, <1>4, <2>1, <3>3 DEF Asked
  <2>2. CASE r >= 2 /\ l[1] # NoHandler
    <3>1. l[1] \in Handlers /\ l[2] \in l[1].cones /\ l = <<l[1], l[2]>>
      BY <2>2, LaneForms
    <3>2. held[l] = pending[l[1]][l[2]]
      BY <3>1, HeldForms
    <3>3. q.requester # None => [idc |-> q.requester, id |-> Command(q)] \in ToSet(issued)
      BY <3>1, <3>2 DEF IInv, AllAsked, q
    <3> QED
      BY <1>3, <1>4, <2>2, <3>3
  <2>3. CASE r < 2
    <3>1. r = 1
      BY <1>2, <1>3, <2>3
    <3>2. q.name = "Data.fetch.req" /\ l = Shelf(Of("IDC_req", i))
      BY <1>2, <1>3, <2>3, <3>1 DEF Post
    <3>3. Of("IDC_req", i) \in Channels /\ Of("IDC_req", i).name = "IDC_req"
      BY ChannelNames
    <3>4. held[l] = channel[Of("IDC_req", i)]
      BY <3>2, <3>3, HeldForms
    <3>5. Asked(Of("IDC_req", i), q)
      BY <3>3, <3>4 DEF IInv, AllAsked, q
    <3> QED
      BY <3>3, <3>5 DEF Asked
  <2> QED
    <3>1. r >= 2 \/ r < 2
      BY <1>2
    <3> QED
      BY <2>1, <2>2, <2>3, <3>1
<1>6. PICK u : [idc |-> u, id |-> Command(q)] \in ToSet(issued)
  BY <1>5
<1>7. PICK m \in DOMAIN issued : issued[m] = [idc |-> u, id |-> Command(q)]
  BY <1>6 DEF ToSet
<1> QED
  BY <1>7 DEF q

\* If what comes is of its kind, everything is.
LEMMA MovesKinds ==
  ASSUME NEW H \in Contents, NEW G, NEW A, NEW add, Moves(H, G, A, add), Kinds(H),
         \A l \in Lanes : \A m \in DOMAIN add[l] : KindAt(l, add[l][m])
  PROVE  Kinds(G)
<1> SUFFICES ASSUME NEW l \in Lanes, NEW n \in DOMAIN G[l]
             PROVE  KindAt(l, G[l][n])
  BY DEF Kinds
<1>1. PICK m \in Nat : Stayed(H, G, A, l, n, m) \/ Came(H, G, A, add, l, n, m)
  BY Where
<1>2. CASE Stayed(H, G, A, l, n, m)
  <2>1. m \in DOMAIN H[l] /\ G[l][n] = H[l][m]
    BY <1>2 DEF Stayed
  <2> QED
    BY <2>1 DEF Kinds
<1>3. CASE Came(H, G, A, add, l, n, m)
  <2>1. m \in DOMAIN add[l] /\ G[l][n] = add[l][m]
    BY <1>3 DEF Came
  <2> QED
    BY <2>1
<1> QED
  BY <1>1, <1>2, <1>3

\* What a step must be like to keep the order.
LEMMA StepOrder ==
  ASSUME IInv, OrderInv, NEW A, NEW add, NEW G, NEW J, NEW p,
         Moves(held, G, A, add), p = Head(held[A]), Len(p.id) >= 1,
         \A l \in Lanes : \A m \in DOMAIN add[l] : KindAt(l, add[l][m]),
         Brings(A, add, p), Notes(issued, J, A, add, p), Recorded(issued, J, A, add, p)
  PROVE  Kinds(G) /\ Once(G, J) /\ InTurn(G, J)
<1>1. held \in Contents /\ Known(held, issued) /\ issued \in Seq(Requests)
  BY HeldTyped, OnTheWayKnown DEF IInv, TypeOK, Requests
<1>2. Kinds(held) /\ Once(held, issued) /\ InTurn(held, issued)
  BY DEF OrderInv
<1>3. Kinds(G)
  BY <1>1, <1>2, MovesKinds
<1>4. Once(G, J)
  BY <1>1, <1>2, MovesOnce
<1>5. InTurn(G, J)
  BY <1>1, <1>2, MovesInTurn
<1> QED
  BY <1>3, <1>4, <1>5

\* Packet p, which handler h took, and what is put into the lanes of its cones.
TakesInto(h, p, add) ==
  /\ p \in Packet /\ p.name = h.name /\ Belongs(h.from, p)
  /\ \A l \in Lanes :
       IF l[1] = h THEN l = <<h, l[2]>> /\ l[2] \in h.cones /\ Took(h, l[2], p, add[l])
       ELSE add[l] = <<>>

\* A handler that takes a packet moves it from a channel to its cones ...
LEMMA TakeMoves ==
  ASSUME IInv, OrderInv, NEW h \in Handlers, Take(h)
  PROVE  \E add : /\ Moves(held, held', Shelf(h.from), add)
                 /\ TakesInto(h, Head(held[Shelf(h.from)]), add)
<1> DEFINE p == Head(channel[h.from])
           A == Shelf(h.from)
<1>1. HandlerOK(h) /\ h.from \in Channels
  BY AllHandlersOK DEF HandlerOK
<1>2. channel[h.from] \in Seq(Packet) /\ channel[h.from] # <<>> /\ Accepts(h, p)
  BY <1>1 DEF IInv, TypeOK, Take
<1>3. p = channel[h.from][1] /\ 1 \in DOMAIN channel[h.from] /\ p \in Packet
  BY <1>2
<1>4. Belongs(h.from, p)
  BY <1>1, <1>3 DEF IInv, AllBelong
<1>5. PICK made \in [h.cones -> UNION {Results(c, p) : c \in h.cones}] :
        /\ \A c \in h.cones : made[c] \in Results(c, p)
        /\ pending' = [pending EXCEPT ![h] = [c \in h.cones |-> @[c] \o made[c]]]
  BY DEF Take
<1>6. channel' = [channel EXCEPT ![h.from] = Tail(@)] /\ issued' = issued
  BY DEF Take
<1>7. A \in Lanes /\ held[A] = channel[h.from] /\ A[1] = NoHandler /\ A[2] = h.from /\ h # NoHandler
  BY <1>1, LaneForms, HeldForms, NoHandlerOut
<1> HIDE DEF p, A
<1>8. p = Head(held[A])
  BY <1>7 DEF p
<1>9. KindAt(A, p)
  BY <1>3, <1>7 DEF OrderInv, Kinds
<1>10. \A c \in h.cones : Took(h, c, p, made[c])
  BY <1>2, <1>3, <1>4, <1>5, <1>9 DEF Took, KindAt
<1>11. \A c \in h.cones : made[c] \in Seq(Packet)
  BY <1>10, TookFacts
<1> DEFINE add == [l \in Lanes |-> IF l[1] = h THEN made[l[2]] ELSE <<>>]
<1>12. \A l \in Lanes : \/ l[1] = h /\ l[2] \in h.cones /\ l = <<h, l[2]>> /\ add[l] = made[l[2]]
                        \/ l[1] # h /\ add[l] = <<>>
  BY <1>7, LaneForms
<1>13. add \in Contents
  <2>1. \A l \in Lanes : add[l] \in Seq(Packet)
    BY <1>11, <1>12
  <2> QED
    BY <2>1 DEF Contents
<1>14. add[A] = <<>>
  BY <1>7, <1>12
<1> HIDE DEF add
<1>15. ASSUME NEW l \in Lanes
       PROVE  held'[l] = (IF l = A THEN Tail(held[l]) ELSE held[l]) \o add[l]
  <2>1. held[l] \in Seq(Packet)
    BY HeldTyped DEF IInv, Contents
  <2>2. held'[l] = IF l[1] = NoHandler THEN channel'[l[2]] ELSE pending'[l[1]][l[2]]
    BY DEF held
  <2>3. CASE l = A
    <3>1. held'[l] = Tail(held[l])
      BY <1>1, <1>6, <1>7, <2>2, <2>3 DEF IInv, TypeOK
    <3>2. Tail(held[l]) \in Seq(Packet)
      BY <1>2, <1>7, <2>3
    <3>3. Tail(held[l]) \o <<>> = Tail(held[l])
      BY <3>2
    <3> QED
      BY <1>14, <2>3, <3>1, <3>3
  <2>4. CASE l # A /\ l[1] = NoHandler
    <3>1. l[2] \in Channels /\ l = Shelf(l[2]) /\ l[2] # h.from
      BY <2>4, LaneForms DEF A
    <3>2. held'[l] = channel[l[2]] /\ held[l] = channel[l[2]]
      BY <1>6, <2>2, <2>4, <3>1, HeldForms DEF IInv, TypeOK
    <3>3. add[l] = <<>>
      BY <1>7, <1>12, <2>4
    <3> QED
      BY <2>1, <2>4, <3>2, <3>3
  <2>5. CASE l # A /\ l[1] # NoHandler
    <3>1. l[1] \in Handlers /\ l[2] \in l[1].cones /\ l = <<l[1], l[2]>>
      BY <2>5, LaneForms
    <3>2. held'[l] = pending'[l[1]][l[2]] /\ held[l] = pending[l[1]][l[2]]
      BY <2>2, <2>5, <3>1, HeldForms
    <3>3. CASE l[1] = h
      <4>1. pending'[h][l[2]] = pending[h][l[2]] \o made[l[2]]
        BY <1>5, <3>1, <3>3 DEF IInv, TypeOK
      <4>2. add[l] = made[l[2]]
        BY <1>12, <3>3
      <4> QED
        BY <2>5, <3>2, <3>3, <4>1, <4>2
    <3>4. CASE l[1] # h
      <4>1. pending'[l[1]] = pending[l[1]]
        BY <1>5, <3>1, <3>4 DEF IInv, TypeOK
      <4>2. add[l] = <<>>
        BY <1>12, <3>4
      <4> QED
        BY <2>1, <2>5, <3>2, <4>1, <4>2
    <3> QED
      BY <3>3, <3>4
  <2> QED
    BY <2>3, <2>4, <2>5
<1>16. Moves(held, held', A, add)
  <2>1. held' = [l \in Lanes |-> held'[l]]
    BY DEF held
  <2>2. held' = [l \in Lanes |-> (IF l = A THEN Tail(held[l]) ELSE held[l]) \o add[l]]
    BY <1>15, <2>1
  <2>3. held[A] # <<>>
    BY <1>2, <1>7
  <2> QED
    BY <1>7, <1>13, <1>14, <2>2, <2>3 DEF Moves
<1>17. TakesInto(h, p, add)
  <2>1. p \in Packet /\ p.name = h.name /\ Belongs(h.from, p)
    BY <1>2, <1>3, <1>4 DEF Accepts
  <2>2. \A l \in Lanes :
          IF l[1] = h THEN l = <<h, l[2]>> /\ l[2] \in h.cones /\ Took(h, l[2], p, add[l])
          ELSE add[l] = <<>>
    BY <1>10, <1>12
  <2> QED
    BY <2>1, <2>2 DEF TakesInto
<1> QED
  BY <1>8, <1>16, <1>17 DEF A

\* ... and that keeps the order.
LEMMA TakeOrder ==
  ASSUME IInv, OrderInv, NEW h \in Handlers, Take(h)
  PROVE  OrderInv'
<1> DEFINE A == Shelf(h.from)
           p == Head(held[A])
<1>1. PICK add : Moves(held, held', A, add) /\ TakesInto(h, p, add)
  BY TakeMoves
<1>2. issued' = issued
  BY DEF Take
<1>3. A[1] = NoHandler
  BY DEF Shelf
<1>4. A = Shelf(h.from) /\ p = Head(held[A])
  OBVIOUS
<1> HIDE DEF p, A
\* What comes to a lane was made by a cone of h.
<1>5. ASSUME NEW l \in Lanes, NEW m \in DOMAIN add[l]
      PROVE  l[2] \in h.cones /\ l = <<h, l[2]>> /\ Took(h, l[2], p, add[l])
  <2>1. add[l] # <<>>
    BY <1>5
  <2> QED
    BY <1>1, <2>1 DEF TakesInto
<1>6. Len(p.id) >= 1
  <2>1. p \in Packet /\ Belongs(h.from, p)
    BY <1>1 DEF TakesInto
  <2>2. Len(p.id) \in Nat
    BY <2>1 DEF Packet
  <2> QED
    BY <2>1, <2>2 DEF Belongs
<1>7. \A l \in Lanes : \A m \in DOMAIN add[l] : KindAt(l, add[l][m])
  BY <1>5, MadeKind
<1>8. Brings(A, add, p)
  <2> SUFFICES ASSUME NEW l \in Lanes, NEW m \in DOMAIN add[l], Unissued(l, add[l][m])
               PROVE  /\ Unissued(A, p)
                      /\ \A g \in Lanes : g # l => add[g] = <<>>
                      /\ \/ Len(add[l]) = 1 /\ add[l][m].id = p.id
                         \/ Len(p.id) = 1 /\ add[l][m].id = Append(p.id, m)
    BY DEF Brings
  <2> DEFINE c == l[2]
  <2>1. c \in h.cones /\ l = <<h, c>> /\ Took(h, c, p, add[l])
    BY <1>5
  <2> HIDE DEF c
  <2>2. Unissued(<<h, c>>, add[l][m])
    BY <2>1
  <2>3. /\ p.name \in NewNames
        /\ h.cones = {c}
        /\ \/ Len(add[l]) = 1 /\ add[l][m].id = p.id
           \/ Len(p.id) = 1 /\ add[l][m].id = Append(p.id, m)
    BY <2>1, <2>2, MadeNew
  <2>4. \A g \in Lanes : g # l => add[g] = <<>>
    <3> TAKE g \in Lanes
    <3>1. g[1] = h => g = <<h, g[2]>> /\ g[2] \in h.cones
      BY <1>1 DEF TakesInto
    <3>2. g[1] = h => g = l
      BY <2>1, <2>3, <3>1
    <3> QED
      BY <1>1, <3>2 DEF TakesInto
  <2>5. Unissued(A, p)
    BY <2>3 DEF Unissued
  <2> QED
    BY <2>1, <2>3, <2>4, <2>5
<1>9. Follows(A, add, p)
  <2> SUFFICES ASSUME NEW i \in IDC, NEW l \in Lanes, NEW k \in 2 .. 24
               PROVE  \A m \in DOMAIN add[l] : Stage(i, k, l, add[l][m]) =>
                        /\ \E j \in 2 .. 24 : k = j + 1 /\ Stage(i, j, A, p)
                        /\ Len(add[l]) = 1
                        /\ Command(add[l][m]) = Command(p)
    BY DEF Follows
  <2> SUFFICES ASSUME NEW m \in DOMAIN add[l], Stage(i, k, l, add[l][m])
               PROVE  /\ \E j \in 2 .. 24 : k = j + 1 /\ Stage(i, j, A, p)
                      /\ Len(add[l]) = 1
                      /\ Command(add[l][m]) = Command(p)
    OBVIOUS
  <2> DEFINE c == l[2]
  <2>1. l = <<h, c>> /\ Took(h, c, p, add[l])
    BY <1>5
  <2> HIDE DEF c
  <2>2. Stage(i, k, <<h, c>>, add[l][m])
    BY <2>1
  <2> QED
    BY <2>1, <2>2, MadeStage DEF A
<1>10. Notes(issued, issued', A, add, p) /\ Recorded(issued, issued', A, add, p)
  BY <1>2, <1>9 DEF Notes, Recorded
<1>11. Kinds(held') /\ Once(held', issued') /\ InTurn(held', issued')
  BY <1>1, <1>4, <1>6, <1>7, <1>8, <1>10, StepOrder
<1> QED
  BY <1>11 DEF OrderInv

\* The lanes, when p alone is put into lane B.
Only(p, B) == [l \in Lanes |-> IF l = B THEN <<p>> ELSE <<>>]

\* A cone that puts a packet moves it to the channel behind it ...
LEMMA PutMoves ==
  ASSUME IInv, NEW h \in Handlers, NEW c \in h.cones, Put(h, c)
  PROVE  /\ Shelf(c.to) \in Lanes
         /\ Moves(held, held', <<h, c>>, Only(Head(held[<<h, c>>]), Shelf(c.to)))
<1> DEFINE p == Head(pending[h][c])
           A == <<h, c>>
           B == Shelf(c.to)
<1>1. /\ c.to \in Channels /\ c.as \in Names /\ (c.to.name = "IDC_req" => c.to.of \in IDC)
  BY AllHandlersOK DEF HandlerOK, ConeOK
<1>2. pending[h][c] \in Seq(Packet) /\ pending[h][c] # <<>>
  BY DEF IInv, TypeOK, Put
<1>3. p = pending[h][c][1] /\ 1 \in DOMAIN pending[h][c] /\ p \in Packet
  BY <1>2
<1>4. Belongs(c.to, p)
  BY <1>3 DEF IInv, AllBelong
<1>5. /\ channel' = [channel EXCEPT ![c.to] = Append(@, p)]
      /\ pending' = [pending EXCEPT ![h][c] = Tail(@)]
      /\ issued' = IF c.to.name = "IDC_req"
                   THEN Append(issued, [idc |-> c.to.of, id |-> Command(p)]) ELSE issued
  BY DEF Put
<1>6. A \in Lanes /\ held[A] = pending[h][c] /\ A[1] = h /\ A[2] = c /\ h # NoHandler
  BY LaneForms, HeldForms
<1>7. B \in Lanes /\ held[B] = channel[c.to] /\ B[1] = NoHandler /\ B[2] = c.to
  BY <1>1, LaneForms, HeldForms
<1>8. A = <<h, c>> /\ B = Shelf(c.to)
  OBVIOUS
<1> HIDE DEF p, A, B
<1>9. p = Head(held[A])
  BY <1>6 DEF p
<1> DEFINE add == Only(p, B)
<1>12. \A l \in Lanes : add[l] = IF l = B THEN <<p>> ELSE <<>>
  BY DEF Only
<1>13. add \in Contents
  <2>1. \A l \in Lanes : add[l] \in Seq(Packet)
    BY <1>3 DEF Only
  <2> QED
    BY <2>1 DEF Contents, Only
<1> HIDE DEF add
<1>14. add[A] = <<>>
  BY <1>6, <1>7, <1>12
<1>15. ASSUME NEW l \in Lanes
       PROVE  held'[l] = (IF l = A THEN Tail(held[l]) ELSE held[l]) \o add[l]
  <2>1. held[l] \in Seq(Packet)
    BY HeldTyped DEF IInv, Contents
  <2>2. held'[l] = IF l[1] = NoHandler THEN channel'[l[2]] ELSE pending'[l[1]][l[2]]
    BY DEF held
  <2>3. CASE l = A
    <3>1. held'[l] = Tail(held[l])
      BY <1>5, <1>6, <2>2, <2>3 DEF IInv, TypeOK
    <3>2. Tail(held[l]) \in Seq(Packet)
      BY <1>2, <1>6, <2>3
    <3>3. Tail(held[l]) \o <<>> = Tail(held[l])
      BY <3>2
    <3> QED
      BY <1>14, <2>3, <3>1, <3>3
  <2>4. CASE l # A /\ l[1] = NoHandler
    <3>1. l[2] \in Channels /\ l = Shelf(l[2]) /\ held[l] = channel[l[2]]
      BY <2>4, LaneForms, HeldForms
    <3>2. CASE l = B
      <4>1. held'[l] = Append(held[l], p)
        BY <1>1, <1>5, <1>7, <2>2, <2>4, <3>2 DEF IInv, TypeOK
      <4>2. Append(held[l], p) = held[l] \o <<p>>
        BY <1>3, <2>1
      <4> QED
        BY <1>12, <2>4, <3>2, <4>1, <4>2
    <3>3. CASE l # B
      <4>1. l[2] # c.to
        BY <1>8, <3>1, <3>3
      <4>2. held'[l] = held[l]
        BY <1>5, <2>2, <2>4, <3>1, <4>1 DEF IInv, TypeOK
      <4>3. add[l] = <<>>
        BY <1>12, <3>3
      <4> QED
        BY <2>1, <2>4, <4>2, <4>3
    <3> QED
      BY <3>2, <3>3
  <2>5. CASE l # A /\ l[1] # NoHandler
    <3>1. l[1] \in Handlers /\ l[2] \in l[1].cones /\ l = <<l[1], l[2]>>
      BY <2>5, LaneForms
    <3>2. held'[l] = pending'[l[1]][l[2]] /\ held[l] = pending[l[1]][l[2]]
      BY <2>2, <2>5, <3>1, HeldForms
    <3>3. ~(l[1] = h /\ l[2] = c)
      BY <1>8, <2>5, <3>1
    <3>4. pending'[l[1]][l[2]] = pending[l[1]][l[2]]
      BY <1>5, <3>1, <3>3 DEF IInv, TypeOK
    <3>5. add[l] = <<>>
      BY <1>7, <1>12, <2>5
    <3> QED
      BY <2>1, <2>5, <3>2, <3>4, <3>5
  <2> QED
    BY <2>3, <2>4, <2>5
<1>16. Moves(held, held', A, add)
  <2>1. held' = [l \in Lanes |-> held'[l]]
    BY DEF held
  <2>2. held' = [l \in Lanes |-> (IF l = A THEN Tail(held[l]) ELSE held[l]) \o add[l]]
    BY <1>15, <2>1
  <2>3. held[A] # <<>>
    BY <1>2, <1>6
  <2> QED
    BY <1>6, <1>13, <1>14, <2>2, <2>3 DEF Moves
<1> QED
  BY <1>7, <1>8, <1>9, <1>16 DEF add

\* ... and that keeps the order.
LEMMA PutOrder ==
  ASSUME IInv, OrderInv, NEW h \in Handlers, NEW c \in h.cones, Put(h, c)
  PROVE  OrderInv'
<1> DEFINE p == Head(pending[h][c])
           A == <<h, c>>
           B == Shelf(c.to)
<1>1. /\ c.to \in Channels /\ c.as \in Names /\ (c.to.name = "IDC_req" => c.to.of \in IDC)
      /\ Suits(h, c)
  BY AllHandlersOK, HandlersSuit DEF HandlerOK, ConeOK
<1>2. pending[h][c] \in Seq(Packet) /\ pending[h][c] # <<>>
  BY DEF IInv, TypeOK, Put
<1>3. p = pending[h][c][1] /\ 1 \in DOMAIN pending[h][c] /\ p \in Packet
  BY <1>2
<1>4. Belongs(c.to, p)
  BY <1>3 DEF IInv, AllBelong
<1>5. /\ channel' = [channel EXCEPT ![c.to] = Append(@, p)]
      /\ pending' = [pending EXCEPT ![h][c] = Tail(@)]
      /\ issued' = IF c.to.name = "IDC_req"
                   THEN Append(issued, [idc |-> c.to.of, id |-> Command(p)]) ELSE issued
  BY DEF Put
<1>6. A \in Lanes /\ held[A] = pending[h][c] /\ A[1] = h /\ A[2] = c /\ h # NoHandler
  BY LaneForms, HeldForms
<1>7. B \in Lanes /\ held[B] = channel[c.to] /\ B[1] = NoHandler /\ B[2] = c.to
  BY <1>1, LaneForms, HeldForms
<1>8. A = <<h, c>> /\ B = Shelf(c.to)
  OBVIOUS
<1> HIDE DEF p, A, B
<1>9. p = Head(held[A])
  BY <1>6 DEF p
<1>10. KindAt(A, p)
  BY <1>3, <1>6 DEF OrderInv, Kinds
<1>11. Kind(p) /\ p.name = c.as /\ (h.from.name \in Own => p.requester = h.from.of)
  BY <1>6, <1>10 DEF KindAt
<1> DEFINE add == Only(p, B)
<1>12. \A l \in Lanes : add[l] = IF l = B THEN <<p>> ELSE <<>>
  BY DEF Only
<1>16. Moves(held, held', A, add)
  BY <1>8, <1>9, PutMoves
<1> HIDE DEF add
<1>17. p.id \in Seq(Nat) /\ Len(p.id) >= 1
  <2>1. p.id \in Seq(Nat) /\ Len(p.id) \in Nat
    BY <1>3 DEF Packet
  <2> QED
    BY <1>4, <2>1 DEF Belongs
\* Only p comes to a lane, and only to B.
<1>18. ASSUME NEW l \in Lanes, NEW m \in DOMAIN add[l]
       PROVE  l = B /\ add[l] = <<p>> /\ m = 1 /\ add[l][m] = p /\ Len(add[l]) = 1
  <2>1. l = B
    BY <1>12, <1>18
  <2>2. add[l] = <<p>>
    BY <1>12, <2>1
  <2> QED
    BY <1>18, <2>1, <2>2
<1>19. \A l \in Lanes : \A m \in DOMAIN add[l] : KindAt(l, add[l][m])
  <2>1. KindAt(B, p)
    BY <1>7, <1>11 DEF KindAt
  <2> QED
    BY <1>18, <2>1
<1>20. Unissued(B, p) => Unissued(A, p)
  BY <1>7 DEF Unissued
<1>21. Brings(A, add, p)
  <2> SUFFICES ASSUME NEW l \in Lanes, NEW m \in DOMAIN add[l], Unissued(l, add[l][m])
               PROVE  /\ Unissued(A, p)
                      /\ \A g \in Lanes : g # l => add[g] = <<>>
                      /\ Len(add[l]) = 1 /\ add[l][m].id = p.id
    BY DEF Brings
  <2>1. l = B /\ add[l][m] = p /\ Len(add[l]) = 1
    BY <1>18
  <2> QED
    BY <1>12, <1>20, <2>1
\* Where p may be on its way.
<1>22. ASSUME NEW i \in IDC, NEW k \in 2 .. 24, Stage(i, k, B, p)
       PROVE  /\ k = 2 * Rank(c.as) /\ Rank(c.as) \in 1 .. 12 /\ c.to = Post(i, c.as)
              /\ Rank(c.as) >= 2 => p.requester = i
  <2>1. Rank(c.as) \in 0 .. 12
    BY <1>1, RankOnce
  <2>2. Rank(c.as) >= 2 => Maker(i, c.as)[1] \in Handlers
    BY <1>1, MakerLane
  <2>3. ~(Rank(c.as) >= 2 /\ B = Maker(i, c.as))
    BY <1>7, <2>2, NoHandlerOut
  <2>4. k = 2 * Rank(c.as) /\ B = Shelf(Post(i, c.as)) /\ Rank(c.as) >= 1
    BY <1>11, <1>22, <2>3 DEF Stage
  <2>5. c.to = Post(i, c.as)
    BY <1>8, <2>4 DEF Shelf
  <2>6. Rank(c.as) >= 2 => p.requester = i
    BY <1>11, <1>22 DEF Stage
  <2> QED
    BY <2>1, <2>4, <2>5, <2>6
<1>23. Notes(issued, issued', A, add, p) /\ Recorded(issued, issued', A, add, p)
  <2>1. CASE c.to.name # "IDC_req"
    <3>1. issued' = issued
      BY <1>5, <2>1
    <3>2. Follows(A, add, p)
      <4> SUFFICES ASSUME NEW i \in IDC, NEW l \in Lanes, NEW k \in 2 .. 24
                   PROVE  \A m \in DOMAIN add[l] : Stage(i, k, l, add[l][m]) =>
                            /\ \E j \in 2 .. 24 : k = j + 1 /\ Stage(i, j, A, p)
                            /\ Len(add[l]) = 1
                            /\ Command(add[l][m]) = Command(p)
        BY DEF Follows
      <4> SUFFICES ASSUME NEW m \in DOMAIN add[l], Stage(i, k, l, add[l][m])
                   PROVE  /\ \E j \in 2 .. 24 : k = j + 1 /\ Stage(i, j, A, p)
                          /\ Len(add[l]) = 1
                          /\ Command(add[l][m]) = Command(p)
        OBVIOUS
      <4> DEFINE r == Rank(c.as)
      <4>1. l = B /\ add[l][m] = p /\ Len(add[l]) = 1
        BY <1>18
      <4>2. /\ k = 2 * r /\ r \in 1 .. 12 /\ c.to = Post(i, c.as)
            /\ r >= 2 => p.requester = i
        BY <1>22, <4>1
      <4>3. r # 1
        <5> SUFFICES ASSUME r = 1 PROVE FALSE
          OBVIOUS
        <5>1. c.as = "Data.fetch.req"
          BY <1>1, RankOnce
        <5> QED
          BY <1>1, <2>1, <5>1 DEF Suits
      <4>4. r >= 2
        <5> HIDE DEF r
        <5> QED
          BY <4>2, <4>3
      <4>5. h.from.name \in Own => h.from.of = i
        BY <1>11, <4>2, <4>4
      <4>6. Maker(i, c.as) = <<h, c>>
        BY <1>1, <4>2, <4>4, <4>5 DEF Suits
      <4>7. Stage(i, 2 * r - 1, A, p)
        BY <1>8, <1>11, <4>2, <4>4, <4>6 DEF Stage
      <4>8. 2 * r - 1 \in 2 .. 24 /\ k = (2 * r - 1) + 1
        <5> HIDE DEF r
        <5> QED
          BY <4>2, <4>4
      <4> QED
        BY <4>1, <4>7, <4>8
    <3> QED
      BY <3>1, <3>2 DEF Notes, Recorded
  <2>2. CASE c.to.name = "IDC_req"
    <3> DEFINE e == [idc |-> c.to.of, id |-> Command(p)]
    <3>1. p.name = "Data.fetch.req"
      BY <1>1, <1>11, <2>2 DEF Suits
    <3>2. Len(p.id) = 2
      BY <1>11, <3>1 DEF Kind
    <3>3. Command(p) = p.id
      BY <1>17, <3>2 DEF Command
    <3>4. e \in Requests /\ e.id = p.id /\ issued' = Append(issued, e)
      BY <1>1, <1>5, <1>17, <2>2, <3>3 DEF Requests
    <3>5. Unissued(A, p) /\ ~Unissued(B, p)
      <4>1. "Data.fetch.req" \notin NewNames
        BY DEF NewNames, BlockNames
      <4> QED
        BY <1>6, <1>7, <3>1, <4>1 DEF Unissued
    <3> HIDE DEF e
    <3>6. \A l \in Lanes : \A m \in DOMAIN add[l] : ~Unissued(l, add[l][m])
      BY <1>18, <3>5
    <3>7. ASSUME NEW m \in DOMAIN issued PROVE issued[m].id # e.id
      <4>1. 1 \in DOMAIN held[A] /\ held[A][1] = p
        BY <1>3, <1>6
      <4>2. ~Overlap(p.id, issued[m].id)
        BY <1>6, <3>5, <4>1 DEF OrderInv, Once
      <4>3. Overlap(p.id, p.id)
        BY DEF Overlap
      <4> QED
        BY <3>4, <4>2, <4>3
    <3>8. Asks(add, p)
      <4> SUFFICES ASSUME NEW i \in IDC, NEW l \in Lanes, NEW k \in 2 .. 24
                   PROVE  \A m \in DOMAIN add[l] : Stage(i, k, l, add[l][m]) =>
                            k = 2 /\ Len(add[l]) = 1 /\ Command(add[l][m]) = Command(p)
        BY DEF Asks
      <4> SUFFICES ASSUME NEW m \in DOMAIN add[l], Stage(i, k, l, add[l][m])
                   PROVE  k = 2 /\ Len(add[l]) = 1 /\ Command(add[l][m]) = Command(p)
        OBVIOUS
      <4>1. l = B /\ add[l][m] = p /\ Len(add[l]) = 1
        BY <1>18
      <4>2. k = 2 * Rank(c.as)
        BY <1>22, <4>1
      <4>3. Rank(c.as) = 1
        BY <1>11, <3>1, RankIs
      <4> QED
        BY <4>1, <4>2, <4>3
    <3>9. Notes(issued, issued', A, add, p)
      BY <3>2, <3>4, <3>5, <3>6 DEF Notes
    <3>10. Recorded(issued, issued', A, add, p)
      BY <3>3, <3>4, <3>7, <3>8 DEF Recorded
    <3> QED
      BY <3>9, <3>10
  <2> QED
    BY <2>1, <2>2
<1>24. Kinds(held') /\ Once(held', issued') /\ InTurn(held', issued')
  BY <1>9, <1>16, <1>17, <1>19, <1>21, <1>23, StepOrder
<1> QED
  BY <1>24 DEF OrderInv

\* At first there is only the request for each block.
LEMMA InitHeld ==
  ASSUME Init, NEW l \in Lanes, NEW n \in DOMAIN held[l]
  PROVE  l = Shelf(At("CPR_req")) /\ held[l][n] = Stimulus(n) /\ n \in 1 .. Count
<1> DEFINE S == Shelf(At("CPR_req"))
<1>1. At("CPR_req") \in Channels /\ S \in Lanes
  BY ChannelNames, LaneForms
<1>2. CASE l[1] # NoHandler
  <2>1. l[1] \in Handlers /\ l[2] \in l[1].cones
    BY <1>2, LaneForms
  <2>2. held[l] = <<>>
    BY <1>2, <2>1 DEF held, Init
  <2> QED
    BY <2>2
<1>3. CASE l[1] = NoHandler /\ l # S
  <2>1. l[2] \in Channels /\ l[2] # At("CPR_req")
    BY <1>3, LaneForms
  <2>2. held[l] = <<>>
    BY <1>3, <2>1 DEF held, Init
  <2> QED
    BY <2>2
<1>4. CASE l = S
  <2>1. held[l] = [k \in 1 .. Count |-> Stimulus(k)]
    BY <1>1, <1>4, HeldForms DEF Init
  <2> QED
    BY <1>4, <2>1
<1> QED
  BY <1>2, <1>3, <1>4

\* These requests are new and differ.
LEMMA InitOrder == Init => OrderInv
<1> SUFFICES ASSUME Init PROVE OrderInv
  OBVIOUS
<1> DEFINE S == Shelf(At("CPR_req"))
<1>1. S[1] = NoHandler
  BY DEF Shelf
<1>2. ASSUME NEW l \in Lanes, NEW n \in DOMAIN held[l]
      PROVE  l = S /\ held[l][n] = Stimulus(n) /\ n \in 1 .. Count
  BY <1>2, InitHeld
<1>3. issued = <<>>
  BY DEF Init
<1> HIDE DEF S
<1>4. \A k \in Nat : /\ Stimulus(k).name = "CPR.fetch.req" /\ Stimulus(k).id = <<k>>
                     /\ Rank(Stimulus(k).name) = 0
  BY DEF Stimulus, Rank
<1>5. 1 .. Count \subseteq Nat
  BY DmaAssumption
<1>6. Kinds(held)
  <2> SUFFICES ASSUME NEW l \in Lanes, NEW n \in DOMAIN held[l]
               PROVE  KindAt(l, held[l][n])
    BY DEF Kinds
  <2>1. l = S /\ held[l][n] = Stimulus(n) /\ n \in Nat
    BY <1>2, <1>5
  <2>2. S[1] = NoHandler
    BY <1>1
  <2>3. Kind(Stimulus(n))
    <3>1. "CPR.fetch.req" \in BlockNames /\ "CPR.fetch.req" # "Data.fetch.req"
      BY DEF BlockNames
    <3>2. Len(<<n>>) = 1
      OBVIOUS
    <3> QED
      BY <1>4, <2>1, <3>1, <3>2 DEF Kind
  <2> QED
    BY <2>1, <2>2, <2>3 DEF KindAt
<1>7. Once(held, issued)
  <2>1. ASSUME NEW l1 \in Lanes, NEW l2 \in Lanes,
               NEW n1 \in DOMAIN held[l1], NEW n2 \in DOMAIN held[l2], l1 = l2 => n1 # n2
        PROVE  ~Overlap(held[l1][n1].id, held[l2][n2].id)
    <3>1. l1 = l2 /\ held[l1][n1].id = <<n1>> /\ held[l2][n2].id = <<n2>> /\ n1 # n2
      BY <1>2, <1>4, <1>5, <2>1
    <3>2. <<n1>>[1] # <<n2>>[1]
      BY <3>1
    <3> QED
      BY <3>1, <3>2 DEF Overlap
  <2>2. DOMAIN issued = {}
    BY <1>3
  <2> QED
    BY <2>1, <2>2 DEF Once
<1>8. InTurn(held, issued)
  <2>1. DOMAIN issued = {}
    BY <1>3
  <2>2. \A p, q : Earlier(issued, p, q)
    BY <2>1 DEF Earlier
  <2> QED
    BY <2>2 DEF InTurn
<1> QED
  BY <1>6, <1>7, <1>8 DEF OrderInv

\* Every step keeps the order.
LEMMA NextOrder == IInv /\ OrderInv /\ [Next]_vars => OrderInv'
<1> SUFFICES ASSUME IInv, OrderInv, [Next]_vars PROVE OrderInv'
  OBVIOUS
<1>1. ASSUME NEW h \in Handlers, Take(h) PROVE OrderInv'
  BY <1>1, TakeOrder
<1>2. ASSUME NEW h \in Handlers, NEW c \in h.cones, Put(h, c) PROVE OrderInv'
  BY <1>2, PutOrder
<1>3. CASE UNCHANGED vars
  <2>1. held' = held /\ issued' = issued
    BY <1>3 DEF vars, held
  <2> QED
    BY <2>1 DEF OrderInv
<1> QED
  BY <1>1, <1>2, <1>3 DEF Next

\* The host gets the descriptors of the commands of one controller in the order in which
\* the crossbar gave it the commands, for any number of controllers and commands: the
\* packets of a controller go through the channels of src/dma/flow.h one after the
\* other, and where they are split, into one piece.
THEOREM DescriptorsKeepOrder == Spec => []DescriptorsInOrder
<1>1. IInv /\ OrderInv => DescriptorsInOrder
  <2> SUFFICES ASSUME IInv, OrderInv PROVE DescriptorsInOrder
    OBVIOUS
  <2> DEFINE memory == channel[At("Host_mem")]
             place(p) == CHOOSE n \in DOMAIN issued : issued[n].id = Command(p)
             L == Shelf(At("Host_mem"))
  <2>1. At("Host_mem") \in Channels /\ L \in Lanes /\ held[L] = memory /\ L[1] = NoHandler
    BY ChannelNames, LaneForms, HeldForms
  <2>2. memory \in Seq(Packet)
    BY <2>1 DEF IInv, TypeOK
  <2> HIDE DEF memory
  <2> SUFFICES ASSUME NEW n \in DOMAIN memory, NEW m \in 1 .. n - 1,
                      memory[m].name = "Host.Desc", memory[n].name = "Host.Desc",
                      memory[m].requester = memory[n].requester
               PROVE  place(memory[m]) < place(memory[n])
    BY DEF DescriptorsInOrder, memory
  <2>3. n \in Nat /\ m \in DOMAIN memory /\ m < n
    BY <2>2
  <2>4. PICK i \in IDC : memory[m].requester = i /\ memory[n].requester = i
    <3>1. KindAt(L, memory[n])
      BY <2>1 DEF OrderInv, Kinds
    <3>2. memory[n].requester # None
      BY <3>1, RankIs DEF KindAt, Kind
    <3>3. memory[n] \in Packet
      BY <2>2
    <3> QED
      BY <3>2, <3>3 DEF Packet
  <2>5. Post(i, "Host.Desc") = At("Host_mem")
    BY DEF Post
  <2>6. Stage(i, 24, L, memory[m]) /\ Stage(i, 24, L, memory[n])
    BY <2>4, <2>5, RankIs DEF Stage
  <2> HIDE DEF L
  <2>7. Earlier(issued, memory[m], memory[n])
    <3>1. \A n1 \in DOMAIN held[L], n2 \in DOMAIN held[L] :
            Stage(i, 24, L, held[L][n1]) /\ Stage(i, 24, L, held[L][n2]) /\ n1 < n2
            => Earlier(issued, held[L][n1], held[L][n2])
      BY <2>1 DEF OrderInv, InTurn
    <3> QED
      BY <2>1, <2>3, <2>6, <3>1
  <2>8. /\ \E a \in DOMAIN issued : issued[a].id = Command(memory[m])
        /\ \E a \in DOMAIN issued : issued[a].id = Command(memory[n])
    BY <2>1, <2>3, <2>6, OnTheWayKnown DEF Known
  <2>9. /\ place(memory[m]) \in DOMAIN issued
        /\ issued[place(memory[m])].id = Command(memory[m])
    BY <2>8
  <2>10. /\ place(memory[n]) \in DOMAIN issued
         /\ issued[place(memory[n])].id = Command(memory[n])
    BY <2>8
  <2> HIDE DEF place
  <2> QED
    BY <2>7, <2>9, <2>10 DEF Earlier
<1> QED
  BY <1>1, InitIInv, NextIInv, InitOrder, NextOrder, PTL DEF Spec

-----------------------------------------------------------------------------
\* The promise of the design.  From the execution unit on, a command has two packets: one
\* goes to the host as the result, the other as the descriptor.  All other packets lead to
\* both, and of the packets that lead to the same one, no two are about the same command.

\* What the host keeps, and the names on the way to a result and to a descriptor.
HostNames == {"Host.Data", "Host.Desc"}

DataNames == {"Mem.Data.Out", "Result.Data", "WR.Data", "PCIE.WR.Data", "Host.Data"}

DescNames == {"Mem.Desc", "Result.Desc", "WR.Desc", "PCIE.WR.Desc", "Host.Desc"}

\* A packet of that name becomes one that the host keeps by the name kind.
Leads(name, kind) == name \notin IF kind = "Host.Data" THEN DescNames ELSE DataNames

\* What has the new name leads nowhere that what had the old one did not.
Onward(name, as) == \A kind \in HostNames : Leads(as, kind) => Leads(name, kind)

\* The commands of a block, and the pieces of one command.
Cuts(h, c) ==
  \/ h.name = "CPP.cmd" /\ c.method = "onSIZE" /\ c.chunks = {2}
  \/ h.name = "Data.fetch.req" /\ c.method = "onLENGTH" /\ c.chunks = {64, 128, 256}
  \/ h.name = "Result.Desc" /\ c.method = "onSIZE" /\ c.chunks = {128}

\* What the table of handlers must keep to for the promise: what comes to the memory of the
\* host is what the host keeps, no two cones of a handler lead to the same, and the size of
\* a block is that of all its pointers.
Serves(h, c) ==
  /\ c.to = At("Host_mem") <=> c.as \in HostNames
  /\ Onward(h.name, c.as)
  /\ \A d \in h.cones, kind \in HostNames : Leads(c.as, kind) /\ Leads(d.as, kind) => d = c
  /\ c.as = "CPR.cpl" => c.size = BlockSize /\ c.chunks = {}
  /\ c.as = "CPP.cmd" => c.size = 0 /\ c.chunks = {} /\ h.name = "CPR.cpl"
  /\ c.chunks # {} => c.size = 0 /\ Cuts(h, c)

\* Of a handler: it reads elsewhere, and has a cone.
AllServe(h) == h.from # At("Host_mem") /\ h.cones # {} /\ \A c \in h.cones : Serves(h, c)

\* A name and the next one, neither of a block's pointers nor kept by the host.
Relays(name, as) == Onward(name, as) /\ as \notin HostNames \cup {"CPR.cpl", "CPP.cmd"}

\* A handler with one cone that does not split and does not write to the host.
LEMMA RelayServes ==
  ASSUME NEW h, NEW c, h.cones = {c}, h.from.name # "Host_mem", c.to.name # "Host_mem",
         Relays(h.name, c.as), c.chunks = {}
  PROVE  AllServe(h)
<1>1. h.from # At("Host_mem") /\ c.to # At("Host_mem")
  BY FromName
<1>2. Serves(h, c)
  BY <1>1 DEF Serves, Relays
<1> QED
  BY <1>1, <1>2 DEF AllServe

\* Two such handlers: one renames ...
LEMMA RenameServes ==
  ASSUME NEW from, NEW name, NEW to, NEW as, from.name # "Host_mem", to.name # "Host_mem",
         Relays(name, as)
  PROVE  AllServe(Handler(from, name, {Cone(to, as)}))
<1> DEFINE c == Cone(to, as)
           h == Handler(from, name, {c})
<1>1. h.name = name /\ h.cones = {c} /\ h.from = from
  BY DEF Handler
<1>2. c.to = to /\ c.as = as /\ c.chunks = {}
  BY DEF Cone
<1> HIDE DEF c, h
<1>3. AllServe(h)
  BY <1>1, <1>2, RelayServes
<1> QED
  BY <1>3 DEF h, c

\* ... and one sizes as well.
LEMMA SizeServes ==
  ASSUME NEW from, NEW name, NEW to, NEW as, NEW size,
         from.name # "Host_mem", to.name # "Host_mem", Relays(name, as)
  PROVE  AllServe(Handler(from, name, {Sized(to, as, size)}))
<1> DEFINE c == Sized(to, as, size)
           h == Handler(from, name, {c})
<1>1. h.name = name /\ h.cones = {c} /\ h.from = from
  BY DEF Handler
<1>2. c.to = to /\ c.as = as /\ c.chunks = {}
  BY DEF Cone, Sized
<1> HIDE DEF c, h
<1>3. AllServe(h)
  BY <1>1, <1>2, RelayServes
<1> QED
  BY <1>3 DEF h, c

\* The next names.
LEMMA RelayNames ==
  /\ Relays("PCIE.CMD.fetch", "PCIE.CMD.cpl") /\ Relays("PCIE.CPR.fetch", "PCIE.CPR.cpl")
  /\ Relays("PCIE.Data.fetch", "PCIE.Data.cpl")
  /\ Relays("CPR.fetch.req", "CPR.fetch") /\ Relays("CMD.fetch.req", "CMD.fetch")
  /\ Relays("CMD.cpl", "EU.cmd") /\ Relays("Data.cpl", "EU.data")
  /\ Relays("Data.fetch", "PCIE.Data.fetch") /\ Relays("CMD.fetch", "PCIE.CMD.fetch")
  /\ Relays("CPR.fetch", "PCIE.CPR.fetch") /\ Relays("PCIE.CMD.cpl", "CMD.cpl")
  /\ Relays("PCIE.Data.cpl", "Data.cpl") /\ Relays("EU.data", "Mem.Data")
  /\ Relays("EU.cmd", "Data.fetch.req") /\ Relays("Mem.Data.Out", "Result.Data")
  /\ Relays("Result.Data", "WR.Data") /\ Relays("WR.Data", "PCIE.WR.Data")
  /\ Relays("WR.Desc", "PCIE.WR.Desc") /\ Relays("Mem.Desc", "Result.Desc")
BY DEF Relays, Onward, Leads, HostNames, DataNames, DescNames

\* The cones that split, and those that size or take a block of pointers, or write to the host.
LEMMA OtherServes ==
  ASSUME NEW h, NEW c, h.cones = {c}, h.from.name # "Host_mem", Onward(h.name, c.as),
         c.to = At("Host_mem") <=> c.as \in HostNames,
         c.as = "CPR.cpl" => c.size = BlockSize /\ c.chunks = {},
         c.as = "CPP.cmd" => c.size = 0 /\ c.chunks = {} /\ h.name = "CPR.cpl",
         c.chunks # {} => c.size = 0 /\ Cuts(h, c)
  PROVE  AllServe(h)
<1>1. h.from # At("Host_mem")
  BY FromName
<1>2. Serves(h, c)
  BY DEF Serves
<1> QED
  BY <1>1, <1>2 DEF AllServe

\* The handlers, one part of the design after the other: the host answers and keeps.
LEMMA HostServes == \A h \in Host : AllServe(h)
<1>1. AllServe(Answer("PCIE.CMD.fetch", "PCIE.CMD.cpl", 56))
  BY SizeServes, RelayNames, FromName DEF Answer
<1>2. AllServe(Answer("PCIE.CPR.fetch", "PCIE.CPR.cpl", 88))
  BY SizeServes, RelayNames, FromName DEF Answer
<1>3. AllServe(Answer("PCIE.Data.fetch", "PCIE.Data.cpl", 88))
  BY SizeServes, RelayNames, FromName DEF Answer
<1>4. ASSUME NEW written, NEW kept \in HostNames, Onward(written, kept)
      PROVE  AllServe(Keep(written, kept))
  <2> DEFINE c == Cone(At("Host_mem"), kept)
             h == Handler(At("PCIE_Egress"), written, {c})
  <2>1. h.name = written /\ h.cones = {c} /\ h.from.name # "Host_mem"
    BY FromName DEF Handler
  <2>2. c.to = At("Host_mem") /\ c.as = kept /\ c.chunks = {}
    BY DEF Cone
  <2>3. h = Keep(written, kept)
    BY DEF Keep
  <2> HIDE DEF c, h
  <2>4. kept # "CPR.cpl" /\ kept # "CPP.cmd"
    BY DEF HostNames
  <2>5. AllServe(h)
    BY <1>4, <2>1, <2>2, <2>4, OtherServes
  <2> QED
    BY <2>3, <2>5
<1>5. Onward("PCIE.WR.Data", "Host.Data") /\ Onward("PCIE.WR.Desc", "Host.Desc")
  BY DEF Onward, Leads, HostNames, DataNames, DescNames
<1>6. "Host.Data" \in HostNames /\ "Host.Desc" \in HostNames
  BY DEF HostNames
<1> QED
  BY <1>1, <1>2, <1>3, <1>4, <1>5, <1>6 DEF Host

\* The command processor opens the blocks that come back.
LEMMA CPPServes == \A h \in CPP : AllServe(h)
<1>1. AllServe(Handler(At("CPR_req"), "CPR.fetch.req", {Cone(At("CMD_fetch"), "CPR.fetch")}))
  BY RenameServes, RelayNames, FromName
<1>2. AllServe(Handler(At("CMD_req"), "CMD.fetch.req", {Sized(At("CMD_fetch"), "CMD.fetch", 16)}))
  BY SizeServes, RelayNames, FromName
<1>3. AllServe(Handler(At("CMD_cpl"), "CMD.cpl", {Cone(At("CMD_fwd"), "EU.cmd")}))
  BY RenameServes, RelayNames, FromName
<1>4. AllServe(Handler(At("CMD_cpl"), "CPR.cpl", {Cone(At("CPR_fwd"), "CPP.cmd")}))
  <2> DEFINE c == Cone(At("CPR_fwd"), "CPP.cmd")
             h == Handler(At("CMD_cpl"), "CPR.cpl", {c})
  <2>1. h.name = "CPR.cpl" /\ h.cones = {c} /\ h.from.name # "Host_mem"
    BY FromName DEF Handler
  <2>2. /\ c.to.name # "Host_mem" /\ c.as = "CPP.cmd" /\ c.chunks = {} /\ c.size = 0
    BY FromName DEF Cone
  <2> HIDE DEF c, h
  <2>3. c.to # At("Host_mem") /\ c.as \notin HostNames /\ Onward(h.name, c.as)
    BY <2>1, <2>2, FromName DEF Onward, Leads, HostNames, DataNames, DescNames
  <2>4. AllServe(h)
    BY <2>1, <2>2, <2>3, OtherServes
  <2> QED
    BY <2>4 DEF h, c
<1> QED
  BY <1>1, <1>2, <1>3, <1>4 DEF CPP

\* A controller cuts its requests up.
LEMMA InputControllersServe == \A h \in InputControllers : AllServe(h)
<1>1. ASSUME NEW i \in IDC PROVE AllServe(DataRequest(i))
  <2> DEFINE c == [Cone(Of("IDC_out", i), "Data.fetch") EXCEPT
                     !.method = "onLENGTH", !.chunks = {64, 128, 256}, !.tag = i]
             h == DataRequest(i)
  <2>1. h.name = "Data.fetch.req" /\ h.cones = {c} /\ h.from.name # "Host_mem"
    BY FromName DEF Handler, DataRequest
  <2>2. /\ c.to.name # "Host_mem" /\ c.as = "Data.fetch" /\ c.size = 0
        /\ c.method = "onLENGTH" /\ c.chunks = {64, 128, 256}
    BY FromName DEF Cone
  <2> HIDE DEF c, h
  <2>3. c.to # At("Host_mem") /\ c.as \notin HostNames /\ Onward(h.name, c.as)
    BY <2>1, <2>2, FromName DEF Onward, Leads, HostNames, DataNames, DescNames
  <2>4. Cuts(h, c)
    BY <2>1, <2>2 DEF Cuts
  <2>5. AllServe(h)
    BY <2>1, <2>2, <2>3, <2>4, OtherServes
  <2> QED
    BY <2>5 DEF h
<1>2. ASSUME NEW i \in IDC PROVE AllServe(DataReply(i))
  <2> DEFINE c == Cone(Of("IDC_cpl", i), "EU.data")
             h == DataReply(i)
  <2>1. h.name = "Data.cpl" /\ h.cones = {c} /\ h.from.name # "Host_mem"
    BY FromName DEF Handler, ForRequester, DataReply
  <2>2. c.to.name # "Host_mem" /\ c.as = "EU.data" /\ c.chunks = {}
    BY FromName DEF Cone
  <2> HIDE DEF c, h
  <2>3. AllServe(h)
    BY <2>1, <2>2, RelayNames, RelayServes
  <2> QED
    BY <2>3 DEF h
<1> QED
  BY <1>1, <1>2 DEF InputControllers

\* Requests go to the host ...
LEMMA RRCServes == \A h \in RRC : AllServe(h)
<1>1. ASSUME NEW i \in IDC
      PROVE AllServe(Handler(Of("IDC_out", i), "Data.fetch", {Cone(At("PCIE_Egress"), "PCIE.Data.fetch")}))
  BY RenameServes, RelayNames, FromName
<1>2. AllServe(Handler(At("CMD_fetch"), "CMD.fetch", {Cone(At("PCIE_Egress"), "PCIE.CMD.fetch")}))
  BY RenameServes, RelayNames, FromName
<1>3. AllServe(Handler(At("CMD_fetch"), "CPR.fetch", {Cone(At("PCIE_Egress"), "PCIE.CPR.fetch")}))
  BY RenameServes, RelayNames, FromName
<1> QED
  BY <1>1, <1>2, <1>3 DEF RRC

\* ... and what it answers comes back, a block in its size.
LEMMA CCServes == \A h \in CC : AllServe(h)
<1>1. ASSUME NEW i \in IDC
      PROVE AllServe(ForRequester(At("PCIE_Ingress"), "PCIE.Data.cpl", i,
                                  {Sized(Of("IDC_in", i), "Data.cpl", 64)}))
  <2> DEFINE c == Sized(Of("IDC_in", i), "Data.cpl", 64)
             h == ForRequester(At("PCIE_Ingress"), "PCIE.Data.cpl", i, {c})
  <2>1. h.name = "PCIE.Data.cpl" /\ h.cones = {c} /\ h.from.name # "Host_mem"
    BY FromName DEF Handler, ForRequester
  <2>2. c.to.name # "Host_mem" /\ c.as = "Data.cpl" /\ c.chunks = {}
    BY FromName DEF Cone, Sized
  <2> HIDE DEF c, h
  <2>3. AllServe(h)
    BY <2>1, <2>2, RelayNames, RelayServes
  <2> QED
    BY <2>3 DEF h, c
<1>2. AllServe(Handler(At("PCIE_Ingress"), "PCIE.CMD.cpl", {Sized(At("CMD_cpl"), "CMD.cpl", 32)}))
  BY SizeServes, RelayNames, FromName
<1>3. AllServe(Handler(At("PCIE_Ingress"), "PCIE.CPR.cpl", {Sized(At("CMD_cpl"), "CPR.cpl", BlockSize)}))
  <2> DEFINE c == Sized(At("CMD_cpl"), "CPR.cpl", BlockSize)
             h == Handler(At("PCIE_Ingress"), "PCIE.CPR.cpl", {c})
  <2>1. h.name = "PCIE.CPR.cpl" /\ h.cones = {c} /\ h.from.name # "Host_mem"
    BY FromName DEF Handler
  <2>2. /\ c.to.name # "Host_mem" /\ c.as = "CPR.cpl" /\ c.chunks = {} /\ c.size = BlockSize
    BY FromName DEF Cone, Sized
  <2> HIDE DEF c, h
  <2>3. c.to # At("Host_mem") /\ c.as \notin HostNames /\ Onward(h.name, c.as)
    BY <2>1, <2>2, FromName DEF Onward, Leads, HostNames, DataNames, DescNames
  <2>4. AllServe(h)
    BY <2>1, <2>2, <2>3, OtherServes
  <2> QED
    BY <2>4 DEF h, c
<1> QED
  BY <1>1, <1>2, <1>3 DEF CC

\* Of a block the commands are made, of a descriptor one that is written.
LEMMA SplitsServe ==
  /\ \A h \in CMD_TRANS : AllServe(h)
  /\ \A h \in CPLS : AllServe(h)
<1>1. AllServe(Handler(At("CPR_fwd"), "CPP.cmd",
                       {[Cone(At("CMD_req"), "CMD.fetch.req") EXCEPT !.chunks = {2}]}))
  <2> DEFINE c == [Cone(At("CMD_req"), "CMD.fetch.req") EXCEPT !.chunks = {2}]
             h == Handler(At("CPR_fwd"), "CPP.cmd", {c})
  <2>1. h.name = "CPP.cmd" /\ h.cones = {c} /\ h.from.name # "Host_mem"
    BY FromName DEF Handler
  <2>2. /\ c.to.name # "Host_mem" /\ c.as = "CMD.fetch.req" /\ c.size = 0
        /\ c.method = "onSIZE" /\ c.chunks = {2}
    BY FromName DEF Cone
  <2> HIDE DEF c, h
  <2>3. c.to # At("Host_mem") /\ c.as \notin HostNames /\ Onward(h.name, c.as)
    BY <2>1, <2>2, FromName DEF Onward, Leads, HostNames, DataNames, DescNames
  <2>4. Cuts(h, c)
    BY <2>1, <2>2 DEF Cuts
  <2>5. AllServe(h)
    BY <2>1, <2>2, <2>3, <2>4, OtherServes
  <2> QED
    BY <2>5 DEF h, c
<1>2. AllServe(Handler(At("CPLS_req"), "Result.Desc",
                       {[Cone(At("CPLS_wr"), "WR.Desc") EXCEPT !.chunks = {128}]}))
  <2> DEFINE c == [Cone(At("CPLS_wr"), "WR.Desc") EXCEPT !.chunks = {128}]
             h == Handler(At("CPLS_req"), "Result.Desc", {c})
  <2>1. h.name = "Result.Desc" /\ h.cones = {c} /\ h.from.name # "Host_mem"
    BY FromName DEF Handler
  <2>2. /\ c.to.name # "Host_mem" /\ c.as = "WR.Desc" /\ c.size = 0
        /\ c.method = "onSIZE" /\ c.chunks = {128}
    BY FromName DEF Cone
  <2> HIDE DEF c, h
  <2>3. c.to # At("Host_mem") /\ c.as \notin HostNames /\ Onward(h.name, c.as)
    BY <2>1, <2>2, FromName DEF Onward, Leads, HostNames, DataNames, DescNames
  <2>4. Cuts(h, c)
    BY <2>1, <2>2 DEF Cuts
  <2>5. AllServe(h)
    BY <2>1, <2>2, <2>3, <2>4, OtherServes
  <2> QED
    BY <2>5 DEF h, c
<1> QED
  BY <1>1, <1>2 DEF CMD_TRANS, CPLS

\* The one handler with two cones: one leads to the result, the other to the descriptor.
LEMMA EUxServes == \A h \in EUx : AllServe(h)
<1> DEFINE c == Cone(At("Mem_Data_out"), "Mem.Data.Out")
           d == Sized(At("Mem_CTL"), "Mem.Desc", 16)
           h == Handler(At("Mem_Data_in"), "Mem.Data", {c, d})
<1>1. h.cones = {c, d} /\ h.name = "Mem.Data" /\ h.from.name # "Host_mem"
  BY FromName DEF Handler
<1>2. c.to.name # "Host_mem" /\ c.as = "Mem.Data.Out" /\ c.chunks = {}
  BY FromName DEF Cone
<1>3. d.to.name # "Host_mem" /\ d.as = "Mem.Desc" /\ d.chunks = {}
  BY FromName DEF Cone, Sized
<1>4. \A g \in EUx : g = h
  BY DEF EUx
<1> HIDE DEF c, d, h
<1>5. h.from # At("Host_mem") /\ c.to # At("Host_mem") /\ d.to # At("Host_mem")
  BY <1>1, <1>2, <1>3, FromName
<1>6. \A kind \in HostNames : ~(Leads("Mem.Data.Out", kind) /\ Leads("Mem.Desc", kind))
  BY DEF Leads, HostNames, DataNames, DescNames
<1>7. /\ Onward("Mem.Data", "Mem.Data.Out") /\ Onward("Mem.Data", "Mem.Desc")
      /\ "Mem.Data.Out" \notin HostNames /\ "Mem.Desc" \notin HostNames
  BY DEF Onward, Leads, HostNames, DataNames, DescNames
<1>8. Serves(h, c)
  BY <1>1, <1>2, <1>3, <1>5, <1>6, <1>7 DEF Serves
<1>9. Serves(h, d)
  BY <1>1, <1>2, <1>3, <1>5, <1>6, <1>7 DEF Serves
<1> QED
  BY <1>1, <1>4, <1>5, <1>8, <1>9 DEF AllServe

\* The rest have one cone that renames.
LEMMA SinglesServe ==
  /\ \A h \in XBAR_CPL : AllServe(h)
  /\ \A h \in OutputControllers : AllServe(h)
  /\ \A h \in WRC : AllServe(h)
  /\ \A h \in XBAR_REQ : AllServe(h)
  /\ \A h \in XBAR_WR : AllServe(h)
  /\ \A h \in Descriptors : AllServe(h)
<1>1. ASSUME NEW i \in IDC
      PROVE  AllServe(Handler(Of("IDC_cpl", i), "EU.data", {Cone(At("Mem_Data_in"), "Mem.Data")}))
  BY RenameServes, RelayNames, FromName
<1>2. ASSUME NEW o \in ODC
      PROVE  AllServe(Handler(Of("ODC_req", o), "Result.Data", {Cone(Of("ODC_wr", o), "WR.Data")}))
  BY RenameServes, RelayNames, FromName
<1>3. ASSUME NEW o \in ODC
      PROVE  AllServe(Handler(Of("ODC_wr", o), "WR.Data", {Cone(At("PCIE_Egress"), "PCIE.WR.Data")}))
  BY RenameServes, RelayNames, FromName
<1>4. AllServe(Handler(At("CPLS_wr"), "WR.Desc", {Cone(At("PCIE_Egress"), "PCIE.WR.Desc")}))
  BY RenameServes, RelayNames, FromName
<1>5. ASSUME NEW i \in IDC
      PROVE  AllServe(Handler(At("CMD_fwd"), "EU.cmd", {Sized(Of("IDC_req", i), "Data.fetch.req", 16)}))
  BY SizeServes, RelayNames, FromName
<1>6. ASSUME NEW o \in ODC
      PROVE  AllServe(Handler(At("Mem_Data_out"), "Mem.Data.Out", {Cone(Of("ODC_req", o), "Result.Data")}))
  BY RenameServes, RelayNames, FromName
<1>7. AllServe(Handler(At("Mem_CTL"), "Mem.Desc", {Cone(At("CPLS_req"), "Result.Desc")}))
  BY RenameServes, RelayNames, FromName
<1> QED
  BY <1>1, <1>2, <1>3, <1>4, <1>5, <1>6, <1>7
     DEF XBAR_CPL, OutputControllers, WRC, XBAR_REQ, XBAR_WR, Descriptors

\* All handlers of the design serve.
LEMMA HandlersServe == \A h \in Handlers : AllServe(h)
BY HostServes, CPPServes, InputControllersServe, RRCServes, CCServes, SplitsServe,
   EUxServes, SinglesServe DEF Handlers

-----------------------------------------------------------------------------
\* A packet is about one of the blocks, and if it is about a command, about one of those
\* that a block has; one that is to be split into commands has the size of a block.
Within(p) ==
  /\ p.id[1] \in 1 .. Count
  /\ Len(p.id) >= 2 => p.id[2] \in 1 .. Rounds(BlockSize, 2)
  /\ p.name \in {"CPR.cpl", "CPP.cmd"} => p.size = BlockSize

AllWithin(H) == \A l \in Lanes : \A n \in DOMAIN H[l] : Within(H[l][n])

\* No two packets that lead to the same are about the same command.
Apart(H) ==
  \A kind \in HostNames, l1, l2 \in Lanes : \A n1 \in DOMAIN H[l1], n2 \in DOMAIN H[l2] :
    /\ Leads(H[l1][n1].name, kind) /\ Leads(H[l2][n2].name, kind)
    /\ l1 = l2 => n1 # n2
    => ~Overlap(H[l1][n1].id, H[l2][n2].id)

PromiseInv == AllWithin(held) /\ Apart(held)

\* All commands of block p ...
Opened(p, packets) ==
  /\ p.name = "CPP.cmd" /\ Len(p.id) = 1
  /\ Len(packets) = Rounds(BlockSize, 2)
  /\ \A n \in DOMAIN packets : packets[n].id = Append(p.id, n)

\* ... or one packet about the same as p: that is what became of p in one cone.
Parted(p, packets) ==
  \/ /\ Len(packets) = 1
     /\ packets[1].id = p.id \/ (Len(p.id) >= 2 /\ packets[1].id = Append(p.id, 1))
  \/ Opened(p, packets)

\* What came to the lanes in place of p, one of each kind to which p leads.
Serving(add, p) ==
  /\ \E l \in Lanes : add[l] # <<>>
  /\ \A l \in Lanes : add[l] # <<>> => Parted(p, add[l])
  /\ \A l \in Lanes : \A m \in DOMAIN add[l] :
       Within(add[l][m]) /\ Onward(p.name, add[l][m].name)
  /\ \A kind \in HostNames, l, g \in Lanes : \A m \in DOMAIN add[l], o \in DOMAIN add[g] :
       Leads(add[l][m].name, kind) /\ Leads(add[g][o].name, kind) => l = g

\* A block has at least one command.
LEMMA SomeCommand == Rounds(BlockSize, 2) \in Nat /\ Rounds(BlockSize, 2) >= 1
<1>1. BlockSize \in Nat /\ BlockSize >= 1
  BY DmaAssumption
<1>2. Rounds(BlockSize, 2) \in Nat
  BY <1>1, RoundsNat
<1>3. BlockSize % 2 = 0 => BlockSize \div 2 >= 1
  BY <1>1
<1>4. BlockSize \div 2 \in Nat
  BY <1>1
<1> QED
  BY <1>2, <1>3, <1>4 DEF Rounds

\* The number of pieces that a cone makes.
LEMMA PieceCount ==
  ASSUME NEW h, NEW c, ConeOK(h, c), NEW p \in Packet, NEW made \in Results(c, p),
         NEW k, c.chunks = {k}, c.size = 0, c.method = "onSIZE"
  PROVE  DOMAIN made = 1 .. Rounds(p.size, k) /\ Len(made) = Rounds(p.size, k)
<1> DEFINE d == Dressed(c, p)
<1>1. d.size = p.size
  BY DressedSize
<1>2. made = Pieces([method |-> c.method, chunk |-> k], d)
  BY DEF Results
<1>3. k \in Nat \ {0} /\ p.size \in Nat
  BY DEF ConeOK, Packet
<1>4. Rounds(p.size, k) \in Nat
  BY <1>3, RoundsNat
<1> HIDE DEF d
<1> DEFINE x == [method |-> c.method, chunk |-> k]
           rounds == Rounds(IF x.method = "onLENGTH" THEN d.length ELSE d.size, x.chunk)
<1>5. made = [j \in 1 .. rounds |-> Piece(x, d, j, rounds)]
  BY <1>2 DEF Pieces
<1>6. rounds = Rounds(p.size, k)
  BY <1>1
<1> HIDE DEF x, rounds
<1> QED
  BY <1>4, <1>5, <1>6

\* What a cone makes of a packet, by the table.
LEMMA TookParts ==
  ASSUME NEW h, NEW c, NEW p, NEW made, Took(h, c, p, made), Within(p)
  PROVE  /\ made # <<>> /\ Parted(p, made)
         /\ \A n \in DOMAIN made : Within(made[n]) /\ Onward(p.name, made[n].name)
<1>1. /\ ConeOK(h, c) /\ p.name = h.name /\ p \in Packet /\ Kind(p) /\ Belongs(h.from, p)
      /\ made \in Seq(Packet) /\ made \in Results(c, p)
      /\ \A n \in DOMAIN made : made[n].name = c.as /\ made[n] \in Packet
  BY TookFacts DEF Took, Made
<1>2. Serves(h, c)
  BY HandlersServe DEF Took, AllServe
<1>3. p.id \in Seq(Nat) /\ Len(p.id) \in Nat /\ Len(p.id) >= 1
  <2>1. p.id \in Seq(Nat) /\ Len(p.id) \in Nat
    BY <1>1 DEF Packet
  <2> QED
    BY <1>1, <2>1 DEF Belongs
<1>4. Onward(p.name, c.as)
  BY <1>1, <1>2 DEF Serves
<1>5. CASE c.chunks = {}
  <2>1. made = <<Dressed(c, p)>>
    BY <1>1, <1>5, ResultShape
  <2>2. Len(made) = 1 /\ DOMAIN made = {1} /\ made[1] = Dressed(c, p) /\ made # <<>>
    BY <2>1
  <2>3. made[1].id = p.id
    BY <1>1, <2>2, DressedOK
  <2>4. Parted(p, made)
    BY <2>2, <2>3 DEF Parted
  <2>5. made[1].size = (IF c.size = 0 THEN p.size ELSE c.size)
    BY <1>1, <2>2, DressedSize
  <2>6. c.as \in {"CPR.cpl", "CPP.cmd"} => made[1].size = BlockSize
    <3>1. CASE c.as = "CPR.cpl"
      BY <1>2, <2>5, <3>1, DmaAssumption DEF Serves
    <3>2. CASE c.as = "CPP.cmd"
      <4>1. p.name = "CPR.cpl" /\ c.size = 0
        BY <1>1, <1>2, <3>2 DEF Serves
      <4> QED
        BY <2>5, <4>1 DEF Within
    <3> QED
      BY <3>1, <3>2
  <2>7. Within(made[1])
    BY <1>1, <2>2, <2>3, <2>6 DEF Within
  <2> QED
    BY <1>1, <1>4, <2>2, <2>4, <2>7
<1>6. CASE c.chunks # {}
  <2>1. c.size = 0 /\ Cuts(h, c) /\ c.as \notin {"CPR.cpl", "CPP.cmd"}
    BY <1>2, <1>6 DEF Serves
  <2>2. \A j \in DOMAIN made : made[j].id = Append(p.id, j)
    BY <1>1, <1>6, ResultShape
  <2>3. CASE h.name = "CPP.cmd" /\ c.method = "onSIZE" /\ c.chunks = {2}
    <3>1. p.size = BlockSize /\ p.name = "CPP.cmd"
      BY <1>1, <2>3 DEF Within
    <3>2. Len(made) = Rounds(BlockSize, 2) /\ DOMAIN made = 1 .. Rounds(BlockSize, 2)
      BY <1>1, <2>1, <2>3, <3>1, PieceCount
    <3>3. made # <<>>
      BY <3>2, SomeCommand
    <3>4. Len(p.id) = 1
      BY <1>1, <3>1 DEF Kind, BlockNames
    <3>5. Parted(p, made)
      BY <2>2, <3>1, <3>2, <3>4 DEF Parted, Opened
    <3>6. ASSUME NEW n \in DOMAIN made PROVE Within(made[n])
      <4>1. n \in Nat /\ n \in 1 .. Rounds(BlockSize, 2) /\ made[n].id = Append(p.id, n)
        BY <2>2, <3>2, SomeCommand
      <4>2. Append(p.id, n)[1] = p.id[1] /\ Append(p.id, n)[2] = n
        BY <1>3, <3>4, <4>1
      <4> QED
        BY <1>1, <2>1, <4>1, <4>2 DEF Within
    <3> QED
      BY <1>1, <1>4, <3>3, <3>5, <3>6
  <2>4. CASE h.name # "CPP.cmd"
    <3>1. /\ p.name \in {"Data.fetch.req", "Result.Desc"}
          /\ c.chunks \subseteq {64, 128, 256}
          /\ IF c.method = "onLENGTH" THEN p.name = "Data.fetch.req" ELSE p.name = "Result.Desc"
      BY <1>1, <2>1, <2>4 DEF Cuts
    <3>2. IF c.method = "onLENGTH" THEN p.length = 16 ELSE p.size = 16
      BY <1>1, <3>1 DEF Kind
    <3>3. Len(made) = 1
      BY <1>1, <2>1, <3>1, <3>2, OnePiece
    <3>4. DOMAIN made = {1} /\ made # <<>>
      <4>1. made \in Seq(Packet)
        BY <1>1
      <4>2. DOMAIN made = 1 .. 1 /\ made # <<>>
        BY <3>3, <4>1
      <4> QED
        BY <4>2
    <3>5. Len(p.id) >= 2
      <4>1. p.name \notin BlockNames
        BY <3>1 DEF BlockNames
      <4> QED
        BY <1>1, <4>1 DEF Belongs
    <3>6. made[1].id = Append(p.id, 1)
      BY <2>2, <3>4
    <3>7. Parted(p, made)
      BY <3>3, <3>5, <3>6 DEF Parted
    <3>8. Append(p.id, 1)[1] = p.id[1] /\ Append(p.id, 1)[2] = p.id[2]
      BY <1>3, <3>5
    <3>9. Within(made[1])
      BY <1>1, <2>1, <3>4, <3>5, <3>6, <3>8 DEF Within
    <3> QED
      BY <1>1, <1>4, <3>4, <3>7, <3>9
  <2> QED
    BY <2>1, <2>3, <2>4 DEF Cuts
<1> QED
  BY <1>5, <1>6

\* A handler that takes a packet serves ...
LEMMA TakeServes ==
  ASSUME NEW h \in Handlers, NEW p, NEW add, TakesInto(h, p, add), add \in Contents, Within(p)
  PROVE  Serving(add, p)
<1>1. \A l \in Lanes :
        IF l[1] = h THEN l = <<h, l[2]>> /\ l[2] \in h.cones /\ Took(h, l[2], p, add[l])
        ELSE add[l] = <<>>
  BY DEF TakesInto
<1>2. ASSUME NEW l \in Lanes, add[l] # <<>>
      PROVE  l = <<h, l[2]>> /\ l[2] \in h.cones /\ Took(h, l[2], p, add[l])
  BY <1>1, <1>2
<1>3. AllServe(h)
  BY HandlersServe
<1>4. \E l \in Lanes : add[l] # <<>>
  <2>1. PICK c \in h.cones : TRUE
    BY <1>3 DEF AllServe
  <2>2. <<h, c>> \in Lanes
    BY LaneForms
  <2>3. Took(h, c, p, add[<<h, c>>])
    BY <1>1, <2>2
  <2>4. add[<<h, c>>] # <<>>
    BY <2>3, TookParts
  <2> QED
    BY <2>2, <2>4
<1>5. \A l \in Lanes : add[l] # <<>> => Parted(p, add[l])
  BY <1>2, TookParts
<1>6. ASSUME NEW l \in Lanes, NEW m \in DOMAIN add[l] PROVE add[l] # <<>>
  BY <1>6
<1>7. \A l \in Lanes : \A m \in DOMAIN add[l] :
        Within(add[l][m]) /\ Onward(p.name, add[l][m].name)
  BY <1>2, <1>6, TookParts
<1>8. ASSUME NEW kind \in HostNames, NEW l \in Lanes, NEW g \in Lanes,
             NEW m \in DOMAIN add[l], NEW o \in DOMAIN add[g],
             Leads(add[l][m].name, kind), Leads(add[g][o].name, kind)
      PROVE  l = g
  <2>1. /\ l = <<h, l[2]>> /\ l[2] \in h.cones /\ Took(h, l[2], p, add[l])
        /\ g = <<h, g[2]>> /\ g[2] \in h.cones /\ Took(h, g[2], p, add[g])
    BY <1>2, <1>6
  <2>2. add[l][m].name = l[2].as /\ add[g][o].name = g[2].as
    BY <2>1, TookFacts DEF Made
  <2>3. Serves(h, l[2])
    BY <1>3, <2>1 DEF AllServe
  <2>4. g[2] = l[2]
    BY <1>8, <2>1, <2>2, <2>3 DEF Serves
  <2> QED
    BY <2>1, <2>4
<1> QED
  BY <1>4, <1>5, <1>7, <1>8 DEF Serving

\* ... as does a cone that puts one.
LEMMA PutServes ==
  ASSUME NEW p, NEW B \in Lanes, Within(p)
  PROVE  Serving(Only(p, B), p)
<1> DEFINE add == Only(p, B)
<1>1. \A l \in Lanes : add[l] = IF l = B THEN <<p>> ELSE <<>>
  BY DEF Only
<1> HIDE DEF add
<1>2. \A l \in Lanes : \A m \in DOMAIN add[l] : l = B /\ add[l][m] = p
  <2> SUFFICES ASSUME NEW l \in Lanes, NEW m \in DOMAIN add[l] PROVE l = B /\ add[l][m] = p
    OBVIOUS
  <2>1. l = B
    BY <1>1
  <2>2. add[l] = <<p>> /\ m = 1
    BY <1>1, <2>1
  <2> QED
    BY <2>1, <2>2
<1>3. add[B] # <<>>
  BY <1>1
<1>4. \A l \in Lanes : add[l] # <<>> => Parted(p, add[l])
  <2>1. Parted(p, <<p>>)
    BY DEF Parted
  <2> QED
    BY <1>1, <2>1
<1>5. Onward(p.name, p.name)
  BY DEF Onward
<1>6. Serving(add, p)
  BY <1>2, <1>3, <1>4, <1>5 DEF Serving
<1> QED
  BY <1>6 DEF add

-----------------------------------------------------------------------------
\* What does not overlap with the whole overlaps with no piece of it.
LEMMA OverlapPart ==
  ASSUME NEW a \in Seq(Nat), Len(a) >= 1, NEW b, NEW q, NEW m \in Nat,
         q = a \/ q = Append(a, m), ~Overlap(a, b)
  PROVE  ~Overlap(q, b)
<1>1. CASE q = a \/ (Len(a) = 1 /\ q = Append(a, m))
  BY <1>1, OverlapPiece
<1>2. CASE Len(a) # 1 /\ q = Append(a, m)
  <2>0. \A n \in Nat : n >= 1 /\ n # 1 => n >= 2 /\ 1 \in 1 .. n /\ 2 \in 1 .. n /\ n + 1 # 1
    OBVIOUS
  <2>1. Len(a) \in Nat
    OBVIOUS
  <2>2. q[1] = a[1] /\ q[2] = a[2] /\ Len(q) # 1
    <3>1. Len(q) = Len(a) + 1 /\ \A i \in 1 .. Len(a) : q[i] = a[i]
      BY <1>2, AppendProperties
    <3> QED
      BY <1>2, <2>0, <2>1, <3>1
  <2> QED
    BY <1>2, <2>2 DEF Overlap
<1> QED
  BY <1>1, <1>2

\* Two different commands of a block.
LEMMA OverlapCommands ==
  ASSUME NEW a \in Seq(Nat), Len(a) = 1, NEW m \in Nat, NEW n \in Nat, m # n
  PROVE  ~Overlap(Append(a, m), Append(a, n))
<1>1. ASSUME NEW k \in Nat PROVE Len(Append(a, k)) = 2 /\ Append(a, k)[2] = k
  <2>1. Len(Append(a, k)) = Len(a) + 1 /\ Append(a, k)[Len(a) + 1] = k
    BY AppendProperties
  <2>2. Len(a) + 1 = 2
    OBVIOUS
  <2> QED
    BY <2>1, <2>2, Zenon
<1> DEFINE q == Append(a, m)
           r == Append(a, n)
<1> HIDE DEF q, r
<1>2. Len(q) = 2 /\ q[2] = m /\ Len(r) = 2 /\ r[2] = n
  BY <1>1 DEF q, r
<1>3. ~Overlap(q, r)
  BY <1>2 DEF Overlap
<1> QED
  BY <1>3 DEF q, r

\* The members of a list of what p became.
LEMMA PartedIds ==
  ASSUME NEW p, NEW packets \in Seq(Packet), Parted(p, packets), NEW m \in DOMAIN packets
  PROVE  /\ m \in Nat
         /\ packets[m].id = p.id \/ packets[m].id = Append(p.id, m)
         /\ \/ Len(packets) = 1
            \/ Len(p.id) = 1 /\ \A n \in DOMAIN packets : packets[n].id = Append(p.id, n)
<1>1. m \in 1 .. Len(packets) /\ Len(packets) \in Nat
  OBVIOUS
<1>2. Len(packets) = 1 => m = 1
  BY <1>1
<1> QED
  BY <1>1, <1>2 DEF Parted, Opened

\* Such a step keeps packets that lead to the same apart.
LEMMA MovesApart ==
  ASSUME NEW H \in Contents, NEW G, NEW A, NEW add, Moves(H, G, A, add),
         Len(Head(H[A]).id) >= 1, Serving(add, Head(H[A])), Apart(H)
  PROVE  Apart(G)
<1> DEFINE p == H[A][1]
<1>0. A \in Lanes
  BY DEF Moves
<1>1. /\ 1 \in DOMAIN H[A] /\ p \in Packet
      /\ Head(H[A]) = p /\ G \in Contents
  BY MovesTyped
<1>2. \A l \in Lanes : /\ H[l] \in Seq(Packet) /\ Len(H[l]) \in Nat /\ DOMAIN H[l] = 1 .. Len(H[l])
                       /\ add[l] \in Seq(Packet)
                       /\ \A m \in DOMAIN add[l] : add[l][m] \in Packet /\ m \in Nat
                       /\ G[l] \in Seq(Packet)
  BY <1>1 DEF Contents, Moves
<1>3. p.id \in Seq(Nat) /\ Len(p.id) >= 1
  BY <1>1 DEF Packet
<1>4. Serving(add, p)
  BY <1>1
<1> HIDE DEF p
\* What came is a part of p and leads only to where p led.
<1>5. ASSUME NEW l \in Lanes, NEW n \in DOMAIN G[l], NEW m \in Nat, Came(H, G, A, add, l, n, m)
      PROVE  /\ m \in DOMAIN add[l] /\ G[l][n] = add[l][m] /\ add[l] # <<>>
             /\ Parted(p, add[l]) /\ Onward(p.name, G[l][n].name)
             /\ G[l][n].id = p.id \/ G[l][n].id = Append(p.id, m)
  <2>1. m \in DOMAIN add[l] /\ G[l][n] = add[l][m]
    BY <1>5 DEF Came
  <2>2. add[l] # <<>>
    BY <2>1
  <2>3. Parted(p, add[l]) /\ Onward(p.name, G[l][n].name)
    BY <1>4, <2>1, <2>2 DEF Serving
  <2>4. add[l][m].id = p.id \/ add[l][m].id = Append(p.id, m)
    BY <1>2, <2>1, <2>3, PartedIds
  <2> QED
    BY <2>1, <2>2, <2>3, <2>4
\* p is none of those that stayed.
<1>6. ASSUME NEW kind \in HostNames, NEW l \in Lanes, NEW n \in DOMAIN G[l], NEW m \in Nat,
             Stayed(H, G, A, l, n, m), Leads(G[l][n].name, kind), Leads(p.name, kind)
      PROVE  ~Overlap(p.id, G[l][n].id)
  <2>1. m \in DOMAIN H[l] /\ G[l][n] = H[l][m] /\ (l = A => m = n + 1)
    BY <1>6 DEF Stayed
  <2>2. n \in Nat \ {0}
    BY <1>2
  <2>3. A = l => 1 # m
    BY <2>1, <2>2
  <2> QED
    BY <1>0, <1>1, <1>6, <2>1, <2>3 DEF Apart, p
<1>7. ASSUME NEW kind \in HostNames, NEW l1 \in Lanes, NEW l2 \in Lanes,
             NEW n1 \in DOMAIN G[l1], NEW n2 \in DOMAIN G[l2], NEW m1 \in Nat, NEW m2 \in Nat,
             Leads(G[l1][n1].name, kind), Leads(G[l2][n2].name, kind),
             Came(H, G, A, add, l1, n1, m1), Stayed(H, G, A, l2, n2, m2)
      PROVE  ~Overlap(G[l1][n1].id, G[l2][n2].id)
  <2>1. Leads(p.name, kind)
    BY <1>5, <1>7 DEF Onward
  <2>2. ~Overlap(p.id, G[l2][n2].id)
    BY <1>6, <1>7, <2>1
  <2>3. G[l1][n1].id = p.id \/ G[l1][n1].id = Append(p.id, m1)
    BY <1>5, <1>7
  <2> QED
    BY <1>3, <2>2, <2>3, OverlapPart
<1> SUFFICES ASSUME NEW kind \in HostNames, NEW l1 \in Lanes, NEW l2 \in Lanes,
                    NEW n1 \in DOMAIN G[l1], NEW n2 \in DOMAIN G[l2],
                    Leads(G[l1][n1].name, kind), Leads(G[l2][n2].name, kind),
                    l1 = l2 => n1 # n2
             PROVE  ~Overlap(G[l1][n1].id, G[l2][n2].id)
  BY DEF Apart
<1>8. PICK m1 \in Nat : Stayed(H, G, A, l1, n1, m1) \/ Came(H, G, A, add, l1, n1, m1)
  BY Where
<1>9. PICK m2 \in Nat : Stayed(H, G, A, l2, n2, m2) \/ Came(H, G, A, add, l2, n2, m2)
  BY Where
<1>10. CASE Stayed(H, G, A, l1, n1, m1) /\ Stayed(H, G, A, l2, n2, m2)
  <2>1. /\ m1 \in DOMAIN H[l1] /\ G[l1][n1] = H[l1][m1]
        /\ m2 \in DOMAIN H[l2] /\ G[l2][n2] = H[l2][m2]
    BY <1>10 DEF Stayed
  <2>2. l1 = l2 => m1 # m2
    <3>1. n1 \in Nat /\ n2 \in Nat
      BY <1>2
    <3> QED
      BY <1>10, <3>1 DEF Stayed
  <2> QED
    BY <2>1, <2>2 DEF Apart
<1>11. CASE Came(H, G, A, add, l1, n1, m1) /\ Stayed(H, G, A, l2, n2, m2)
  BY <1>7, <1>11
<1>12. CASE Stayed(H, G, A, l1, n1, m1) /\ Came(H, G, A, add, l2, n2, m2)
  <2>1. ~Overlap(G[l2][n2].id, G[l1][n1].id)
    BY <1>7, <1>12
  <2> QED
    BY <2>1, OverlapSym
<1>13. CASE Came(H, G, A, add, l1, n1, m1) /\ Came(H, G, A, add, l2, n2, m2)
  <2>1. /\ m1 \in DOMAIN add[l1] /\ G[l1][n1] = add[l1][m1]
        /\ m2 \in DOMAIN add[l2] /\ G[l2][n2] = add[l2][m2]
        /\ Parted(p, add[l1])
    BY <1>5, <1>13
  <2>2. l1 = l2
    BY <1>4, <2>1 DEF Serving
  <2>3. m1 # m2
    BY <1>13, <2>2 DEF Came
  <2>4. Len(add[l1]) # 1
    <3> SUFFICES ASSUME Len(add[l1]) = 1 PROVE FALSE
      OBVIOUS
    <3>1. DOMAIN add[l1] = 1 .. 1
      BY <1>2
    <3>2. m1 = 1 /\ m2 = 1
      BY <2>1, <2>2, <3>1
    <3> QED
      BY <2>3, <3>2
  <2>5. Len(p.id) = 1 /\ \A n \in DOMAIN add[l1] : add[l1][n].id = Append(p.id, n)
    BY <1>2, <2>1, <2>4, PartedIds
  <2>6. G[l1][n1].id = Append(p.id, m1) /\ G[l2][n2].id = Append(p.id, m2)
    BY <2>1, <2>2, <2>5
  <2> QED
    BY <1>3, <2>3, <2>5, <2>6, OverlapCommands
<1> QED
  BY <1>8, <1>9, <1>10, <1>11, <1>12, <1>13

\* ... and within what is promised.
LEMMA MovesWithin ==
  ASSUME NEW H \in Contents, NEW G, NEW A, NEW add, Moves(H, G, A, add), AllWithin(H),
         NEW p, Serving(add, p)
  PROVE  AllWithin(G)
<1> SUFFICES ASSUME NEW l \in Lanes, NEW n \in DOMAIN G[l]
             PROVE  Within(G[l][n])
  BY DEF AllWithin
<1>1. PICK m \in Nat : Stayed(H, G, A, l, n, m) \/ Came(H, G, A, add, l, n, m)
  BY Where
<1>2. CASE Stayed(H, G, A, l, n, m)
  <2>1. m \in DOMAIN H[l] /\ G[l][n] = H[l][m]
    BY <1>2 DEF Stayed
  <2> QED
    BY <2>1 DEF AllWithin
<1>3. CASE Came(H, G, A, add, l, n, m)
  <2>1. m \in DOMAIN add[l] /\ G[l][n] = add[l][m]
    BY <1>3 DEF Came
  <2> QED
    BY <2>1 DEF Serving
<1> QED
  BY <1>1, <1>2, <1>3

\* All but the packet that goes are there after the step, and what was put there, too.
LEMMA MovesKeep ==
  ASSUME NEW H \in Contents, NEW G, NEW A, NEW add, Moves(H, G, A, add), NEW l \in Lanes
  PROVE  /\ \A n \in DOMAIN H[l] : ~(l = A /\ n = 1) => \E o \in DOMAIN G[l] : G[l][o] = H[l][n]
         /\ \A m \in DOMAIN add[l] : \E o \in DOMAIN G[l] : G[l][o] = add[l][m]
<1> DEFINE s == IF l = A THEN Tail(H[l]) ELSE H[l]
           t == add[l]
<1>1. H[l] \in Seq(Packet) /\ t \in Seq(Packet) /\ (l = A => H[l] # <<>>)
  BY DEF Moves, Contents
<1>2. s \in Seq(Packet)
  BY <1>1
<1>3. G[l] = s \o t
  BY DEF Moves
<1>4. ASSUME NEW n \in DOMAIN H[l], ~(l = A /\ n = 1)
      PROVE  \E o \in DOMAIN s : s[o] = H[l][n]
  <2>1. CASE l = A
    <3>1. n \in 2 .. Len(H[l]) /\ Len(H[l]) \in Nat
      BY <1>1, <1>4, <2>1
    <3>2. n - 1 \in DOMAIN Tail(H[l]) /\ Tail(H[l])[n - 1] = H[l][n]
      BY <1>1, <2>1, <3>1
    <3> QED
      BY <2>1, <3>2
  <2>2. CASE l # A
    BY <1>4, <2>2
  <2> QED
    BY <2>1, <2>2
<1> HIDE DEF s, t
<1>5. /\ Len(s) \in Nat /\ Len(t) \in Nat /\ DOMAIN s = 1 .. Len(s) /\ DOMAIN t = 1 .. Len(t)
      /\ DOMAIN (s \o t) = 1 .. Len(s) + Len(t)
  BY <1>1, <1>2
<1>6. \A o \in DOMAIN s : o \in DOMAIN (s \o t) /\ (s \o t)[o] = s[o]
  BY <1>1, <1>2, <1>5
<1>7. \A m \in DOMAIN t : Len(s) + m \in DOMAIN (s \o t) /\ (s \o t)[Len(s) + m] = t[m]
  BY <1>1, <1>2, <1>5
<1> QED
  BY <1>3, <1>4, <1>6, <1>7 DEF t

-----------------------------------------------------------------------------
\* The commands that the packets in lanes H are about.
Started(H) ==
  {Command(p) : p \in {q \in UNION {ToSet(H[l]) : l \in Lanes} : Len(q.id) >= 2}}

\* Packet H[l][n] is about command x.
Tells(H, l, n, x) == Len(H[l][n].id) >= 2 /\ x = Command(H[l][n])

LEMMA StartedBy ==
  ASSUME NEW H
  PROVE  \A x : x \in Started(H) <=> \E l \in Lanes : \E n \in DOMAIN H[l] : Tells(H, l, n, x)
BY DEF Started, Tells, ToSet

\* A command is named by the first two numbers.
LEMMA CommandIs ==
  ASSUME NEW p \in Packet, Len(p.id) >= 2
  PROVE  Command(p) = <<p.id[1], p.id[2]>>
<1> DEFINE s == p.id
           t == SubSeq(s, 1, 2)
<1>1. s \in Seq(Nat) /\ Len(s) >= 2
  BY DEF Packet
<1> HIDE DEF s
<1>2. t \in Seq(Nat) /\ Len(t) = 2
  BY <1>1
<1>3. t[1] = s[1] /\ t[2] = s[2]
  BY <1>1
<1> HIDE DEF t
<1>4. t = <<t[1], t[2]>>
  BY <1>2
<1> QED
  BY <1>3, <1>4 DEF Command, s, t

\* Those that p is about, or that its pieces are about if it is a block.
News(p) == {<<p.id[1], j>> : j \in 1 .. Rounds(BlockSize, 2)}

\* What an opened block becomes.
LEMMA OpenedCommand ==
  ASSUME NEW p \in Packet, NEW packets \in Seq(Packet), Opened(p, packets), NEW m \in DOMAIN packets
  PROVE  Len(packets[m].id) >= 2 /\ Command(packets[m]) = <<p.id[1], m>>
<1>1. p.id \in Seq(Nat) /\ packets[m] \in Packet /\ m \in Nat
  <2>1. packets[m] \in Packet /\ m \in Nat
    OBVIOUS
  <2> QED
    BY <2>1 DEF Packet
<1>2. Len(p.id) + 1 = 2 /\ 1 \in 1 .. Len(p.id) /\ packets[m].id = Append(p.id, m)
  BY DEF Opened
<1> DEFINE q == packets[m].id
<1>3. Len(q) = Len(p.id) + 1 /\ q[Len(p.id) + 1] = m /\ q[1] = p.id[1]
  BY <1>1, <1>2, AppendProperties
<1> HIDE DEF q
<1>4. Len(q) = 2 /\ q[2] = m
  BY <1>2, <1>3, Zenon
<1>5. Len(packets[m].id) >= 2 /\ packets[m].id[1] = p.id[1] /\ packets[m].id[2] = m
  BY <1>3, <1>4 DEF q
<1> QED
  BY <1>1, <1>5, CommandIs

\* Of the packets that came, each is about what p is about, or about one of its block.
LEMMA PartedTells ==
  ASSUME NEW p \in Packet, NEW packets \in Seq(Packet), Parted(p, packets),
         NEW m \in DOMAIN packets, Len(packets[m].id) >= 2
  PROVE  \/ Len(p.id) >= 2 /\ Command(packets[m]) = Command(p)
         \/ Opened(p, packets) /\ Command(packets[m]) \in News(p)
<1>1. p.id \in Seq(Nat) /\ packets[m] \in Packet /\ Len(packets) \in Nat /\ m \in 1 .. Len(packets)
  <2>1. packets[m] \in Packet /\ Len(packets) \in Nat /\ m \in 1 .. Len(packets)
    OBVIOUS
  <2> QED
    BY <2>1 DEF Packet
<1>2. Len(p.id) \in Nat
  BY <1>1
<1>3. CASE Len(packets) = 1 /\ packets[1].id = p.id
  <2>1. packets[m].id = p.id
    BY <1>1, <1>3
  <2> QED
    BY <2>1 DEF Command
<1>4. CASE Len(packets) = 1 /\ Len(p.id) >= 2 /\ packets[1].id = Append(p.id, 1)
  <2>1. packets[m].id = Append(p.id, 1)
    BY <1>1, <1>4
  <2> QED
    BY <1>1, <1>4, <2>1, LongerCommand
<1>5. CASE Opened(p, packets)
  <2>1. m \in 1 .. Rounds(BlockSize, 2)
    BY <1>1, <1>5 DEF Opened
  <2>2. Command(packets[m]) = <<p.id[1], m>>
    BY <1>5, OpenedCommand
  <2> QED
    BY <1>5, <2>1, <2>2 DEF News
<1> QED
  BY <1>3, <1>4, <1>5 DEF Parted

\* A step that serves starts the commands of a block, or none; it loses none.
LEMMA MovesStarted ==
  ASSUME NEW H \in Contents, NEW G, NEW A, NEW add, Moves(H, G, A, add),
         Serving(add, Head(H[A])), Len(Head(H[A]).id) >= 1
  PROVE  \/ Started(G) = Started(H)
         \/ /\ \E g \in Lanes : Opened(Head(H[A]), add[g])
            /\ Started(G) = Started(H) \cup News(Head(H[A]))
<1> DEFINE p == H[A][1]
<1>1. /\ 1 \in DOMAIN H[A] /\ p \in Packet
      /\ Head(H[A]) = p /\ G \in Contents /\ A \in Lanes
  <2>1. A \in Lanes
    BY DEF Moves
  <2> QED
    BY <2>1, MovesTyped
<1>2. \A l \in Lanes : add[l] \in Seq(Packet) /\ G[l] \in Seq(Packet) /\ H[l] \in Seq(Packet)
  BY <1>1 DEF Contents, Moves
<1>3. p.id \in Seq(Nat) /\ Len(p.id) \in Nat /\ Len(p.id) >= 1
  <2>1. p.id \in Seq(Nat)
    BY <1>1 DEF Packet
  <2> QED
    BY <1>1, <2>1
<1>4. Serving(add, p)
  BY <1>1
<1>5. Tells(H, A, 1, Command(p)) <=> Len(p.id) >= 2
  BY DEF Tells
<1> HIDE DEF p
\* What is about something in G was so in H, or came.
<1>6. ASSUME NEW x, x \in Started(G)
      PROVE  \/ x \in Started(H)
             \/ (\E g \in Lanes : Opened(p, add[g])) /\ x \in News(p)
  <2>1. PICK l \in Lanes : \E n \in DOMAIN G[l] : Tells(G, l, n, x)
    BY <1>6, StartedBy
  <2>2. PICK n \in DOMAIN G[l] : Tells(G, l, n, x)
    BY <2>1
  <2>3. PICK m \in Nat : Stayed(H, G, A, l, n, m) \/ Came(H, G, A, add, l, n, m)
    BY Where
  <2>4. CASE Stayed(H, G, A, l, n, m)
    <3>1. m \in DOMAIN H[l] /\ Tells(H, l, m, x)
      BY <2>2, <2>4 DEF Stayed, Tells
    <3> QED
      BY <3>1, StartedBy
  <2>5. CASE Came(H, G, A, add, l, n, m)
    <3>1. m \in DOMAIN add[l] /\ G[l][n] = add[l][m]
      BY <2>5 DEF Came
    <3>2. add[l] # <<>>
      BY <3>1
    <3>3. Parted(p, add[l])
      BY <1>4, <3>2 DEF Serving
    <3>4. Len(add[l][m].id) >= 2 /\ x = Command(add[l][m])
      BY <2>2, <3>1 DEF Tells
    <3>5. \/ Len(p.id) >= 2 /\ x = Command(p)
          \/ Opened(p, add[l]) /\ x \in News(p)
      BY <1>1, <1>2, <3>1, <3>3, <3>4, PartedTells
    <3>6. Len(p.id) >= 2 /\ x = Command(p) => x \in Started(H)
      BY <1>1, <1>5, StartedBy
    <3> QED
      BY <3>5, <3>6
  <2> QED
    BY <2>3, <2>4, <2>5
<1>7. ASSUME NEW l \in Lanes, NEW m \in DOMAIN add[l], Len(add[l][m].id) >= 2
      PROVE  Command(add[l][m]) \in Started(G)
  <2>1. PICK o \in DOMAIN G[l] : G[l][o] = add[l][m]
    BY MovesKeep
  <2>2. Tells(G, l, o, Command(add[l][m]))
    BY <1>7, <2>1 DEF Tells
  <2> QED
    BY <2>2, StartedBy
\* If it was about a command, so is what it became ...
<1>8. Len(p.id) >= 2 => Command(p) \in Started(G)
  <2> SUFFICES ASSUME Len(p.id) >= 2 PROVE Command(p) \in Started(G)
    OBVIOUS
  <2>1. PICK g \in Lanes : add[g] # <<>> /\ Parted(p, add[g])
    BY <1>4 DEF Serving
  <2>2. Len(add[g]) = 1 /\ (add[g][1].id = p.id \/ add[g][1].id = Append(p.id, 1))
    BY <1>3, <2>1 DEF Parted, Opened
  <2>3. 1 \in DOMAIN add[g] /\ add[g][1] \in Packet
    BY <1>2, <2>1
  <2>4. CASE add[g][1].id = p.id
    <3>1. Command(add[g][1]) = Command(p)
      BY <2>4 DEF Command
    <3> QED
      BY <1>7, <2>3, <2>4, <3>1
  <2>5. CASE add[g][1].id = Append(p.id, 1)
    <3>1. Command(add[g][1]) = Command(p)
      BY <1>1, <2>3, <2>5, LongerCommand
    <3>2. Len(add[g][1].id) = Len(p.id) + 1
      BY <1>3, <2>5, AppendProperties
    <3>3. Len(add[g][1].id) >= 2
      BY <1>3, <3>2
    <3> QED
      BY <1>7, <2>3, <3>1, <3>3
  <2> QED
    BY <2>2, <2>4, <2>5
\* ... so that nothing is lost.
<1>9. ASSUME NEW x, x \in Started(H)
      PROVE  x \in Started(G)
  <2>1. PICK l \in Lanes : \E n \in DOMAIN H[l] : Tells(H, l, n, x)
    BY <1>9, StartedBy
  <2>2. PICK n \in DOMAIN H[l] : Tells(H, l, n, x)
    BY <2>1
  <2>3. CASE ~(l = A /\ n = 1)
    <3>1. PICK o \in DOMAIN G[l] : G[l][o] = H[l][n]
      BY <2>3, MovesKeep
    <3>2. Tells(G, l, o, x)
      BY <2>2, <3>1 DEF Tells
    <3> QED
      BY <3>2, StartedBy
  <2>4. CASE l = A /\ n = 1
    <3>1. Len(p.id) >= 2 /\ x = Command(p)
      BY <2>2, <2>4 DEF Tells, p
    <3> QED
      BY <1>8, <3>1
  <2> QED
    BY <2>3, <2>4
\* If the block is opened, all its commands come.
<1>10. CASE \E g \in Lanes : Opened(p, add[g])
  <2>1. PICK g \in Lanes : Opened(p, add[g])
    BY <1>10
  <2>2. DOMAIN add[g] = 1 .. Rounds(BlockSize, 2)
    BY <1>2, <2>1 DEF Opened
  <2>3. ASSUME NEW j \in 1 .. Rounds(BlockSize, 2)
        PROVE  <<p.id[1], j>> \in Started(G)
    <3>1. j \in DOMAIN add[g]
      BY <2>2
    <3>2. Len(add[g][j].id) >= 2 /\ Command(add[g][j]) = <<p.id[1], j>>
      BY <1>1, <1>2, <2>1, <3>1, OpenedCommand
    <3> QED
      BY <1>7, <3>1, <3>2
  <2>4. News(p) \subseteq Started(G)
    BY <2>3 DEF News
  <2>5. Started(G) = Started(H) \cup News(p)
    BY <1>6, <1>9, <2>4
  <2> QED
    BY <1>1, <1>10, <2>5
<1>11. CASE ~\E g \in Lanes : Opened(p, add[g])
  <2>1. Started(G) = Started(H)
    BY <1>6, <1>9, <1>11
  <2> QED
    BY <2>1
<1> QED
  BY <1>10, <1>11

-----------------------------------------------------------------------------
\* Every name leads to the result or to the descriptor, that of a block to both.
LEMMA LeadsSome ==
  /\ \A name : \E kind \in HostNames : Leads(name, kind)
  /\ \A kind \in HostNames : Leads("CPP.cmd", kind) /\ Leads(kind, kind)
BY DEF Leads, HostNames, DataNames, DescNames

\* A block that is opened was not fetched before.
LEMMA OpenedIsNew ==
  ASSUME NEW H \in Contents, Apart(H), NEW A \in Lanes, 1 \in DOMAIN H[A],
         H[A][1].name = "CPP.cmd", Len(H[A][1].id) = 1
  PROVE  News(H[A][1]) \cap Started(H) = {}
<1> SUFFICES ASSUME NEW j \in 1 .. Rounds(BlockSize, 2), <<H[A][1].id[1], j>> \in Started(H)
             PROVE  FALSE
  BY DEF News
<1> DEFINE x == <<H[A][1].id[1], j>>
<1>0. x \in Started(H) /\ x[1] = H[A][1].id[1]
  OBVIOUS
<1> HIDE DEF x
<1>1. PICK l \in Lanes : \E n \in DOMAIN H[l] : Tells(H, l, n, x)
  BY <1>0, StartedBy
<1>2. PICK n \in DOMAIN H[l] : Len(H[l][n].id) >= 2 /\ x = Command(H[l][n])
  BY <1>1 DEF Tells
<1>3. H[l][n] \in Packet
  <2>1. H[l] \in Seq(Packet)
    BY DEF Contents
  <2> QED
    BY <2>1
<1>4. x = <<H[l][n].id[1], H[l][n].id[2]>>
  BY <1>2, <1>3, CommandIs
<1>5. H[l][n].id[1] = H[A][1].id[1]
  BY <1>0, <1>4
<1>6. Overlap(H[A][1].id, H[l][n].id)
  BY <1>5 DEF Overlap
<1>7. A = l => 1 # n
  <2> SUFFICES ASSUME A = l, 1 = n PROVE FALSE
    OBVIOUS
  <2>1. Len(H[l][n].id) = 1 /\ Len(H[l][n].id) >= 2
    BY <1>2
  <2> QED
    BY <2>1
<1>8. PICK kind \in HostNames : Leads(H[l][n].name, kind)
  BY LeadsSome
<1>9. Leads(H[A][1].name, kind)
  BY LeadsSome
<1> QED
  BY <1>6, <1>7, <1>8, <1>9 DEF Apart

\* At first only the requests for the blocks are there.
LEMMA InitPromise == Init => PromiseInv /\ Started(held) = {} /\ channel[At("Host_mem")] = <<>>
<1> SUFFICES ASSUME Init
             PROVE  PromiseInv /\ Started(held) = {} /\ channel[At("Host_mem")] = <<>>
  OBVIOUS
<1>1. ASSUME NEW l \in Lanes, NEW n \in DOMAIN held[l]
      PROVE  l = Shelf(At("CPR_req")) /\ held[l][n] = Stimulus(n) /\ n \in 1 .. Count
  BY <1>1, InitHeld
<1>2. \A k \in Nat : /\ Stimulus(k).name = "CPR.fetch.req" /\ Stimulus(k).id = <<k>>
                     /\ Len(Stimulus(k).id) = 1 /\ Stimulus(k).id[1] = k
  BY DEF Stimulus
<1>3. 1 .. Count \subseteq Nat
  BY DmaAssumption
<1>4. AllWithin(held)
  <2> SUFFICES ASSUME NEW l \in Lanes, NEW n \in DOMAIN held[l]
               PROVE  Within(held[l][n])
    BY DEF AllWithin
  <2>1. held[l][n] = Stimulus(n) /\ n \in 1 .. Count /\ n \in Nat
    BY <1>1, <1>3
  <2> QED
    BY <1>2, <2>1 DEF Within
<1>5. Apart(held)
  <2> SUFFICES ASSUME NEW l1 \in Lanes, NEW l2 \in Lanes,
                      NEW n1 \in DOMAIN held[l1], NEW n2 \in DOMAIN held[l2], l1 = l2 => n1 # n2
               PROVE  ~Overlap(held[l1][n1].id, held[l2][n2].id)
    BY DEF Apart
  <2>1. l1 = l2 /\ held[l1][n1].id[1] = n1 /\ held[l2][n2].id[1] = n2 /\ n1 # n2
    BY <1>1, <1>2, <1>3
  <2> QED
    BY <2>1 DEF Overlap
<1>6. Started(held) = {}
  <2> SUFFICES ASSUME NEW x, x \in Started(held) PROVE FALSE
    OBVIOUS
  <2>1. PICK l \in Lanes : \E n \in DOMAIN held[l] : Tells(held, l, n, x)
    BY StartedBy
  <2>2. PICK n \in DOMAIN held[l] : Tells(held, l, n, x)
    BY <2>1
  <2>3. Len(held[l][n].id) = 1
    BY <1>1, <1>2, <1>3
  <2> QED
    BY <2>2, <2>3 DEF Tells
<1>7. channel[At("Host_mem")] = <<>>
  <2>1. At("Host_mem") \in Channels /\ At("Host_mem") # At("CPR_req")
    BY ChannelNames
  <2> QED
    BY <2>1 DEF Init
<1> QED
  BY <1>4, <1>5, <1>6, <1>7 DEF PromiseInv

\* What a step must be like for the promise, and what it does to the commands.
StepServes(A, add, p) ==
  /\ Moves(held, held', A, add) /\ p = Head(held[A]) /\ p = held[A][1] /\ 1 \in DOMAIN held[A]
  /\ p \in Packet /\ Len(p.id) >= 1 /\ Within(p) /\ Serving(add, p)

\* What the handlers take ...
LEMMA TakeStep ==
  ASSUME IInv, OrderInv, PromiseInv, NEW h \in Handlers, Take(h)
  PROVE  \E add : StepServes(Shelf(h.from), add, Head(held[Shelf(h.from)]))
<1> DEFINE A == Shelf(h.from)
           p == Head(held[A])
<1>1. PICK add : Moves(held, held', A, add) /\ TakesInto(h, p, add)
  BY TakeMoves
<1>2. held \in Contents
  BY HeldTyped DEF IInv
<1> HIDE DEF A
<1>3. A \in Lanes /\ add \in Contents
  BY <1>1 DEF Moves
<1>4. p = held[A][1] /\ 1 \in DOMAIN held[A] /\ p \in Packet
  BY <1>1, <1>2, MovesTyped
<1>5. Within(p)
  BY <1>3, <1>4 DEF PromiseInv, AllWithin
<1> HIDE DEF p
<1>6. Len(p.id) >= 1
  <2>1. p \in Packet /\ Belongs(h.from, p)
    BY <1>1 DEF TakesInto
  <2>2. Len(p.id) \in Nat
    BY <2>1 DEF Packet
  <2> QED
    BY <2>1, <2>2 DEF Belongs
<1>7. Serving(add, p)
  BY <1>1, <1>3, <1>5, TakeServes
<1>8. p = Head(held[A])
  BY DEF p
<1>9. StepServes(A, add, p)
  BY <1>1, <1>4, <1>5, <1>6, <1>7, <1>8 DEF StepServes
<1> QED
  BY <1>9 DEF A, p

\* ... and what the cones put.
LEMMA PutStep ==
  ASSUME IInv, PromiseInv, NEW h \in Handlers, NEW c \in h.cones, Put(h, c)
  PROVE  LET p == Head(held[<<h, c>>]) IN StepServes(<<h, c>>, Only(p, Shelf(c.to)), p)
<1> DEFINE A == <<h, c>>
           p == Head(held[A])
           add == Only(p, Shelf(c.to))
<1>1. Moves(held, held', A, add) /\ Shelf(c.to) \in Lanes
  BY PutMoves
<1>2. held \in Contents
  BY HeldTyped DEF IInv
<1>3. A \in Lanes /\ held[A] = pending[h][c]
  BY LaneForms, HeldForms
<1> HIDE DEF A, add
<1>4. p = held[A][1] /\ 1 \in DOMAIN held[A] /\ p \in Packet
  BY <1>1, <1>2, MovesTyped
<1>5. Within(p)
  BY <1>3, <1>4 DEF PromiseInv, AllWithin
<1>6. Len(p.id) >= 1
  <2>1. Belongs(c.to, p)
    BY <1>3, <1>4 DEF IInv, AllBelong
  <2>2. Len(p.id) \in Nat
    BY <1>4 DEF Packet
  <2> QED
    BY <2>1, <2>2 DEF Belongs
<1>7. Serving(add, p)
  BY <1>1, <1>5, PutServes DEF add
<1>8. StepServes(A, add, p)
  BY <1>1, <1>4, <1>5, <1>6, <1>7 DEF StepServes
<1> QED
  BY <1>8 DEF A, add

\* Such a step keeps the invariant, and starts the commands of one new block, or none.
LEMMA ServingStep ==
  ASSUME IInv, PromiseInv, NEW A, NEW add, NEW p, StepServes(A, add, p)
  PROVE  /\ PromiseInv'
         /\ \/ Started(held') = Started(held)
            \/ /\ \E g \in Lanes : Opened(p, add[g])
               /\ p.id[1] \in 1 .. Count
               /\ News(p) \cap Started(held) = {}
               /\ Started(held') = Started(held) \cup News(p)
<1>1. held \in Contents /\ Moves(held, held', A, add) /\ p = Head(held[A])
  BY HeldTyped DEF IInv, StepServes
<1>2. AllWithin(held) /\ Apart(held)
  BY DEF PromiseInv
<1>3. AllWithin(held')
  BY <1>1, <1>2, MovesWithin DEF StepServes
<1>4. Apart(held')
  BY <1>1, <1>2, MovesApart DEF StepServes
<1>5. \/ Started(held') = Started(held)
      \/ /\ \E g \in Lanes : Opened(p, add[g])
         /\ Started(held') = Started(held) \cup News(p)
  BY <1>1, MovesStarted DEF StepServes
<1>6. ASSUME NEW g \in Lanes, Opened(p, add[g])
      PROVE  News(p) \cap Started(held) = {}
  <2>1. A \in Lanes /\ 1 \in DOMAIN held[A] /\ p = held[A][1]
    BY DEF StepServes, Moves
  <2>2. p.name = "CPP.cmd" /\ Len(p.id) = 1
    BY <1>6 DEF Opened
  <2> QED
    BY <1>1, <1>2, <2>1, <2>2, OpenedIsNew
<1>7. p.id[1] \in 1 .. Count
  BY DEF StepServes, Within
<1> QED
  BY <1>3, <1>4, <1>5, <1>6, <1>7 DEF PromiseInv

-----------------------------------------------------------------------------
\* The map to the promise: what the lanes hold, and what the host keeps.

\* What the memory of the host keeps of a packet ...
Entry(p) == [name |-> p.name, command |-> Command(p)]

\* ... and of all of them.
Entries(packets) ==
  [n \in DOMAIN packets |-> [name |-> packets[n].name, command |-> Command(packets[n])]]

\* What Dma puts in the place of the variables of Loopback.
known == {Command(p) : p \in {q \in Everywhere : Len(q.id) >= 2}}

memory == Entries(channel[At("Host_mem")])

\* The commands that are known are those that the lanes hold packets of ...
LEMMA KnownHeld == known = Started(held)
<1>1. Everywhere = UNION {ToSet(held[l]) : l \in Lanes}
  <2>1. ASSUME NEW p
        PROVE  p \in Everywhere <=> \/ \E c \in Channels : p \in ToSet(channel[c])
                                    \/ \E h \in Handlers : \E c \in h.cones : p \in ToSet(pending[h][c])
    BY DEF Everywhere
  <2>2. ASSUME NEW p
        PROVE  (\E c \in Channels : p \in ToSet(channel[c])) => \E l \in Lanes : p \in ToSet(held[l])
    BY LaneForms, HeldForms
  <2>3. ASSUME NEW p
        PROVE  (\E h \in Handlers : \E c \in h.cones : p \in ToSet(pending[h][c]))
                 => \E l \in Lanes : p \in ToSet(held[l])
    BY LaneForms, HeldForms
  <2>4. ASSUME NEW p, NEW l \in Lanes, p \in ToSet(held[l])
        PROVE  \/ \E c \in Channels : p \in ToSet(channel[c])
               \/ \E h \in Handlers : \E c \in h.cones : p \in ToSet(pending[h][c])
    BY <2>4, LaneForms, HeldForms
  <2>5. \A p : p \in Everywhere <=> \E l \in Lanes : p \in ToSet(held[l])
    BY <2>1, <2>2, <2>3, <2>4
  <2> QED
    BY <2>5
<1> QED
  BY <1>1 DEF known, Started

\* One more packet is one more entry.
LEMMA EntriesAppend ==
  ASSUME NEW packets \in Seq(Packet), NEW p \in Packet
  PROVE  /\ Entries(Append(packets, p)) = Append(Entries(packets), Entry(p))
         /\ DOMAIN Entries(packets) = DOMAIN packets
         /\ \A n \in DOMAIN packets : Entries(packets)[n] = Entry(packets[n])
<1> DEFINE s == Append(packets, p)
           e == Entries(packets)
           N == Len(packets)
           T == {Entry(q) : q \in Packet}
<1>1. N \in Nat /\ DOMAIN packets = 1 .. N /\ \A n \in 1 .. N : packets[n] \in Packet
  OBVIOUS
<1>2. DOMAIN s = 1 .. N + 1 /\ s[N + 1] = p /\ \A n \in 1 .. N : s[n] = packets[n]
  BY <1>1
<1>3. DOMAIN e = 1 .. N /\ e = [n \in 1 .. N |-> Entry(packets[n])]
  BY <1>1 DEF Entries, Entry
<1>4. Entries(s) = [n \in 1 .. N + 1 |-> Entry(s[n])]
  BY <1>2 DEF Entries, Entry
<1>5. Entry(p) \in T /\ \A n \in 1 .. N : Entry(packets[n]) \in T
  BY <1>1
<1> HIDE DEF s, e, N, T
<1>6. e \in Seq(T) /\ Len(e) = N
  BY <1>1, <1>3, <1>5
<1>7. /\ DOMAIN Append(e, Entry(p)) = 1 .. N + 1 /\ Append(e, Entry(p))[N + 1] = Entry(p)
      /\ \A n \in 1 .. N : Append(e, Entry(p))[n] = e[n]
      /\ Append(e, Entry(p)) = [n \in 1 .. N + 1 |-> Append(e, Entry(p))[n]]
  <2> DEFINE a == Append(e, Entry(p))
  <2>1. /\ a \in Seq(T) /\ Len(a) = Len(e) + 1 /\ a[Len(e) + 1] = Entry(p)
        /\ \A n \in 1 .. Len(e) : a[n] = e[n]
    BY <1>5, <1>6, AppendProperties
  <2> HIDE DEF a
  <2>2. a = [n \in 1 .. Len(a) |-> a[n]] /\ DOMAIN a = 1 .. Len(a)
    BY <2>1
  <2> QED
    BY <1>6, <2>1, <2>2 DEF a
<1>8. \A n \in 1 .. N + 1 : n = N + 1 \/ n \in 1 .. N
  BY <1>1
<1>9. \A n \in 1 .. N + 1 : Entry(s[n]) = Append(e, Entry(p))[n]
  BY <1>2, <1>3, <1>7, <1>8
<1>10. Entries(s) = Append(e, Entry(p))
  BY <1>4, <1>7, <1>9
<1>11. DOMAIN e = DOMAIN packets /\ \A n \in DOMAIN packets : e[n] = Entry(packets[n])
  BY <1>1, <1>3
<1> QED
  BY <1>10, <1>11 DEF s, e

\* The steps of the promise, in terms of the map.

LEMMA Steps ==
  /\ known' = known /\ memory' = memory => UNCHANGED Host_memory!vars
  /\ \A k \in 1 .. Count :
       /\ {<<k, j>> : j \in 1 .. Rounds(BlockSize, 2)} \cap known = {}
       /\ known' = known \cup {<<k, j>> : j \in 1 .. Rounds(BlockSize, 2)}
       /\ memory' = memory
       => Host_memory!Next
  /\ \A kind \in HostNames, k \in 1 .. Count, j \in 1 .. Rounds(BlockSize, 2) :
       LET entry == [name |-> kind, command |-> <<k, j>>] IN
       /\ memory' = Append(memory, entry)
       /\ \A n \in DOMAIN memory : memory[n] # entry
       /\ <<k, j>> \in known
       /\ known' = known
       => Host_memory!Next
<1>1. known' = known /\ memory' = memory => UNCHANGED Host_memory!vars
  BY DEF Host_memory!vars, known, memory, Entries
<1>2. ASSUME NEW k \in 1 .. Count,
             {<<k, j>> : j \in 1 .. Rounds(BlockSize, 2)} \cap known = {},
             known' = known \cup {<<k, j>> : j \in 1 .. Rounds(BlockSize, 2)},
             memory' = memory
      PROVE  Host_memory!Next
  BY <1>2 DEF Host_memory!Next, Host_memory!Fetch, Host_memory!CommandsOf, known, memory, Entries
<1>3. ASSUME NEW kind \in HostNames, NEW k \in 1 .. Count, NEW j \in 1 .. Rounds(BlockSize, 2),
             NEW entry, entry = [name |-> kind, command |-> <<k, j>>],
             memory' = Append(memory, entry),
             \A n \in DOMAIN memory : memory[n] # entry,
             <<k, j>> \in known, known' = known
      PROVE  Host_memory!Next
  <2>1. Host_memory!Write(kind, <<k, j>>)
    BY <1>3 DEF Host_memory!Write, known, memory, Entries
  <2>2. <<k, j>> \in Host_memory!Commands
    BY DEF Host_memory!Commands, Host_memory!CommandsOf
  <2>3. kind \in Host_memory!Kind
    BY DEF Host_memory!Kind, HostNames
  <2> QED
    BY <2>1, <2>2, <2>3 DEF Host_memory!Next
<1> QED
  BY <1>1, <1>2, <1>3

\* ... also after a step.
LEMMA KnownPrimed == known' = Started(held')
<1>1. (known = Started(held))'
  BY KnownHeld, PTL
<1>2. Started(held)' = Started(held')
  BY DEF Started
<1> QED
  BY <1>1, <1>2

\* A step that serves, as a step of the promise, if it does not write to the host.
LEMMA QuietStep ==
  ASSUME IInv, PromiseInv, NEW A, NEW add, NEW p, StepServes(A, add, p), memory' = memory
  PROVE  PromiseInv' /\ [Host_memory!Next]_(Host_memory!vars)
<1>1. PromiseInv'
  BY ServingStep
<1>2. known = Started(held) /\ known' = Started(held')
  BY KnownHeld, KnownPrimed
<1>3. CASE Started(held') = Started(held)
  BY <1>1, <1>2, <1>3, Steps
<1>4. CASE /\ p.id[1] \in 1 .. Count
           /\ News(p) \cap Started(held) = {}
           /\ Started(held') = Started(held) \cup News(p)
  <2> DEFINE k == p.id[1]
  <2>1. k \in 1 .. Count /\ News(p) = {<<k, j>> : j \in 1 .. Rounds(BlockSize, 2)}
    BY <1>4 DEF News
  <2> HIDE DEF k
  <2>2. Host_memory!Next
    BY <1>2, <1>4, <2>1, Steps
  <2> QED
    BY <1>1, <2>2
<1> QED
  BY <1>3, <1>4, ServingStep

\* No handler takes from the memory of the host, so that taking is such a step.
LEMMA TakePromise ==
  ASSUME IInv, OrderInv, PromiseInv, NEW h \in Handlers, Take(h)
  PROVE  PromiseInv' /\ [Host_memory!Next]_(Host_memory!vars)
<1> DEFINE A == Shelf(h.from)
           p == Head(held[A])
<1>1. PICK add : StepServes(A, add, p)
  BY TakeStep
<1>2. At("Host_mem") \in Channels /\ h.from # At("Host_mem")
  BY ChannelNames, HandlersServe DEF AllServe
<1>3. channel'[At("Host_mem")] = channel[At("Host_mem")]
  BY <1>2 DEF Take, IInv, TypeOK
<1>4. memory' = memory
  BY <1>3 DEF memory, Entries
<1> HIDE DEF A, p
<1> QED
  BY <1>1, <1>4, QuietStep

\* What is put into the memory of the host is an entry that is not there yet.
LEMMA PutPromise ==
  ASSUME IInv, OrderInv, PromiseInv, NEW h \in Handlers, NEW c \in h.cones, Put(h, c)
  PROVE  PromiseInv' /\ [Host_memory!Next]_(Host_memory!vars)
<1> DEFINE A == <<h, c>>
           p == Head(held[A])
           add == Only(p, Shelf(c.to))
           m == At("Host_mem")
<1>1. StepServes(A, add, p)
  BY PutStep
<1>2. m \in Channels /\ c.to \in Channels
  BY ChannelNames, AllHandlersOK DEF HandlerOK, ConeOK
<1>3. A \in Lanes /\ held[A] = pending[h][c] /\ A[1] = h /\ A[2] = c /\ h # NoHandler
  BY LaneForms, HeldForms
<1>4. channel' = [channel EXCEPT ![c.to] = Append(@, p)]
  BY <1>3 DEF Put
<1>5. c.to = m <=> c.as \in HostNames
  BY HandlersServe DEF AllServe, Serves
<1> HIDE DEF A, add, p, m
<1>6. CASE c.to # m
  <2>1. channel'[m] = channel[m]
    BY <1>2, <1>4, <1>6 DEF IInv, TypeOK
  <2>2. memory' = memory
    BY <2>1 DEF memory, Entries, m
  <2> QED
    BY <1>1, <2>2, QuietStep
<1>7. CASE c.to = m
  <2>1. /\ p = held[A][1] /\ 1 \in DOMAIN held[A] /\ p \in Packet /\ Within(p) /\ A \in Lanes
    BY <1>1 DEF StepServes, Moves
  <2>2. p.name = c.as /\ p.name \in HostNames
    <3>1. KindAt(A, p)
      BY <2>1 DEF OrderInv, Kinds
    <3> QED
      BY <1>3, <1>5, <1>7, <3>1 DEF KindAt
  <2>3. Len(p.id) >= 2
    <3>1. Belongs(c.to, p)
      BY <1>3, <2>1 DEF IInv, AllBelong
    <3>2. p.name \notin BlockNames
      BY <2>2 DEF HostNames, BlockNames
    <3> QED
      BY <3>1, <3>2 DEF Belongs
  <2> DEFINE k == p.id[1]
             j == p.id[2]
             packets == channel[m]
  <2>4. k \in 1 .. Count /\ j \in 1 .. Rounds(BlockSize, 2) /\ Command(p) = <<k, j>>
    BY <2>1, <2>3, CommandIs DEF Within
  <2>5. packets \in Seq(Packet) /\ channel'[m] = Append(packets, p)
    BY <1>2, <1>4, <1>7 DEF IInv, TypeOK
  <2>6. Shelf(m) \in Lanes /\ held[Shelf(m)] = packets /\ Shelf(m) # A
    BY <1>2, <1>3, LaneForms, HeldForms
  <2> HIDE DEF k, j, packets
  <2>7. memory = Entries(packets) /\ memory' = Append(memory, Entry(p))
    <3>1. memory = Entries(packets)
      BY DEF memory, packets, m
    <3>2. memory' = Entries(channel'[m])
      BY DEF memory, m, Entries
    <3> QED
      BY <2>1, <2>5, <3>1, <3>2, EntriesAppend
  <2>8. ASSUME NEW n \in DOMAIN memory PROVE memory[n] # Entry(p)
    <3>1. n \in DOMAIN packets /\ memory[n] = Entry(packets[n])
      BY <2>1, <2>5, <2>7, <2>8, EntriesAppend
    <3> SUFFICES ASSUME packets[n].name = p.name, Command(packets[n]) = Command(p) PROVE FALSE
      BY <3>1 DEF Entry
    <3>2. packets[n] \in Packet
      BY <2>5, <3>1
    <3>3. Leads(p.name, p.name)
      BY <2>2, LeadsSome
    <3>4. ~Overlap(packets[n].id, p.id)
      BY <2>1, <2>2, <2>6, <3>1, <3>3 DEF PromiseInv, Apart
    <3>5. Len(packets[n].id) >= 2
      <4>1. Belongs(m, packets[n])
        BY <1>2, <3>1 DEF IInv, AllBelong, packets
      <4>2. packets[n].name \notin BlockNames
        BY <2>2 DEF HostNames, BlockNames
      <4> QED
        BY <4>1, <4>2 DEF Belongs
    <3>6. Command(packets[n]) = <<packets[n].id[1], packets[n].id[2]>>
      BY <3>2, <3>5, CommandIs
    <3>7. Command(p) = <<p.id[1], p.id[2]>>
      BY <2>1, <2>3, CommandIs
    <3>8. Overlap(packets[n].id, p.id)
      <4>1. <<packets[n].id[1], packets[n].id[2]>> = <<p.id[1], p.id[2]>>
        BY <3>6, <3>7
      <4>2. packets[n].id[1] = p.id[1] /\ packets[n].id[2] = p.id[2]
        BY <4>1
      <4> QED
        BY <4>2 DEF Overlap
    <3> QED
      BY <3>4, <3>8
  <2>9. Command(p) \in Started(held)
    <3>1. Tells(held, A, 1, Command(p))
      BY <2>1, <2>3 DEF Tells
    <3> QED
      BY <2>1, <3>1, StartedBy
  <2>10. /\ PromiseInv'
         /\ Started(held') = Started(held)
    <3>1. ASSUME NEW g \in Lanes, Opened(p, add[g]) PROVE FALSE
      BY <2>3, <3>1 DEF Opened
    <3> QED
      BY <1>1, <3>1, ServingStep
  <2>11. known = Started(held) /\ known' = Started(held')
    BY KnownHeld, KnownPrimed
  <2>12. Entry(p) = [name |-> p.name, command |-> <<k, j>>]
    BY <2>4 DEF Entry
  <2>13. Host_memory!Next
    BY <2>2, <2>4, <2>7, <2>8, <2>9, <2>10, <2>11, <2>12, Steps
  <2> QED
    BY <2>10, <2>13
<1> QED
  BY <1>6, <1>7

\* Every step of the design is one of the promise, or none.
LEMMA NextPromise ==
  IInv /\ OrderInv /\ PromiseInv /\ [Next]_vars
    => PromiseInv' /\ [Host_memory!Next]_(Host_memory!vars)
<1> SUFFICES ASSUME IInv, OrderInv, PromiseInv, [Next]_vars
             PROVE  PromiseInv' /\ [Host_memory!Next]_(Host_memory!vars)
  OBVIOUS
<1>1. ASSUME NEW h \in Handlers, Take(h)
      PROVE  PromiseInv' /\ [Host_memory!Next]_(Host_memory!vars)
  BY <1>1, TakePromise
<1>2. ASSUME NEW h \in Handlers, NEW c \in h.cones, Put(h, c)
      PROVE  PromiseInv' /\ [Host_memory!Next]_(Host_memory!vars)
  BY <1>2, PutPromise
<1>3. CASE UNCHANGED vars
  <2>1. held' = held /\ channel' = channel /\ pending' = pending
    BY <1>3 DEF vars, held
  <2>2. PromiseInv'
    BY <2>1 DEF PromiseInv
  <2>3. memory' = memory
    BY <2>1 DEF memory, Entries
  <2>4. known' = known
    BY <2>1, KnownHeld, KnownPrimed
  <2>5. UNCHANGED Host_memory!vars
    BY <2>3, <2>4, Steps
  <2> QED
    BY <2>2, <2>5
<1> QED
  BY <1>1, <1>2, <1>3 DEF Next

\* At first nothing is fetched and nothing written.
LEMMA InitMemory == Init => PromiseInv /\ Host_memory!Init
<1> SUFFICES ASSUME Init PROVE PromiseInv /\ Host_memory!Init
  OBVIOUS
<1>1. PromiseInv /\ Started(held) = {} /\ channel[At("Host_mem")] = <<>>
  BY InitPromise
<1>2. known = {}
  BY <1>1, KnownHeld
<1>3. memory = <<>>
  BY <1>1 DEF memory, Entries
<1> QED
  BY <1>1, <1>2, <1>3 DEF Host_memory!Init, known, memory, Entries

\* The design keeps the promise of Loopback, but for what it says must happen in the end,
\* for any number of controllers and blocks and any size of a block: the commands of a
\* block get known all at once and once only, each of them is from then on in some packet
\* in the channels and handlers of src/dma/flow.h, and the host gets of no command two results or two
\* descriptors, nor any of a command that it was not asked for.
THEOREM PromiseKept == Spec => Host_memory!Init /\ [][Host_memory!Next]_(Host_memory!vars)
BY InitIInv, NextIInv, InitOrder, NextOrder, InitMemory, NextPromise, PTL DEF Spec
=============================================================================
