--------------------------------- MODULE Dma ---------------------------------
(***************************************************************************)
(* The DMA loopback design of the simulator (src/dma/arch.h and            *)
(* src/dma/flow.h): a DMA engine fetches blocks of command pointers from   *)
(* the host, then the commands, then through one of the input controllers  *)
(* (IDC) the data of each; the execution unit makes a result and a         *)
(* descriptor of the data, and they are written back through the output    *)
(* controllers (ODC) and the completion unit (CPLS).                       *)
(*                                                                         *)
(* The design is the table of its transaction handlers, one definition for *)
(* each module of the hardware.  A handler takes the packet at the head of *)
(* a channel, if its condition accepts it, and each of its logic cones     *)
(* puts what its transforms make of it into another channel.  This module  *)
(* is about whole packets: Flow has the cycles, bites, locks and turns of  *)
(* the handlers.  A child of a round robin or a dispatch handler is a      *)
(* handler here: which of them goes first is left open.                    *)
(***************************************************************************)
EXTENDS Transform

CONSTANTS
  IDC,          \* input controllers: IDC1 .. IDC4
  ODC,          \* output controllers: ODC1 .. ODC4
  Count,        \* CPR_fetch_req_factory.SetCount: 100
  BlockSize,    \* the size of CPR.cpl: 64
  IDCBuffer,    \* capacities: 4096, 1024 and 1024
  ODCBuffer,
  CPLSBuffer,
  Depth         \* packets of a handler that may be in the pipeline of a cone

None == "none"

ASSUME DmaAssumption ==
  /\ IDC # {} /\ ODC # {} /\ None \notin IDC \cup ODC
  /\ Count \in Nat /\ BlockSize \in Nat \ {0} /\ Depth \in Nat \ {0}
  \* The largest packets that the three buffers have to take.
  /\ IDCBuffer \in Nat /\ IDCBuffer >= 64
  /\ ODCBuffer \in Nat /\ ODCBuffer >= 64
  /\ CPLSBuffer \in Nat /\ CPLSBuffer >= 16

VARIABLES
  channel,   \* channel[c]: the packets in channel c, in order
  pending,   \* pending[h][c]: what cone c of handler h has still to write
  issued     \* history: the requests for data, in the order they were made

vars == <<channel, pending, issued>>

-----------------------------------------------------------------------------
\* Channels.  Those of a controller are told apart by the controller.

At(name) == [name |-> name, of |-> None]

Of(name, unit) == [name |-> name, of |-> unit]

Channels ==
  {At(n) : n \in {"PCIE_Egress", "PCIE_Ingress", "Host_mem", "CPLS_req", "CPLS_wr",
                  "CMD_req", "CMD_fetch", "CMD_cpl", "CMD_fwd", "CPR_req", "CPR_fwd",
                  "Mem_Data_in", "Mem_Data_out", "Mem_CTL"}}
  \cup {Of(n, i) : n \in {"IDC_req", "IDC_cpl", "IDC_out", "IDC_in"}, i \in IDC}
  \cup {Of(n, o) : n \in {"ODC_req", "ODC_wr"}, o \in ODC}

Occupied(packets) == FoldLeft(LAMBDA sum, p : sum + p.size, 0, packets)

HasRoom(c, p) ==
  LET fits(capacity) == Occupied(channel[c]) + p.size <= capacity
  IN /\ c.name = "IDC_cpl" => fits(IDCBuffer)
     /\ c.name = "ODC_req" => fits(ODCBuffer)
     /\ c.name = "CPLS_req" => fits(CPLSBuffer)

-----------------------------------------------------------------------------
\* Transaction handlers.

\* A logic cone: rename, and write to a channel.
Cone(to, as) ==
  [to |-> to, as |-> as, size |-> 0, tag |-> None, method |-> "onSIZE", chunks |-> {}]

\* ... setting the size as well.
Sized(to, as, size) == [Cone(to, as) EXCEPT !.size = size]

\* CSource: the condition tests the name of the packet, and may test its requester.
Handler(from, name, cones) ==
  [from |-> from, name |-> name, requester |-> IDC \cup {None}, cones |-> cones]

ForRequester(from, name, i, cones) ==
  [Handler(from, name, cones) EXCEPT !.requester = {i}]

\* The host answers requests and keeps what is written.
Answer(fetch, cpl, size) ==
  Handler(At("PCIE_Egress"), fetch, {Sized(At("PCIE_Ingress"), cpl, size)})

Keep(written, kept) ==
  Handler(At("PCIE_Egress"), written, {Cone(At("Host_mem"), kept)})

Host ==
  {Answer("PCIE.CMD.fetch", "PCIE.CMD.cpl", 56),
   Answer("PCIE.CPR.fetch", "PCIE.CPR.cpl", 88),
   Answer("PCIE.Data.fetch", "PCIE.Data.cpl", 88),
   Keep("PCIE.WR.Data", "Host.Data"),
   Keep("PCIE.WR.Desc", "Host.Desc")}

\* The command processor: it asks for blocks of pointers and for commands, and
\* parts what comes back.
CPP ==
  {Handler(At("CPR_req"), "CPR.fetch.req", {Cone(At("CMD_fetch"), "CPR.fetch")}),
   Handler(At("CMD_req"), "CMD.fetch.req", {Sized(At("CMD_fetch"), "CMD.fetch", 16)}),
   Handler(At("CMD_cpl"), "CMD.cpl", {Cone(At("CMD_fwd"), "EU.cmd")}),
   Handler(At("CMD_cpl"), "CPR.cpl", {Cone(At("CPR_fwd"), "CPP.cmd")})}

\* A controller tags the requests it cuts up ...
DataRequest(i) ==
  Handler(Of("IDC_req", i), "Data.fetch.req",
          {[Cone(Of("IDC_out", i), "Data.fetch") EXCEPT
              !.method = "onLENGTH", !.chunks = {64, 128, 256}, !.tag = i]})

\* ... and accepts only the data with its tag.
DataReply(i) ==
  ForRequester(Of("IDC_in", i), "Data.cpl", i, {Cone(Of("IDC_cpl", i), "EU.data")})

InputControllers == {DataRequest(i) : i \in IDC} \cup {DataReply(i) : i \in IDC}

RRC ==
  {Handler(Of("IDC_out", i), "Data.fetch", {Cone(At("PCIE_Egress"), "PCIE.Data.fetch")}) : i \in IDC}
  \cup {Handler(At("CMD_fetch"), "CMD.fetch", {Cone(At("PCIE_Egress"), "PCIE.CMD.fetch")}),
        Handler(At("CMD_fetch"), "CPR.fetch", {Cone(At("PCIE_Egress"), "PCIE.CPR.fetch")})}

\* The condition on the requester is forgotten.
CCToAnyone ==
  {Handler(At("PCIE_Ingress"), "PCIE.CMD.cpl", {Sized(At("CMD_cpl"), "CMD.cpl", 32)}),
   Handler(At("PCIE_Ingress"), "PCIE.CPR.cpl", {Sized(At("CMD_cpl"), "CPR.cpl", BlockSize)})}
  \cup {Handler(At("PCIE_Ingress"), "PCIE.Data.cpl",
                {Sized(Of("IDC_in", i), "Data.cpl", 64)}) : i \in IDC}

CC ==
  {Handler(At("PCIE_Ingress"), "PCIE.CMD.cpl", {Sized(At("CMD_cpl"), "CMD.cpl", 32)}),
   Handler(At("PCIE_Ingress"), "PCIE.CPR.cpl", {Sized(At("CMD_cpl"), "CPR.cpl", BlockSize)})}
  \cup {ForRequester(At("PCIE_Ingress"), "PCIE.Data.cpl", i,
                     {Sized(Of("IDC_in", i), "Data.cpl", 64)}) : i \in IDC}

\* A block of pointers becomes one request for each command.
CMD_TRANS ==
  {Handler(At("CPR_fwd"), "CPP.cmd",
           {[Cone(At("CMD_req"), "CMD.fetch.req") EXCEPT !.chunks = {2}]})}

XBAR_CPL ==
  {Handler(Of("IDC_cpl", i), "EU.data", {Cone(At("Mem_Data_in"), "Mem.Data")}) : i \in IDC}

OutputControllers ==
  {Handler(Of("ODC_req", o), "Result.Data", {Cone(Of("ODC_wr", o), "WR.Data")}) : o \in ODC}

CPLS ==
  {Handler(At("CPLS_req"), "Result.Desc",
           {[Cone(At("CPLS_wr"), "WR.Desc") EXCEPT !.chunks = {128}]})}

WRC ==
  {Handler(Of("ODC_wr", o), "WR.Data", {Cone(At("PCIE_Egress"), "PCIE.WR.Data")}) : o \in ODC}
  \cup {Handler(At("CPLS_wr"), "WR.Desc", {Cone(At("PCIE_Egress"), "PCIE.WR.Desc")})}

\* Any controller that is free takes the command.
XBAR_REQ ==
  {Handler(At("CMD_fwd"), "EU.cmd", {Sized(Of("IDC_req", i), "Data.fetch.req", 16)}) : i \in IDC}

EUxWithoutDescriptor ==
  {Handler(At("Mem_Data_in"), "Mem.Data", {Cone(At("Mem_Data_out"), "Mem.Data.Out")})}

\* Two cones on one source: the result, and its descriptor.
EUx ==
  {Handler(At("Mem_Data_in"), "Mem.Data",
           {Cone(At("Mem_Data_out"), "Mem.Data.Out"), Sized(At("Mem_CTL"), "Mem.Desc", 16)})}

XBAR_WRMisnamed ==
  {Handler(At("Mem_Data_out"), "Mem.Data.Out", {Cone(Of("ODC_req", o), "Result.data")}) : o \in ODC}

XBAR_WR ==
  {Handler(At("Mem_Data_out"), "Mem.Data.Out", {Cone(Of("ODC_req", o), "Result.Data")}) : o \in ODC}

Descriptors ==
  {Handler(At("Mem_CTL"), "Mem.Desc", {Cone(At("CPLS_req"), "Result.Desc")})}

Handlers ==
  Host \cup CPP \cup InputControllers \cup RRC \cup CC \cup CMD_TRANS \cup XBAR_CPL
  \cup OutputControllers \cup CPLS \cup WRC \cup XBAR_REQ \cup EUx \cup XBAR_WR
  \cup Descriptors

-----------------------------------------------------------------------------
\* Packets.

\* A packet as the transforms know it, and its custom field "requester".
Stimulus(k) ==
  [name |-> "CPR.fetch.req", size |-> 16, length |-> 64, id |-> <<k>>, split |-> <<>>,
   requester |-> None]

\* The command that a packet is about: its block and its place in the block.
Command(p) == SubSeq(p.id, 1, 2)

Accepts(h, p) == p.name = h.name /\ p.requester \in h.requester

\* Name, size and tag; a size transform sets the length too.
Dressed(c, p) ==
  [p EXCEPT !.name = c.as,
            !.requester = IF c.tag = None THEN @ ELSE c.tag,
            !.size = IF c.size = 0 THEN @ ELSE c.size,
            !.length = IF c.size = 0 THEN @ ELSE c.size]

\* What a cone may make of a packet: it draws one of the chunks, if it splits.
Results(c, p) ==
  IF c.chunks = {} THEN {<<Dressed(c, p)>>}
  ELSE {Pieces([method |-> c.method, chunk |-> n], Dressed(c, p)) : n \in c.chunks}

-----------------------------------------------------------------------------
Init ==
  /\ channel = [c \in Channels |-> IF c = At("CPR_req") THEN [k \in 1 .. Count |-> Stimulus(k)]
                                                        ELSE <<>>]
  /\ pending = [h \in Handlers |-> [c \in h.cones |-> <<>>]]
  /\ issued = <<>>

\* The channel serves any packet that is accepted.
TakeUnordered(h) ==
  \E n \in DOMAIN channel[h.from] :
    /\ Accepts(h, channel[h.from][n])
    /\ \A c \in h.cones : Len(pending[h][c]) < Depth
    /\ \E made \in [h.cones -> UNION {Results(c, channel[h.from][n]) : c \in h.cones}] :
         /\ \A c \in h.cones : made[c] \in Results(c, channel[h.from][n])
         /\ pending' = [pending EXCEPT ![h] = [c \in h.cones |-> @[c] \o made[c]]]
    /\ channel' = [channel EXCEPT ![h.from] = RemoveAt(@, n)]
    /\ UNCHANGED issued

\* A handler takes the packet at the head of its channel for all its cones.
Take(h) ==
  /\ channel[h.from] # <<>>
  /\ Accepts(h, Head(channel[h.from]))
  /\ \A c \in h.cones : Len(pending[h][c]) < Depth
  /\ \E made \in [h.cones -> UNION {Results(c, Head(channel[h.from])) : c \in h.cones}] :
       /\ \A c \in h.cones : made[c] \in Results(c, Head(channel[h.from]))
       /\ pending' = [pending EXCEPT ![h] = [c \in h.cones |-> @[c] \o made[c]]]
  /\ channel' = [channel EXCEPT ![h.from] = Tail(@)]
  /\ UNCHANGED issued

\* A cone puts its next packet into its channel.
Put(h, c) ==
  /\ pending[h][c] # <<>>
  /\ HasRoom(c.to, Head(pending[h][c]))
  /\ channel' = [channel EXCEPT ![c.to] = Append(@, Head(pending[h][c]))]
  /\ pending' = [pending EXCEPT ![h][c] = Tail(@)]
  /\ issued' = IF c.to.name = "IDC_req"
               THEN Append(issued, [idc |-> c.to.of, id |-> Command(Head(pending[h][c]))])
               ELSE issued

Next == \E h \in Handlers : Take(h) \/ \E c \in h.cones : Put(h, c)

Spec == Init /\ [][Next]_vars

\* sc_start runs the scheduler as long as there is simulation time, and it polls
\* every handler each cycle.
FairSpec == Spec /\ WF_vars(Next)

-----------------------------------------------------------------------------
\* What must hold.

Names ==
  {"CPR.fetch.req", "CPR.fetch", "PCIE.CPR.fetch", "PCIE.CPR.cpl", "CPR.cpl", "CPP.cmd",
   "CMD.fetch.req", "CMD.fetch", "PCIE.CMD.fetch", "PCIE.CMD.cpl", "CMD.cpl", "EU.cmd",
   "Data.fetch.req", "Data.fetch", "PCIE.Data.fetch", "PCIE.Data.cpl", "Data.cpl", "EU.data",
   "Mem.Data", "Mem.Data.Out", "Result.Data", "WR.Data", "PCIE.WR.Data", "Host.Data",
   "Mem.Desc", "Result.Desc", "WR.Desc", "PCIE.WR.Desc", "Host.Desc"}

Packet ==
  [name : Names, size : Nat, length : Nat, id : Seq(Nat),
   split : Seq([source : Seq(Nat), total : Nat]), requester : IDC \cup {None}]

\* channel, pending and issued hold what their declarations say.
TypeOK ==
  /\ channel \in [Channels -> Seq(Packet)]
  /\ DOMAIN pending = Handlers
  /\ \A h \in Handlers : pending[h] \in [h.cones -> Seq(Packet)]
  /\ issued \in Seq([idc : IDC, id : Seq(Nat)])

\* The names and conditions of the design fit together: every packet that some
\* cone writes to a channel is accepted by a handler that reads there.  One that is
\* not would stay at the head of its channel and block what is behind it.
NoOrphan ==
  \A c \in Channels \ {At("Host_mem")} : \A n \in DOMAIN channel[c] :
    \E h \in Handlers : h.from = c /\ Accepts(h, channel[c][n])

\* The tag brings the data back: what comes into the buffer of a controller was
\* asked for by that controller.
RoutedBack ==
  \A i \in IDC : \A c \in {Of("IDC_in", i), Of("IDC_cpl", i)} : \A n \in DOMAIN channel[c] :
    [idc |-> i, id |-> Command(channel[c][n])] \in ToSet(issued)

\* Descriptors do not overtake each other: the host gets those of the commands that
\* went through one controller in the order in which it was given the commands.
DescriptorsInOrder ==
  LET memory == channel[At("Host_mem")]
      place(p) == CHOOSE n \in DOMAIN issued : issued[n].id = Command(p)
  IN \A n \in DOMAIN memory : \A m \in 1 .. n - 1 :
       /\ memory[m].name = "Host.Desc" /\ memory[n].name = "Host.Desc"
       /\ memory[m].requester = memory[n].requester
       => place(memory[m]) < place(memory[n])

\* A request for a command is a pointer of four bytes: the transform that makes them
\* of a block is called xf_split_cpr_4, "Split CPR.cpl onSIZE 4".
PointersOfFourBytes ==
  \A n \in DOMAIN channel[At("CMD_req")] : channel[At("CMD_req")][n].size = 4

\* The packets that are in the design.
Everywhere ==
  (UNION {ToSet(channel[c]) : c \in Channels})
  \cup (UNION {UNION {ToSet(pending[h][c]) : c \in h.cones} : h \in Handlers})

\* The design keeps the promise: no command is lost or doubled on the way, and
\* the result and the descriptor of each come to the host in the end.
Host_memory == INSTANCE Loopback WITH
  PerBlock <- Rounds(BlockSize, 2),
  known <- {Command(p) : p \in {q \in Everywhere : Len(q.id) >= 2}},
  memory <- [n \in DOMAIN channel[At("Host_mem")] |->
               [name |-> channel[At("Host_mem")][n].name,
                command |-> Command(channel[At("Host_mem")][n])]]

ImplementsLoopback == Host_memory!Spec
=============================================================================
