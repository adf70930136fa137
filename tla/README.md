# Verification of socperf

socperf simulates the packet flows of a system on chip: packets are generated, move
through channels, are transformed by transaction handlers and cut into bites by
destinations, and the times are recorded.  A second program in the repository, the
translator of the modelling language PML, has a preprocessor with macros, conditionals,
loops and included files, and tables that infer the ports of a hardware module from its
text.  This directory holds TLA+ models of the simulator's core, of the DMA design that
is simulated with it, and of that translator, the TLC runs that check them, and TLAPS
proofs about them.  Paths
below are relative to `src/` unless they begin with `pml/`, `dma/` or `bin/`.

## 1. Inventory

| Component | State | Operations | Talks to |
|---|---|---|---|
| Channels (`CChannel.cc`, `CCondition.hh`, `CPacket.hh`) | `_Content`, `_Occupied`, `_CurrentReader`, `_CurrentWriter`; in each packet `ChTransferredSize`, `Offset`, `Picked` | `Fill`, `Write`, `Read`, `Pop`, `PickUpFacet`, `LockRd/UnlockRd`, `LockWr/UnlockWr`, `SpaceAvailable`, `WaterMark` | called by sources and destinations |
| Sources (`CSource.cc`) | `CurrentFacet`, `Done` | `BackDoorWrite`, `PickUpFacet`, `ClaimFacet`, `Update`, `DataAvailable`, `Lock/Unlock` | a channel, on behalf of a handler |
| Destinations (`CDestination.cc`) | `_PendingQueue`, `_CurrentBite`, `_PipelineUnit`, `_CurrentOffset`, `_StreamState`, `_PipelineState`, three points in time | `Fill`, `Transfer`, `UpdatePipeline`, `SetToPrepare/Resume/Transfer` | sources (is the data there?), a channel (write) |
| Simple handlers (`CSimpleTH`) | `_THState`, `_LogicConeState`, `_SrcSet` | `Execute`, `Prepare`, `Resume`, `IsReady`, `FlushSRC` | sources, transform and destination of every logic cone |
| Group handlers (`CRoundRobinTH`, `CArbiterTH`, `CDispatchTH`) | `_RRposition`, `_ArbRecord`, `_Selector`, `_ReadyTHs` | `Execute` | the handlers they group |
| Random handler (`CRandomTH`) | weights, chosen child | `Execute`, `SelectTH` | the handlers it groups |
| Scheduler (`CTopScheduler.hh`, `CModule.hh`, `main.cc`) | lists of modules, handlers and destinations; the time | one pass per clock period | all handlers, then `UpdatePipeline` of all destinations |
| Reassembling channels (`CAssembleChannel`, `CAccumulateChannel`, `CForwardChannel`) | pools of fragments, accumulated facets | overridden `Write`, `PickUpFacet` | as channels |
| Transforms (`CTransform.cc`) | remainders, split records | `ApplyTransform`, `Process` | called by `ExecTransform` |
| Generation (`CPacketFactory.cc`, `CTransactionFactory.cc`, `func.cc`) | fields, random generator | `GenPacket`, `Random`, `WeightedRandom` | back-door writes |
| Packet flow graph (`CPMTransaction.cc`, `Graph.hh`) | a graph per transaction | `AddVertex`, `AddEdge`, `ReportLatency` | `ExecTransform`, reports |
| Reports and trace (`CDumper`, `CReport`) | output only | | written by all |
| PML preprocessor, scanner (`pml/vpp.l`, `vpp.y`) | start state, `cstack`, `code_pointer`, `loop_struct_count`, `include_stack` | the rules of the scanner, the actions of the grammar, `yywrap` | the macro table, the evaluation of regions |
| PML preprocessor, evaluation (`pml/create.cc`) | `Head_Loop_Stack`, `for_stack`, `switch_stack`, `eval_first`, `active`, variables | `eval_stack`, `check_for_if`, `check_for_else`, `handle_endif`, `print_out_code` | called when a region is complete |
| PML preprocessor, macros (`pml/vpp.l`) | `Defines_Table`, `RecursiveMacroLevel` | `store_define`, `undef_macro`, `lookup_define`, `get_macro_value`, `print_variable` | scanner and evaluation |
| DMA design (`dma/arch.h`, `dma/flow.h`) | 38 channels, the custom field `requester` of a packet | 54 handlers under round robins and dispatchers | made of the simulator's classes; the only program that is run on them |
| PML symbol table (`pml/mparser.y`, `Table.hh`, `Expression.hh`, `CodeBlock.hh`, `Statement.hh`) | `_symbols` with direction, width, drivers, occurrences; `io_table`; `_connect_map`, `_override`; the open block, the state graph | one reduction of the grammar each: declarations, nets, blocks, machines, instances; `ExtractIO`, `ChkMissingPort`, `ChkMultiDriver`, `GenSV` | reads the preprocessed text; not linked with the simulator |
| PML expressions (`pml/Expression.hh`) | trees | `Width`, `Value`, `ValueExp`, `IsConst`, `HasParam` | symbols and parameters |
| PML output and lexers (`Mfunc.cc`, `mlexer.l`, `svlexer.l`) | | search for modules, printing | |

There is one SystemC thread, so no two handlers run at the same moment.  What makes
the behaviour hard is that a packet's way takes many calls, that the calls of all
handlers are interleaved by the clock, by delays and by rates that differ, and that
they share channels: byte counts kept by increments, locks held from call to call,
packets read while they are still being written (cut-through, mode `PIPELINE`),
destinations that are halted and resumed by group handlers, full channels that hold
writers back.  The order in which handlers and destinations were registered decides
who comes first, and nothing in the code says which order is meant.

The preprocessor is one sequential program, but its state is spread over a dozen global
variables that directives, files and regions leave to each other: a directive that opens a
construct begins to capture, until as many constructs were closed as were opened; the
captured list is then interpreted with three stacks and a flag, each of which the
directives change on their own.  What is hard there is the nesting: a construct inside
another that is inactive, a loop that is entered again, a file that is included in the
midst of a construct, lines that take effect when they are captured and lines that wait.

The symbol table sees a module's text once, from the first line to the last, and keeps of
each net a direction, a flag and a width.  Whether a net is a port is known only at the
end; until then every assignment, clock, state machine and instance may change it, and an
instance works on the tables of another module that the next instance finds again.  (At this
commit the grammar is under conversion and does not get there, see section 3; none of the
hazards in `PROJECT.json` is about this part.)

The design is a ring of 54 handlers that know each other only by the names of
packets and channels.  Requests of several controllers share one way, the parts of one
command take different ways, and each ordered channel waits for the one packet at its head.

What makes each component correct:

* channel: exact byte count, capacity, locks that are given back, packets that are
  read in order, leave whole and once;
* destination: no byte lost or doubled between transform and channel; a halted
  pipeline is released;
* handler: bytes are not sent before they came in, nor freed before every cone has
  taken them; two handlers never work on the same packet;
* group: the turn goes round and nobody is left out;
* all together: every packet arrives;
* regions: the flat list means what the nested constructs mean, and nothing in an
  inactive construct takes effect;
* scanner: the lines of all files take effect in the order of the source, and nothing of
  one region is left for the next;
* macros: the table is a dictionary; uses are expanded completely; the
  expansion ends, and levels are counted for each use by itself;
* design: nothing is left where nobody reads it, data come back to who asked for them,
  descriptors keep their order, every command ends as one result and one descriptor;
* symbol table: directions, widths and drivers are those of the whole text, in whatever
  order it comes; values of one instance do not reach another.

`PROJECT.json` lists the hazards one by one, at their lines.

## 2. Plan

1. `Channel`, `PacketQueue`, `ChannelProofs`: done.
2. `Destination`, `Flow` (simple handlers, groups, scheduler) and their instances:
   done for cones with one source each; `FlowProofs`: done.
3. `Transform`, `GroupTransform` (split, resize, rename, random, and lists of them):
   done.
4. `Assemble` (`CAssembleChannel`, for pieces that arrive in any order and partly):
   done, with `AssembleProofs`.  It implements `PacketQueue`, as `Channel` does.
5. `FlowGraph`: the graph of a transaction and `ReportLatency`, checked against the
   longest path over small graphs.
6. Instances of `Flow` with two cones under a group and with a handler of several
   sources (partial picks, hold-and-wait on read locks).
7. The PML preprocessor: `EvalStack` with the reference `Structured`; `MacroTable` with
   the dictionary it implements; `Preprocessor` around `EvalStack` with the reference
   `SourceOrder`; `MacroExpansion`; `EvalStackProofs`, `MacroTableProofs`,
   `PreprocessorProofs`: done.  Left: the operators of its expressions and the
   precedences of the grammar.
8. `Dma`, the whole design of `dma/flow.h`, with `Loopback`, what it promises, and
   `DmaProofs`: done.
9. `SymbolTable`, `Expression` and `SymbolTableProofs`: done for one module.  Left: arrays
   with two indices, parameter declarations, and the table of modules with the search for
   dependent ones.
10. Generation: `CPacketFactory::GenPacket` and `CTransactionFactory`.
11. That `Flow` implements `Channel`: done, in `FlowProofs`; that `Dma` implements
    `Loopback`: done in `DmaProofs`, but for the fairness of `Loopback`.

## 3. The modules

**`Channel`** is one `CSimpleChannel` with all its users.  An action is a whole call
of a user: `BackDoorWrite` (elaboration), `Claim` (a poll that ends in `ClaimFacet`),
`Update` (a call of `Execute`, `Prepare` or `Resume` as far as it concerns this
channel: pick up if idle, lock, `CSource::Update`, unlock when done), `Write` and
`Halt` (`UpdatePipeline` with a bite at the top).  What a reader has read and what a
writer brings is left open, so the module stands for every design around a channel.
`_Content` is a set with arrival numbers, because it is only appended to and removed
from; unsigned subtraction is `Minus`, modulo `UInt`.

**`PacketQueue`** is what a channel promises: packets are queued, served, gone; in an
ordered queue one at a time and in the order of arrival.  `Channel!ImplementsQueue`
maps a channel to it.

**`Destination`** holds the destination object as a record and each method as an
operator from record to record.  Time is counted in clock periods relative to now,
so that the state space is finite; the grid of `_Cycle` is kept exactly.

**`Flow`** composes handlers, groups, destinations and channels.  `agenda` is what
the thread has still to call in this period: the handlers in the order of
registration, then `UpdatePipeline` of all destinations.  A call of a simple handler
is one action (`Execute`, `Prepare`, `Resume`, `IsReady`), with the two ways it can
go: `Starve` (no packet) or `Run` (every cone, then every source).  A group handler
puts the calls of its children in front of the agenda (`PrepareOthers` then `Turn`;
`SelectTH` then `Dispatch`), since the children's effects depend on each other.
`UpdatePipeline` is `Advance`, `Halt` or `Write`.  Left open: the order of
registration, the addresses by which `set<CTransHandler*>` is ordered, the random
delays, the sizes that a transform makes, and which elements the loop of
`CDispatchTH` still visits after it has erased its own iterator.  `STOP()` and
`exit(1)` set `internalError`, after which nothing happens.  `Ch(c)` is an instance of
`Channel` for every channel: `Flow` uses its operators (`PickUpFacet`, `CanLockRd`,
`SpaceAvailable`, `SourceDone` and so on), and `ImplementsChannel` states that each
channel inside the flow behaves as `Channel` says.

**`Transform`** has one operator for the `Process` method of each transform: the set of
the lists of packets that it may return for a list, one for each outcome of the random
choices (`Random`, `WeightedRandom`).  The address of a packet is modelled by its
descent (`id`), so that `SplitStatus::Source` is a value that two packets share
exactly if the pointers are equal.  **`GroupTransform`** is `CGroupTransform`: one step
for each transform of the list.

**`Assemble`** is a `CAssembleChannel`.  Its writers bring the pieces that
`Transform!Split` makes of packets.  The evaluation phase of a SystemC cycle has the
actions `Write` and `Take` (a read, and the pop of a packet that is read); `BeginUpdate`
begins the update phase, in which the loop of `Assemble()` is one step `Merge` for each
entry that can be merged, and `EndLoop`.  The loop goes on from an iterator that it has
erased: after a merge it may end although entries are left (`missed`) or the program
may die (`Die`).  Everything the channel promises holds whichever of these happens,
except that packets appear in time.  The locks of readers are those of `Channel` and
are left out: the reader of this module takes any part of what is there, at any time.

**`EvalStack`** is `eval_stack()`: one step for each node it visits.  `ll` is the index of
the node, one past the last at the end; `Head_Loop_Stack`, `for_stack` and `switch_stack`
are the three stacks; `eval_first` and `switch_struct` are the fields of the nodes
themselves.  `LoopEntered`, `LoopedBack` and `LoopEnd` are the branches for `for` and
`while`, which differ only in their assignments.  Where the code reads `for_stack[-1]` the
model ends.  **`Structured`** gives the reference: `Flatten` lays a nested program out as a
list of nodes, and `Run` says what the nested program means, without stacks or jumps.

**`Preprocessor`** extends `EvalStack` by the scanner: `text`, `define`, `undef` and `use`
are lines that are no directives of the grammar, each with its two start states `INITIAL`
and `COPY`; `let_declaration`, `open`, `label` and `close` are the actions of the grammar;
`include`, `end_of_include` and `end_of_file` change the file; `evaluate` is a step of
`eval_stack`, and `return` what follows it.  A source is a sequence of lines and the text
of a macro is given by its name.  A use of a captured name that is a macro is replaced when
it is captured, other names when they are printed.  **`SourceOrder`** is the reference:
files put in place of their directives, and line after line taking effect.

**`MacroTable`** is the hash table of macros: each chain is a sequence, and deleting an
entry is the loop of `delete_entry`.  The hash is a constant, so that every way to collide
is included.  **`MacroDictionary`** is what the table promises.

**`MacroExpansion`** is a use of a macro outside of regions: its text is put back in front
of the input and scanned again, and `RecursiveMacroLevel` counts.  It records no more of the
output than `OutBound`, so that an expansion that never ends is a finite loop of states.

**`Dma`** is the design of `dma/flow.h`: one definition for each hardware module, which
lists its transaction handlers with the channel each takes from, the name (and the
requester) its condition asks for, and its logic cones with their channel, new name, size
and split.  The packets are those of `Transform`, which cuts them.  `Take` is the moment at
which a handler has taken the packet at the head of its channel; what its transforms make
of it waits in `pending`, at most `Depth` deep, until `Put` writes it where the three
finite kinds of channels have room.  The children of a group take whenever they can:
`Flow` has the turns, so every order that a round robin, an arbiter or a dispatcher
produces is included.  **`Loopback`** is what the design promises to the host: commands
become known a block at a time, and each ends in exactly one result and one descriptor.

**`SymbolTable`** is the table of one module while `mparser.y` reduces its text.  An
action is a reduction that touches the table: `DeclarePort`, `DeclareVariable`,
`DeclareArray` and `DeclareConstant`; the two ends of a block with the nets in between
(`OpenBlock`, `Read`, `Drive`, `CloseBlock`); a state machine (`OpenFSM`, `StateItem`,
`Goto`, `CloseFSM`); an instance (`OpenInstance`, `Rename`, `Connect`, `LeaveOpen`, then
`MergeNet`, `MergeExpression`, `MergeOpen` for its ports in any order, since the map is
ordered by addresses, and `CloseInstance`); and `GenSV`, under every setting of the control
variables that it looks at (`portchk`, off by default, `multidriverchk`, on by default, and
`exitonlintwarning`, with which a warning ends the program), or `DropResult` if the module
is in the table of modules already.  What ends the program is an
action too (`DeclarePortError`, `IndexOutOfRange`, `RefuseFSM`, `NoValue`).  `uses`,
`hard`, `soft`, `drives`, `declared` and `narrowed` record what the text says, so that
properties can compare the table with it.  An expression marks the nets it reads when the
statement around it is reduced, in the model at once: nothing looks at them in between.  A
list of names is taken one name at a time and a segment by its upper bound.  At this
commit the start rule of `mparser.y` (`:430`) leads only to the new declarations of PML,
which are not finished (`:496` is an incomplete rule); the productions modelled here are in
the file with their actions but are not reached from it, and with them `ExtractIO` and the
checks of `GenSV` have nothing to work on.  What is checked and proved of `SymbolTable` and
`Expression` is therefore about code that waits to be connected again, not about what the
translator does today.  `svparser.y` works on the same tables.

**`Expression`** has the folding of constant expressions: `Width`, `Value` and the copy
`ValueExp` for each class of `Expression.hh`, in words of `Word` bits.  It is checked
together with `SymbolTable`, whose instances get the bounds of their ports from it.

Some definitions are preceded by a variant (`SpaceAvailableNoBite`, `PickUpLatest`).
These are mistakes a maintainer could make; putting one in place of the definition
must break the property named in `PROJECT.json`, which shows that the property can
fail.

## 4. The runs

| Run | Instance | Question |
|---|---|---|
| `channel_ordered` | 4 packets of 1 to 3 bytes, 2 readers, 2 writers, finite ordered channel | accounting, no interleaving, packets leave whole, refinement of the queue |
| `flow_memory` | 2 packets of 2 and 3 bytes; 3 handlers, 4 destinations, 5 channels | cut-through with two cones: no byte lost, early or freed early; order; refinement of `Channel`; all arrives |
| `flow_groups` | 3 packets through 3 pairs of handlers, under a round robin, an arbiter (weights 1 and 2) and a dispatcher; 4 channels | shares are kept, no packet taken twice, all arrives |
| `flow_flush` | a part of `flow_memory` | expected violation, see section 7 |
| `transform` | 4 lists of transforms on all packets up to size and length 7 | pieces add up and are counted rightly at every level, nothing is lost |
| `assemble` | 3 packets, cut by size twice, by length, and not at all; 2 writers with interleaved pieces, one of which comes in two bites; capacity 6 | accounting, packets restored whole, refinement of the queue, all comes out |
| `pp_structured` | all nestings up to three deep of conditionals, loops and switches, but no conditional or switch within a case; all lists of five directives that the grammar counts as balanced | the interpreter computes what the nested program means and returns; the stacks stay inside their arrays |
| `pp_source` | two input files with headers, every construct around every other; 211771 states | lines take effect in source order, exact capture, include depth, the end |
| `pp_macros` | four names, three in one chain | the table is a dictionary |
| `pp_expand` | three names for each other's texts | complete expansion, levels counted for each use, the end |
| `dma` | 2 input and 2 output controllers, 1 block of 2 commands, the three finite buffers with room for one packet each; 115960 states | nobody is left at the head of a channel, data return to who asked, descriptors in order, every command ends as one result and one descriptor |
| `ports` | 12 names, texts of up to 4 declarations, blocks and nets; a machine of 2 states; instances of a module with an input of parameterised width and an output, with and without a value for the parameter; 4899780 states | directions, interface, widths and reports are those of the text; frozen copies and folded values of all expressions of up to two operators |

Bounds.  A packet of two and one of three bytes is the least that gives a bite that
is first, in the middle and last, a short last bite (bite size 2), and a second packet
behind the first; capacity 3 makes writers wait.  Cycles 1 and 3 and pipelines of one
and two stages put the update grids of neighbours out of step.  Packets may be missing
(`Start` may come after any part of the back-door writes), so the runs include the
smaller cases.  In `flow_groups`, `t_a` frees the read port at once
(`SERIAL_AHEAD`) and `t_b` keeps it (`SERIAL_POST`), and the order of the children is
such that `t_a` meets the taken port with a bite still in its pipeline: that is when
pipelines become unprepared, prepared and resumed.  The delay of `t_b`'s bites is drawn, so
that both come out of step in more than one way.  `UInt` is 1024, larger than every
count and small enough to see a wrap.

The lists of `transform` are those of `dma/flow.h` and `CPR` with smaller numbers, and
one that cuts, resizes and cuts again; up to size 7 a chunk divides a packet, leaves a
rest of one, and is larger than the packet.  In `assemble`, capacity 6 is the least with
which the writers cannot block each other: with 5 an uncut packet that is read in part
stays at the head while whole ones and missing pieces wait, and `EverythingTaken` fails.
That is a limit of finite assembling channels that a design has to respect (`src/arch.h`
has some of 1024 bytes).

The channel runs do not check deadlock: a channel may come to rest when its packets
run out.  The flow runs do: the scheduler never stops.

Bounds of the preprocessor.  `NestLimit` is 20 in the code and 2 in `pp_structured`: nestings
of two fit, those of three hit the limit.  Two iterations of a loop
show a re-entry; a loop of none shows the skip.  `MAX_INCLUDE_DEPTH` is 64 in the code and 2
in the runs, with files that include themselves.  `MaxLevel` is 20 in the code and 2 in
`pp_expand`: as many levels as three names can nest without a loop, so that everything else
that ends an expansion must be one of the two cases that `ReportsLevels` names.  Sources of
four items let uses of one macro add up beyond the limit.  Among the lists whose
directives do not match, an `if` that a loop leaves open is pushed at every iteration:
states with more than `HeadBound` = 3 open conditionals are not followed.  No block
structure of `pp_structured` opens more.

Bounds of the design.  The code has four controllers of each kind, 100 requests for blocks
of 64 bytes (32 commands) and buffers of 1024 and 4096 bytes; the run has two controllers,
which is the least with which an answer can go astray or a descriptor overtake another,
and one block of two commands, which both controllers may take or one of them.  Its
buffers hold one packet, so that writers wait.  `Depth` is 1.

Bounds of the symbol table.  `MaxText` = 4 lets a net be used in three blocks, or in a block,
a machine and an instance; a third use is what a direction without its flag forgets.  The
indices are a number, a net and a constant; a declaration has one or two bits, so that it is
narrower or wider than what was used before it.  `Expression` has 8 bits for 64 and 4 for 32, so
that sums and products leave both.

Further configurations show what section 7 says of the code, or more of a component, and
are not part of the table: `channel_unordered.cfg` (`MCChannel`, an unordered channel with
three readers in the three modes and two read ports: `ReadLockDiscipline`,
`PacketsNotInterleaved`, `LeavesWhole` and `ArrivesOnce` hold), and, with the property
violated,
`pp_unterminated.cfg` (`MCSourceOrder`, `UnterminatedReported`),
`dma_pointers.cfg` (`MCDma`, `PointersOfFourBytes`), `ports_observed.cfg` (`MCSymbolTable`,
the properties it lists, each by itself),
`channel_overfill.cfg` (`MCChannel`, `HaltsWithoutRoom`), `pp_if_in_case.cfg`
(`MCStructured`, `AsStructured`; also with `Shape = "switch_in_case"`), `pp_false_report.cfg`
(`MCSourceOrder`, `ReportsAreTrue`; with `Shape = "undefined"` also `UndefTakesEffect`),
`pp_false_loop.cfg` (`MCMacroExpansion`, `ReportsLoops`) and `pp_unnoticed_loop.cfg`
(`MCMacroExpansion`, `AllEnd`).

Fairness.  `FairSpec` says that the agenda goes on changing: `sc_start` runs the one
thread for as long as there is simulation time, and elaboration ends.  Nothing else is
assumed: not that locks are granted, that channels get room, or which random delay is
drawn.  It is stated as `[]<><<TRUE>>_agenda`, which is weak fairness of `Next` where
`Next` is always enabled; the runs check that (no deadlock).  `Assemble!FairSpec` is
weak fairness of each writer, of reading and of the update phase: every destination and
every handler is called in each clock period, and SystemC ends each with the update
phase.  Nothing is assumed of the undefined iteration.  The preprocessor is a sequential
program that runs until it ends: weak fairness of its next step.  `Dma!FairSpec` is weak
fairness of the whole next step and no more: as long as some handler can take or some cone
can put, something is done.  That is what a scheduler that polls every handler in every
period gives, and it suffices, since every step brings a command nearer to its end.
`SymbolTable` has no liveness property.

## 5. What is proved

`ChannelProofs` proves, for every set of packets, readers and writers, all sizes,
modes and capacities (assumptions `FacetAssumption`, `UserAssumption`,
`ShapeAssumption`), and therefore for bounds that TLC cannot reach:

* `TypeCorrect`, `OccupancyExact`, `WritersRespectCapacity`, `ReadersAreLocked`,
  `WritersDoNotInterleave`, `PacketsLeaveWhole`: the invariants that the channel runs
  check, and `OneAtATime`, that one packet of an ordered channel is worked on at a time;
* `PacketsArriveOnce`, the action property;
* `ChannelIsAQueue`: the channel implements `PacketQueue`.

All rest on one inductive invariant, proved in `ChannelSafe`.  The properties alone
are not inductive: that the byte count is exact needs that a packet's offset is
behind what was transferred, and that a packet is popped only when it is complete;
that needs that what a reader is reading is in the channel and was complete when it
was picked up, unless the mode is `PIPELINE`; and that a facet arrives once needs that
a writer's unfinished facet is still in the channel.  The proofs go action by action
over these conjuncts.  Finite-set facts about the resident bytes come from the
library's `FiniteSetTheorems`.  `WritersDoNotInterleave` has as hypothesis inside the
property that a handler has one destination on the channel: the lock is kept by
handler, and without that hypothesis the code does interleave.

`FlowProofs` proves for every graph of handlers, groups, channels and destinations, all
packets, sizes, chunks, delays and depths of the pipelines (`FlowAssumption`: every cone
belongs to one handler and every handler to at most one group, the sources of a handler
read different channels; handlers, groups and destinations are finitely many;
`DestinationAssumption`; `FacetAssumption`: packets are not empty and shorter than what a
uint64 counts, and a transform makes at least one packet of a packet): `BytesAreConserved`,
`NeverAheadOfSource`, `FreedAfterAll`, `NoPacketShared` and `OrderIsKept`, the invariants
that `flow_memory` and `flow_groups` check.  They rest on one inductive invariant, `IInv`:

* `ObjectInv`: a destination's queue holds facets that were made for it, each once, and
  only of the one in front has a part been sent;
* `LoadInv`: what the channel has of a facet and what is in `_Bite` and the pipeline add up
  to what was sent of it (`Conserved`), and facets wait, are sent and arrive in the order in
  which they were made (`Queued`);
* `ChannelInv`: a facet arrives once, at a place of its own; one that was freed was
  complete; only claimed packets are read;
* `TypeInv`, `HandlerInv`: a handler that is not idle holds one claimed packet for each
  source, complete unless the source streams, and an idle one rests or is done;
* `AheadInv`: the offset of each cone is covered by what has come in, and the source's
  offset is behind all its cones; this is `NotAheadOfSource` and `FreedAfterAllCones`
  between the calls;
* `SharingInv`: two working handlers hold different packets;
* `FreshInv`: what a destination holds was made of claimed packets, and a cone that has not
  begun has made nothing of its packet;
* `ClaimOrder`: an ordered channel is claimed in the order of arrival.

None of the five properties is inductive.  That order is kept needs that the pipeline keeps
order (`Queued`), that a packet is transformed once (`FreshInv`) and that packets are claimed
in order; that no byte is lost needs that a facet is not put into a queue where it was before,
which needs `FreshInv` and, for two handlers, `SharingInv`.  The proof is first about one
destination (what `Fill`, `Transfer`, `TakeBite`, `UpdatePipeline` do to its load), then about
a call of a handler (`RunStep`: `Execute`, `Prepare`, `Resume`, the last also of an idle
handler), then action by action.  `ArbiterKeepsShares` proves `SharesKept` for every arbiter
without children of weight zero (`WeightsGiven`): `AddTH` gives a weight of 1 where none is
stated, and a child of weight zero has no share in which the selector could lie.

**The channels inside the flow.**  `ChannelsImplemented` proves `ImplementsChannel` for
every graph: each step of the flow is, for each channel, a step of `Channel` (a claim, an
update, a write, a halt) or none.  `Channel` leaves open what its users do, and `Flow` says
it; the theorem means that nothing handlers, pipelines and groups do together goes beyond
what `Channel` allows, so that what `ChannelProofs` shows of a channel holds in the midst of
a flow.  Its hypothesis is `[]NoInternalError`.  After `STOP()` or `exit(1)` the code
is gone in the middle of a call, and the step that ends there leaves the channels as no call
does; the run `flow_flush` shows that such a step exists, those of `flow_memory` and
`flow_groups` have behaviours without one.  The hypothesis is about the step that is taken
and is used for nothing else: the invariants below hold with or without it.

`Channel` demands more than `IInv` knows: that a writer which begins a packet has no other
packet under way, that the last bite completes it, that a reader which waits for the read
lock has read nothing, and that one which reads holds the lock.  This is the rest of the
inductive invariant:

* `AgendaInv`: the lists of calls are made of calls; only `Turn` puts a `Resume` there, in
  front, and of a handler at work;
* `PreparedInv`: a handler at work has a cone to finish, and an idle one has a destination
  whose pipeline flows, so that `IsPrepared` never takes it for one that was halted.
  `NoIdleResumed` follows: no group resumes an idle child;
* `ShapeInv`: counts of bytes are never negative, a packet is in a channel exactly if some
  of its bytes have come, and no reader has read more than that;
* `LineInv`: the packets of a destination are one after the other between its queue and the
  channel (`Clear`), and of each the last bite and no other is marked.  It is kept since
  a bite is taken of the packet in front only, and a pipeline shifts as a whole;
* `LockInv`: a cone that waits for its source has read nothing of it; the handler of a
  cone that works holds the read lock until the source is done.

The calls are taken apart as the code has them: what one cone does (`ConeRun`), how far
each source is read after all cones (`SourceReach`), what that means channel by channel
(`RunChannels`), and, channel by channel, that it is one call of `Channel` (`CallChannels`)
or passes it by (`CallElsewhere`).  TLC checked these invariants on the instances of the
flow runs, and on handlers of two cones under a round robin and a dispatcher, before they
were proved.

`AssembleProofs` proves for all packets, cuts, writers, sizes of bites and capacities
(`AssembleAssumption`: every piece is brought once and by one writer): `OccupancyExact`,
`PacketsRestored`, and `AssemblesToAQueue`, that the reassembling channel implements
`PacketQueue`, all whatever the iteration over the erased entry does.  What the pieces look
like is a second assumption, `CutAssumption`: each piece knows what it was cut from, the
number of pieces at each level is the one that its `SplitStatus` tells, the sizes (or
lengths) add up to those of the packet, and no piece is empty.  It speaks of constants only:
`AllFragments` is computed by folding `Transform!Split` over the cuts, and that the fold has
these properties for every list of cuts would take induction over data.  TLC evaluates
the assumption on the instance, and `transform` checks the same (`CountsMatch`,
`NothingLost`) for all packets up to size 7.  The inductive invariant:

* `TypeInv`, and `ShapeInv`: what is in the channel is a piece or made up of pieces, with
  the sums of what lies below it;
* `ApartInv`: addresses form a tree, and of no two packets that are in the channel or have
  arrived does one lie below the other;
* `QueueInv`: the content is the end of what has arrived; `PoolInv`: what waits to be put
  back is not in the pool;
* `ByteInv`: what was merged was complete, and a piece that is there in part is in the
  channel; `SentInv`: what a writer has still to bring is not complete;
* `OccupiedExact` itself.

`ApartInv` is the heart of it: an entry that `MergeFacets` finds complete has as many
members as its source has pieces, all of them on that source's branch and apart, so they
cover the branch (`FamilyCovers`), and the sums over the members are sums over all that lies
below (`TotalNest`).  In the refinement `Put` is the step in which a packet enters `_Content`
(written uncut, or merged at last), `Serve` and `Finish` are reads.  TLC checked both inductive
invariants on the instances of the runs before they were proved.

`EvalStackProofs` proves for every captured region, whether its directives match or not,
and for every limit: `InterpreterTypeCorrect` (the walk stays on the nodes, and the stacks
hold loops and switches of the region, all of them active on entry) and `StacksStayInside`
(no write beyond `for_stack` and `switch_stack`).  The second needs nothing but the tests of
the limits and the types, since an iteration only replaces the top entry.

`MacroTableProofs` proves for every hash function, all names and texts: `TableTypeCorrect`,
`NamesAreUnique`, and `TableIsDictionary`, that the chained table implements
`MacroDictionary`.  The invariant is that an entry stands in the chain of its hash value and
that a chain has no name twice; only then does deleting the first entry with a name
undefine it.

`PreprocessorProofs` proves for every set of jobs: `IncludesStayInside`, and, for jobs
without included files (hypothesis `NoIncludes`), `CaptureIsExact`: the start state, the
count of open constructs, the captured nodes and the captured text agree at every
directive, through all files of a run.  The inductive invariant adds where the scanner
stands, and that while a region is evaluated the count is 0 and no text is left.  With
included files the statement needs that each file closes what it opens; that case is
model-checked (`pp_source`).

`DmaProofs` proves for every number of controllers, commands and blocks, every size of the
buffers and every depth of the handlers (`DmaAssumption`): `Typed`, that packets keep to
the names, sizes and tags of the design through splits and renames; `NoOrphans`;
`DataRoutedBack`; `DescriptorsKeepOrder`; and `PromiseKept`, that every step of the design is
a step of `Loopback` or none.  The invariant behind `NoOrphans` (`AllBelong`) says of every channel and
of every cone which names, and with them which requesters, may be there: a packet on the way
of the data is tagged from the controller's request to the controller's buffer.
`DataRoutedBack` adds (`AllAsked`) that a tagged packet is about a command whose request was
issued at the controller of its tag; this survives since cutting a packet extends its `id`
and leaves the first two places alone.

For the order of the descriptors (`OrderInv`) channels and cones are both taken as lanes.  A
packet on its way from a request to its descriptor is on one of 23 stages (`Stage`), which
its name, its requester and its lane tell, and on each stage of a controller there is one
lane.  `InTurn` says that of two packets of one controller the further on its way, and on
the same stage the further in front, was asked for earlier.  It is kept since a step moves
the first packet of one lane behind what is in others (`Moves`), and what goes on is one
packet, one stage further.  Three things make that so.  `Kinds`: what is split on the way is
of 16 and so one piece.  `Once`: a command that no controller was asked for yet is in one
packet, alone or within its block, so that none is asked for twice and the order of the
requests means something.  `Suits`: of all cones that give a packet its next name, one takes
it from the stage before to that after; this is a lemma about each entry of the table of
handlers (`HandlersSuit`).  TLC checked these invariants on the instance of run `dma` before
they were proved.

`PromiseKept` is the safety part of `ImplementsLoopback`: its initial states are those of
`Loopback`, and a step is a `Fetch` of one block, a `Write` of one result or descriptor, or
leaves `known` and `memory` as they are.  From the execution unit on a command has two
packets, one that goes on to become its result (`Host.Data`) and one that becomes its
descriptor (`Host.Desc`); before, one packet leads to both.  The invariant `PromiseInv` says
that no two packets that lead to the same are about the same command (`Apart`, where a
packet about a block is about all its commands), that every packet is about one of the
blocks and commands there are, and that what is still to be cut into commands has the size
of a block (`AllWithin`).  That a step keeps it rests on a fact about each entry of the table
of handlers (`HandlersServe`): no cone makes a packet lead to what its source does not lead
to, no two cones of a handler lead to the same, every handler has a cone, and only `CPP`
opens a block, into all of its commands.  `MovesStarted` concludes that a step
makes known the commands of one new block or none, and that no command that is known is in
no packet any more; `Apart` makes a second entry of one command in the memory of the host
impossible.

`SymbolTableProofs` proves for every set of names, ports, states and values, and texts of
any length: `DirectionsInferred`, `InterfaceInferred` and `ReportsEverything`, for texts
that connect a port of an instance at most once (hypothesis `~Reconnect`; otherwise the code
loses nets, see section 7).  `ReportsEverything` is for every setting of the control
variables: GenSV finds what it was told to look for, and generates no module with such a
fault if it was told to exit.
The invariant (`Invariant`) has four parts.  `Functions`: the records of the table have
their fields.  `AllKept`: the pair of direction and flag of a symbol tells which ways it
was used, with the states that a port declaration, a constant or an array puts it in.
`Connected`: the net that a connection rule has named is not merged yet or is no longer to
be removed, so that what `CloseInstance` removes was used nowhere.  `Ports`: until `GenSV`
the interface holds the declared ports.  For the reports a second invariant (`RInv`) is added.
`Drivers`: every driver that the text names is in the table, since what an open block drives
is in its list of symbols (`Listed`) and nothing takes a used net out.  `Marked`: a symbol
is marked as read or driven only if it was used or a rule that named it waits to be merged
(`Pending`); ports are connected only while an instance is open (`Settled`), so at `GenSV`
nothing waits.

`WidthsKept` proves `WidthsCover` for the same texts.  Its invariant, `WInv`, says of each
symbol that it is as wide as the widest of what was asked of it, until a declaration fixes
its width, and that it then has room for every constant index unless it was declared
narrower than an earlier one (`narrowed`, the case of `pml/mparser.y:1214`; it holds of
arrays too).  `Overridden`: while the ports of an instance are merged, the parameter has the
value that this instance gave it and no other's, so that its ports count with their own
widths; `Counted`: the states of a machine are a list no longer than `MaxStates`, from
which `BuildFSM` takes the width of the state register.  The prover knows nothing of powers;
`PowerAssumption` states the one fact that is needed, that the powers of two up to the two
bounds of the module are numbers above zero, and TLC evaluates it.

## 6. What is only model-checked

* Liveness, since the prover has no rule for fairness: `EverythingArrives`,
  `EverythingTaken`, `FlushCompletes`, `Returns`, `Ends`, and of `ImplementsLoopback` the
  fairness condition on its abstract side; the rest of it is `PromiseKept`.
* What recursive definitions compute, since the prover cannot instantiate the induction
  theorems: that the interpreter, the scanner and the expansion do what their references say
  (`AsStructured`, `InSourceOrder`, `FullyExpanded`, `ReportsLevels`), the transforms
  (`CountsMatch`, `NothingLost`), and the operators of `Expression` (`Frozen`,
  `FitsItsWidth`).

## 7. What the code does otherwise

Finding, shown by a run:

* `flow_flush`: a pipelined source that is still coming in when the products are done
  ends the program (`CTransHandler.cc:133`) where a warning announces flushing.

Shown by the further configurations of section 4:

* `pp_unterminated`: `yywrap` judges by the last node of the region, so that a construct
  that is left open is not reported if another one was closed last (`pml/vpp.y:650`).
* `channel_overfill`: an overfilled channel lets every write through, because
  `_Capacitance - _Occupied` wraps (`CChannel.cc:114`).
* `pp_if_in_case`: a conditional within a case that is not selected is taken, if the switch
  is itself within a conditional: `check_for_if` asks the enclosing conditional and not the
  flag (`pml/create.cc:283`).
* `pp_if_in_case` with `switch_in_case`: a switch within such a case is not pushed, and its labels act on the
  outer switch (`pml/create.cc:1429`).
* `pp_false_report` with `undefined`: in a region, `` `define`` waits for the evaluation and `` `undef`` does not, so
  that a macro defined and undefined there stays defined (`pml/vpp.l:269`).
* `pp_false_report`: `yywrap` runs at the end of included files too, so that a construct
  that is closed further on is reported if a file is included in it (`pml/vpp.y:641`).
* `pp_false_loop`, `pp_unnoticed_loop`: the level that detects definition loops is neither
  reset by macros with parameters nor counted for texts that begin with something else
  (`pml/vpp.l:395`).  So a definition loop may be reported that is none (`ReportsLoops`) and
  one may go on for ever (`AllEnd`).  What holds, and is checked in `pp_expand`, are
  `ReportsLevels` and `Ends`, which name these cases.
* `dma_pointers`: the transform that is called "Split CPR.cpl onSIZE 4" cuts a block into
  pieces of 2 (`dma/flow.h:703`).
* `ports_observed`, one property each: a port that is declared narrower than an earlier use
  keeps the width of the use without the error that is meant for it, because the width is
  fixed only afterwards (`pml/mparser.y:1214`); a constant declared with a range stays one
  bit wide, because it is made a constant first (`pml/mparser.y:1325`); a variable or an
  array may be declared narrower than it was used; the index of a driven net counts as driven by the
  block and is reported as multiply driven (`pml/Expression.hh:515`), and becomes an input
  that has a driver; a constant or a state that is used before it is declared becomes an
  input port; a port that is connected twice takes the first net out of the table although
  other text uses it (`pml/mparser.y:1898`).

Observations from reading the code along with the model: `Transfer` sets the pipeline to `PPL_TRANSFER` whatever `Prepare` has set
(`CDestination.cc:158`), so children of a round robin that are merely "prepared" send
and write out of turn as long as their cones run; and `case STREAMING` in
`CTransHandler.cc:512` names a constant of another enumeration that happens to have
the value of `LC_STREAMING`.

Of the preprocessor: the initial assignment of a `` `for`` is carried out when it is captured
as well, also in an inactive region, and so is the first assignment to a new variable; a
`` `breaksw`` within an `` `if`` is undone by the `` `endif``; the text of a macro that is used
in a region is not scanned again, so that macros within it are not expanded there; the
usual guard of a header does not keep a file from including itself, since the guard is
captured and not yet evaluated; an included file that opens or closes a construct of the
including file changes the mode, which is restored at its end (`pml/vpp.l:359`); a loop
that is left without its end can make `for_stack[-1]` be read (`pml/create.cc:1343`); a loop
beyond the nesting limit is marked as running though it is not on the stack, so that, met
again, it does its step and spoils the entry of the outer loop (`pml/create.cc:1298`).

Of the tables and expressions: nets that a `for` statement drives are in no driver list
(`pml/Statement.hh:104`); a net that was inferred to be inout is not made a port; a port
connected to a net with an index that is no constant ends the program with an internal error
(`NoValue`); a `goto` before the first state reads an entry of the state graph that does not
exist, and is kept out by the guard of `Goto`; `CheckFSM` looks only at the neighbours of a
state; a repetition `{n{e}}` doubles its digits with every further time
(`pml/Expression.hh:889`); a left shift is not masked to its width; digits are read back
with `strtoll`, which stops at the largest signed word.

## 8. Not modelled

Zero-size packets (excluded by `FacetAssumption`: they would be popped without a read
lock; by `GroupAssumption`: a split makes no pieces of them, so that an assembling
channel never hears of them), channel conditions, cones with several sources, several sources of one handler
on one channel (both would pick up the same packet), nested groups, `CRandomTH`
(abstract: it does not define `AddTH`), a dispatcher that goes back to a child it has visited
(`Erase` has the other children visited, the last of them, or none), `CAccumulateChannel` (it never stores the facet
that it accumulates into, and no design uses it), custom fields, operands taken from a
field of the source packet, the time stamps of merged packets, doubles (time is a whole number of periods), and the components marked
`not_modelled` in `PROJECT.json`: the flow graph (planned), and reports and containers (no
behaviour the simulation depends on).  Of the design, delays, rates and turns, which `Flow`
has for parts of it, and the older design of `src/flow.h`.  Of the translator, the lexers,
the search for modules and files, the printing, the blocking-assignment check, arrays with two indices,
declarations of parameters, function calls, the table of all modules,
and a second module that instantiates the first:
an instance's module is given by the constants `Port`, `PortDirection` and `PortMsb`.
Renaming rules come before the connections of an instance and once.  Of the preprocessor, comments, strings, arguments of
macros, string variables, lines that the grammar rejects and the operators `+=`, `-=`,
`++`, `--` are left out; expressions have one operator over integers.

Two observations on the parts that are modelled: pieces of a packet that was cut by
length keep the size of the whole (`CTransform.cc:81`), so that merging them multiplies
the size (`CChannel.cc:287`), and `RestoredWhole` speaks only of what was cut; and
`WeightedRandom` aborts for a total weight of one (`func.cc:28`, `assert(max > min)`).
