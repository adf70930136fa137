------------------------------- MODULE Loopback -------------------------------
(***************************************************************************)
(* What the DMA loopback design promises to the host, whatever lies in     *)
(* between: every block of pointers names a number of commands, and the    *)
(* result and the descriptor of each command of a block that was fetched   *)
(* are written to the memory of the host once, in any order.               *)
(***************************************************************************)
EXTENDS Naturals, Sequences

CONSTANTS
  Count,      \* the blocks
  PerBlock    \* the commands of a block

VARIABLES
  known,    \* the commands of the blocks that were fetched
  memory    \* what was written to the host

vars == <<known, memory>>

CommandsOf(k) == {<<k, j>> : j \in 1 .. PerBlock}

Commands == UNION {CommandsOf(k) : k \in 1 .. Count}

Kind == {"Host.Data", "Host.Desc"}

Init == known = {} /\ memory = <<>>

Fetch(k) ==
  /\ CommandsOf(k) \cap known = {}
  /\ known' = known \cup CommandsOf(k)
  /\ UNCHANGED memory

Write(kind, command) ==
  LET entry == [name |-> kind, command |-> command] IN
  /\ memory' = Append(memory, entry)
  /\ \A n \in DOMAIN memory : memory[n] # entry
  /\ command \in known
  /\ UNCHANGED known

Next ==
  \/ \E k \in 1 .. Count : Fetch(k)
  \/ \E kind \in Kind, command \in Commands : Write(kind, command)

\* Every step gets nearer to the end, where all entries are written.
Spec == Init /\ [][Next]_vars /\ WF_vars(Next)
=============================================================================
