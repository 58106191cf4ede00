------------------------------- MODULE MCPeers -------------------------------
(***************************************************************************)
(* What the agents of a workspace learn of each other, in four settings;    *)
(* in a behaviour one of them moves:                                        *)
(*   watching   PeerOutput with the constants of the .cfg;                  *)
(*   reading    PeerOutput with both tools, on a run that is not longer     *)
(*              than a reply;                                               *)
(*   telling    AgentMemory: blocks, messages and contexts of two agents;   *)
(*   summing    AgentMemory: the summaries of finished runs.               *)
(***************************************************************************)
EXTENDS PeerOutput

CONSTANTS Agents, Keys, Mounted, Shared, Window, MaxTime, MaxMessages, MaxVersion,
          Summarised, MaxFinished       \* the agents and the runs that are summarised
VARIABLES setting, blocks, messages, kv, runs, pending, context, deleted, now

Reading ==
  INSTANCE PeerOutput WITH
    Tools <- {"read", "watch"}, Limit <- 3, LastN <- 1, MaxEntries <- 3

Telling == INSTANCE AgentMemory WITH MaxRuns <- 0, MaxPending <- 1

Summing ==
  INSTANCE AgentMemory WITH
    Agents <- Summarised, MaxTime <- 0, MaxMessages <- 0, MaxRuns <- MaxFinished, MaxPending <- 1

ASSUME MemoryAssumption ==
  Summarised \subseteq Agents /\ Telling!AgentMemoryAssumption /\ Summing!AgentMemoryAssumption

memory == <<blocks, messages, kv, runs, pending, context, deleted, now>>
all    == <<vars, memory, setting>>

InitIn ==
  /\ Init
  /\ \/ setting \in {"watching", "reading", "telling"} /\ Telling!Init
     \/ setting = "summing" /\ Summing!Init

NextIn ==
  /\ UNCHANGED setting
  /\ \/ setting = "watching" /\ Next /\ UNCHANGED memory
     \/ setting = "reading" /\ Reading!Next /\ UNCHANGED memory
     \/ setting = "telling" /\ Telling!Next /\ UNCHANGED vars
     \/ setting = "summing" /\ Summing!Next /\ UNCHANGED vars

SpecIn == InitIn /\ [][NextIn]_all

-----------------------------------------------------------------------------
\* A session's context fits its window unless the mounted items alone do not, and
\* what matters more is given up later (truncateContextItems).
ContextIsCutRight == Telling!ContextFits /\ Telling!DropsInOrder

\* A message stays unread until its addressee has acknowledged it; nobody is shown an
\* expired block or a private one of another agent; a block goes when it expires or its
\* agent deletes it; and with one summary in flight a run_summary never goes back to an
\* earlier run (tool-broker.ts, run-orchestrator.ts).
MemoryIsGuarded ==
  /\ []Telling!UnreadUntilAcknowledged
  /\ Telling!NoForeignSecret /\ Telling!BlocksOutlivePurges
  /\ Summing!SummariesGoForward
==============================================================================
