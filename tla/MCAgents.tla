------------------------------- MODULE MCAgents -------------------------------
(***************************************************************************)
(* The sessions of an agent (AgentSession) and how agents come to be        *)
(* (Delegation), in four settings; a behaviour stays in the one it starts   *)
(* in, and what the setting is not about rests:                             *)
(*   provider   AgentSession with the provider of the .cfg;                 *)
(*   mock       AgentSession with the mock adapter;                         *)
(*   spawning   Delegation: spawns and handoffs, nobody intervenes;         *)
(*   restart    Delegation: the operator creates and assigns, agents are    *)
(*              started by themselves after a restart.                      *)
(***************************************************************************)
EXTENDS AgentSession

CONSTANTS MaxSpawnDepth, MaxAgents, MaxHandoffs, MaxRuns
VARIABLES setting,
          agents, active, started, handoffs, jobs, booting, runs, restarts

Mock == INSTANCE AgentSession WITH Provider <- "mock"

Spawning ==
  INSTANCE Delegation WITH
    AutoStart <- FALSE, Operator <- FALSE, MaxCrashes <- 0, crashes <- restarts

Restart ==
  INSTANCE Delegation WITH
    AutoStart <- TRUE, Operator <- TRUE,
    MaxAgents <- 2, MaxRuns <- 3, MaxCrashes <- 1, crashes <- restarts

ASSUME CrewAssumption == Spawning!DelegationAssumption /\ Restart!DelegationAssumption

crew == <<agents, active, started, handoffs, jobs, booting, runs, restarts>>
all  == <<vars, crew, setting>>

In(s) == setting = s /\ UNCHANGED setting

SessionNext ==
  /\ UNCHANGED crew
  /\ \/ In("provider") /\ Next
     \/ In("mock") /\ Mock!Next

CrewNext ==
  /\ UNCHANGED vars
  /\ \/ In("spawning") /\ Spawning!Next
     \/ In("restart") /\ Restart!Next

-----------------------------------------------------------------------------
(* The fairness of the two modules, in their settings.                      *)

RecoverIn == UNCHANGED crew /\ (In("provider") \/ In("mock")) /\ Recover

TurnIn(c) ==
  /\ UNCHANGED crew
  /\ \/ In("provider") /\ Turn(c)
     \/ In("mock") /\ Mock!Turn(c)

StartIn(a) ==
  /\ UNCHANGED vars
  /\ a \in DOMAIN agents
  /\ \/ In("spawning") /\ Spawning!StartJob(a)
     \/ In("restart") /\ Restart!StartJob(a)

AutoStartIn(a) ==
  /\ UNCHANGED vars
  /\ a \in DOMAIN agents
  /\ In("restart") /\ Restart!AutoStartAgent(a)

TakeIn(h) ==
  /\ UNCHANGED vars
  /\ h \in DOMAIN handoffs
  /\ \/ In("spawning") /\ Spawning!AutoTake(h)
     \/ In("restart") /\ Restart!AutoTake(h)

InitIn == Init /\ Spawning!Init /\ setting \in {"provider", "mock", "spawning", "restart"}

SpecIn ==
  /\ InitIn
  /\ [][SessionNext \/ CrewNext]_all
  /\ WF_all(RecoverIn)
  /\ \A c \in Chains : WF_all(TurnIn(c))
  /\ \A a \in 1..MaxAgents : WF_all(StartIn(a)) /\ WF_all(AutoStartIn(a))
  /\ \A h \in 1..MaxHandoffs : WF_all(TakeIn(h))

-----------------------------------------------------------------------------
\* A caller gets an answer or an error, and no session is taken for good: an idle
\* agent can be sent input again (runtime-manager.ts, the finally of sendInput).
SessionsGetOn == RequestsEnd /\ SessionsAreFreed

\* However spawns, starts and restarts interleave, no agent is the last of more
\* than MAX_SPAWN_DEPTH spawns in a row (spawn_agent in tool-broker.ts).
SpawnsAreShallow == Spawning!SpawnsAreShallow

\* Who is to start does: spawned agents (without a crash none is forgotten),
\* handoffs marked for auto-spawn when there is no operator, and after a restart
\* every agent marked for auto-start, also when others were busy (the callback and
\* the auto-start loop of services.ts).
AgentsGetStarted ==
  /\ []Spawning!NoSpawnForgotten
  /\ setting = "restart" \/ ([]Spawning!AutoHandoffsAreTaken /\ Spawning!SpawnedAgentsStart)
  /\ setting # "restart" \/ Restart!AutoStartServesAll
===============================================================================
