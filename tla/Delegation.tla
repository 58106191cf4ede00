----------------------------- MODULE Delegation -----------------------------
(***************************************************************************)
(* How agents come to be and get work: made by the operator, by the        *)
(* spawn_agent tool of another agent (tool-broker.ts), or from a handoff,  *)
(* by the operator or by the auto-spawn callback (services.ts,             *)
(* createAgentFromHandoff); and started again by the auto-start loop after *)
(* a restart.                                                              *)
(*                                                                         *)
(* A refresh of the coordination state, which may wait for a model, lies   *)
(* between the creation of an agent and the start of its run: `jobs` holds *)
(* the continuations that wait there, and a restart loses them.  A run is  *)
(* active or over; RunOrchestrator has its states.  Titles, prompts and    *)
(* models are left out.                                                    *)
(*                                                                         *)
(* Bounds: MaxAgents, MaxHandoffs, MaxRuns, MaxCrashes.                    *)
(***************************************************************************)
EXTENDS Naturals, Sequences, FiniteSets

CONSTANTS
    MaxSpawnDepth,      \* MAX_SPAWN_DEPTH
    AutoStart,          \* may the operator set an agent's autoStart flag?
    Operator,           \* does the operator create agents from handoffs and assign them?
    MaxAgents, MaxHandoffs, MaxRuns, MaxCrashes

DelegationAssumption ==
    /\ MaxSpawnDepth \in Nat /\ AutoStart \in BOOLEAN /\ Operator \in BOOLEAN
    /\ MaxAgents \in Nat /\ MaxHandoffs \in Nat /\ MaxRuns \in Nat /\ MaxCrashes \in Nat

VARIABLES
    agents,     \* agents[a] : where a comes from
    active,     \* agents with a run in progress
    started,    \* agents that have had a run
    handoffs,   \* handoffs[h] : its source, auto flag, status and agent
    jobs,       \* continuations: <<"start", a>> or <<"take", h>>
    booting,    \* agents the auto-start loop has still to look at
    runs, crashes

vars == <<agents, active, started, handoffs, jobs, booting, runs, crashes>>

Origins == {"operator", "spawn", "handoff"}
Agents == DOMAIN agents
Handoffs == DOMAIN handoffs

Init ==
    /\ agents = <<>> /\ active = {} /\ started = {} /\ handoffs = <<>>
    /\ jobs = {} /\ booting = {} /\ runs = 0 /\ crashes = 0

NewAgent(by, parent, depth) ==
    /\ Len(agents) < MaxAgents
    /\ agents' = agents \o <<[by |-> by, parent |-> parent, depth |-> depth, autoStart |-> FALSE]>>
Newest == Len(agents) + 1

-----------------------------------------------------------------------------
(* Runs.                                                                   *)

\* startRun refuses an agent that has an active run.
StartRun(a) ==
    IF a \in active THEN UNCHANGED <<active, started, runs>>
    ELSE /\ runs < MaxRuns /\ runs' = runs + 1
         /\ active' = active \cup {a} /\ started' = started \cup {a}

CreateAgent ==
    /\ NewAgent("operator", 0, 0)
    /\ UNCHANGED <<active, started, handoffs, jobs, booting, runs, crashes>>

SubmitRun(a) ==
    /\ StartRun(a)
    /\ UNCHANGED <<agents, handoffs, jobs, booting, crashes>>

FinishRun(a) ==
    /\ a \in active /\ active' = active \ {a}
    /\ UNCHANGED <<agents, started, handoffs, jobs, booting, runs, crashes>>

\* agents.update merges what it is given into the metadata.
UpdateAgent(a, autoStart) == agents' = [agents EXCEPT ![a].autoStart = autoStart]

SetAutoStart(a) ==
    /\ AutoStart /\ ~agents[a].autoStart
    /\ UpdateAgent(a, TRUE)
    /\ UNCHANGED <<active, started, handoffs, jobs, booting, runs, crashes>>

-----------------------------------------------------------------------------
(* spawn_agent, approved by the operator and executed for a run of a.      *)

\* The limit is compared one spawn too late.
Spawn_TooDeep(a) ==
    /\ a \in active /\ agents[a].depth <= MaxSpawnDepth
    /\ NewAgent("spawn", a, agents[a].depth + 1)
    /\ jobs' = jobs \cup {<<"start", Newest>>}
    /\ UNCHANGED <<active, started, handoffs, booting, runs, crashes>>

\* The start of the new run is left to the caller.
Spawn_NotStarted(a) ==
    /\ a \in active /\ agents[a].depth < MaxSpawnDepth
    /\ NewAgent("spawn", a, agents[a].depth + 1)
    /\ UNCHANGED <<active, started, handoffs, jobs, booting, runs, crashes>>

Spawn(a) ==
    /\ a \in active /\ agents[a].depth < MaxSpawnDepth
    /\ NewAgent("spawn", a, agents[a].depth + 1)
    /\ jobs' = jobs \cup {<<"start", Newest>>}
    /\ UNCHANGED <<active, started, handoffs, booting, runs, crashes>>

\* The failure of a start nobody waits for is not noticed.
StartJob_Dropped(a) ==
    /\ <<"start", a>> \in jobs
    /\ jobs' = jobs \ {<<"start", a>>}
    /\ UNCHANGED <<agents, active, started, handoffs, booting, runs, crashes>>

\* The run is started while nobody waits for it.
StartJob(a) ==
    /\ <<"start", a>> \in jobs
    /\ jobs' = jobs \ {<<"start", a>>}
    /\ StartRun(a)
    /\ UNCHANGED <<agents, handoffs, booting, crashes>>

-----------------------------------------------------------------------------
(* Handoffs.                                                               *)

CreateHandoff(a, auto) ==
    /\ a \in active /\ Len(handoffs) < MaxHandoffs
    /\ handoffs' = handoffs \o <<[from |-> a, auto |-> auto, status |-> "OPEN", agent |-> 0]>>
    /\ jobs' = IF auto THEN jobs \cup {<<"take", Len(handoffs) + 1>>} ELSE jobs
    /\ UNCHANGED <<agents, active, started, booting, runs, crashes>>

\* The handoff and the agent that made it: the loop traces one level only, so
\* that the chain it compares with 3 has at most two members and none is refused.
SourceChain(h) == <<"handoff", handoffs[h].from>>
ChainAllowed(h) == Len(SourceChain(h)) < 3

\* createAgentFromHandoff: the agent and the assignment, before any waiting.
TakeHandoff(h) ==
    /\ NewAgent("handoff", handoffs[h].from, 0)
    /\ handoffs' = [handoffs EXCEPT ![h].status = "ASSIGNED", ![h].agent = Newest]

\* The callback stops when the handoff is taken.
AutoTake_NoRun(h) ==
    /\ <<"take", h>> \in jobs /\ ChainAllowed(h)
    /\ TakeHandoff(h)
    /\ jobs' = jobs \ {<<"take", h>>}
    /\ UNCHANGED <<active, started, booting, runs, crashes>>

AutoTake(h) ==
    /\ <<"take", h>> \in jobs /\ ChainAllowed(h)
    /\ TakeHandoff(h)
    /\ jobs' = (jobs \ {<<"take", h>>}) \cup {<<"start", Newest>>}
    /\ UNCHANGED <<active, started, booting, runs, crashes>>

\* POST /handoffs/:id/create-agent; nothing asks whether the handoff is open.
OperatorTake(h) ==
    /\ Operator
    /\ TakeHandoff(h)
    /\ UNCHANGED <<active, started, jobs, booting, runs, crashes>>

AssignHandoff(h, a) ==
    /\ Operator
    /\ handoffs' = [handoffs EXCEPT ![h].status = "ASSIGNED", ![h].agent = a]
    /\ UNCHANGED <<agents, active, started, jobs, booting, runs, crashes>>

PatchHandoff(h, status) ==
    /\ Operator /\ handoffs[h].status # status
    /\ handoffs' = [handoffs EXCEPT ![h].status = status]
    /\ UNCHANGED <<agents, active, started, jobs, booting, runs, crashes>>

-----------------------------------------------------------------------------
(* Restart: recovery has ended the runs in progress before the loop looks. *)

Crash ==
    /\ crashes < MaxCrashes /\ crashes' = crashes + 1
    /\ active' = {} /\ jobs' = {}
    /\ booting' = {a \in Agents : agents[a].autoStart}
    /\ UNCHANGED <<agents, started, handoffs, runs>>

\* The loop ends at the first agent that cannot be started.
AutoStartAgent_Stops(a) ==
    /\ a \in booting
    /\ booting' = IF a \in active THEN {} ELSE booting \ {a}
    /\ StartRun(a)
    /\ UNCHANGED <<agents, handoffs, jobs, crashes>>

AutoStartAgent(a) ==
    /\ a \in booting
    /\ booting' = booting \ {a}
    /\ StartRun(a)
    /\ UNCHANGED <<agents, handoffs, jobs, crashes>>

-----------------------------------------------------------------------------
Continue ==
    \/ \E a \in Agents : StartJob(a) \/ AutoStartAgent(a)
    \/ \E h \in Handoffs : AutoTake(h)

Next ==
    \/ CreateAgent \/ Crash \/ Continue
    \/ \E a \in Agents : SubmitRun(a) \/ FinishRun(a) \/ SetAutoStart(a) \/ Spawn(a)
    \/ \E a \in Agents, auto \in BOOLEAN : CreateHandoff(a, auto)
    \/ \E h \in Handoffs : OperatorTake(h) \/ \E a \in Agents : AssignHandoff(h, a)
    \/ \E h \in Handoffs, s \in {"OPEN", "DONE", "DISMISSED"} : PatchHandoff(h, s)

Spec == Init /\ [][Next]_vars

\* Continuations are run to their end by the event loop, each of them.
FairSpec ==
    /\ Spec
    /\ \A a \in 1..MaxAgents : WF_vars(a \in Agents /\ StartJob(a))
    /\ \A a \in 1..MaxAgents : WF_vars(a \in Agents /\ AutoStartAgent(a))
    /\ \A h \in 1..MaxHandoffs : WF_vars(h \in Handoffs /\ AutoTake(h))

-----------------------------------------------------------------------------
(* Every variable has its type.                                            *)
TypeOK ==
    /\ \A a \in Agents : agents[a] \in
          [by : Origins, parent : 0..MaxAgents, depth : 0..MaxSpawnDepth, autoStart : BOOLEAN]
    /\ active \subseteq Agents /\ started \subseteq Agents /\ booting \subseteq Agents
    /\ \A h \in Handoffs : handoffs[h] \in
          [from : Agents, auto : BOOLEAN, agent : {0} \cup Agents,
           status : {"OPEN", "ASSIGNED", "DONE", "DISMISSED"}]
    /\ runs \in 0..MaxRuns /\ crashes \in 0..MaxCrashes

\* The agents an agent descends from, itself included, nearest first.
Line(a) ==
    LET line[n \in 0..MaxAgents] ==
            IF n = 0 THEN <<a>>
            ELSE LET l == line[n - 1]
                     p == agents[l[Len(l)]].parent
                 IN  IF p = 0 THEN l ELSE l \o <<p>>
    IN  line[MaxAgents]

\* How many members of the line were made in a way, down to one made otherwise.
Streak(a, by) ==
    LET l == Line(a)
        broken == {n \in DOMAIN l : agents[l[n]].by # by}
    IN  (CHOOSE n \in broken : \A k \in broken : n <= k) - 1

(* However spawns, starts and restarts interleave, no agent is the last of   *)
(* more than MAX_SPAWN_DEPTH spawns in a row.                                *)
SpawnedInARow(line) ==
    \A n \in DOMAIN line :
        agents[line[n]].by = "spawn" /\ (n > 1 => agents[line[n]].parent = line[n - 1])

SpawnsAreShallow ==
    \A line \in [1..(MaxSpawnDepth + 1) -> Agents] : ~SpawnedInARow(line)

(* An agent that was spawned, or made from a handoff by itself, gets to run: *)
(* its start is not lost among the other continuations.                      *)
SpawnedAgentsStart ==
    \A a \in 1..MaxAgents :
        (a \in Agents /\ agents[a].by = "spawn" /\ crashes = MaxCrashes /\ a \notin started
            /\ <<"start", a>> \in jobs)
        ~> (a \in started \/ runs = MaxRuns)

(* Without a crash every spawned agent has run or is about to: no spawn is   *)
(* forgotten between the creation of the agent and the start of its run.     *)
NoSpawnForgotten ==
    crashes = 0 => \A a \in Agents :
        agents[a].by = "spawn" => (a \in started \/ <<"start", a>> \in jobs)

(* A handoff marked for auto-spawn is taken, and its agent started, without  *)
(* any operator: no open one is left with nobody about to take it.           *)
AutoHandoffsAreTaken ==
    (crashes = 0 /\ ~Operator) => \A h \in Handoffs :
        handoffs[h].auto =>
            \/ <<"take", h>> \in jobs
            \/ LET a == handoffs[h].agent
               IN  a # 0 /\ (a \in started \/ <<"start", a>> \in jobs)

(* After a restart every agent that is to be started by itself gets a run,   *)
(* also when others of them were busy or could not be started.               *)
AutoStartServesAll ==
    \A a \in 1..MaxAgents : (a \in booting) ~> (a \in active \/ runs = MaxRuns)

(* The limit holds for a whole line of agents: no agent descends from more   *)
(* than MAX_SPAWN_DEPTH spawns, handed on in between or not.                 *)
SpawnLevels ==
    \A a \in Agents :
        Cardinality({n \in DOMAIN Line(a) : agents[Line(a)[n]].by = "spawn"}) <= MaxSpawnDepth

(* Agents that make agents by handoffs, without an operator, stop after      *)
(* three: the guard against runaway cascades holds.                          *)
CascadesStop == \A a \in Agents : Streak(a, "handoff") <= 3
=============================================================================
