----------------------------- MODULE Broadcast -----------------------------
(***************************************************************************)
(* A message of the operator to one agent, or to the agents on the screen  *)
(* (App.tsx, submitWorkspaceInstruction): the first is sent to the agent,  *)
(* the second to the coordinator (routes/workspaces.ts), which picks the   *)
(* agents and starts their runs; when it has no state, the desktop sends   *)
(* to each target itself.                                                  *)
(*                                                                         *)
(* A run is its place in the sequence of all runs.  The execution plan is  *)
(* reduced to whether an agent may run, is held, or is left out.  Agents   *)
(* are numbered in its order, in which the desktop, too, goes through its  *)
(* targets; so a list of agents is a set.  Bounds: MaxAgents, MaxMessages, *)
(* MaxChanges of the plan, MaxErrors of requests.                          *)
(***************************************************************************)
EXTENDS Naturals, Sequences, FiniteSets

CONSTANTS MaxAgents, MaxMessages, MaxChanges, MaxErrors

BroadcastAssumption == {MaxAgents, MaxMessages, MaxChanges, MaxErrors} \subseteq Nat

Agents == 1..MaxAgents
Decisions == {"run", "hold", "left out"}
Phases == {"none", "asked", "starting", "answered", "direct", "settling"}

VARIABLES
    runs,           \* every run: of which agent, for which message
    active,         \* agents with a run that has not ended
    plan,           \* the decision for each agent
    known,          \* is there a coordination state of the workspace?
    message,        \* the number of the last message
    targets,        \* the agents that the desktop means
    focused,        \* is it a message to one agent?
    phase,          \* where the last message is; broadcastPending until "none" again
    todo,           \* agents still to be sent to
    dispatched,     \* the runs the desktop is told of, in order: dispatchedRuns
    status,         \* what the coordinator answers
    marks,          \* agents shown as "Run requested": pendingRunRequests
    feed,           \* what the activity feed says of messages
    queued,         \* messages of which the notice said "Reply queued."
    changes, errors

server == <<runs, active, plan, known>>
shown == <<marks, feed, queued>>
sending == <<message, targets, focused, phase, todo, dispatched, status>>
vars == <<server, shown, sending, changes, errors>>

Init ==
    /\ runs = <<>> /\ active \in SUBSET Agents
    /\ plan \in [Agents -> Decisions] /\ known \in BOOLEAN
    /\ message = 0 /\ targets = {} /\ focused = FALSE /\ phase = "none"
    /\ todo = {} /\ dispatched = <<>> /\ status = "none"
    /\ marks = {} /\ feed = {} /\ queued = {} /\ changes = 0 /\ errors = 0

Recipients(decision) == {a \in Agents : plan[a] = decision}

\* The first of a list of agents, and where one stands in it.
First(agents) == CHOOSE a \in agents : \A b \in agents : a <= b
Place(a, agents) == Cardinality({b \in agents : b <= a})

-----------------------------------------------------------------------------
(* The rest of the system                                                  *)

\* Dependencies come and go.
Replan(a, decision) ==
    /\ changes < MaxChanges /\ changes' = changes + 1 /\ decision # plan[a]
    /\ plan' = [plan EXCEPT ![a] = decision]
    /\ UNCHANGED <<runs, active, known, shown, sending, errors>>

\* Somebody's refresh stores the first coordination state.
Rebuild ==
    /\ ~known /\ known' = TRUE
    /\ UNCHANGED <<runs, active, plan, shown, sending, changes, errors>>

\* A run ends.
End(a) ==
    /\ a \in active /\ active' = active \ {a}
    /\ UNCHANGED <<runs, plan, known, shown, sending, changes, errors>>

\* An event of an agent that runs or ran, or a change of the list of agents.
Unmark(a) ==
    /\ a \in marks /\ (a \in active \/ \E i \in DOMAIN runs : runs[i].agent = a)
    /\ marks' = marks \ {a}
    /\ UNCHANGED <<server, feed, queued, sending, changes, errors>>

-----------------------------------------------------------------------------
(* Sending                                                                 *)

\* The composer or the inline reply of an agent: both wait for the message
\* before.
Submit(agents, toOne) ==
    /\ phase = "none" /\ message < MaxMessages /\ message' = message + 1
    /\ agents # {} /\ (toOne => Cardinality(agents) = 1)
    /\ targets' = agents /\ focused' = toOne
    /\ phase' = (IF toOne THEN "direct" ELSE "asked")
    /\ todo' = (IF toOne THEN agents ELSE {})
    /\ dispatched' = <<>> /\ status' = "none"
    /\ marks' = marks \cup agents
    /\ UNCHANGED <<server, feed, queued, changes, errors>>

\* POST coordination/dispatch: which agents are to have the message.
Decompose ==
    /\ phase = "asked"
    /\ todo' = (IF known THEN Recipients("run") ELSE {})
    /\ phase' = (IF todo' = {} THEN "answered" ELSE "starting")
    /\ status' = (IF ~known THEN "stale_state"
                  ELSE IF todo' # {} THEN "dispatched"
                  ELSE IF Recipients("hold") # {} THEN "all_blocked" ELSE "no_agents")
    /\ UNCHANGED <<server, shown, message, targets, focused, dispatched, changes, errors>>

\* startRun creates a run, of an agent that has none, ...
Created(a) ==
    /\ a \notin active /\ active' = active \cup {a}
    /\ runs' = Append(runs, [agent |-> a, message |-> message])

\* ... or throws: the agent has one, or something fails.
Refused(a) ==
    /\ \/ a \in active /\ UNCHANGED errors
       \/ errors < MaxErrors /\ errors' = errors + 1
    /\ UNCHANGED <<runs, active>>

\* The loop of the route: an agent whose run is refused is passed over.
StartNext ==
    /\ phase = "starting" /\ todo' = todo \ {First(todo)}
    /\ phase' = (IF todo' = {} THEN "answered" ELSE "starting")
    /\ \/ /\ Created(First(todo)) /\ dispatched' = Append(dispatched, Len(runs) + 1)
          /\ UNCHANGED errors
       \/ Refused(First(todo)) /\ UNCHANGED dispatched
    /\ UNCHANGED <<plan, known, shown, message, targets, focused, status, changes>>

\* A failed request leaves a run that is none.
SendNext_Placeholder ==
    /\ phase = "direct" /\ todo' = todo \ {First(todo)}
    /\ phase' = (IF todo' = {} THEN "settling" ELSE "direct")
    /\ \/ /\ Created(First(todo))
          /\ \/ dispatched' = Append(dispatched, Len(runs) + 1) /\ UNCHANGED errors
             \/ errors < MaxErrors /\ errors' = errors + 1 /\ dispatched' = Append(dispatched, 0)
       \/ Refused(First(todo)) /\ dispatched' = Append(dispatched, 0)
    /\ UNCHANGED <<plan, known, shown, message, targets, focused, status, changes>>

\* dispatchInstruction, in the loop of the desktop: POST agents/:id/runs.  The
\* answer may be lost after the run was created.
SendNext ==
    /\ phase = "direct" /\ todo' = todo \ {First(todo)}
    /\ phase' = (IF todo' = {} THEN "settling" ELSE "direct")
    /\ \/ /\ Created(First(todo))
          /\ \/ dispatched' = Append(dispatched, Len(runs) + 1) /\ UNCHANGED errors
             \/ errors < MaxErrors /\ errors' = errors + 1 /\ UNCHANGED dispatched
       \/ Refused(First(todo)) /\ UNCHANGED dispatched
    /\ UNCHANGED <<plan, known, shown, message, targets, focused, status, changes>>

\* The desktop sends to the targets whatever the coordinator did.
Receive_Fallback ==
    /\ phase = "answered"
    /\ phase' = (IF status \in {"all_blocked", "no_agents"} THEN "none" ELSE "direct")
    /\ queued' = (IF status = "all_blocked" THEN queued \cup {message} ELSE queued)
    /\ todo' = (IF phase' = "direct" THEN targets ELSE {})
    /\ UNCHANGED <<server, marks, feed, message, targets, focused, dispatched, status, changes, errors>>

\* broadcastPending stays set after an early return.
Receive_StaysPending ==
    /\ phase = "answered"
    /\ phase' = (IF status = "dispatched" THEN "settling"
                 ELSE IF status = "stale_state" THEN "direct" ELSE phase)
    /\ queued' = (IF status = "all_blocked" THEN queued \cup {message} ELSE queued)
    /\ todo' = (IF status = "stale_state" THEN targets ELSE {})
    /\ UNCHANGED <<server, marks, feed, message, targets, focused, dispatched, status, changes, errors>>

\* The answer of the coordinator.
Receive ==
    /\ phase = "answered"
    /\ phase' = (IF status = "dispatched" THEN "settling"
                 ELSE IF status = "stale_state" THEN "direct" ELSE "none")
    /\ queued' = (IF status = "all_blocked" THEN queued \cup {message} ELSE queued)
    /\ todo' = (IF status = "stale_state" THEN targets ELSE {})
    /\ UNCHANGED <<server, marks, feed, message, targets, focused, dispatched, status, changes, errors>>

\* The request to the coordinator is lost, or its answer.
Lose ==
    /\ phase \in {"asked", "answered"} /\ errors < MaxErrors /\ errors' = errors + 1
    /\ phase' = "none"
    /\ UNCHANGED <<server, shown, message, targets, focused, todo, dispatched, status, changes>>

\* The first run is taken for that of the first target, and so on.
Matched == {a \in targets : Place(a, targets) \in DOMAIN dispatched}
Entry(a) ==
    IF a \in Matched
    THEN [message |-> message, agent |-> a, focused |-> focused,
          says |-> "Run requested", run |-> dispatched[Place(a, targets)]]
    ELSE [message |-> message, agent |-> a, focused |-> focused,
          says |-> "Broadcast failed", run |-> 0]

Settle ==
    /\ phase = "settling" /\ phase' = "none"
    /\ feed' = feed \cup {Entry(a) : a \in targets}
    /\ marks' = (marks \ targets) \cup Matched
    /\ UNCHANGED <<server, queued, message, targets, focused, todo, dispatched, status, changes, errors>>

Send == Decompose \/ StartNext \/ SendNext \/ Receive \/ Settle

Next ==
    \/ \E a \in Agents, decision \in Decisions : Replan(a, decision)
    \/ \E a \in Agents : End(a) \/ Unmark(a)
    \/ \E agents \in SUBSET Agents, toOne \in BOOLEAN : Submit(agents, toOne)
    \/ Rebuild \/ Send \/ Lose

Spec == Init /\ [][Next]_vars

\* Every request is answered or fails; runs end.
FairSpec == Spec /\ WF_vars(Send) /\ \A a \in Agents : WF_vars(End(a))

-----------------------------------------------------------------------------
(* The variables have their types: what the desktop is told of are runs.   *)
TypeOK ==
    /\ \A i \in DOMAIN runs : runs[i].agent \in Agents /\ runs[i].message \in 1..message
    /\ active \subseteq Agents /\ plan \in [Agents -> Decisions] /\ known \in BOOLEAN
    /\ phase \in Phases /\ targets \subseteq Agents /\ todo \subseteq Agents
    /\ \A i \in DOMAIN dispatched : dispatched[i] \in DOMAIN runs
    /\ marks \subseteq Agents
    /\ queued \subseteq 1..message

(* The fallback does not send again what the coordinator sent: a message   *)
(* starts at most one run of an agent, whatever is lost or ends meanwhile. *)
OneRunEach ==
    \A i, j \in DOMAIN runs :
        (runs[i].agent = runs[j].agent /\ runs[i].message = runs[j].message) => i = j

(* A message to one agent is reported with the run of that agent, and of   *)
(* that message.                                                           *)
FocusedRunIsOfAgent ==
    \A e \in feed : (e.focused /\ e.says = "Run requested") =>
        /\ e.run \in DOMAIN runs
        /\ runs[e.run].agent = e.agent /\ runs[e.run].message = e.message

(* The composer can be used again: whatever the answer, sending ends.      *)
SendingEnds == (phase # "none") ~> (phase = "none")

(* acc-coordinator-implementation-plan.md: an agent whose run could not be *)
(* started surfaces as such.  The code matches runs and targets by their   *)
(* position, though refused ones are left out: the agent is reported with  *)
(* the run of another.                                                     *)
RequestedRunIsOfAgent ==
    \A e \in feed : e.says = "Run requested" => runs[e.run].agent = e.agent

(* The notice "Reply queued.": the reply is delivered when the agents are  *)
(* no longer held.  Nothing keeps it.                                      *)
QueuedReplyIsDelivered ==
    \A m \in 1..MaxMessages :
        (m \in queued /\ <>[](\A a \in Agents : plan[a] = "run")) ~>
            (\E i \in DOMAIN runs : runs[i].message = m)

(* acc-codex-shell-redesign-plan.md: the operator chooses whom an          *)
(* instruction goes to.  The coordinator is not told, and starts every     *)
(* agent that may run.                                                     *)
OnlyTargetsRun ==
    \A i \in DOMAIN runs : runs[i].message = message => runs[i].agent \in targets
=============================================================================
