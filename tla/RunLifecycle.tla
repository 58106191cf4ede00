---------------------------- MODULE RunLifecycle ----------------------------
(***************************************************************************)
(* What the control plane promises about agent runs, without saying how.   *)
(* A run belongs to one agent and moves through the states of AgentRunState *)
(* (packages/shared-types).  A tool call of a run may need the operator's   *)
(* approval; it is then executed only after the operator granted it, and no *)
(* call is ever executed twice.  An agent works on one run at a time, a run *)
(* that reached COMPLETED, ERROR or STOPPED never moves again, and a        *)
(* decision on an approval is taken once.                                   *)
(*                                                                         *)
(* RunOrchestrator is the program's version, with the promise chains, the   *)
(* in-memory tables and the crashes left out here.                          *)
(***************************************************************************)
EXTENDS Naturals

CONSTANTS Agents,            \* the agents of the workspace
          NoAgent,           \* the agent of a run not created yet
          Runs,              \* run ids, numbered in creation order
          Calls,             \* tool call ids
          RequiresApproval   \* the calls whose tool needs the operator

VARIABLES runState,   \* Runs -> "NONE" or an AgentRunState
          runAgent,   \* Runs -> the run's agent, meaningful once created
          approval,   \* Calls -> "none" or an ApprovalStatus
          callRun,    \* Calls -> the run that requested the call, 0 before
          execs       \* Calls -> how often the tool was executed

lifeVars == <<runState, runAgent, approval, callRun, execs>>

ActiveStates   == {"CREATED", "QUEUED", "RUNNING", "WAITING_APPROVAL"}
TerminalStates == {"COMPLETED", "ERROR", "STOPPED"}
RunStates      == ActiveStates \cup TerminalStates

Init ==
  /\ runState = [r \in Runs |-> "NONE"]
  /\ runAgent = [r \in Runs |-> NoAgent]
  /\ approval = [k \in Calls |-> "none"]
  /\ callRun = [k \in Calls |-> 0]
  /\ execs = [k \in Calls |-> 0]

Move(r, from, to) ==
  /\ runState[r] \in from
  /\ runState' = [runState EXCEPT ![r] = to]

\* A run is created only for an agent that has no run in progress.
Create(r, a) ==
  /\ \A q \in Runs : runAgent[q] = a => runState[q] \notin ActiveStates
  /\ Move(r, {"NONE"}, "CREATED")
  /\ runAgent' = [runAgent EXCEPT ![r] = a]
  /\ UNCHANGED <<approval, callRun, execs>>

Queue(r)    == Move(r, {"CREATED"}, "QUEUED") /\ UNCHANGED <<runAgent, approval, callRun, execs>>
Begin(r)    == Move(r, {"CREATED", "QUEUED"}, "RUNNING") /\ UNCHANGED <<runAgent, approval, callRun, execs>>
Complete(r) == Move(r, {"RUNNING"}, "COMPLETED") /\ UNCHANGED <<runAgent, approval, callRun, execs>>

\* A restart may fail the runs of several agents and close their approvals.
Fail(r) == Move(r, ActiveStates, "ERROR") /\ UNCHANGED <<runAgent, approval, callRun, execs>>

RequestCalls(r, K) ==
  /\ runState[r] = "RUNNING"
  /\ \A k \in K : callRun[k] = 0
  /\ callRun' = [k \in Calls |-> IF k \in K THEN r ELSE callRun[k]]
  /\ runState' \in {runState, [runState EXCEPT ![r] = "ERROR"]}
  /\ UNCHANGED <<runAgent, approval, execs>>

AskOperator(k) ==
  /\ k \in RequiresApproval /\ approval[k] = "none"
  /\ callRun[k] \in Runs /\ Move(callRun[k], {"RUNNING"}, "WAITING_APPROVAL")
  /\ approval' = [approval EXCEPT ![k] = "PENDING"]
  /\ UNCHANGED <<runAgent, callRun, execs>>

Decide(k, verdict) ==
  /\ approval[k] = "PENDING"
  /\ approval' = [approval EXCEPT ![k] = verdict]
  /\ UNCHANGED <<runState, runAgent, callRun, execs>>

Execute(k) ==
  /\ execs[k] = 0
  /\ callRun[k] \in Runs
  /\ runState[callRun[k]] = IF k \in RequiresApproval THEN "WAITING_APPROVAL" ELSE "RUNNING"
  /\ k \in RequiresApproval => approval[k] = "APPROVED"
  /\ execs' = [execs EXCEPT ![k] = 1]
  /\ UNCHANGED <<runState, runAgent, approval, callRun>>

\* The run leaves WAITING_APPROVAL only when nothing it asked is undecided.
Resume(r) ==
  /\ \A k \in Calls : callRun[k] = r => approval[k] # "PENDING"
  /\ Move(r, {"WAITING_APPROVAL"}, "RUNNING")
  /\ UNCHANGED <<runAgent, approval, callRun, execs>>

\* After a restart the approvals nobody can act on any more are closed.
CloseApprovals(K) ==
  /\ \A k \in K : /\ approval[k] = "PENDING"
                  /\ callRun[k] \in Runs /\ runState[callRun[k]] \in TerminalStates
  /\ approval' = [k \in Calls |-> IF k \in K THEN "DENIED" ELSE approval[k]]
  /\ UNCHANGED <<runState, runAgent, callRun, execs>>

Next ==
  \/ \E r \in Runs :
       \/ \E a \in Agents : Create(r, a)
       \/ Queue(r) \/ Begin(r) \/ Complete(r) \/ Fail(r) \/ Resume(r)
       \/ \E K \in SUBSET Calls : RequestCalls(r, K)
  \/ \E k \in Calls :
       \/ AskOperator(k) \/ Execute(k)
       \/ \E verdict \in {"APPROVED", "DENIED"} : Decide(k, verdict)
  \/ \E K \in SUBSET Calls : CloseApprovals(K)

Spec == Init /\ [][Next]_lifeVars
=============================================================================
