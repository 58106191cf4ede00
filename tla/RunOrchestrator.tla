--------------------------- MODULE RunOrchestrator ---------------------------
(***************************************************************************)
(* The run orchestrator of the control plane                                *)
(* (apps/control-plane/src/lib/run-orchestrator.ts): the agentic loop of a   *)
(* run, the approval gate, stop, and recovery after a restart.              *)
(*                                                                         *)
(* The process is single threaded.  What is concurrent are its promise      *)
(* chains: the continuation of an HTTP request or of a run, suspended at an *)
(* await.  A chain has a program counter naming the await it is suspended   *)
(* at; an action is what the chain does from there to its next await.       *)
(* SQLite is called synchronously, so awaits of the repositories do not let *)
(* other requests in and are not program counters.  The awaits that do are  *)
(*   - the git and file system calls before a provider request,             *)
(*   - the provider request and the pause before it is retried,             *)
(*   - the execution of a tool,                                             *)
(*   - a coordination refresh, but only when it asks the synthesis model    *)
(*     (coordination-synthesizer.ts), that is, when the process was started *)
(*     with a key for it (synthesizes).  Without, a refresh returns before  *)
(*     anything else runs; with, anything may happen while it is under way. *)
(* The runs and approvals are rows of the database and survive a crash; the *)
(* maps activeRuns and pendingApprovals, the chains and the adapters'       *)
(* sessions do not.                                                         *)
(*                                                                         *)
(* Left out: prompts, transcripts, costs and event payloads; the creation   *)
(* of an adapter session on first use; the tool that keeps running after    *)
(* its 60 s timeout; the summary of a completed run into agent memory.      *)
(***************************************************************************)
EXTENDS Naturals, FiniteSets

CONSTANTS
  Agents,              \* agents of the workspace
  Calls,               \* tool call ids
  RequiresApproval,    \* calls of a tool for which toolBroker.requiresApproval
  Chains,              \* promise chains
  NoAgent, NoChain, NoCall, \* absent values
  MaxToolSteps,        \* MAX_TOOL_STEPS
  MaxSendAttempts,     \* MAX_SEND_RETRY_ATTEMPTS
  Synthesis,           \* the values of synthesizes a process may be started with
  GitMayFail,          \* can git or the file system fail before a request?
  Batches,             \* may a provider answer with several tool calls?
  CoordinatorUnblocks, \* may resumeBlockedAgents return an agent?
  PendingOnly,         \* does the operator decide listed (PENDING) approvals only?
  MaxRuns, MaxStops, MaxDecisions, MaxCrashes   \* bounds of the environment

ASSUME ConstantsAssumption ==
  /\ RequiresApproval \subseteq Calls
  /\ IsFiniteSet(Chains)
  /\ NoAgent \notin Agents /\ NoChain \notin Chains /\ NoCall \notin Calls
  /\ {MaxToolSteps, MaxSendAttempts, MaxRuns, MaxStops, MaxDecisions, MaxCrashes} \subseteq Nat
  /\ Synthesis \subseteq BOOLEAN
  /\ {GitMayFail, Batches, CoordinatorUnblocks, PendingOnly} \subseteq BOOLEAN

Runs == 1..MaxRuns            \* ordered as their created_at

VARIABLES
  created,            \* number of runs created
  runState, runAgent, \* the agent_runs rows
  callState, callRun, \* the tool_calls rows
  held,               \* agents in the coordination row's blockedAgents
  approval,           \* the approval_requests row of each call: its status
  activeRuns,         \* in memory: absent, or the stopped flag of the entry
  pendingApprovals,   \* in memory: 0 if absent, or the nextIteration to resume at
  pc,                 \* the await each chain is suspended at
  task,               \* what each chain is working on
  gen,                \* the chain whose request an agent's adapter session serves
  aborted,            \* chains whose request was interrupted
  mode,               \* "up", or "recovering" while a restart recovers runs
  unrecovered,        \* agents whose runs the recovery has not looked at
  errored,            \* runs the recovery has failed (erroredRunIds)
  synthesizes,        \* the process has a key for the synthesis model
  execs, grants, denials, \* history: executions and decisions per call
  stops, crashes      \* how much of the environment's budget is used

runs    == <<created, runAgent, held>>
rows    == <<runs, runState, callState, callRun, approval>>
memory  == <<activeRuns, pendingApprovals>>
session == <<gen, aborted>>
restart == <<mode, unrecovered, errored, synthesizes>>
history == <<execs, grants, denials>>
budget  == <<stops, crashes>>
calls   == <<callState, callRun, approval, pendingApprovals, history>>
vars    == <<rows, memory, pc, task, session, restart, history, budget>>

ActiveStates   == {"CREATED", "QUEUED", "RUNNING", "WAITING_APPROVAL"}
TerminalStates == {"COMPLETED", "ERROR", "STOPPED"}
CallStates     == {"none", "requested", "pending_approval", "running", "completed", "error", "denied"}

\* Awaits of a refresh: on their own they do not let another request in.
RefreshPcs == {"gate", "answer", "complete", "request", "gating", "report", "fail",
               "decide", "decided", "stopping"}
Pcs == RefreshPcs \cup {"idle", "prepare", "send", "backoff", "tool", "regate", "grantedTool"}
Tasks == [run : Runs \cup {0}, call : Calls \cup {NoCall}, iter : Nat, nested : BOOLEAN,
          tries : Nat, verdict : {"none", "approve", "deny"}]

RunsTyped ==
  /\ created \in 0..MaxRuns
  /\ runState \in [Runs -> ActiveStates \cup TerminalStates \cup {"NONE"}]
  /\ runAgent \in [Runs -> Agents \cup {NoAgent}]
  /\ activeRuns \in [Runs -> {"absent", "live", "stopped"}]
  /\ held \subseteq Agents
CallsTyped ==
  /\ callState \in [Calls -> CallStates]
  /\ callRun \in [Calls -> Runs \cup {0}]
  /\ approval \in [Calls -> {"none", "PENDING", "APPROVED", "DENIED"}]
  /\ pendingApprovals \in [Calls -> Nat]
  /\ execs \in [Calls -> Nat] /\ grants \in [Calls -> Nat] /\ denials \in [Calls -> Nat]
ChainsTyped ==
  /\ pc \in [Chains -> Pcs]
  /\ task \in [Chains -> Tasks]
ProcessTyped ==
  /\ gen \in [Agents -> Chains \cup {NoChain}]
  /\ aborted \subseteq Chains
  /\ mode \in {"up", "recovering"} /\ unrecovered \subseteq Agents /\ errored \subseteq Runs
  /\ synthesizes \in BOOLEAN
  /\ stops \in 0..MaxStops /\ crashes \in 0..MaxCrashes
TypeOK == RunsTyped /\ CallsTyped /\ ChainsTyped /\ ProcessTyped

NoTask == [run |-> 0, call |-> NoCall, iter |-> 0, nested |-> FALSE, tries |-> 0, verdict |-> "none"]

Init ==
  /\ created = 0
  /\ runState = [r \in Runs |-> "NONE"]
  /\ runAgent = [r \in Runs |-> NoAgent]
  /\ callState = [k \in Calls |-> "none"]
  /\ callRun = [k \in Calls |-> 0]
  /\ held = {}
  /\ approval = [k \in Calls |-> "none"]
  /\ activeRuns = [r \in Runs |-> "absent"]
  /\ pendingApprovals = [k \in Calls |-> 0]
  /\ pc = [c \in Chains |-> "idle"]
  /\ task = [c \in Chains |-> NoTask]
  /\ gen = [a \in Agents |-> NoChain]
  /\ aborted = {}
  /\ mode = "up" /\ unrecovered = {} /\ errored = {}
  /\ synthesizes \in Synthesis
  /\ execs = [k \in Calls |-> 0]
  /\ grants = [k \in Calls |-> 0]
  /\ denials = [k \in Calls |-> 0]
  /\ stops = 0 /\ crashes = 0

-----------------------------------------------------------------------------
(* Scheduling, and the helpers the handlers share.                          *)

\* No chain other than those in C is in the middle of the running macrotask.
Quiet(C) == mode = "up" /\ (synthesizes \/ \A d \in Chains \ C : pc[d] \notin RefreshPcs)

At(c, p) == pc[c] = p /\ Quiet({c})
Goto(c, p) == pc' = [pc EXCEPT ![c] = p]
Finish(c) == Goto(c, "idle") /\ task' = [task EXCEPT ![c] = NoTask]
RunOf(c) == task[c].run
AgentOf(c) == runAgent[RunOf(c)]

\* The rows' own operations: each is one statement of the database.
SetRunState(r, s) == runState' = [runState EXCEPT ![r] = s]
SetCallStatus(k, s) == callState' = [callState EXCEPT ![k] = s]
AskForApproval(k) == approval' = [approval EXCEPT ![k] = "PENDING"]
ResolveApproval(k, s) == approval' = [approval EXCEPT ![k] = s]
ListedPending == {k \in Calls : approval[k] = "PENDING"}
QueuedForAgent(a) == {q \in Runs : /\ runAgent[q] = a /\ runState[q] = "QUEUED"
                                 /\ \A r \in Runs : (runAgent[r] = a /\ r > q) => runState[r] # "QUEUED"}

\* What a chain that starts to work on r carries along.
TaskOn(r) == [NoTask EXCEPT !.run = r]

\* Fault: the failure is not written to the run.
FailRun_NotWritten(c) == Goto(c, "fail") /\ UNCHANGED runState

\* The catch block of continueRun, which also is its step limit branch.
FailRun(c) == SetRunState(RunOf(c), "ERROR") /\ Goto(c, "fail")

\* Fault: the step limit is off by one more.
ContinueRun_LateLimit(c, iteration, nested, rs) ==
  LET r == RunOf(c) IN
  \/ activeRuns[r] # "live" /\ runState' = rs /\ Finish(c)
  \/ /\ activeRuns[r] = "live" /\ iteration > MaxToolSteps + 1
     /\ runState' = [rs EXCEPT ![r] = "ERROR"] /\ Goto(c, "fail") /\ UNCHANGED task
  \/ /\ activeRuns[r] = "live" /\ iteration <= MaxToolSteps + 1
     /\ runState' = rs /\ Goto(c, "prepare")
     /\ task' = [task EXCEPT ![c] = [TaskOn(r) EXCEPT !.iter = iteration, !.nested = nested]]

\* continueRun up to its first await: nothing if the run was stopped or dropped,
\* the step limit, or the preparation of a provider request.  `nested' tells
\* a call made inside the try block of the previous iteration from one made
\* by startRun or resumeAfterApproval.  rs is runState as the caller left it.
ContinueRun(c, iteration, nested, rs) ==
  LET r == RunOf(c) IN
  \/ /\ activeRuns[r] # "live"
     /\ runState' = rs /\ Finish(c)
  \/ /\ activeRuns[r] = "live" /\ iteration > MaxToolSteps
     /\ runState' = [rs EXCEPT ![r] = "ERROR"] /\ Goto(c, "fail") /\ UNCHANGED task
  \/ /\ activeRuns[r] = "live" /\ iteration <= MaxToolSteps
     /\ runState' = rs /\ Goto(c, "prepare")
     /\ task' = [task EXCEPT ![c] = [TaskOn(r) EXCEPT !.iter = iteration, !.nested = nested]]

\* resumeUnblockedAgents continues the latest QUEUED run of an agent that the
\* coordinator takes off its blockedAgents; it is named once, when that happens.
ResumeQueued(q) ==
  /\ CoordinatorUnblocks
  /\ runAgent[q] \in held /\ held' = held \ {runAgent[q]}
  /\ q \in QueuedForAgent(runAgent[q])

-----------------------------------------------------------------------------
(* startRun                                                                 *)

\* Fault: a QUEUED run does not count as a run in progress.
StartRun_OverQueued(c, a) ==
  /\ Quiet({}) /\ pc[c] = "idle" /\ created < MaxRuns
  /\ \A r \in Runs : runAgent[r] = a => runState[r] \notin ActiveStates \ {"QUEUED"}
  /\ created' = created + 1
  /\ SetRunState(created', "CREATED")
  /\ runAgent' = [runAgent EXCEPT ![created'] = a]
  /\ activeRuns' = [activeRuns EXCEPT ![created'] = "live"]
  /\ task' = [task EXCEPT ![c] = TaskOn(created')]
  /\ Goto(c, "gate")
  /\ UNCHANGED <<held, calls, session, restart, budget>>

StartRun(c, a) ==
  /\ Quiet({}) /\ pc[c] = "idle" /\ created < MaxRuns
  /\ \A r \in Runs : runAgent[r] = a => runState[r] \notin ActiveStates
  /\ LET r == created + 1 IN
       /\ created' = r
       /\ SetRunState(r, "CREATED")
       /\ runAgent' = [runAgent EXCEPT ![r] = a]
       /\ activeRuns' = [activeRuns EXCEPT ![r] = "live"]
       /\ task' = [task EXCEPT ![c] = TaskOn(r)]
  /\ Goto(c, "gate")
  /\ UNCHANGED <<held, calls, session, restart, budget>>

\* checkCanRun: the coordinator lets the run go, or holds it in QUEUED.
GateOpen(c) ==
  /\ At(c, "gate")
  /\ held' = held \ {AgentOf(c)}
  /\ ContinueRun(c, 0, FALSE, runState)
  /\ UNCHANGED <<created, runAgent, activeRuns, calls, session, restart, budget>>

GateClosed(c) ==
  /\ At(c, "gate")
  /\ activeRuns' = [activeRuns EXCEPT ![RunOf(c)] = "absent"]
  /\ held' = held \cup {AgentOf(c)}
  /\ SetRunState(RunOf(c), "QUEUED")
  /\ Finish(c)
  /\ UNCHANGED <<created, runAgent, calls, session, restart, budget>>

-----------------------------------------------------------------------------
(* continueRun: the provider request                                        *)

\* A session serves one request: a second one is refused (AdapterBusyError,
\* not retried) and fails the run.
Request(c) ==
  \/ /\ gen[AgentOf(c)] = NoChain
     /\ gen' = [gen EXCEPT ![AgentOf(c)] = c]
     /\ Goto(c, "send")
     /\ SetRunState(RunOf(c), "RUNNING")
  \/ /\ gen[AgentOf(c)] # NoChain
     /\ FailRun(c)
     /\ UNCHANGED gen

Send(c) ==
  /\ At(c, "prepare")
  /\ Request(c)
  /\ UNCHANGED <<runs, activeRuns, calls, task, aborted, restart, budget>>

\* Thrown outside the try block: the previous iteration catches it if there
\* is one, else the handler of startRun or resumeAfterApproval, which only
\* writes the state.
PrepareFails(c) ==
  /\ At(c, "prepare") /\ GitMayFail
  /\ SetRunState(RunOf(c), "ERROR")
  /\ \/ task[c].nested /\ Goto(c, "fail") /\ UNCHANGED task
     \/ ~task[c].nested /\ Finish(c)
  /\ UNCHANGED <<runs, activeRuns, calls, session, restart, budget>>

\* Fault: the session is not set free when the request is over.
Release_Leak(c) == aborted' = aborted \ {c} /\ UNCHANGED gen

Release(c) ==
  /\ gen' = [gen EXCEPT ![AgentOf(c)] = NoChain]
  /\ aborted' = aborted \ {c}

Responding(c) == At(c, "send") /\ c \notin aborted

\* Fault: the attempts are not counted.
SendRetryLater_Uncounted(c) ==
  /\ Responding(c) /\ task[c].tries + 1 < MaxSendAttempts
  /\ Release(c)
  /\ Goto(c, "backoff")
  /\ UNCHANGED <<rows, memory, task, restart, history, budget>>

SendRetryLater(c) ==
  /\ Responding(c) /\ task[c].tries + 1 < MaxSendAttempts
  /\ Release(c)
  /\ task' = [task EXCEPT ![c].tries = @ + 1]
  /\ Goto(c, "backoff")
  /\ UNCHANGED <<rows, memory, restart, history, budget>>

\* The retry does not look at activeRuns again; the state is already RUNNING
\* unless a stop has changed it meanwhile, and is not written again.
Resend(c) ==
  /\ At(c, "backoff")
  /\ \/ /\ gen[AgentOf(c)] = NoChain
        /\ gen' = [gen EXCEPT ![AgentOf(c)] = c]
        /\ Goto(c, "send")
        /\ UNCHANGED runState
     \/ /\ gen[AgentOf(c)] # NoChain
        /\ FailRun(c)
        /\ UNCHANGED gen
  /\ UNCHANGED <<runs, activeRuns, calls, task, aborted, restart, budget>>

\* A permanent error, the last attempt, or an answer with neither text nor
\* calls, which is also what an interrupted request returns.
SendFails(c) ==
  /\ At(c, "send")
  /\ Release(c)
  /\ FailRun(c)
  /\ UNCHANGED <<runs, activeRuns, calls, task, restart, budget>>

Answer(c) ==
  /\ Responding(c)
  /\ Release(c)
  /\ Goto(c, "answer")
  /\ UNCHANGED <<rows, memory, task, restart, history, budget>>

-----------------------------------------------------------------------------
(* continueRun: what the answer asks for                                    *)

Complete(c) ==
  /\ At(c, "answer")
  /\ SetRunState(RunOf(c), "COMPLETED")
  /\ Goto(c, "complete")
  /\ UNCHANGED <<runs, activeRuns, calls, task, session, restart, budget>>

\* onRunCompleted, resumeUnblockedAgents and the removal from activeRuns.  A run
\* the coordinator releases here is started by the same chain.
Completed(c) ==
  /\ At(c, "complete")
  /\ \/ /\ activeRuns' = [activeRuns EXCEPT ![RunOf(c)] = "absent"]
        /\ Finish(c) /\ UNCHANGED held
     \/ \E q \in Runs :
          /\ ResumeQueued(q)
          /\ activeRuns' = [activeRuns EXCEPT ![q] = "live", ![RunOf(c)] = "absent"]
          /\ task' = [task EXCEPT ![c] = TaskOn(q)] /\ Goto(c, "prepare")
  /\ UNCHANGED <<created, runState, runAgent, calls, session, restart, budget>>

CreateCalls(c, K) ==
  /\ \A k \in K : callState[k] = "none"
  /\ callState' = [k \in Calls |-> IF k \in K THEN "requested" ELSE callState[k]]
  /\ callRun' = [k \in Calls |-> IF k \in K THEN RunOf(c) ELSE callRun[k]]
  /\ UNCHANGED <<runs, approval, memory, session, restart, history, budget>>

RequestTool(c, k) ==
  /\ At(c, "answer")
  /\ CreateCalls(c, {k})
  /\ task' = [task EXCEPT ![c].call = k]
  /\ Goto(c, "request")
  /\ UNCHANGED runState

\* Several calls in one answer: their TOOL_CALL_STARTED events are appended by
\* Promise.all, the second append begins a transaction inside the first one,
\* SQLite refuses, and the run fails with the calls left "requested".
RequestBatch(c, k1, k2) ==
  /\ Batches /\ k1 # k2
  /\ At(c, "answer")
  /\ CreateCalls(c, {k1, k2})
  /\ FailRun(c)
  /\ UNCHANGED task

\* Fault: the run is not moved to WAITING_APPROVAL.
Gate_StaysRunning(c) ==
  /\ At(c, "request") /\ task[c].call \in RequiresApproval
  /\ AskForApproval(task[c].call)
  /\ SetCallStatus(task[c].call, "pending_approval")
  /\ Goto(c, "gating")
  /\ UNCHANGED <<runs, runState, callRun, memory, task, session, restart, history, budget>>

\* The approval row is written before the refresh, the entry that makes the
\* approval resumable after it.
Gate(c) ==
  /\ At(c, "request") /\ task[c].call \in RequiresApproval
  /\ AskForApproval(task[c].call)
  /\ SetCallStatus(task[c].call, "pending_approval")
  /\ SetRunState(RunOf(c), "WAITING_APPROVAL")
  /\ Goto(c, "gating")
  /\ UNCHANGED <<runs, callRun, memory, task, session, restart, history, budget>>

Gated(c) ==
  /\ At(c, "gating")
  /\ pendingApprovals' = [pendingApprovals EXCEPT ![task[c].call] = task[c].iter + 1]
  /\ Finish(c)
  /\ UNCHANGED <<rows, activeRuns, session, restart, history, budget>>

RunTool(c, p) ==
  /\ SetCallStatus(task[c].call, "running")
  /\ execs' = [execs EXCEPT ![task[c].call] = @ + 1]
  /\ Goto(c, p)

AutoExecute(c) ==
  /\ At(c, "request") /\ task[c].call \notin RequiresApproval
  /\ RunTool(c, "tool")
  /\ UNCHANGED <<runs, runState, callRun, approval, memory, task, session,
                 restart, grants, denials, budget>>

\* Fault: the result is not recorded.
ToolFinishes_Unrecorded(c) ==
  /\ \/ At(c, "tool") /\ Goto(c, "report")
     \/ At(c, "grantedTool") /\ Goto(c, "decided")
  /\ UNCHANGED <<rows, memory, task, session, restart, history, budget>>

\* The tool succeeds, fails or times out; handleToolResult records it.
ToolFinishes(c) ==
  /\ \/ At(c, "tool") /\ Goto(c, "report")
     \/ At(c, "grantedTool") /\ Goto(c, "decided")
  /\ \E s \in {"completed", "error"} :
       SetCallStatus(task[c].call, s)
  /\ UNCHANGED <<runs, runState, callRun, approval, memory, task, session,
                 restart, history, budget>>

NextIteration(c) ==
  /\ At(c, "report")
  /\ ContinueRun(c, task[c].iter + 1, TRUE, runState)
  /\ UNCHANGED <<runs, activeRuns, calls, session, restart, budget>>

\* Fault: the entry of activeRuns is left behind.
Failed_Leak(c) ==
  /\ At(c, "fail")
  /\ Finish(c)
  /\ UNCHANGED <<rows, memory, session, restart, history, budget>>

\* The end of the catch block and of the limit branch.
Failed(c) ==
  /\ At(c, "fail")
  /\ activeRuns' = [activeRuns EXCEPT ![RunOf(c)] = "absent"]
  /\ Finish(c)
  /\ UNCHANGED <<rows, pendingApprovals, session, restart, history, budget>>

-----------------------------------------------------------------------------
(* approve, deny and resumeAfterApproval                                    *)

\* approvals.resolve looks neither at the status it overwrites nor at the run.
Decide(c, k, verdict) ==
  /\ Quiet({}) /\ pc[c] = "idle"
  /\ IF PendingOnly THEN k \in ListedPending ELSE approval[k] # "none"
  /\ grants[k] + denials[k] < MaxDecisions
  /\ \/ /\ verdict = "approve"
        /\ ResolveApproval(k, "APPROVED")
        /\ grants' = [grants EXCEPT ![k] = @ + 1] /\ UNCHANGED denials
     \/ /\ verdict = "deny"
        /\ ResolveApproval(k, "DENIED")
        /\ denials' = [denials EXCEPT ![k] = @ + 1] /\ UNCHANGED grants
  /\ task' = [task EXCEPT ![c] = [TaskOn(callRun[k]) EXCEPT !.call = k, !.verdict = verdict]]
  /\ Goto(c, "decide")
  /\ UNCHANGED <<runs, runState, callState, callRun, memory, session, restart,
                 execs, budget>>

\* After the refresh and resumeUnblockedAgents: the pending entry is looked up, but
\* stays in the map while git is asked for the worktree.  Without an entry the
\* approval "is no longer resumable" and nothing more happens.
ResumeAfterApproval(c) ==
  /\ At(c, "decide")
  /\ LET next == pendingApprovals[task[c].call]
         pc1 == [pc EXCEPT ![c] = IF next = 0 THEN "idle" ELSE "regate"]
         task1 == [task EXCEPT ![c] = IF next = 0 THEN NoTask ELSE [@ EXCEPT !.iter = next]]
     IN \/ pc' = pc1 /\ task' = task1 /\ UNCHANGED <<activeRuns, held>>
        \/ \E q \in Runs, d \in Chains \ {c} :
             /\ ResumeQueued(q) /\ pc[d] = "idle"
             /\ pc' = [pc1 EXCEPT ![d] = "prepare"]
             /\ task' = [task1 EXCEPT ![d] = TaskOn(q)]
             /\ activeRuns' = [activeRuns EXCEPT ![q] = "live"]
  /\ UNCHANGED <<created, runState, runAgent, calls, session, restart, budget>>

\* git fails: the request answers 500, the decision stays, nobody resumes the run.
RegateFails(c) ==
  /\ At(c, "regate") /\ GitMayFail
  /\ Finish(c)
  /\ UNCHANGED <<rows, memory, session, restart, history, budget>>

\* Fault: the decision is not looked at.
ExecuteApproved_Unasked(c) ==
  /\ At(c, "regate")
  /\ pendingApprovals' = [pendingApprovals EXCEPT ![task[c].call] = 0]
  /\ RunTool(c, "grantedTool")
  /\ UNCHANGED <<runs, runState, callRun, approval, activeRuns, task, session,
                 restart, grants, denials, budget>>

ExecuteApproved(c) ==
  /\ At(c, "regate") /\ task[c].verdict = "approve"
  /\ pendingApprovals' = [pendingApprovals EXCEPT ![task[c].call] = 0]
  /\ RunTool(c, "grantedTool")
  /\ UNCHANGED <<runs, runState, callRun, approval, activeRuns, task, session,
                 restart, grants, denials, budget>>

\* Fault: the call gets the status of the approval, which is spelled otherwise.
RefuseDenied_Misspelled(c) ==
  /\ At(c, "regate") /\ task[c].verdict = "deny"
  /\ pendingApprovals' = [pendingApprovals EXCEPT ![task[c].call] = 0]
  /\ SetCallStatus(task[c].call, approval[task[c].call])
  /\ Goto(c, "decided")
  /\ UNCHANGED <<runs, runState, callRun, approval, activeRuns, task, session,
                 restart, history, budget>>

\* Fault: the run is not continued after a denial.
RefuseDenied_Dropped(c) ==
  /\ At(c, "regate") /\ task[c].verdict = "deny"
  /\ pendingApprovals' = [pendingApprovals EXCEPT ![task[c].call] = 0]
  /\ SetCallStatus(task[c].call, "denied")
  /\ Finish(c)
  /\ UNCHANGED <<runs, runState, callRun, approval, activeRuns, session,
                 restart, history, budget>>

RefuseDenied(c) ==
  /\ At(c, "regate") /\ task[c].verdict = "deny"
  /\ pendingApprovals' = [pendingApprovals EXCEPT ![task[c].call] = 0]
  /\ SetCallStatus(task[c].call, "denied")
  /\ Goto(c, "decided")
  /\ UNCHANGED <<runs, runState, callRun, approval, activeRuns, task, session,
                 restart, history, budget>>

\* The run is RUNNING again before continueRun looks whether anybody runs it.
Resume(c) ==
  /\ At(c, "decided")
  /\ ContinueRun(c, task[c].iter, FALSE, [runState EXCEPT ![RunOf(c)] = "RUNNING"])
  /\ UNCHANGED <<runs, activeRuns, calls, session, restart, budget>>

-----------------------------------------------------------------------------
(* stopRun, interrupt, and handoffs that resume queued runs                 *)

\* runtimeManager.interrupt aborts whatever request the agent's session serves.
Abort(a) == aborted' = IF gen[a] = NoChain THEN aborted ELSE aborted \cup {gen[a]}

StopRun(c, r) ==
  /\ Quiet({}) /\ pc[c] = "idle" /\ r <= created /\ stops < MaxStops
  /\ stops' = stops + 1
  /\ activeRuns' = [activeRuns EXCEPT ![r] = IF @ = "live" THEN "stopped" ELSE @]
  /\ Abort(runAgent[r])
  /\ SetRunState(r, "STOPPED")
  /\ task' = [task EXCEPT ![c] = TaskOn(r)]
  /\ Goto(c, "stopping")
  /\ UNCHANGED <<runs, calls, gen, restart, crashes>>

Stopped(c) ==
  /\ At(c, "stopping")
  /\ activeRuns' = [activeRuns EXCEPT ![RunOf(c)] = "absent"]
  /\ Finish(c)
  /\ UNCHANGED <<rows, pendingApprovals, session, restart, history, budget>>

\* The operator interrupts an agent, not a run.
Interrupt(a) ==
  /\ Quiet({}) /\ stops < MaxStops /\ gen[a] # NoChain
  /\ stops' = stops + 1
  /\ Abort(a)
  /\ UNCHANGED <<rows, memory, pc, task, gen, restart, history, crashes>>

\* assignHandoff and createAgentFromHandoff end with resumeUnblockedAgents.
AssignHandoff(c, q) ==
  /\ Quiet({}) /\ pc[c] = "idle" /\ ResumeQueued(q)
  /\ activeRuns' = [activeRuns EXCEPT ![q] = "live"]
  /\ task' = [task EXCEPT ![c] = TaskOn(q)] /\ Goto(c, "prepare")
  /\ UNCHANGED <<created, runState, runAgent, calls, session, restart, budget>>

-----------------------------------------------------------------------------
(* A crash, and recoverInterruptedRuns when the process is back             *)

Crash ==
  /\ crashes < MaxCrashes /\ crashes' = crashes + 1
  /\ activeRuns' = [r \in Runs |-> "absent"]
  /\ pendingApprovals' = [k \in Calls |-> 0]
  /\ pc' = [c \in Chains |-> "idle"] /\ task' = [c \in Chains |-> NoTask]
  /\ gen' = [a \in Agents |-> NoChain] /\ aborted' = {}
  /\ mode' = "recovering" /\ unrecovered' = Agents /\ errored' = {}
  /\ synthesizes' \in Synthesis
  /\ UNCHANGED <<rows, history, stops>>

\* Fault: runs in the states S are not looked for.
RecoverRunExcept(a, S) ==
  /\ mode = "recovering" /\ a \in unrecovered
  /\ unrecovered' = unrecovered \ {a}
  /\ LET active == {r \in Runs : runAgent[r] = a /\ runState[r] \in ActiveStates \ S}
     IN \/ active = {} /\ UNCHANGED <<runState, errored>>
        \/ \E r \in active :
             /\ \A q \in active : q <= r
             /\ SetRunState(r, "ERROR")
             /\ errored' = errored \cup {r}
  /\ UNCHANGED <<runs, activeRuns, calls, pc, task, session, mode, synthesizes, budget>>
RecoverRun_NotWaiting(a) == RecoverRunExcept(a, {"WAITING_APPROVAL"})
RecoverRun_NotQueued(a) == RecoverRunExcept(a, {"QUEUED"})

\* Only the latest run in progress of an agent is looked at.
RecoverRun(a) ==
  /\ mode = "recovering" /\ a \in unrecovered
  /\ unrecovered' = unrecovered \ {a}
  /\ LET active == {r \in Runs : runAgent[r] = a /\ runState[r] \in ActiveStates}
     IN \/ active = {} /\ UNCHANGED <<runState, errored>>
        \/ \E r \in active :
             /\ \A q \in active : q <= r
             /\ SetRunState(r, "ERROR")
             /\ errored' = errored \cup {r}
  /\ UNCHANGED <<runs, activeRuns, calls, pc, task, session, mode, synthesizes, budget>>

\* Fault: only old approvals are denied.
RecoverApprovals_OldOnly ==
  /\ mode = "recovering" /\ unrecovered = {}
  /\ \E old \in SUBSET ListedPending :
       approval' = [k \in Calls |-> IF k \in old THEN "DENIED" ELSE approval[k]]
  /\ mode' = "up"
  /\ UNCHANGED <<runs, runState, callState, callRun, memory, pc, task, session,
                 unrecovered, errored, synthesizes, history, budget>>

\* The PENDING approvals of the runs just failed are denied, and others if
\* they are an hour old.  Then the server starts to listen.
RecoverApprovals ==
  /\ mode = "recovering" /\ unrecovered = {}
  /\ \E old \in SUBSET ListedPending :
       approval' = [k \in Calls |->
         IF k \in ListedPending /\ (callRun[k] \in errored \/ k \in old) THEN "DENIED" ELSE approval[k]]
  /\ mode' = "up"
  /\ UNCHANGED <<runs, runState, callState, callRun, memory, pc, task, session,
                 unrecovered, errored, synthesizes, history, budget>>

-----------------------------------------------------------------------------
\* What a chain does on its own: the program's steps and the answers of the
\* provider, git and the tools it waits for.
Work(c) ==
  \/ GateOpen(c) \/ GateClosed(c)
  \/ Send(c) \/ PrepareFails(c) \/ SendRetryLater(c) \/ Resend(c) \/ SendFails(c) \/ Answer(c)
  \/ Complete(c) \/ Completed(c)
  \/ \E k \in Calls : RequestTool(c, k)
  \/ \E k1, k2 \in Calls : RequestBatch(c, k1, k2)
  \/ Gate(c) \/ Gated(c) \/ AutoExecute(c) \/ ToolFinishes(c) \/ NextIteration(c) \/ Failed(c)
  \/ ResumeAfterApproval(c) \/ RegateFails(c) \/ ExecuteApproved(c) \/ RefuseDenied(c) \/ Resume(c)
  \/ Stopped(c)

Recover == (\E a \in Agents : RecoverRun(a)) \/ RecoverApprovals

\* What operators, other HTTP clients and the machine do.
Environment ==
  \/ \E c \in Chains :
       \/ \E a \in Agents : StartRun(c, a)
       \/ \E k \in Calls, verdict \in {"approve", "deny"} : Decide(c, k, verdict)
       \/ \E r \in Runs : StopRun(c, r) \/ AssignHandoff(c, r)
  \/ \E a \in Agents : Interrupt(a)
  \/ Crash

Next == (\E c \in Chains : Work(c)) \/ Recover \/ Environment

Spec == Init /\ [][Next]_vars

\* The event loop serves every chain, a request to a provider ends (the HTTP
\* client gives up after 300 s), git ends, and a tool ends (60 s): every chain
\* gets on.  Nothing is assumed of operators and of crashes.
FairSpec == Spec /\ (\A c \in Chains : WF_vars(Work(c))) /\ WF_vars(Recover)

-----------------------------------------------------------------------------
(* Properties                                                               *)

Lifecycle ==
  INSTANCE RunLifecycle WITH
    runState <- runState, runAgent <- runAgent, approval <- approval,
    callRun <- callRun, execs <- execs

\* Chains, calls and approvals refer to runs that exist, and a chain that deals
\* with a call has one: what keeps the types in the proofs.
CallPcs == {"request", "gating", "tool", "report", "decide", "regate", "grantedTool", "decided"}
RunsHaveAgents == \A r \in Runs : r <= created <=> runAgent[r] \in Agents
CallsHaveRuns ==
  \A k \in Calls : callRun[k] <= created /\ (approval[k] # "none" => callRun[k] # 0)
ChainsHaveRuns ==
  \A c \in Chains :
    /\ IF pc[c] = "idle" THEN task[c] = NoTask ELSE RunOf(c) \in 1..created
    /\ pc[c] \in CallPcs => task[c].call \in Calls /\ callRun[task[c].call] # 0
ReferencesExist == RunsHaveAgents /\ CallsHaveRuns /\ ChainsHaveRuns

\* The decisions that still can execute a call: the requests that carry a grant
\* and have not started the tool.
Carrying(k) == {c \in Chains : /\ pc[c] \in {"decide", "regate"}
                               /\ task[c].call = k /\ task[c].verdict = "approve"}

\* Why no execution is unpaid: executions and carried grants together stay within
\* the grants, a decision is only ever on a call that needs one, and a call that
\* needs none belongs to the one chain that asked for it.
GrantsCover == \A k \in RequiresApproval : execs[k] + Cardinality(Carrying(k)) <= grants[k]
DecisionsAreGated == \A c \in Chains : pc[c] \in {"decide", "regate"} => task[c].call \in RequiresApproval
AutoCallsAreOwned ==
  \A k \in Calls \ RequiresApproval :
    /\ approval[k] = "none" /\ execs[k] <= 1
    /\ \A c \in Chains : task[c].call = k /\ pc[c] = "request" => execs[k] = 0
    /\ \A c, d \in Chains : task[c].call = k /\ task[d].call = k => c = d
FreshCallsAreUnused ==
  \A k \in Calls : callState[k] = "none" =>
    execs[k] = 0 /\ approval[k] = "none" /\ \A c \in Chains : task[c].call # k
GrantsCoverExecutions == GrantsCover /\ DecisionsAreGated /\ AutoCallsAreOwned /\ FreshCallsAreUnused

\* The orchestrator implements the life cycle of runs, approvals and tool
\* executions that RunLifecycle promises.
LifecyclePromise == Lifecycle!Spec

\* A tool that needs the operator is executed at most as often as the operator
\* granted it, any other at most once: no interleaving of decisions, retries,
\* stops and restarts runs a tool that nobody paid for (resumeAfterApproval,
\* continueRun).
ExecutionsAreGranted ==
  \A k \in Calls : execs[k] <= IF k \in RequiresApproval THEN grants[k] ELSE 1

\* An adapter session is held by the one chain that waits for its answer, and by
\* nobody when no chain waits: two runs of an agent never generate at once and
\* no session stays busy after a retry, an interrupt, a stop or a restart.
SessionExclusive ==
  \A a \in Agents, c \in Chains : gen[a] = c <=> (pc[c] = "send" /\ AgentOf(c) = a)

\* An agent never has two runs in progress (findActiveByAgent in startRun).
OneActiveRunPerAgent ==
  \A r, q \in Runs : (/\ {runState[r], runState[q]} \subseteq ActiveStates
                       /\ runAgent[r] = runAgent[q]) => r = q

OnRun(c, r) == pc[c] # "idle" /\ RunOf(c) = r

\* A run in CREATED or RUNNING has a chain that works on it: a run never hangs
\* there with nobody left to move it (the .catch of startRun and approve).
RunningIsServed ==
  mode = "up" => \A r \in Runs : runState[r] \in {"CREATED", "RUNNING"} => \E c \in Chains : OnRun(c, r)

\* The operator can act on every PENDING approval: the entry that resumes its run
\* is in pendingApprovals, or about to be.
PendingIsResumable ==
  mode = "up" =>
    \A k \in Calls : approval[k] = "PENDING" =>
      \/ pendingApprovals[k] # 0
      \/ \E c \in Chains : pc[c] = "gating" /\ task[c].call = k

\* A run in WAITING_APPROVAL has an approval the operator can still decide, or a
\* decision that is being carried out: it never waits for nothing.
WaitingIsDecidable ==
  mode = "up" =>
    \A r \in Runs : runState[r] = "WAITING_APPROVAL" =>
      \/ \E k \in Calls : callRun[k] = r /\ approval[k] = "PENDING"
      \/ \E c \in Chains : OnRun(c, r) /\ pc[c] \in {"decide", "regate", "grantedTool", "decided"}

\* An entry of activeRuns is owned by a chain or by an approval that is waited
\* for: nothing leaks, and a later run of the agent is not mistaken for it.
ActiveRunIsOwned ==
  \A r \in Runs : activeRuns[r] # "absent" =>
    \/ \E c \in Chains : OnRun(c, r)
    \/ \E k \in Calls : callRun[k] = r /\ pendingApprovals[k] # 0

\* When the recovery is done no run is left in progress, though it looks only at
\* the latest one of each agent (recoverInterruptedRuns).
RecoveryLeavesNoActiveRun ==
  (mode = "recovering" /\ unrecovered = {}) => \A r \in Runs : runState[r] \notin ActiveStates

\* COMPLETED, ERROR and STOPPED have no way out (the run state table of
\* ARCHITECTURE.md).
TerminalStatesAreFinal ==
  [][\A r \in Runs : runState[r] \in TerminalStates => runState'[r] = runState[r]]_vars

\* A run requests tools in at most MaxToolSteps iterations ("12 tool iterations").
AtMostMaxToolSteps == \A r \in Runs : Cardinality({k \in Calls : callRun[k] = r}) <= MaxToolSteps

\* What the code guarantees instead: one more.
AtMostOneMoreToolStep == \A r \in Runs : Cardinality({k \in Calls : callRun[k] = r}) <= MaxToolSteps + 1

\* A run that ended has executed or refused every tool call it asked for
\* ("execute all tool calls concurrently" in continueRun).
NoCallLeftBehind ==
  \A k \in Calls : callState[k] \in {"requested", "pending_approval", "running"} =>
    runState[callRun[k]] \notin {"COMPLETED", "ERROR"}

\* What the process remembers agrees with the tables, as long as refreshes let nothing
\* in: a PENDING approval has the entry its decision resumes, a waiting run an approval
\* that can be decided, and the entries of activeRuns are those of runs in progress.
MapsAgree == ~synthesizes => PendingIsResumable /\ WaitingIsDecidable /\ ActiveRunIsOwned

\* No agent ever has two runs in progress, also when the coordinator holds and releases
\* them (findActiveByAgent in startRun); so that recovery, which looks at the latest
\* run of each agent only, misses none (recoverInterruptedRuns).
OneRunAtATime == OneActiveRunPerAgent /\ RecoveryLeavesNoActiveRun

\* Though refreshes let other requests in, no run is left RUNNING without a chain; it
\* stays within one step of its limit and, unless the process crashed, ends with each of
\* its calls executed or refused (continueRun).
RunsAreWorkedOff ==
  RunningIsServed /\ AtMostOneMoreToolStep /\ (crashes = 0 => NoCallLeftBehind)

\* A run in CREATED or RUNNING gets out of it: it completes, fails or asks the
\* operator, whatever the provider answers.
RunsSettle ==
  \A r \in Runs : runState[r] \in {"CREATED", "RUNNING"} ~> runState[r] \notin {"CREATED", "RUNNING"}

\* A run leaves WAITING_APPROVAL after the decision ("RUNNING (after decision)").
WaitingDecided(r) ==
  runState[r] = "WAITING_APPROVAL" /\ \A k \in Calls : callRun[k] = r => approval[k] # "PENDING"
DecisionsTakeEffect == \A r \in Runs : WaitingDecided(r) ~> ~WaitingDecided(r)
=============================================================================
