---------------------------- MODULE AgentSession -----------------------------
(***************************************************************************)
(* One agent and its provider sessions: the runtime manager                 *)
(* (lib/runtime-manager.ts) between the requests for the agent and the      *)
(* adapter that keeps the conversation (packages/adapter-claude, -codex and *)
(* -mock).                                                                  *)
(*                                                                         *)
(* A chain is a caller of start or sendInput: an HTTP request or the run    *)
(* orchestrator.  A step is what it does until it waits for something       *)
(* outside: the coordination refresh that loads the context of a new        *)
(* session (it may ask the synthesis model), the answer of the provider,    *)
(* the next bytes of its stream.  While a chain is in the middle of a turn   *)
(* (`Busy') only a crash gets in between.  The turns that chains of one      *)
(* macrotask could give each other are the matter of EventLog.               *)
(*                                                                         *)
(* A conversation is `open' when its last message asks for tools: the       *)
(* provider then takes nothing but their results, and takes results only     *)
(* then.                                                                     *)
(*                                                                         *)
(* Left out: texts, tools, usage and output events (they do not touch the   *)
(* state of the agent), lastKnownState (it only ends up in `from' of events) *)
(* and withRetry of the adapters: it retries what fetch throws when the      *)
(* message has 429 or 503 in it, which no error of fetch has.                *)
(***************************************************************************)
EXTENDS Naturals, FiniteSets

CONSTANTS
  Chains, NoChain,
  Provider,            \* "claude", "codex" or "mock"
  MayFail,             \* may the provider refuse, break off or cut a stream?
  MayAbort,            \* does the operator stop and interrupt?
  MaxSessions, MaxRequests, MaxCrashes

ASSUME AgentSessionAssumption ==
  /\ NoChain \notin Chains
  /\ Provider \in {"claude", "codex", "mock"}
  /\ {MayFail, MayAbort} \subseteq BOOLEAN
  /\ {MaxSessions, MaxRequests, MaxCrashes} \subseteq Nat

VARIABLES
  up,         \* is the process up and recovered?
  state,      \* column state of the agent
  runtimes,   \* the session of the handle in the map of the runtime manager, 0 if none
  sessions,   \* the map of the adapter
  activeRun,  \* the chain that holds each session
  aborted,    \* chains whose abort controller has fired
  history,    \* each session's conversation, as the adapter will send it
  pc, session, wants,  \* of each chain: where it is, with which session, what it came for
  tries,      \* how often the chain asked the provider
  owed,       \* does the caller hold tool calls it will answer?
  made, requests, crashes

memory == <<runtimes, sessions, activeRun, aborted, history>>
chains == <<pc, session, wants, tries>>
limits == <<made, requests, crashes>>
vars   == <<up, state, memory, chains, owed, limits>>

Sessions    == 1..MaxSessions
AgentStates == {"CREATED", "STARTING", "READY", "RUNNING", "WAITING_INPUT", "ERROR", "STOPPED"}
Pcs         == {"idle", "loading", "starting", "sending", "fetching", "streaming"}
Wants       == {"nothing", "start", "text", "results"}

TypeOK ==
  /\ up \in BOOLEAN /\ owed \in BOOLEAN
  /\ state \in AgentStates
  /\ runtimes \in 0..MaxSessions /\ sessions \subseteq Sessions
  /\ activeRun \in [Sessions -> Chains \cup {NoChain}]
  /\ aborted \subseteq Chains
  /\ history \in [Sessions -> {"closed", "open"}]
  /\ pc \in [Chains -> Pcs] /\ session \in [Chains -> 0..MaxSessions] /\ wants \in [Chains -> Wants]
  /\ tries \in [Chains -> 0..1]
  /\ made \in 0..MaxSessions /\ requests \in 0..MaxRequests /\ crashes \in 0..MaxCrashes

Free(x) == [s \in Sessions |-> x]
Each(x) == [c \in Chains |-> x]

Init ==
  /\ up = TRUE /\ state = "CREATED"
  /\ runtimes = 0 /\ sessions = {} /\ activeRun = Free(NoChain) /\ aborted = {} /\ history = Free("closed")
  /\ pc = Each("idle") /\ session = Each(0) /\ wants = Each("nothing") /\ tries = Each(0) /\ owed = FALSE
  /\ made = 0 /\ requests = 0 /\ crashes = 0

\* The event loop is free for another turn.
Idle == up /\ \A c \in Chains : pc[c] \notin {"starting", "sending"}
Busy == up /\ ~Idle

Goto(c, p) == pc' = [pc EXCEPT ![c] = p]
\* The call of the chain returns or throws.
Return(c) ==
  /\ Goto(c, "idle")
  /\ session' = [session EXCEPT ![c] = 0] /\ wants' = [wants EXCEPT ![c] = "nothing"]
  /\ tries' = [tries EXCEPT ![c] = 0]

-----------------------------------------------------------------------------
(* ensureRuntime                                                            *)

\* The runtime of the agent serves a call, if there is one.
FindRuntime(c, w) ==
  \/ /\ runtimes # 0 /\ w # "start"
     /\ wants' = [wants EXCEPT ![c] = w] /\ session' = [session EXCEPT ![c] = runtimes]
     /\ Goto(c, "sending")
  \/ runtimes # 0 /\ w = "start" /\ UNCHANGED <<wants, session, pc>>
  \/ /\ runtimes = 0 /\ made + Cardinality({d \in Chains : pc[d] = "loading"}) < MaxSessions
     /\ wants' = [wants EXCEPT ![c] = w] /\ Goto(c, "loading") /\ UNCHANGED session

\* A call of start or sendInput.  The callers answer tool calls they were given
\* before they go on.
Arrive(c, w) ==
  /\ Idle /\ pc[c] = "idle" /\ requests < MaxRequests
  /\ w = "results" <=> owed
  /\ requests' = requests + 1 /\ owed' = FALSE
  /\ FindRuntime(c, w)
  /\ UNCHANGED <<up, state, memory, tries, made, crashes>>

\* startSession of the adapter.
StartSession(s) == sessions' = sessions \cup {s}

\* Once the context is loaded the chain makes a session of its own, whatever
\* happened since it looked.
CreateSession(c) ==
  /\ Idle /\ pc[c] = "loading" /\ made < MaxSessions
  /\ LET s == made + 1 IN
     /\ made' = s
     /\ StartSession(s) /\ runtimes' = s
     /\ session' = [session EXCEPT ![c] = s]
  /\ state' = "STARTING" /\ Goto(c, "starting")
  /\ UNCHANGED <<up, activeRun, aborted, history, wants, tries, owed, requests, crashes>>

Ready(c) ==
  /\ up /\ pc[c] = "starting" /\ state' = "READY"
  /\ IF wants[c] = "start" THEN Return(c) ELSE Goto(c, "sending") /\ UNCHANGED <<session, wants, tries>>
  /\ UNCHANGED <<up, memory, owed, limits>>

-----------------------------------------------------------------------------
(* sendInput                                                                *)

\* What a request does to the conversation when its answer arrives.
Extend(s, calls) == history' = [history EXCEPT ![s] = IF calls THEN "open" ELSE "closed"]

\* The adapter lets go of the session.
Release(c) ==
  /\ activeRun' = [activeRun EXCEPT ![session[c]] = NoChain] /\ aborted' = aborted \ {c}
  /\ Return(c)

\* RUNNING is written before the adapter says that the session is taken.
RefuseBusy(c) ==
  /\ up /\ pc[c] = "sending" /\ activeRun[session[c]] # NoChain
  /\ state' = "RUNNING" /\ Return(c)
  /\ UNCHANGED <<up, memory, owed, limits>>

\* Fault: the adapter does not look whether the session is taken.
Ask_Anyway(c) ==
  /\ up /\ pc[c] = "sending" /\ Provider # "mock"
  /\ state' = "RUNNING"
  /\ activeRun' = [activeRun EXCEPT ![session[c]] = c]
  /\ Goto(c, "fetching") /\ tries' = [tries EXCEPT ![c] = 1]
  /\ UNCHANGED <<up, runtimes, sessions, aborted, history, session, wants, owed, limits>>

Ask(c) ==
  /\ up /\ pc[c] = "sending" /\ Provider # "mock"
  /\ activeRun[session[c]] = NoChain
  /\ state' = "RUNNING"
  /\ activeRun' = [activeRun EXCEPT ![session[c]] = c]
  /\ Goto(c, "fetching") /\ tries' = [tries EXCEPT ![c] = 1]
  /\ UNCHANGED <<up, runtimes, sessions, aborted, history, session, wants, owed, limits>>

\* The mock answers in the same turn: a task with a command to approve, its
\* result with a handoff, the result of that with a text.
AnswerMock(c, calls) ==
  /\ up /\ pc[c] = "sending" /\ Provider = "mock" /\ (wants[c] = "text" => calls)
  /\ state' = "WAITING_INPUT" /\ Extend(session[c], calls) /\ owed' = calls
  /\ Return(c)
  /\ UNCHANGED <<up, runtimes, sessions, activeRun, aborted, limits>>

Accepts(c) == wants[c] = "results" <=> history[session[c]] = "open"

\* The provider starts to stream.
Stream(c) ==
  /\ Idle /\ pc[c] = "fetching" /\ c \notin aborted /\ Accepts(c)
  /\ Goto(c, "streaming")
  /\ UNCHANGED <<up, state, memory, session, wants, tries, owed, limits>>

\* The whole answer is in.
Finish(c, calls) ==
  /\ Idle /\ pc[c] = "streaming" /\ c \notin aborted
  /\ Extend(session[c], calls) /\ owed' = calls
  /\ state' = "WAITING_INPUT" /\ Release(c)
  /\ UNCHANGED <<up, runtimes, sessions, limits>>

\* The stream ends before its last event.  Claude's adapter keeps what it has;
\* the one of Codex has not seen the id of the response, but returns its calls.
Cut(c, calls) ==
  /\ MayFail /\ Idle /\ pc[c] = "streaming" /\ c \notin aborted
  /\ IF Provider = "claude" THEN Extend(session[c], calls) ELSE UNCHANGED history
  /\ owed' = calls
  /\ state' = "WAITING_INPUT" /\ Release(c)
  /\ UNCHANGED <<up, runtimes, sessions, limits>>

\* Fault: an error leaves the session taken.
Fail_KeepsSession(c) ==
  /\ Idle /\ pc[c] \in {"fetching", "streaming"} /\ c \notin aborted
  /\ MayFail \/ (pc[c] = "fetching" /\ ~Accepts(c))
  /\ state' = "ERROR" /\ aborted' = aborted \ {c} /\ Return(c)
  /\ UNCHANGED <<up, runtimes, sessions, activeRun, history, owed, limits>>

\* The network, the provider (it refuses, or the input does not fit the
\* conversation) or the stream reports an error: the runtime stays.
Fail(c) ==
  /\ Idle /\ pc[c] \in {"fetching", "streaming"} /\ c \notin aborted
  /\ MayFail \/ (pc[c] = "fetching" /\ ~Accepts(c))
  /\ state' = "ERROR" /\ Release(c)
  /\ UNCHANGED <<up, runtimes, sessions, history, owed, limits>>

\* Fault: the signal is not passed to fetch, only the stream heeds it.
Interrupted_InStream(c) ==
  /\ Idle /\ pc[c] = "streaming" /\ c \in aborted
  /\ state' = "WAITING_INPUT" /\ Release(c)
  /\ UNCHANGED <<up, runtimes, sessions, history, owed, limits>>

\* The aborted request returns {}: nothing tells the caller from a silent answer.
Interrupted(c) ==
  /\ Idle /\ pc[c] \in {"fetching", "streaming"} /\ c \in aborted
  /\ state' = "WAITING_INPUT" /\ Release(c)
  /\ UNCHANGED <<up, runtimes, sessions, history, owed, limits>>

-----------------------------------------------------------------------------
(* interrupt, stop, restart                                                 *)

Abort(s) == aborted' = IF Provider = "mock" THEN aborted ELSE aborted \cup ({activeRun[s]} \ {NoChain})

Interrupt ==
  /\ Idle /\ MayAbort /\ runtimes # 0 /\ Abort(runtimes)
  /\ UNCHANGED <<up, state, runtimes, sessions, activeRun, history, chains, owed, limits>>

Stop ==
  /\ Idle /\ MayAbort
  /\ \/ runtimes # 0 /\ Abort(runtimes) /\ sessions' = sessions \ {runtimes} /\ runtimes' = 0
     \/ runtimes = 0 /\ state # "STOPPED" /\ UNCHANGED <<aborted, sessions, runtimes>>
  /\ state' = "STOPPED"
  /\ UNCHANGED <<up, activeRun, history, chains, owed, limits>>

\* The process ends; only the row of the agent stays.
Crash ==
  /\ up /\ crashes < MaxCrashes /\ crashes' = crashes + 1
  /\ up' = FALSE
  /\ runtimes' = 0 /\ sessions' = {} /\ activeRun' = Free(NoChain) /\ aborted' = {} /\ history' = Free("closed")
  /\ pc' = Each("idle") /\ session' = Each(0) /\ wants' = Each("nothing") /\ tries' = Each(0) /\ owed' = FALSE
  /\ UNCHANGED <<state, made, requests>>

\* States of an agent that need a session.  The fourth, IDLE, is written by the
\* scenarios of the mock runner only.
Recoverable == {"STARTING", "READY", "RUNNING"}

\* Fault: READY agents are taken to have kept their session.
Recover_NotReady ==
  /\ ~up /\ up' = TRUE
  /\ state' = IF state \in {"STARTING", "RUNNING"} THEN "ERROR" ELSE state
  /\ UNCHANGED <<memory, chains, owed, limits>>

\* recoverDetachedSessions, before the server listens.
Recover ==
  /\ ~up /\ up' = TRUE
  /\ state' = IF state \in Recoverable THEN "ERROR" ELSE state
  /\ UNCHANGED <<memory, chains, owed, limits>>

-----------------------------------------------------------------------------
Turn(c) ==
  \/ CreateSession(c) \/ Ready(c) \/ RefuseBusy(c) \/ Ask(c) \/ Stream(c) \/ Fail(c) \/ Interrupted(c)
  \/ \E calls \in BOOLEAN : AnswerMock(c, calls) \/ Finish(c, calls) \/ Cut(c, calls)

Next ==
  \/ \E c \in Chains : Turn(c) \/ \E w \in Wants \ {"nothing"} : Arrive(c, w)
  \/ Interrupt \/ Stop \/ Crash \/ Recover

Spec == Init /\ [][Next]_vars

\* The loop serves every chain; fetch gives up a silent provider (its header
\* and body time limits), so that a stream or a failure arrives in the end.
FairSpec == Spec /\ WF_vars(Recover) /\ \A c \in Chains : WF_vars(Turn(c))

-----------------------------------------------------------------------------
Sending(c) == pc[c] \in {"sending", "fetching", "streaming"}

(* The handle of an agent is a session its adapter knows: without it every  *)
(* start, input and stop would throw until the next restart.                *)
HandleIsLive == runtimes # 0 => runtimes \in sessions

(* The row tells what the process does: an agent shown RUNNING has a request *)
(* under way, one shown READY a session.  Busy sessions, errors, aborts,     *)
(* overlapping starts and a crash between two events all keep that.          *)
StateIsTrue ==
  up => /\ state = "RUNNING" => \E c \in Chains : Sending(c)
        /\ state = "READY" => runtimes # 0 \/ \E c \in Chains : session[c] # 0

(* One request at a time extends a conversation, and the chain that holds a  *)
(* session is the one that uses it.                                          *)
SessionServesOne ==
  \A c \in Chains : pc[c] \in {"fetching", "streaming"} => activeRun[session[c]] = c

(* A session is released: every chain that came gets an answer or an error.  *)
RequestsEnd == \A c \in Chains : pc[c] # "idle" ~> pc[c] = "idle"

(* No session is taken for good: an idle agent can be sent input again.      *)
SessionsAreFreed == \A s \in Sessions : activeRun[s] # NoChain ~> activeRun[s] = NoChain

-----------------------------------------------------------------------------
(* What the documents say and the code does not                             *)

(* ARCHITECTURE.md: STOPPED is terminal.  Then only a request that arrives    *)
(* later leaves it, and none that was under way when the agent was stopped.   *)
StoppedIsFinal ==
  [][state = "STOPPED" /\ state' # "STOPPED" =>
       \A c \in Chains : pc[c] \in {"fetching", "streaming"} => pc'[c] = pc[c]]_vars

(* ARCHITECTURE.md: each active agent has a RuntimeHandle.  Then no session   *)
(* lives (and beats its heart) that no handle leads to.                       *)
NoOrphanSession == Idle => sessions \subseteq {runtimes}

(* ARCHITECTURE.md: on startup the agents that were STARTING, READY, RUNNING  *)
(* or IDLE are restarted.                                                     *)
RestartRestores == [][Recover /\ state \in {"STARTING", "READY", "RUNNING"} => runtimes' # 0]_vars

(* The status event of every answer says "Awaiting the next instruction": a   *)
(* free session whose agent waits for input, with no results due, takes it.   *)
WaitingTakesInput ==
  /\ state = "WAITING_INPUT" /\ runtimes # 0 /\ ~owed
  /\ \A c \in Chains : pc[c] = "idle"
  => history[runtimes] = "closed"

(* docs/acc-coordinator-implementation-plan.md: transient errors (429, 503)    *)
(* are retried up to three times before they surface.                         *)
FailuresAreRetried == [][\A c \in Chains : Fail(c) /\ Accepts(c) => tries[c] = 3]_vars
=============================================================================
