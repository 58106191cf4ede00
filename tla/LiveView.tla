------------------------------ MODULE LiveView ------------------------------
(***************************************************************************)
(* How the desktop keeps what it shows up to date (App.tsx, routes/        *)
(* stream.ts): it polls while it has no event stream; while it has one, it *)
(* fetches a query anew when an event says that it may have changed.       *)
(*                                                                         *)
(* A query is what it asks for and about which agent; what the control     *)
(* plane would answer is a version number, raised by every write.  An      *)
(* event is appended after the writes it tells of; some writes have none.  *)
(* The query cache (TanStack Query) is external: one request per query at  *)
(* a time; an invalidation drops the request under way and sends another,  *)
(* unless the query has no data yet; a second failure in a row is final.   *)
(* Bounds: MaxWrites, MaxEvents, MaxDrops of the stream, MaxSelections,    *)
(* MaxFailures.                                                            *)
(***************************************************************************)
EXTENDS Naturals, Sequences, FiniteSets

CONSTANTS
    Agents,
    Kinds,          \* which queries the instance has, a subset of AllKinds
    Away,           \* may events happen while the stream is being opened?
    MaxWrites, MaxEvents, MaxDrops, MaxSelections, MaxFailures

\* workspace-overview (also events, approvals and inbox, which are treated
\* alike), agent-runs (also the transcript and the tool calls of a run),
\* agent-memory, and agent-artifacts (also those of a run).
AllKinds == {"overview", "runs", "memory", "artifacts"}

\* Whom a query about no agent in particular is about.
All == "workspace"

LiveViewAssumption ==
    /\ IsFiniteSet(Agents) /\ All \notin Agents /\ Kinds \subseteq AllKinds /\ Away \in BOOLEAN
    /\ {MaxWrites, MaxEvents, MaxDrops, MaxSelections, MaxFailures} \subseteq Nat

VARIABLES
    version,        \* of what the control plane would answer to a query
    data,           \* the version that the desktop shows, or Unloaded
    fetch,          \* the request of a query: "idle", "sent", or the version it brings
    promised,       \* the newest version that a handled event told of (a history variable)
    stream,         \* "down", "connecting", "subscribed", "open", or "lost" but not noticed
    inbox,          \* events on their way
    connected,      \* what the desktop believes: streamConnected
    leaving,        \* is the close event of a replaced socket still to come?
    selected,       \* the selected agent
    writes, events, drops, selections, failures

server == <<version, writes>>
queries == <<data, fetch, promised>>
socket == <<stream, inbox, connected, leaving>>
vars == <<server, queries, socket, selected, events, drops, selections, failures>>

Unloaded == 0
Query == [kind : Kinds \ {"overview"}, agent : Agents]
            \cup (IF "overview" \in Kinds THEN {[kind |-> "overview", agent |-> All]} ELSE {})

\* The queries on the screen: the workspace thread shows the runs of every
\* agent, the inspector memory and artifacts of the selected one.
Active == {q \in Query : q.kind \in {"overview", "runs"} \/ q.agent = selected}

Idle == [phase |-> "idle", version |-> 0]
Sent == [phase |-> "sent", version |-> 0]
Brings(v) == [phase |-> "answered", version |-> v]

Init ==
    /\ version = [q \in Query |-> 1] /\ data = [q \in Query |-> Unloaded]
    /\ selected \in Agents
    /\ fetch = [q \in Query |-> IF q \in Active THEN Sent ELSE Idle]
    /\ promised = [q \in Query |-> Unloaded]
    /\ stream = "connecting" /\ inbox = <<>> /\ connected = FALSE /\ leaving = FALSE
    /\ writes = 0 /\ events = 0 /\ drops = 0 /\ selections = 0 /\ failures = 0

-----------------------------------------------------------------------------
(* The control plane                                                       *)

\* A handler or a run writes rows.
Write(q) ==
    /\ writes < MaxWrites /\ writes' = writes + 1
    /\ version' = [version EXCEPT ![q] = @ + 1]
    /\ UNCHANGED <<queries, socket, selected, events, drops, selections, failures>>

\* An event is appended and published to the sockets that are subscribed.
Publish(a, type) ==
    /\ events < MaxEvents /\ events' = events + 1
    /\ Away \/ stream = "open"
    /\ inbox' = IF stream \in {"subscribed", "open"}
                THEN Append(inbox, [agent |-> a, type |-> type, told |-> version]) ELSE inbox
    /\ UNCHANGED <<server, queries, stream, connected, leaving, selected, drops, selections, failures>>

-----------------------------------------------------------------------------
(* Queries                                                                 *)

\* requestJson: the control plane reads ...
Read(q) ==
    /\ fetch[q] = Sent
    /\ fetch' = [fetch EXCEPT ![q] = Brings(version[q])]
    /\ UNCHANGED <<server, data, promised, socket, selected, events, drops, selections, failures>>

\* ... and the answer arrives, ...
Arrive(q) ==
    /\ fetch[q].phase = "answered"
    /\ data' = [data EXCEPT ![q] = fetch[q].version]
    /\ fetch' = [fetch EXCEPT ![q] = Idle]
    /\ UNCHANGED <<server, promised, socket, selected, events, drops, selections, failures>>

\* ... or the request fails, twice.
Fail(q) ==
    /\ fetch[q] # Idle /\ failures < MaxFailures /\ failures' = failures + 1
    /\ fetch' = [fetch EXCEPT ![q] = Idle]
    /\ UNCHANGED <<server, data, promised, socket, selected, events, drops, selections>>

\* A query is polled once it has data.
Poll_Loaded(q) ==
    /\ q \in Active /\ fetch[q] = Idle /\ data[q] # Unloaded
    /\ ~connected \/ q.kind = "artifacts"
    /\ fetch' = [fetch EXCEPT ![q] = Sent]
    /\ UNCHANGED <<server, data, promised, socket, selected, events, drops, selections, failures>>

\* Nothing is polled while the stream is open, artifacts neither.
Poll_NeverWhenConnected(q) ==
    /\ q \in Active /\ fetch[q] = Idle /\ ~connected
    /\ fetch' = [fetch EXCEPT ![q] = Sent]
    /\ UNCHANGED <<server, data, promised, socket, selected, events, drops, selections, failures>>

\* refetchInterval: artifacts every five seconds, the others every three while
\* streamConnected is false.
Poll(q) ==
    /\ q \in Active /\ fetch[q] = Idle
    /\ ~connected \/ q.kind = "artifacts"
    /\ fetch' = [fetch EXCEPT ![q] = Sent]
    /\ UNCHANGED <<server, data, promised, socket, selected, events, drops, selections, failures>>

-----------------------------------------------------------------------------
(* The stream                                                              *)

\* The control plane accepts the socket and subscribes it to the event bus.
Subscribe ==
    /\ stream = "connecting" /\ stream' = "subscribed"
    /\ UNCHANGED <<server, queries, inbox, connected, leaving, selected, events, drops, selections, failures>>

\* The open event: polling stops.
Open ==
    /\ stream = "subscribed" /\ stream' = "open" /\ connected' = TRUE
    /\ UNCHANGED <<server, queries, inbox, leaving, selected, events, drops, selections, failures>>

\* The runs of the selected agent are left out.
Concerns_NotRuns(event, q) == q.kind = "overview"

\* The queries that an event invalidates.
Concerns(event, q) ==
    \/ q.kind = "overview"
    \/ q.kind \in {"runs", "artifacts"} /\ q.agent = selected /\ event.agent = selected

\* The queries whose answer the step that an event tells of may have changed.
TellsOf(event, q) ==
    q.kind = "overview" \/ (q.kind \in {"runs", "artifacts"} /\ q.agent = event.agent)

\* invalidateQueries.
Refetched(q) == IF data[q] = Unloaded /\ fetch[q] # Idle THEN fetch[q] ELSE Sent

\* handleMessage.  Heartbeats are passed over.
Handle ==
    /\ stream = "open" /\ inbox # <<>> /\ inbox' = Tail(inbox)
    /\ LET event == Head(inbox)
           stale == {q \in Active : event.type # "HEARTBEAT" /\ Concerns(event, q)}
           told == {q \in Active : event.type # "HEARTBEAT" /\ TellsOf(event, q) /\ event.told[q] > promised[q]}
       IN /\ fetch' = [q \in Query |-> IF q \in stale THEN Refetched(q) ELSE fetch[q]]
          /\ promised' = [q \in Query |-> IF q \in told THEN event.told[q] ELSE promised[q]]
    /\ UNCHANGED <<server, data, stream, connected, leaving, selected, events, drops, selections, failures>>

\* The connection is cut, or the control plane ends; the desktop notices later.
Drop ==
    /\ drops < MaxDrops /\ drops' = drops + 1
    /\ stream \in {"subscribed", "open"} /\ stream' = "lost" /\ inbox' = <<>>
    /\ UNCHANGED <<server, queries, connected, leaving, selected, events, selections, failures>>

\* The close event: polling starts.
Close ==
    /\ stream = "lost" /\ stream' = "down" /\ connected' = FALSE
    /\ UNCHANGED <<server, queries, inbox, leaving, selected, events, drops, selections, failures>>

\* After one second, two, four ... thirty.
Reconnect ==
    /\ stream = "down" /\ stream' = "connecting"
    /\ UNCHANGED <<server, queries, inbox, connected, leaving, selected, events, drops, selections, failures>>

\* Another agent is selected: the effect closes the socket and opens another;
\* what comes into view is fetched.
Select(a) ==
    /\ a # selected /\ selections < MaxSelections /\ selections' = selections + 1
    /\ selected' = a /\ stream' = "connecting" /\ inbox' = <<>>
    /\ leaving' = (leaving \/ stream \in {"subscribed", "open", "lost"})
    /\ fetch' = [q \in Query |->
                    IF q.agent = a /\ q \notin Active /\ fetch[q] = Idle THEN Sent ELSE fetch[q]]
    /\ UNCHANGED <<server, data, promised, connected, events, drops, failures>>

\* The close event of the socket that was replaced: it does not look whether
\* there is a new one.
LateClose ==
    /\ leaving /\ leaving' = FALSE /\ connected' = FALSE
    /\ UNCHANGED <<server, queries, stream, inbox, selected, events, drops, selections, failures>>

Deliver == Open \/ Handle \/ Close \/ Reconnect \/ LateClose
Serve(q) == Read(q) \/ Arrive(q)

Next ==
    \/ \E q \in Query : Write(q) \/ Serve(q) \/ Fail(q) \/ Poll(q)
    \/ \E a \in Agents, type \in {"STATUS_CHANGED", "HEARTBEAT"} : Publish(a, type)
    \/ Subscribe \/ Deliver \/ Drop \/ \E a \in Agents : Select(a)

Spec == Init /\ [][Next]_vars

\* Requests are answered, timers fire, and a socket that was accepted delivers
\* or closes; that it is accepted is not assumed.
FairSpec ==
    /\ Spec /\ WF_vars(Deliver)
    /\ \A q \in Query : WF_vars(Serve(q)) /\ WF_vars(Poll(q))

-----------------------------------------------------------------------------
(* The variables have their types, and nothing is delivered on a socket    *)
(* that is not there.                                                      *)
TypeOK ==
    /\ \A q \in Query : version[q] \in 1..(MaxWrites + 1) /\ data[q] \in 0..version[q]
    /\ \A q \in Query : fetch[q].phase \in {"idle", "sent", "answered"} /\ fetch[q].version <= version[q]
    /\ stream \in {"down", "connecting", "subscribed", "open", "lost"} /\ connected \in BOOLEAN
    /\ inbox # <<>> => stream \in {"subscribed", "open"}
    /\ selected \in Agents

(* Whatever an event told of the workspace or the selected agent, when it   *)
(* was handled, is on the screen or being fetched, if the query had been   *)
(* loaded before (see FirstLoadIsCurrent).                                 *)
ToldIsShown ==
    [][\A q \in Active :
          (data[q] # Unloaded /\ promised'[q] > promised[q] /\ q.agent \in {All, selected}) =>
              \/ data'[q] >= promised'[q]
              \/ fetch'[q] = Sent
              \/ fetch'[q].version >= promised'[q]]_vars

(* Without a stream for good, polling makes the whole screen current, even *)
(* when requests fail.                                                     *)
PolledViewIsCurrent ==
    <>[]~connected => <>[](\A q \in Active : data[q] = version[q])

(* Artifacts are polled always: their list becomes current whatever the    *)
(* stream does.                                                            *)
ArtifactsAreCurrent ==
    <>[](\A q \in Active : q.kind = "artifacts" => data[q] = version[q])

(* ARCHITECTURE.md: with the stream open, queries are still polled, every  *)
(* twenty seconds; so the overview becomes current.  The code does not     *)
(* poll, and what happened while the stream was being opened is not        *)
(* fetched when it is.                                                     *)
StreamedOverviewIsCurrent ==
    <>[]connected => <>[](\A q \in Active : q.kind = "overview" => data[q] = version[q])

(* The comment at streamPollMs: events drive all refreshes while the       *)
(* stream is open.  None drives that of the runs of an agent that is not   *)
(* selected (or that of an agent's memory).                                *)
StreamedRunsAreCurrent ==
    <>[]connected => <>[](\A q \in Active : q.kind = "runs" => data[q] >= promised[q])

(* The same comment, for what an event tells of while the query is loaded  *)
(* for the first time: the invalidation is lost.                           *)
FirstLoadIsCurrent ==
    \A q \in Active : (stream = "open" /\ promised[q] > 0) =>
        data[q] >= promised[q] \/ fetch[q] = Sent \/ fetch[q].version >= promised[q]
=============================================================================
